SPECIFICATION FairSpec
CONSTANTS
    Users = {u1}
    Resources = {r1, r2}
    Courses = {c1, c2}
    Procs = {p1, p2}
    MaxRequests = 2
INVARIANTS TypeOK LikeCountExact
PROPERTIES DriftExplained RepairedWhenQuiet
