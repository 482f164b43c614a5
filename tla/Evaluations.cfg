SPECIFICATION MCSpec
CONSTANTS
    Users = {u1}
    Courses = {c1}
    Teachers = {t1, t2}
    CourseRows = {e1, e2}
    TeacherRows = {m1, m2}
    Contents = {v1, v2}
    None = None
    Procs = {p1, p2}
    MaxRequests = 4
    People = {a1, a2}
    Threads = {h1}
    Replies = {r1, r2}
    Writers = {w1}
    Nobody = Nobody
    Ranked = {1, 2}
    Scores = {0, 1}
    TopN = 1
    Viewers = {w1}
    DrawSize = 2
INVARIANT RankingsSound
PROPERTIES PairsExplained CountsExplained NamesExplained
SYMMETRY Symmetry
CHECK_DEADLOCK FALSE
