SPECIFICATION MCSpec
CONSTANTS
    Authors = {a1}
    Resources = {r1}
    Pages = {k1}
    Comments = {c1, c2, c3}
    Workers = {p1, p2}
    Absent = Absent
    Reports = {q1, q2}
    Feedbacks = {f1}
    Admins = {p1, p2}
    Courses = {x1}
    Teachers = {t1}
    Names = {n1, n2}
    Petitions = {s1}
    Clients = {p1, p2}
    Blank = Blank
    UserRows = {u1}
    ResourceRows = {p1, p2}
    CourseRows = {q1, q2}
    TeacherRows = {t1}
    Pairs = {e1}
    Sessions = {c1, c2, c3}
SYMMETRY Interchangeable
INVARIANT ModerationSound
PROPERTIES CommentCountExplained Reviewed PagesExplained
CHECK_DEADLOCK FALSE
