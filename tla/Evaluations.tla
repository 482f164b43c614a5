------------------------------ MODULE Evaluations ------------------------------
(***************************************************************************)
(* Evaluations of courses and of teachers.  An evaluation is single, or    *)
(* linked: then it names a course and a teacher and has a mirror, a row of *)
(* the other table with the same content, each holding the id of the       *)
(* other.  No constraint of the database keeps the two together: create,   *)
(* update, delete and the resolution of a report write both.  Along with   *)
(* the rows every transaction recalculates courses.eval_count and          *)
(* teachers.eval_count of those it thinks concerned.                       *)
(*                                                                         *)
(* The two tables are treated by twin functions, so a row here is [subject,*)
(* other]: the course of a course evaluation or the teacher of a teacher   *)
(* evaluation, and who it is linked with.  An evaluation is read outside   *)
(* of the transaction that changes it.  A transaction is a step Write,     *)
(* which computes its rows and takes the snapshots of its recalculations,  *)
(* and a step Commit; meanwhile its rows are locked.                       *)
(*                                                                         *)
(* The content of an evaluation are its scores, comment and anonymity,     *)
(* which are always written together.                                      *)
(***************************************************************************)
EXTENDS Integers, FiniteSets

CONSTANTS
    Users,       \* authors
    Courses,     \* ids of table courses
    Teachers,    \* ids of table teachers
    CourseRows,  \* ids of table course_evaluations
    TeacherRows, \* ids of table teacher_evaluations
    Contents,    \* what an author may write
    None,        \* NULL
    Procs,       \* request goroutines
    MaxRequests  \* bound on the requests of a behaviour

ASSUME EvaluationAssumption ==
    /\ IsFiniteSet(CourseRows) /\ IsFiniteSet(TeacherRows)
    /\ CourseRows \cap TeacherRows = {} /\ Courses \cap Teachers = {}
    /\ None \notin Courses \cup Teachers \cup CourseRows \cup TeacherRows
    /\ MaxRequests \in Nat

VARIABLES
    row,      \* the rows of both tables of evaluations
    related,  \* active rows of table course_teachers: pairs of a course and a teacher
    count,    \* eval_count of every course and teacher
    req,      \* the request every goroutine is serving
    requests  \* requests left

vars == <<row, related, count, req, requests>>

Subjects == Courses \cup Teachers

Ids == CourseRows \cup TeacherRows

\* Table course_evaluations; its user is the author, or None in a row never used.
CourseRow == [state : {"free", "kept", "gone"}, user : Users \cup {None}, subject : Courses \cup {None},
              other : Teachers \cup {None}, mirror : TeacherRows \cup {None}, content : Contents \cup {None}]

TeacherRow == [state : {"free", "kept", "gone"}, user : Users \cup {None}, subject : Teachers \cup {None},
               other : Courses \cup {None}, mirror : CourseRows \cup {None}, content : Contents \cup {None}]

NoRow == [state |-> "free", user |-> None, subject |-> None, other |-> None, mirror |-> None, content |-> None]

\* A row after its DELETE: its id is not given again.
GoneRow == [NoRow EXCEPT !.state = "gone"]

NoLink == [pair |-> None, active |-> FALSE]

NoRequest == [stage |-> "idle", id |-> None, read |-> NoRow, other |-> None, content |-> None,
              writes |-> <<>>, link |-> NoLink, counts |-> <<>>]

Init ==
    /\ row = [i \in Ids |-> NoRow]
    /\ related = Courses \X Teachers
    /\ count = [s \in Subjects |-> 0]
    /\ req = [p \in Procs |-> NoRequest]
    /\ requests = MaxRequests

-----------------------------------------------------------------------------
\* Who is counted

\* A row of course_teachers, from either side.
Relation(subject, other) == IF subject \in Courses THEN <<subject, other>> ELSE <<other, subject>>

\* visibleCourseEvaluationCondition and visibleTeacherEvaluationCondition.
Visible(r, relations) ==
    /\ r.state = "kept"
    /\ r.other = None \/ Relation(r.subject, r.other) \in relations

\* What ListCourseEvaluations shows of course c, and the same for a teacher.
ListCourseEvaluations(rows, relations, c) ==
    {i \in CourseRows : rows[i].subject = c /\ Visible(rows[i], relations)}

ListTeacherEvaluations(rows, relations, t) ==
    {i \in TeacherRows : rows[i].subject = t /\ Visible(rows[i], relations)}

\* eval_count as RecalculateCourseStats and RecalculateTeacherStats compute it.
CountOf(rows, relations, s) ==
    Cardinality(IF s \in Courses THEN ListCourseEvaluations(rows, relations, s)
                                 ELSE ListTeacherEvaluations(rows, relations, s))

\* validateCourseEvaluationRefs: with a teacher, an active relation is needed.
ValidRefs(subject, other) == other = None \/ Relation(subject, other) \in related

-----------------------------------------------------------------------------
\* Requests read

Begin(p, request) ==
    /\ req[p].stage = "idle"
    /\ requests > 0
    /\ requests' = requests - 1
    /\ req' = [req EXCEPT ![p] = request]
    /\ UNCHANGED <<row, related, count>>

\* FindCourseEvaluationByContext.
InContext(u, subject, other) ==
    \E i \in Ids : row[i].state = "kept" /\ row[i].user = u /\ row[i].subject = subject /\ row[i].other = other

\* CreateTeacherEvaluation answers that it is disabled.
Reviewable == Courses

\* CreateCourseEvaluation up to its transaction.
BeginCreate(p, u, subject, other, content) ==
    /\ subject \in Reviewable
    /\ ValidRefs(subject, other)
    /\ ~InContext(u, subject, other)
    /\ Begin(p, [NoRequest EXCEPT !.stage = "create", !.other = other, !.content = content,
                                  !.read = [NoRow EXCEPT !.user = u, !.subject = subject]])

\* UpdateCourseEvaluation up to its transaction, by the author or a moderator.
\* Another evaluation of the same context is not looked for.
BeginUpdate(p, i, other, content) ==
    /\ row[i].state = "kept"
    /\ ValidRefs(row[i].subject, other)
    /\ Begin(p, [NoRequest EXCEPT !.stage = "update", !.id = i, !.read = row[i],
                                  !.other = other, !.content = content])

\* The same of UpdateTeacherEvaluation.
BeginUpdateTeacher(p, i, other, content) == i \in TeacherRows /\ BeginUpdate(p, i, other, content)

BeginUpdateCourse(p, i, other, content) == i \in CourseRows /\ BeginUpdate(p, i, other, content)

\* deleteCourseEvaluationForReport, of a resolved report.
BeginDelete(p, i) ==
    /\ row[i].state = "kept"
    /\ Begin(p, [NoRequest EXCEPT !.stage = "delete", !.id = i, !.read = row[i]])

\* DeleteCourseEvaluation and DeleteTeacherEvaluation, by the author or a moderator.
BeginDeleteCourse(p, i) == i \in CourseRows /\ BeginDelete(p, i)

BeginDeleteTeacher(p, i) == i \in TeacherRows /\ BeginDelete(p, i)

\* CreateCourseTeacherRelation of one that is not active, CancelCourseTeacherRelation
\* of one that is.
BeginRelation(p, c, t) ==
    Begin(p, [NoRequest EXCEPT !.stage = "relate",
                               !.link = [pair |-> <<c, t>>, active |-> <<c, t>> \notin related]])

-----------------------------------------------------------------------------
\* What a transaction writes: a function from ids to rows

Locked(i) == \E q \in Procs : i \in DOMAIN req[q].writes

Fresh(ids) == {i \in ids : row[i].state = "free" /\ ~Locked(i)}

\* The mirror goes to the table of its evaluation: RankingsSound.
FaultyMirrorIds(subject) == IF subject \in Courses THEN CourseRows ELSE TeacherRows

\* The table of the mirrors of subject.
MirrorIds(subject) == IF subject \in Courses THEN TeacherRows ELSE CourseRows

Kept(u, subject, other, mirror, content) ==
    [state |-> "kept", user |-> u, subject |-> subject, other |-> other, mirror |-> mirror, content |-> content]

Put(i, r) == [j \in {i} |-> r]

Both(f, g) == [j \in DOMAIN f \cup DOMAIN g |-> IF j \in DOMAIN f THEN f[j] ELSE g[j]]

\* An UPDATE or a DELETE of id i that finds no row is no error.
Changed(i, r) == IF i # None /\ row[i].state = "kept" THEN Put(i, r) ELSE <<>>

Dropped(i) == IF i = None THEN <<>> ELSE Changed(i, GoneRow)

\* Every column but the author.
Edited(i, subject, other, mirror, content) ==
    Changed(i, Kept(row[i].user, subject, other, mirror, content))

\* The mirror does not get to know its evaluation: PairsExplained.
FaultyInserted(q, i, m) ==
    LET r == q.read IN
    IF q.other = None
    THEN Put(i, Kept(r.user, r.subject, None, None, q.content))
    ELSE Both(Put(i, Kept(r.user, r.subject, q.other, m, q.content)),
              Put(m, Kept(r.user, q.other, r.subject, None, q.content)))

\* CreateCourseEvaluation: row i, and m when it is linked.
Inserted(q, i, m) ==
    LET r == q.read IN
    IF q.other = None
    THEN Put(i, Kept(r.user, r.subject, None, None, q.content))
    ELSE Both(Put(i, Kept(r.user, r.subject, q.other, m, q.content)),
              Put(m, Kept(r.user, q.other, r.subject, i, q.content)))

\* UpdateCourseEvaluation, its four cases by what was read.
StaySingle(q) == Edited(q.id, row[q.id].subject, None, None, q.content)

\* The mirror is created even if the evaluation is gone.
Link(q, m) ==
    Both(Edited(q.id, row[q.id].subject, q.other, m, q.content),
         Put(m, Kept(q.read.user, q.other, q.read.subject, q.id, q.content)))

Unlink(q) == Both(Dropped(q.read.mirror), StaySingle(q))

\* The mirror that was read is rewritten, whoever has it now.
StayLinked(q) ==
    Both(Edited(q.id, row[q.id].subject, q.other, row[q.id].mirror, q.content),
         Edited(q.read.mirror, q.other, q.read.subject, q.id, q.content))

\* The same four cases are those of UpdateTeacherEvaluation.
Updated(q, m) ==
    IF q.read.mirror = None
    THEN IF q.other = None THEN StaySingle(q) ELSE Link(q, m)
    ELSE IF q.other = None THEN Unlink(q) ELSE StayLinked(q)

\* DeleteCourseEvaluation.
Deleted(q) == Both(Dropped(q.read.mirror), Dropped(q.id))

\* The teacher an update leaves is forgotten: CountsExplained.
FaultyConcerned(q) ==
    IF q.stage = "relate" THEN {q.link.pair[1], q.link.pair[2]} ELSE {q.read.subject, q.other} \ {None}

\* Whose statistics are recalculated.
Concerned(q) ==
    IF q.stage = "relate"
    THEN {q.link.pair[1], q.link.pair[2]}
    ELSE {q.read.subject, q.read.other, q.other} \ {None}

-----------------------------------------------------------------------------
\* The transactions

RelatedWith(link) ==
    IF link.pair = None THEN related
    ELSE IF link.active THEN related \cup {link.pair} ELSE related \ {link.pair}

\* The rows are written and the recalculations take their snapshots.
Wrote(p, writes) ==
    LET q == req[p]
        rows == [i \in Ids |-> IF i \in DOMAIN writes THEN writes[i] ELSE row[i]] IN
    /\ \A i \in DOMAIN writes : ~Locked(i)
    /\ req' = [req EXCEPT ![p].stage = "written", ![p].writes = writes,
                          ![p].counts = [s \in Concerned(q) |-> CountOf(rows, RelatedWith(q.link), s)]]
    /\ UNCHANGED <<row, related, count, requests>>

WriteCreate(p) ==
    /\ req[p].stage = "create"
    /\ \E i \in Fresh(CourseRows) :
            IF req[p].other = None
            THEN Wrote(p, Inserted(req[p], i, None))
            ELSE \E m \in Fresh(MirrorIds(req[p].read.subject)) : Wrote(p, Inserted(req[p], i, m))

WriteUpdate(p) ==
    /\ req[p].stage = "update"
    /\ IF req[p].read.mirror = None /\ req[p].other # None
       THEN \E m \in Fresh(MirrorIds(req[p].read.subject)) : Wrote(p, Updated(req[p], m))
       ELSE Wrote(p, Updated(req[p], None))

WriteDelete(p) == req[p].stage = "delete" /\ Wrote(p, Deleted(req[p]))

\* Two transactions about one relation: the second waits and writes the same again.
WriteRelation(p) ==
    /\ req[p].stage = "relate"
    /\ \A q \in Procs : req[q].stage = "written" => req[q].link.pair # req[p].link.pair
    /\ Wrote(p, <<>>)

\* The scheduler's RefreshTeacherStats or RefreshCourseStats; also tryRefreshTeacherStats.
BeginRefresh(p, subjects) ==
    Begin(p, [NoRequest EXCEPT !.stage = "written",
                               !.counts = [s \in subjects |-> CountOf(row, related, s)]])

\* All or nothing; a reward of one point is PointsLedger's Reward.
Commit(p) ==
    LET q == req[p] IN
    /\ q.stage = "written"
    /\ row' = [i \in Ids |-> IF i \in DOMAIN q.writes THEN q.writes[i] ELSE row[i]]
    /\ related' = RelatedWith(q.link)
    /\ count' = [s \in Subjects |-> IF s \in DOMAIN q.counts THEN q.counts[s] ELSE count[s]]
    /\ req' = [req EXCEPT ![p] = NoRequest]
    /\ UNCHANGED requests

\* The request fails, is the victim of a deadlock or ends with the process.
Rollback(p) ==
    /\ req[p].stage # "idle"
    /\ req' = [req EXCEPT ![p] = NoRequest]
    /\ UNCHANGED <<row, related, count, requests>>

Next ==
    \E p \in Procs :
        \/ \E u \in Users, s \in Courses, o \in Teachers \cup {None}, v \in Contents : BeginCreate(p, u, s, o, v)
        \/ \E i \in CourseRows, o \in Teachers \cup {None}, v \in Contents : BeginUpdateCourse(p, i, o, v)
        \/ \E i \in TeacherRows, o \in Courses \cup {None}, v \in Contents : BeginUpdateTeacher(p, i, o, v)
        \/ \E i \in CourseRows : BeginDeleteCourse(p, i)
        \/ \E i \in TeacherRows : BeginDeleteTeacher(p, i)
        \/ \E c \in Courses, t \in Teachers : BeginRelation(p, c, t)
        \/ BeginRefresh(p, Courses) \/ BeginRefresh(p, Teachers)
        \/ WriteCreate(p) \/ WriteUpdate(p) \/ WriteDelete(p) \/ WriteRelation(p)
        \/ Commit(p)
        \/ Rollback(p)

Spec == Init /\ [][Next]_vars

-----------------------------------------------------------------------------
\* Properties

\* Every variable has its type; what is written to a table fits it.
TypeOK ==
    /\ \A i \in CourseRows : row[i] \in CourseRow
    /\ \A i \in TeacherRows : row[i] \in TeacherRow
    /\ related \subseteq Courses \X Teachers
    /\ count \in [Subjects -> Nat]
    /\ requests \in 0 .. MaxRequests

\* Evaluation i has exactly the mirror it should have.
Paired(i) ==
    LET r == row[i]
        m == row[r.mirror] IN
    IF r.state # "kept" \/ r.other = None
    THEN r.state = "kept" => r.mirror = None
    ELSE /\ r.mirror # None
         /\ m = Kept(r.user, r.other, r.subject, i, r.content)

\* Request p works on an evaluation that was changed or deleted since it was read,
\* or that is no longer one of a pair.
Astray(p) ==
    LET i == req[p].id IN i # None /\ (req[p].read # row[i] \/ ~Paired(i))

\* Request p writes evaluation i or the mirror it has.
Touches(p, i) == {i, row[i].mirror} \cap DOMAIN req[p].writes # {}

\* A linked evaluation and its mirror stay each other's mirror with the same
\* content, and a single one has none, unless a transaction commits that read
\* its evaluation before another one changed or deleted it: pairs are broken by
\* overlapping requests alone, or by a request for what these left.
PairsExplained ==
    [][\A i \in Ids : Paired(i) =>
            Paired(i)' \/ \E p \in Procs : Commit(p) /\ Astray(p) /\ Touches(p, i)]_vars

Counted(s) == count[s] = CountOf(row, related, s)

\* The number of evaluations of a course or a teacher stays that of the visible
\* rows, unless a transaction commits that read its evaluation before another
\* change, took its snapshot before another commit or changes a broken pair, whose
\* mirror has a teacher the evaluation does not name.
CountsExplained ==
    [][\A s \in Subjects : Counted(s) =>
            \/ Counted(s)'
            \/ \E p \in Procs :
                    /\ Commit(p)
                    /\ \/ Astray(p)
                       \/ s \in DOMAIN req[p].counts /\ req[p].counts[s] # CountOf(row', related', s)]_vars
=============================================================================
