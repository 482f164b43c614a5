------------------------------ MODULE LockOrders ------------------------------
(***************************************************************************)
(* The rows that transactions of Postgres lock, and in which order.        *)
(*                                                                         *)
(* An UPDATE or DELETE locks its row until the transaction ends, and waits *)
(* for whoever has locked it.  When transactions wait in a circle,         *)
(* Postgres rolls one of them back, and its request is answered with an    *)
(* internal error: nothing tries again.  What other modules call a         *)
(* rollback may be this.                                                   *)
(*                                                                         *)
(* A transaction is its plan, the rows it locks one after the other, and   *)
(* how far it has come.  Transactions that lock one row only are left out: *)
(* they hold nothing while they wait.  So are rows that are taken first,   *)
(* or last, by whoever takes them (likes, favorites, comments, relations,  *)
(* reports), rows that are new, and references, which conflict with no     *)
(* UPDATE there is.  A row of resources belongs to any course, because the *)
(* course is often read before.                                            *)
(***************************************************************************)
EXTENDS FiniteSets, Integers, Sequences

CONSTANTS
    UserRows,
    ResourceRows,
    CourseRows,
    TeacherRows,
    Pairs,         \* ids of linked evaluations, and of single ones that may be linked
    Sessions       \* of the database, each with a transaction at a time

ASSUME LocksAssumption == IsFiniteSet(ResourceRows) /\ IsFiniteSet(CourseRows) /\ IsFiniteSet(TeacherRows)

VARIABLE tx  \* the transaction of every session

User(u) == <<"users", u>>
Resource(r) == <<"resources", r>>
Course(c) == <<"courses", c>>
Teacher(t) == <<"teachers", t>>

\* The two sides of a linked evaluation, and the courses or teachers they count for.
Sides == {"courses", "teachers"}
Other(side) == IF side = "courses" THEN "teachers" ELSE "courses"
Evaluation(side, e) == <<"evaluations", side, e>>
Rows(table) ==
    {table} \X CASE table = "courses" -> CourseRows [] table = "teachers" -> TeacherRows
                 [] table = "resources" -> ResourceRows
Rated(side) == Rows(side)

Refreshed == Sides \cup {"resources"}

Kinds == {"finalize", "download", "use", "move", "create", "update", "remove", "relate", "refresh"}

\* side: of what linked evaluations it begins.
NoTx == [kind |-> "none", side |-> "none", plan |-> <<>>, got |-> 0]

LocksInit == tx = [s \in Sessions |-> NoTx]

-----------------------------------------------------------------------------
Start(s, kind, side, plan) ==
    /\ tx[s].kind = "none"
    /\ tx' = [tx EXCEPT ![s] = [kind |-> kind, side |-> side, plan |-> plan, got |-> 0]]

\* FinalizeResourceUpload pays the user before it adjusts the course: ModerationSound.
FaultyBeginFinalize(s, u, c) == Start(s, "finalize", "none", <<User(u), Course(c)>>)

\* FinalizeResourceUpload: the resource is new, its course adjusted and the user paid.
BeginFinalize(s, u, c) == Start(s, "finalize", "none", <<Course(c), User(u)>>)

\* DownloadResource: the user is charged, resource and course count it.
BeginDownload(s, u, r, c) == Start(s, "download", "none", <<User(u), Resource(r), Course(c)>>)

\* Views, likes and deletions write the resource and then its course.
BeginUse(s, r, c) == Start(s, "use", "none", <<Resource(r), Course(c)>>)

\* UpdateResource recalculates the course it leaves and the one it comes to.
BeginMove(s, r, from, to) ==
    from # to /\ Start(s, "move", "none", <<Resource(r), Course(from), Course(to)>>)

\* CreateCourseEvaluation and CreateTeacherEvaluation, single: what is rated, and the reward.
BeginCreateSingle(s, rated, u) == Start(s, "create", "none", <<rated, User(u)>>)

\* ... and linked: what it was written for comes first.
BeginCreateLinked(s, side, rated, other, u) == Start(s, "create", side, <<rated, other, User(u)>>)

\* An evaluation that is single and stays so, or is deleted.
BeginChangeSingle(s, side, e, rated) == Start(s, "update", "none", <<Evaluation(side, e), rated>>)

\* It gets a mirror, which is new.
BeginLink(s, side, e, rated, other) == Start(s, "update", side, <<Evaluation(side, e), rated, other>>)

\* A linked one is updated: both rows, what it rates, and on the other side what its mirror
\* rated before and rates now.
BeginUpdateLinked(s, side, e, rated, old, new) ==
    Start(s, "update", side,
          <<Evaluation(side, e), Evaluation(Other(side), e), rated, old>> \o IF new = old THEN <<>> ELSE <<new>>)

\* The mirror is deleted first, be it that the evaluation becomes single or that it is deleted,
\* by a user or for a report.
BeginRemove(s, side, e, rated, other) ==
    Start(s, "remove", side, <<Evaluation(Other(side), e), Evaluation(side, e), rated, other>>)

\* A teacher is given a course or it is taken away: both are recalculated.
BeginRelate(s, c, t) == Start(s, "relate", "courses", <<Course(c), Teacher(t)>>)

\* RefreshCourseStats, RefreshTeacherStats, RefreshResourceStats: one UPDATE of all rows, in any
\* order.  The process refreshes one table at a time.
BeginRefresh(s, table) ==
    /\ \A q \in Sessions : tx[q].kind # "refresh"
    /\ \E order \in [1 .. Cardinality(Rows(table)) -> Rows(table)] :
          /\ \A row \in Rows(table) : \E i \in DOMAIN order : order[i] = row
          /\ Start(s, "refresh", "none", order)

-----------------------------------------------------------------------------
\* Postgres

Held(s) == {tx[s].plan[i] : i \in 1 .. tx[s].got}

Done(s) == tx[s].got = Len(tx[s].plan)

Wanted(s) == tx[s].plan[tx[s].got + 1]

Waits(s, q) == s # q /\ ~Done(s) /\ Wanted(s) \in Held(q)

LockRow(s) ==
    /\ ~Done(s) /\ \A q \in Sessions : ~Waits(s, q)
    /\ tx' = [tx EXCEPT ![s].got = @ + 1]

CommitTx(s) == tx[s].kind # "none" /\ Done(s) /\ tx' = [tx EXCEPT ![s] = NoTx]

Waiting == {s \in Sessions : \E q \in Sessions : Waits(s, q)}

\* Every one of these waits for another of them.
Deadlocked(S) == S # {} /\ \A s \in S : \E q \in S : Waits(s, q)

\* Postgres finds the deadlock and rolls back one who takes part; or a statement fails.
RollBackTx(s) == tx[s].kind # "none" /\ tx' = [tx EXCEPT ![s] = NoTx]

LocksNext ==
    \E s \in Sessions :
        \/ \E u \in UserRows, c \in CourseRows : BeginFinalize(s, u, c)
        \/ \E r \in ResourceRows, c \in CourseRows :
              \/ \E u \in UserRows : BeginDownload(s, u, r, c)
              \/ BeginUse(s, r, c)
              \/ \E to \in CourseRows : BeginMove(s, r, c, to)
        \/ \E side \in Sides : \E rated \in Rated(side) :
              \/ \E u \in UserRows : BeginCreateSingle(s, rated, u)
              \/ \E u \in UserRows, other \in Rated(Other(side)) : BeginCreateLinked(s, side, rated, other, u)
              \/ \E e \in Pairs : BeginChangeSingle(s, side, e, rated)
              \/ \E e \in Pairs, other \in Rated(Other(side)) :
                    BeginLink(s, side, e, rated, other) \/ BeginRemove(s, side, e, rated, other)
              \/ \E e \in Pairs, old, new \in Rated(Other(side)) : BeginUpdateLinked(s, side, e, rated, old, new)
        \/ \E c \in CourseRows, t \in TeacherRows : BeginRelate(s, c, t)
        \/ \E table \in Refreshed : BeginRefresh(s, table)
        \/ LockRow(s) \/ CommitTx(s) \/ RollBackTx(s)

LocksSpec == LocksInit /\ [][LocksNext]_tx

-----------------------------------------------------------------------------
\* Properties

LocksTypeOK ==
    \A s \in Sessions :
        /\ tx[s].kind \in Kinds \cup {"none"} /\ tx[s].side \in Sides \cup {"none"}
        /\ tx[s].got \in 0 .. Len(tx[s].plan)

\* It locks several rows of a table.
Walks(s, table) == Cardinality({i \in DOMAIN tx[s].plan : tx[s].plan[i][1] = table}) > 1

\* Transactions that lock rows in opposite orders: a download, and what pays the user last;
\* what begins with a course and with a teacher; the removal of an evaluation that begins with
\* its mirror, and an update of it; two that lock several rows of one table.
Opposed(s, q) ==
    \/ tx[s].kind = "download" /\ tx[q].kind \in {"finalize", "create"}
    \/ {tx[s].side, tx[q].side} = Sides
    \/ tx[s].side = tx[q].side /\ tx[s].kind = "remove" /\ tx[q].kind = "update"
    \/ \E table \in Refreshed : Walks(s, table) /\ Walks(q, table)

\* Whoever is deadlocked, two of them are opposed: without such a pair, any number of other
\* transactions in any order never wait in a circle.
DeadlocksKnown ==
    \A S \in SUBSET Waiting : Deadlocked(S) => \E s, q \in S : s # q /\ Opposed(s, q)

LocksSound == LocksTypeOK /\ DeadlocksKnown
=============================================================================
