--------------------------- MODULE CourseAggregates ---------------------------
(***************************************************************************)
(* The totals a course carries about its resources (courses.resource_count,*)
(* download_total, view_total, like_total, resource_favorite_count) and    *)
(* resources.like_count, under everything that maintains them: relative    *)
(* updates by AdjustCourseAggregates, RecalculateCourseStats after a       *)
(* deletion or a move, and the hourly RefreshCourseStats.                  *)
(*                                                                         *)
(* Transactions run at READ COMMITTED.  A plain SELECT takes no lock, so a *)
(* course id that was read may be stale when it is used.  A recalculation  *)
(* is one UPDATE whose subqueries see the rows committed when it started   *)
(* and whose result is written when it gets the lock of the course row:    *)
(* a snapshot step and a commit step.  What a transaction has written and  *)
(* not committed is in its request, and the rows are locked meanwhile.     *)
(*                                                                         *)
(* hits stands for download_count + view_count and their totals.           *)
(* Operators named Faulty... are plausible bugs in the definition that     *)
(* follows them; they belong to no specification.                          *)
(***************************************************************************)
EXTENDS Integers, FiniteSets, FiniteSetsExt

CONSTANTS
    Users,       \* users who like and favorite
    Resources,   \* ids of table resources
    Courses,     \* ids of table courses
    Procs,       \* request goroutines
    MaxRequests  \* bound on the requests of a behaviour, uploads and reports apart

ASSUME AggregateAssumption ==
    /\ Users # {} /\ Resources # {} /\ Courses # {}
    /\ IsFiniteSet(Users) /\ IsFiniteSet(Resources)
    /\ MaxRequests \in Nat

VARIABLES
    resource,   \* the rows of table resources
    likes,      \* rows of table likes: pairs of a user and a resource
    favorites,  \* rows of table favorites: pairs of a user and a resource
    course,     \* the totals of the rows of table courses
    req,        \* the request every goroutine is serving
    refresh,    \* the hourly refresh: running, and what its snapshot gives
    requests    \* requests left

vars == <<resource, likes, favorites, course, req, refresh, requests>>

Row == [status : {"none", "approved", "deleted"}, course : Courses, hits : Nat, likes : Nat]

Totals == [resources : Nat, hits : Nat, likes : Nat, favorites : Nat]

NoTotals == [resources |-> 0, hits |-> 0, likes |-> 0, favorites |-> 0]

NoStats == [c \in Courses |-> NoTotals]

\* "unfavorite": HasFavorite was true; "removing", "missed": DELETE has found the
\* favorite or not; "unlike": an unlike that has found no like; "marked": the row is
\* deleted, not committed; "moved": the row has its new course; "left": the old
\* course is recalculated too.
Stages == {"idle", "like", "unlike", "view", "download", "favorite", "unfavorite", "removing", "missed",
           "recalc", "delete", "adminDelete", "marked", "move", "moved", "left"}

Request == [stage : Stages, user : Users, resource : Resources, course : Courses, to : Courses,
            stats : [Courses -> Totals]]

NoRequest == [stage |-> "idle", user |-> CHOOSE u \in Users : TRUE, resource |-> CHOOSE r \in Resources : TRUE,
              course |-> CHOOSE c \in Courses : TRUE, to |-> CHOOSE c \in Courses : TRUE, stats |-> NoStats]

Init ==
    /\ resource = [r \in Resources |->
            [status |-> "none", course |-> CHOOSE c \in Courses : TRUE, hits |-> 0, likes |-> 0]]
    /\ likes = {} /\ favorites = {}
    /\ course = NoStats
    /\ req = [p \in Procs |-> NoRequest]
    /\ refresh = [running |-> FALSE, stats |-> NoStats]
    /\ requests = MaxRequests

-----------------------------------------------------------------------------
\* What a course shows, over the given rows of resources.
Shown(rows, c) == {r \in Resources : rows[r].status = "approved" /\ rows[r].course = c}

HitsOf(rows, shown) == MapThenSumSet(LAMBDA r : rows[r].hits, shown)

LikesOf(rows, shown) == MapThenSumSet(LAMBDA r : rows[r].likes, shown)

\* The subqueries of RecalculateCourseStats and RefreshCourseStats for course c.
StatsOf(rows, c) ==
    [resources |-> Cardinality(Shown(rows, c)),
     hits      |-> HitsOf(rows, Shown(rows, c)),
     likes     |-> LikesOf(rows, Shown(rows, c)),
     favorites |-> Cardinality({f \in favorites : f[2] \in Shown(rows, c)})]

AllStats(rows) == [c \in Courses |-> StatsOf(rows, c)]

\* A total may fall below zero: TypeOK.
FaultyAdjusted(c, column, n) == [course EXCEPT ![c][column] = @ + n]

\* AdjustCourseAggregates: GREATEST(column + n, 0).
Adjusted(c, column, n) == [course EXCEPT ![c][column] = IF @ + n < 0 THEN 0 ELSE @ + n]

\* The row of r is updated by a transaction that has not committed.
RowLocked(r) == \E p \in Procs : req[p].resource = r /\ req[p].stage \in {"marked", "moved", "left"}

CourseLocked(c) == \E p \in Procs : req[p].course = c /\ req[p].stage = "left"

\* A favorite is inserted or deleted by a transaction that has not committed.
FavoriteLocked(u, r) ==
    \E p \in Procs : req[p].user = u /\ req[p].resource = r /\ req[p].stage \in {"favorite", "removing"}

\* A request starts: what it reads first is the course of its resource.
Begin(p, stage, u, r, to) ==
    /\ req[p].stage = "idle"
    /\ requests > 0
    /\ requests' = requests - 1
    /\ req' = [req EXCEPT ![p] = [stage |-> stage, user |-> u, resource |-> r,
                                  course |-> resource[r].course, to |-> to, stats |-> NoStats]]
    /\ UNCHANGED <<resource, likes, favorites, course, refresh>>

GoOn(p, stage, stats) == req' = [req EXCEPT ![p].stage = stage, ![p].stats = stats]

Finish(p) == req' = [req EXCEPT ![p] = NoRequest]

-----------------------------------------------------------------------------
\* Upload

\* The course does not learn of its resource: DriftExplained.
FaultyFinalize(r, c) ==
    /\ resource[r].status = "none"
    /\ ~CourseLocked(c)
    /\ resource' = [resource EXCEPT ![r].status = "approved", ![r].course = c]
    /\ UNCHANGED <<likes, favorites, course, req, refresh, requests>>

\* The transaction of FinalizeResourceUpload.
Finalize(r, c) ==
    /\ resource[r].status = "none"
    /\ ~CourseLocked(c)
    /\ resource' = [resource EXCEPT ![r].status = "approved", ![r].course = c]
    /\ course' = Adjusted(c, "resources", 1)
    /\ UNCHANGED <<likes, favorites, req, refresh, requests>>

-----------------------------------------------------------------------------
\* Likes.  A transaction that inserts or deletes a like holds the row of the
\* resource when it reads its course, so it is one step.

\* SocialService.Like has seen an approved resource.
BeginLike(p, u, r) == resource[r].status = "approved" /\ Begin(p, "like", u, r, resource[r].course)

\* The insert ignores a conflict and the counters rise all the same: LikeCountExact.
FaultyLike(p) ==
    LET u == req[p].user
        r == req[p].resource IN
    /\ req[p].stage = "like"
    /\ ~RowLocked(r) /\ ~CourseLocked(resource[r].course)
    /\ likes' = likes \cup {<<u, r>>}
    /\ resource' = [resource EXCEPT ![r].likes = @ + 1]
    /\ course' = Adjusted(resource[r].course, "likes", 1)
    /\ Finish(p)
    /\ UNCHANGED <<favorites, refresh, requests>>

\* The unique index tells a second like of the same user.
Like(p) ==
    LET u == req[p].user
        r == req[p].resource IN
    /\ req[p].stage = "like"
    /\ ~RowLocked(r) /\ ~CourseLocked(resource[r].course)
    /\ IF <<u, r>> \in likes
       THEN UNCHANGED <<resource, likes, course>>
       ELSE /\ likes' = likes \cup {<<u, r>>}
            /\ resource' = [resource EXCEPT ![r].likes = @ + 1]
            /\ course' = Adjusted(resource[r].course, "likes", 1)
    /\ Finish(p)
    /\ UNCHANGED <<favorites, refresh, requests>>

\* SocialService.Unlike deletes the like.
Unlike(u, r) ==
    /\ requests > 0
    /\ requests' = requests - 1
    /\ <<u, r>> \in likes
    /\ ~RowLocked(r) /\ ~CourseLocked(resource[r].course)
    /\ likes' = likes \ {<<u, r>>}
    /\ resource' = [resource EXCEPT ![r].likes = IF @ = 0 THEN 0 ELSE @ - 1]
    /\ course' = Adjusted(resource[r].course, "likes", -1)
    /\ UNCHANGED <<favorites, req, refresh>>

\* It finds no like, locks nothing, and reads the course all the same.
BeginUnlike(p, u, r) ==
    /\ resource[r].status # "none"
    /\ <<u, r>> \notin likes
    /\ Begin(p, "unlike", u, r, resource[r].course)

\* The total of the course it has read falls.
CommitUnlike(p) ==
    /\ req[p].stage = "unlike"
    /\ ~CourseLocked(req[p].course)
    /\ course' = Adjusted(req[p].course, "likes", -1)
    /\ Finish(p)
    /\ UNCHANGED <<resource, likes, favorites, refresh, requests>>

-----------------------------------------------------------------------------
\* Favorites.  The row of the resource is only read.

\* Inserts the favorite and reads the course.
BeginFavorite(p, u, r) ==
    /\ resource[r].status = "approved"
    /\ <<u, r>> \notin favorites /\ ~FavoriteLocked(u, r)
    /\ Begin(p, "favorite", u, r, resource[r].course)

CommitFavorite(p) ==
    /\ req[p].stage = "favorite"
    /\ ~CourseLocked(req[p].course)
    /\ favorites' = favorites \cup {<<req[p].user, req[p].resource>>}
    /\ course' = Adjusted(req[p].course, "favorites", 1)
    /\ Finish(p)
    /\ UNCHANGED <<resource, likes, refresh, requests>>

BeginUnfavorite(p, u, r) ==
    /\ <<u, r>> \in favorites
    /\ Begin(p, "unfavorite", u, r, resource[r].course)

\* DELETE waits for another one of the same favorite, then finds none; how many
\* rows it deleted is not looked at.
DeleteFavorite(p) ==
    LET u == req[p].user
        r == req[p].resource IN
    /\ req[p].stage = "unfavorite"
    /\ ~FavoriteLocked(u, r)
    /\ req' = [req EXCEPT ![p].stage = IF <<u, r>> \in favorites THEN "removing" ELSE "missed",
                          ![p].course = resource[r].course]
    /\ UNCHANGED <<resource, likes, favorites, course, refresh, requests>>

CommitUnfavorite(p) ==
    /\ req[p].stage \in {"removing", "missed"}
    /\ ~CourseLocked(req[p].course)
    /\ favorites' = IF req[p].stage = "removing"
                    THEN favorites \ {<<req[p].user, req[p].resource>>}
                    ELSE favorites
    /\ course' = Adjusted(req[p].course, "favorites", -1)
    /\ Finish(p)
    /\ UNCHANGED <<resource, likes, refresh, requests>>

-----------------------------------------------------------------------------
\* Views and downloads

\* FindResourceDetail and FindDownloadFile read the row outside the transaction.
BeginHit(p, stage, u, r) == resource[r].status = "approved" /\ Begin(p, stage, u, r, resource[r].course)

\* A view is counted if the resource is still approved, a download always, and
\* the course that was read gets both.
CommitHit(p) ==
    LET r == req[p].resource IN
    /\ req[p].stage \in {"view", "download"}
    /\ ~RowLocked(r) /\ ~CourseLocked(req[p].course)
    /\ resource' = IF req[p].stage = "download" \/ resource[r].status = "approved"
                   THEN [resource EXCEPT ![r].hits = @ + 1]
                   ELSE resource
    /\ course' = Adjusted(req[p].course, "hits", 1)
    /\ Finish(p)
    /\ UNCHANGED <<likes, favorites, refresh, requests>>

-----------------------------------------------------------------------------
\* Deletion

\* DeleteResource of the owner ("delete") and of an administrator have read the
\* row and found it not deleted.
BeginDelete(p, stage, u, r) == resource[r].status = "approved" /\ Begin(p, stage, u, r, resource[r].course)

\* The owner's UPDATE asks for the status again, the administrator's does not;
\* then the recalculation of the course that was read takes its snapshot.
MarkDeleted(p) ==
    LET r == req[p].resource IN
    /\ req[p].stage \in {"delete", "adminDelete"}
    /\ ~RowLocked(r)
    /\ IF req[p].stage = "delete" /\ resource[r].status = "deleted"
       THEN Finish(p)
       ELSE GoOn(p, "marked", AllStats([resource EXCEPT ![r].status = "deleted"]))
    /\ UNCHANGED <<resource, likes, favorites, course, refresh, requests>>

CommitDelete(p) ==
    /\ req[p].stage = "marked"
    /\ ~CourseLocked(req[p].course)
    /\ resource' = [resource EXCEPT ![req[p].resource].status = "deleted"]
    /\ course' = [course EXCEPT ![req[p].course] = req[p].stats[req[p].course]]
    /\ Finish(p)
    /\ UNCHANGED <<likes, favorites, refresh, requests>>

\* deleteResourceForReport soft-deletes and recalculates nothing.
ReportDelete(r) ==
    /\ resource[r].status = "approved"
    /\ ~RowLocked(r)
    /\ resource' = [resource EXCEPT ![r].status = "deleted"]
    /\ UNCHANGED <<likes, favorites, course, req, refresh, requests>>

-----------------------------------------------------------------------------
\* UpdateResource with a course

BeginMove(p, u, r, to) == resource[r].status = "approved" /\ Begin(p, "move", u, r, to)

\* The row as the transaction of p leaves it.
MovedRow(p) == [resource EXCEPT ![req[p].resource].course = req[p].to]

\* The UPDATE of the row; without a change of course, as it was read, that is all.
MoveRow(p) ==
    LET r == req[p].resource IN
    /\ req[p].stage = "move"
    /\ ~RowLocked(r)
    /\ IF resource[r].status = "deleted"
       THEN Finish(p) /\ UNCHANGED resource
       ELSE IF req[p].to = req[p].course
            THEN Finish(p) /\ resource' = MovedRow(p)
            ELSE GoOn(p, "moved", AllStats(MovedRow(p))) /\ UNCHANGED resource
    /\ UNCHANGED <<likes, favorites, course, refresh, requests>>

\* The old course is recalculated and locked; the snapshot for the new one.
LeaveCourse(p) ==
    /\ req[p].stage = "moved"
    /\ ~CourseLocked(req[p].course)
    /\ GoOn(p, "left", [req[p].stats EXCEPT ![req[p].to] = StatsOf(MovedRow(p), req[p].to)])
    /\ UNCHANGED <<resource, likes, favorites, course, refresh, requests>>

EnterCourse(p) ==
    /\ req[p].stage = "left"
    /\ ~CourseLocked(req[p].to)
    /\ resource' = MovedRow(p)
    /\ course' = [c \in Courses |-> IF c \in {req[p].course, req[p].to} THEN req[p].stats[c] ELSE course[c]]
    /\ Finish(p)
    /\ UNCHANGED <<likes, favorites, refresh, requests>>

-----------------------------------------------------------------------------
\* Recalculations on their own

\* tryRefreshCourseStats after a change of an evaluation of the course.
BeginRecalc(p, u, r) ==
    /\ req[p].stage = "idle"
    /\ requests > 0
    /\ requests' = requests - 1
    /\ req' = [req EXCEPT ![p] = [stage |-> "recalc", user |-> u, resource |-> r, course |-> resource[r].course,
                                  to |-> resource[r].course, stats |-> AllStats(resource)]]
    /\ UNCHANGED <<resource, likes, favorites, course, refresh>>

CommitRecalc(p) ==
    /\ req[p].stage = "recalc"
    /\ ~CourseLocked(req[p].course)
    /\ course' = [course EXCEPT ![req[p].course] = req[p].stats[req[p].course]]
    /\ Finish(p)
    /\ UNCHANGED <<resource, likes, favorites, refresh, requests>>

\* Deleted resources still count: RepairedWhenQuiet.
FaultyRefreshBegin ==
    LET counted == [r \in Resources |->
            [resource[r] EXCEPT !.status = IF @ = "deleted" THEN "approved" ELSE @]] IN
    /\ ~refresh.running
    /\ refresh' = [running |-> TRUE, stats |-> AllStats(counted)]
    /\ UNCHANGED <<resource, likes, favorites, course, req, requests>>

\* RefreshCourseStats takes its snapshot; the scheduler runs one refresh at a time.
RefreshBegin ==
    /\ ~refresh.running
    /\ refresh' = [running |-> TRUE, stats |-> AllStats(resource)]
    /\ UNCHANGED <<resource, likes, favorites, course, req, requests>>

RefreshApply ==
    /\ refresh.running
    /\ \A c \in Courses : ~CourseLocked(c)
    /\ course' = refresh.stats
    /\ refresh' = [running |-> FALSE, stats |-> NoStats]
    /\ UNCHANGED <<resource, likes, favorites, req, requests>>

\* The statement fails; the scheduler logs it and tries again in an hour.
RefreshFail ==
    /\ refresh.running
    /\ refresh' = [running |-> FALSE, stats |-> NoStats]
    /\ UNCHANGED <<resource, likes, favorites, course, req, requests>>

\* The request fails, is the victim of a deadlock or ends with the process.
Rollback(p) ==
    /\ req[p].stage # "idle"
    /\ Finish(p)
    /\ UNCHANGED <<resource, likes, favorites, course, refresh, requests>>

-----------------------------------------------------------------------------
Continue(p) ==
    \/ Like(p) \/ CommitUnlike(p) \/ CommitHit(p)
    \/ CommitFavorite(p) \/ DeleteFavorite(p) \/ CommitUnfavorite(p)
    \/ MarkDeleted(p) \/ CommitDelete(p)
    \/ MoveRow(p) \/ LeaveCourse(p) \/ EnterCourse(p)
    \/ CommitRecalc(p)
    \/ Rollback(p)

Next ==
    \/ \E r \in Resources, c \in Courses : Finalize(r, c)
    \/ \E u \in Users, r \in Resources : Unlike(u, r)
    \/ \E r \in Resources : ReportDelete(r)
    \/ \E p \in Procs, u \in Users, r \in Resources :
            \/ BeginLike(p, u, r) \/ BeginUnlike(p, u, r) \/ BeginFavorite(p, u, r)
            \/ BeginUnfavorite(p, u, r) \/ BeginRecalc(p, u, r)
            \/ \E stage \in {"view", "download"} : BeginHit(p, stage, u, r)
            \/ \E stage \in {"delete", "adminDelete"} : BeginDelete(p, stage, u, r)
            \/ \E to \in Courses : BeginMove(p, u, r, to)
    \/ \E p \in Procs : Continue(p)
    \/ RefreshBegin \/ RefreshApply \/ RefreshFail

Spec == Init /\ [][Next]_vars

\* A request goes on or fails, Postgres breaks its deadlocks; the ticker starts a
\* refresh every hour and one that is tried again and again succeeds sometimes.
Fairness ==
    /\ \A p \in Procs : WF_vars(Continue(p))
    /\ WF_vars(RefreshBegin)
    /\ SF_vars(RefreshApply)

FairSpec == Spec /\ Fairness

-----------------------------------------------------------------------------
\* Properties

\* Every variable has its type.
TypeOK ==
    /\ resource \in [Resources -> Row]
    /\ likes \subseteq Users \X Resources
    /\ favorites \subseteq Users \X Resources
    /\ course \in [Courses -> Totals]
    /\ req \in [Procs -> Request]
    /\ refresh \in [running : BOOLEAN, stats : [Courses -> Totals]]
    /\ requests \in Nat

\* Who likes resource r.
LikersOf(r) == {u \in Users : <<u, r>> \in likes}

\* resources.like_count is the number of rows in likes, whatever likes and
\* unlikes of the same resource overlap and whatever is retried.
LikeCountExact == \A r \in Resources : resource[r].likes = Cardinality(LikersOf(r))

Exact(c) == course[c] = StatsOf(resource, c)

\* The course a request read is no longer that of its resource, or its resource
\* is deleted.
Stale(p) ==
    LET r == req[p].resource IN resource[r].course # req[p].course \/ resource[r].status = "deleted"

\* The totals about to be written for course c are not those of its rows after
\* the step.
StaleSnapshot(p, c) == req[p].stats[c] # StatsOf(resource, c)'

\* The ways in which the totals of course c are known to go wrong.
KnownDrift(c) ==
    \/ \E u \in Users, r \in Resources :
            /\ resource[r].course = c
            /\ \/ Unlike(u, r) /\ resource[r].status = "deleted"
               \/ ReportDelete(r)
    \/ \E p \in Procs :
            \/ /\ Like(p) \/ CommitHit(p) \/ CommitFavorite(p) \/ CommitUnfavorite(p) \/ MoveRow(p)
                  \/ CommitDelete(p) \/ EnterCourse(p)
               /\ Stale(p)
               /\ c \in {req[p].course, req[p].to, resource[req[p].resource].course}
            \/ CommitUnlike(p) /\ c = req[p].course
            \/ CommitUnfavorite(p) /\ req[p].stage = "missed" /\ c = req[p].course
            \/ (CommitDelete(p) \/ EnterCourse(p) \/ CommitRecalc(p)) /\ StaleSnapshot(p, c)
    \/ RefreshApply /\ refresh.stats[c] # StatsOf(resource, c)'

\* The totals of a course stay equal to what its rows give, unless by an unlike
\* without a like (which lowers the course it had read, though the resource may have
\* left it since), an unfavorite that lost a race, a resolved report, a course id
\* that was stale when it was used or a recalculation from a stale snapshot.
DriftExplained == [][\A c \in Courses : Exact(c) => Exact(c)' \/ KnownDrift(c)]_vars

\* Once requests stop coming in, the hourly refresh repairs every total.
RepairedWhenQuiet == <>[](\A c \in Courses : Exact(c))

=============================================================================
