---------------------------- MODULE PointsLedger ----------------------------
(***************************************************************************)
(* The points account of a user: users.points, users.free_download_count  *)
(* and users.email_verified, the journal points_records and the rows of   *)
(* download_records, under the requests that change them.                 *)
(*                                                                         *)
(* Every request runs its own Postgres transaction at READ COMMITTED.  A   *)
(* plain SELECT takes no lock, so what a transaction read may be stale     *)
(* when it writes: a request that uses what it read is two steps here, a   *)
(* read and a commit, and other requests may commit in between.  A         *)
(* relative UPDATE (points - 1) locks the row until its commit and is      *)
(* applied to the current value, so it belongs to the commit step.         *)
(*                                                                         *)
(* points_records is kept as two sums per user, because the properties    *)
(* only tell downloads from everything else: spent is minus the sum of    *)
(* the deltas of type download, earned the sum of all the others.  The     *)
(* check-in rows are also counted per day.                                 *)
(*                                                                         *)
(* The operators named Faulty... belong to no specification.  Each is a    *)
(* plausible bug in the definition that follows it; with the bug put in,   *)
(* the property named in its comment fails.                                *)
(***************************************************************************)
EXTENDS Integers, FiniteSets

CONSTANTS
    Users,          \* user ids
    MailUsers,      \* accounts made by Register or by an administrator; the others came by OAuth
    Procs,          \* request goroutines: at most one request each at a time
    NoProc,         \* the advisory lock is free
    InitialPoints,  \* DEFAULT of users.points
    InitialFree,    \* DEFAULT of users.free_download_count
    RewardDeltas,   \* what a contribution earns: evaluation, upload, invitation
    AdjustDeltas,   \* what an administrator may add or take
    MaxDay,         \* bound: the last day of the clock
    MaxEarned,      \* bound on the absolute value of earned that rewards and adjustments reach
    MaxDownloads    \* bound: no download starts once a user has this many

ASSUME LedgerAssumption ==
    /\ Users # {}
    /\ MailUsers \subseteq Users
    /\ IsFiniteSet(Procs)
    /\ NoProc \notin Procs
    /\ InitialPoints \in Nat /\ InitialFree \in Nat
    /\ RewardDeltas \subseteq Nat
    /\ AdjustDeltas \subseteq Int
    /\ MaxDay \in Nat /\ MaxEarned \in Nat /\ MaxDownloads \in Nat

VARIABLES
    users,      \* the rows of table users
    earned,     \* sum of delta over points_records of every type but download
    spent,      \* minus the sum of delta over points_records of type download
    downloads,  \* number of download_records rows
    checkins,   \* points_records of type checkin, counted per day of created_at
    day,        \* the calendar day in Asia/Shanghai
    lock,       \* holder of pg_advisory_xact_lock(user)
    req         \* the request every goroutine is serving

vars == <<users, earned, spent, downloads, checkins, day, lock, req>>

Days == 0..MaxDay

Row == [points : Int, free : Int, verified : BOOLEAN]

\* Where a request stands: waiting for its turn ("idle"), between the read and
\* the commit of a download, waiting for the check-in lock, between the count
\* and the commit of a check-in, between the read and the save of an
\* administrator's edit.
Stages == {"idle", "download", "waitLock", "checkin", "save"}

Request == [stage : Stages, user : Users, seen : Row, window : Days]

\* A goroutine that serves nobody; its user, row and window mean nothing.
NoRow == [points |-> 0, free |-> 0, verified |-> FALSE]

NoRequest == [stage |-> "idle", user |-> CHOOSE u \in Users : TRUE, seen |-> NoRow, window |-> 0]

\* A day's check-in rows, told apart by the request that wrote them: own if the
\* request had computed this very day as its window, late if it had computed an
\* earlier one and midnight passed before the row was inserted.
CheckinCount == [own : Nat, late : Nat]

-----------------------------------------------------------------------------
\* CreateUser and the administrator's CreateUser journal the default points of
\* the new row; FindOrCreateOauthUser creates the row without a record.
NewUser(u) == [points |-> InitialPoints, free |-> InitialFree, verified |-> u \in MailUsers]

InitialRecord(u) == IF u \in MailUsers THEN InitialPoints ELSE 0

UnrecordedGrant(u) == InitialPoints - InitialRecord(u)

Init ==
    /\ users = [u \in Users |-> NewUser(u)]
    /\ earned = [u \in Users |-> InitialRecord(u)]
    /\ spent = [u \in Users |-> 0]
    /\ downloads = [u \in Users |-> 0]
    /\ checkins = [u \in Users |-> [d \in Days |-> [own |-> 0, late |-> 0]]]
    /\ day = 0
    /\ lock = [u \in Users |-> NoProc]
    /\ req = [p \in Procs |-> NoRequest]

Start(p, stage, u, row, window) ==
    req' = [req EXCEPT ![p] = [stage |-> stage, user |-> u, seen |-> row, window |-> window]]

\* The request is answered; what it had read is forgotten.
Finish(p) == req' = [req EXCEPT ![p] = NoRequest]

\* UPDATE users SET points = points + n: relative to the current value.
AddPoints(u, n) == users' = [users EXCEPT ![u].points = @ + n]

-----------------------------------------------------------------------------
\* Downloads (ResourceService.DownloadResource, resourceRepository.DownloadResource)

DownloadCost == 1

\* The tests of the transaction on the row it has read.
MayDownload(row) == IF row.verified THEN row.points >= DownloadCost ELSE row.free > 0

\* No test of the balance: OverdraftBounded.
FaultyBeginDownload(p, u) ==
    /\ req[p].stage = "idle"
    /\ downloads[u] < MaxDownloads
    /\ Start(p, "download", u, users[u], 0)
    /\ UNCHANGED <<users, earned, spent, downloads, checkins, day, lock>>

\* The transaction has read the user's row and its tests passed.
BeginDownload(p, u) ==
    /\ req[p].stage = "idle"
    /\ downloads[u] < MaxDownloads
    /\ MayDownload(users[u])
    /\ Start(p, "download", u, users[u], 0)
    /\ UNCHANGED <<users, earned, spent, downloads, checkins, day, lock>>

\* An account without an e-mail downloads for free: DownloadsPaid.
FaultyCommitDownload(p) ==
    LET u == req[p].user IN
    /\ req[p].stage = "download"
    /\ IF req[p].seen.verified
       THEN AddPoints(u, -DownloadCost) /\ spent' = [spent EXCEPT ![u] = @ + DownloadCost]
       ELSE UNCHANGED <<users, spent>>
    /\ downloads' = [downloads EXCEPT ![u] = @ + 1]
    /\ Finish(p)
    /\ UNCHANGED <<earned, checkins, day, lock>>

\* The row read decides what is charged; the charge itself is relative.
CommitDownload(p) ==
    LET u == req[p].user IN
    /\ req[p].stage = "download"
    /\ IF req[p].seen.verified
       THEN /\ AddPoints(u, -DownloadCost)
            /\ spent' = [spent EXCEPT ![u] = @ + DownloadCost]
       ELSE /\ users' = [users EXCEPT ![u].free = @ - 1]
            /\ UNCHANGED spent
    /\ downloads' = [downloads EXCEPT ![u] = @ + 1]
    /\ Finish(p)
    /\ UNCHANGED <<earned, checkins, day, lock>>

-----------------------------------------------------------------------------
\* Rewards (rewardUserPointsTx, RewardInviter, RewardInvitee).  What these
\* transactions read only feeds the balance column, so they are one step.

Reward(u, delta) ==
    /\ earned[u] + delta <= MaxEarned
    /\ AddPoints(u, delta)
    /\ earned' = [earned EXCEPT ![u] = @ + delta]
    /\ UNCHANGED <<spent, downloads, checkins, day, lock, req>>

-----------------------------------------------------------------------------
\* The daily check-in (miscRepository.DailyCheckin)

\* Number of check-in rows of user u whose created_at lies in day d.
Rows(u, d) == checkins[u][d].own + checkins[u][d].late

\* A check-in looks for a row in the next day: TypeOK.
FaultyTomorrow(p, u) ==
    /\ req[p].stage = "idle"
    /\ earned[u] < MaxEarned
    /\ Start(p, "waitLock", u, NoRow, day + 1)
    /\ UNCHANGED <<users, earned, spent, downloads, checkins, day, lock>>

\* The window is the day in UTC, yesterday for a morning in Shanghai:
\* LateCheckinsBounded.
FaultyUTC(p, u) ==
    /\ req[p].stage = "idle"
    /\ earned[u] < MaxEarned
    /\ Start(p, "waitLock", u, NoRow, IF day = 0 THEN 0 ELSE day - 1)
    /\ UNCHANGED <<users, earned, spent, downloads, checkins, day, lock>>

\* The window is computed from the clock before the transaction starts.
BeginCheckin(p, u) ==
    /\ req[p].stage = "idle"
    /\ earned[u] < MaxEarned
    /\ Start(p, "waitLock", u, NoRow, day)
    /\ UNCHANGED <<users, earned, spent, downloads, checkins, day, lock>>

\* The count is taken without waiting for the lock: OwnDayCheckinOnce.
FaultyUnlocked(p) ==
    LET u == req[p].user IN
    /\ req[p].stage = "waitLock"
    /\ Rows(u, req[p].window) = 0
    /\ Start(p, "checkin", u, NoRow, req[p].window)
    /\ UNCHANGED <<users, earned, spent, downloads, checkins, day, lock>>

\* The lock is free and the count over the window is zero.
EnterCheckin(p) ==
    LET u == req[p].user IN
    /\ req[p].stage = "waitLock"
    /\ lock[u] = NoProc
    /\ Rows(u, req[p].window) = 0
    /\ lock' = [lock EXCEPT ![u] = p]
    /\ Start(p, "checkin", u, NoRow, req[p].window)
    /\ UNCHANGED <<users, earned, spent, downloads, checkins, day>>

\* The lock is free and the window has a row: ErrAlreadyCheckedIn, rolled back.
RefuseCheckin(p) ==
    LET u == req[p].user IN
    /\ req[p].stage = "waitLock"
    /\ lock[u] = NoProc
    /\ Rows(u, req[p].window) > 0
    /\ Finish(p)
    /\ UNCHANGED <<users, earned, spent, downloads, checkins, day, lock>>

\* A session lock outlives the transaction: CheckinAnswered.
FaultyKeepsLock(p) ==
    LET u == req[p].user IN
    /\ req[p].stage = "checkin"
    /\ AddPoints(u, 1)
    /\ earned' = [earned EXCEPT ![u] = @ + 1]
    /\ checkins' = [checkins EXCEPT ![u][day].own = @ + 1]
    /\ Finish(p)
    /\ UNCHANGED <<spent, downloads, day, lock>>

\* The row is stamped with the clock of the insertion, not with the window.
CommitCheckin(p) ==
    LET u == req[p].user IN
    /\ req[p].stage = "checkin"
    /\ AddPoints(u, 1)
    /\ earned' = [earned EXCEPT ![u] = @ + 1]
    /\ checkins' = IF req[p].window = day
                   THEN [checkins EXCEPT ![u][day].own = @ + 1]
                   ELSE [checkins EXCEPT ![u][day].late = @ + 1]
    /\ lock' = [lock EXCEPT ![u] = NoProc]
    /\ Finish(p)
    /\ UNCHANGED <<spent, downloads, day>>

-----------------------------------------------------------------------------
\* Administrators and the account itself

\* The record says what was asked for, not what was applied: LedgerMatchesPoints.
FaultyAdjust(u, delta) ==
    LET balance == IF users[u].points + delta < 0 THEN 0 ELSE users[u].points + delta IN
    /\ earned[u] + delta \in -MaxEarned..MaxEarned
    /\ users' = [users EXCEPT ![u].points = balance]
    /\ earned' = [earned EXCEPT ![u] = @ + delta]
    /\ UNCHANGED <<spent, downloads, checkins, day, lock, req>>

\* adminRepository.AdjustUserPoints reads FOR UPDATE, so read and write are one
\* step; a balance below zero is raised to zero and the record's delta with it.
AdjustUserPoints(u, delta) ==
    LET balance == IF users[u].points + delta < 0 THEN 0 ELSE users[u].points + delta
        applied == balance - users[u].points
    IN
    /\ earned[u] + applied \in -MaxEarned..MaxEarned
    /\ users' = [users EXCEPT ![u].points = balance]
    /\ earned' = [earned EXCEPT ![u] = @ + applied]
    /\ UNCHANGED <<spent, downloads, checkins, day, lock, req>>

\* AuthService.BindEmail: only an account without an e-mail may bind one.
BindEmail(u) ==
    /\ ~users[u].verified
    /\ users' = [users EXCEPT ![u].verified = TRUE]
    /\ UNCHANGED <<earned, spent, downloads, checkins, day, lock, req>>

\* BanUser, UnbanUser and UpdateUser read the row without a lock ...
BeginSave(p, u) ==
    /\ req[p].stage = "idle"
    /\ Start(p, "save", u, users[u], 0)
    /\ UNCHANGED <<users, earned, spent, downloads, checkins, day, lock>>

\* ... and write every column of it back (gorm's Save); UpdateUser with an
\* e-mail also marks it verified.
CommitSave(p) ==
    LET u == req[p].user IN
    /\ req[p].stage = "save"
    /\ \E verified \in {req[p].seen.verified, TRUE} :
          users' = [users EXCEPT ![u] = [req[p].seen EXCEPT !.verified = verified]]
    /\ Finish(p)
    /\ UNCHANGED <<earned, spent, downloads, checkins, day, lock>>

-----------------------------------------------------------------------------
\* A transaction fails (an error of the database, the end of the process): it
\* is rolled back and its advisory lock released.
Rollback(p) ==
    /\ req[p].stage # "idle"
    /\ lock' = [u \in Users |-> IF lock[u] = p THEN NoProc ELSE lock[u]]
    /\ Finish(p)
    /\ UNCHANGED <<users, earned, spent, downloads, checkins, day>>

Midnight ==
    /\ day < MaxDay
    /\ day' = day + 1
    /\ UNCHANGED <<users, earned, spent, downloads, checkins, lock, req>>

\* What users, their rewards and point adjustments do.
AccountNext ==
    \/ \E p \in Procs, u \in Users : BeginDownload(p, u) \/ BeginCheckin(p, u)
    \/ \E p \in Procs : \/ CommitDownload(p) \/ EnterCheckin(p) \/ RefuseCheckin(p)
                        \/ CommitCheckin(p) \/ Rollback(p)
    \/ \E u \in Users, delta \in RewardDeltas : Reward(u, delta)
    \/ \E u \in Users, delta \in AdjustDeltas : AdjustUserPoints(u, delta)
    \/ \E u \in Users : BindEmail(u)
    \/ Midnight

\* The edits of administrators that save a whole row.
RowEditNext ==
    \/ \E p \in Procs, u \in Users : BeginSave(p, u)
    \/ \E p \in Procs : CommitSave(p)

Next == AccountNext \/ RowEditNext

\* The accounts while no administrator saves a whole row.
AccountSpec == Init /\ [][AccountNext]_vars

Spec == Init /\ [][Next]_vars

\* A request runs on until it commits or fails, and Postgres serves the waiters
\* of a lock in their order of arrival, so nobody waits for it forever.
Fairness ==
    /\ \A p \in Procs : WF_vars(CommitCheckin(p) \/ CommitDownload(p))
    /\ \A p \in Procs : SF_vars(EnterCheckin(p) \/ RefuseCheckin(p))

FairAccountSpec == AccountSpec /\ Fairness

-----------------------------------------------------------------------------
\* Properties

\* Every variable has its type.
TypeOK ==
    /\ users \in [Users -> Row]
    /\ earned \in [Users -> Int]
    /\ spent \in [Users -> Nat]
    /\ downloads \in [Users -> Nat]
    /\ checkins \in [Users -> [Days -> CheckinCount]]
    /\ day \in Days
    /\ lock \in [Users -> Procs \cup {NoProc}]
    /\ req \in [Procs -> Request]

\* The journal explains the balance: users.points is what the account was given
\* plus the sum of the deltas journalled in points_records, whatever requests
\* interleave.  It rests on every writer using a relative update or a row lock.
LedgerMatchesPoints ==
    \A u \in Users : users[u].points = UnrecordedGrant(u) + earned[u] - spent[u]

\* Every row of download_records was paid for exactly once, with a point or with
\* a free download, although what to charge is decided on a row read earlier and
\* the account may have been verified since.
DownloadsPaid ==
    \A u \in Users : downloads[u] = spent[u] + (InitialFree - users[u].free)

\* The downloads of user u between their read and their commit that will charge
\* points (paying) or the free downloads (not paying).
InFlight(u, paying) ==
    {p \in Procs : /\ req[p].stage = "download"
                   /\ req[p].user = u
                   /\ req[p].seen.verified = paying}

\* Downloads test the balance on a stale read, so an account can go below zero:
\* by no more than one charge for every concurrent request, those still in
\* flight included.
OverdraftBounded ==
    \A u \in Users :
        /\ users[u].points >= Cardinality(InFlight(u, TRUE)) - Cardinality(Procs)
        /\ users[u].free >= Cardinality(InFlight(u, FALSE)) - Cardinality(Procs)

\* DailyCheckin counts the window under a lock: at most one of the check-ins
\* that insert their row within the day they have computed succeeds per day.
OwnDayCheckinOnce == \A u \in Users, d \in Days : checkins[u][d].own <= 1

\* The check-ins of user u that computed their window before the last midnight.
Straddling(u) ==
    {p \in Procs : /\ req[p].stage \in {"waitLock", "checkin"}
                   /\ req[p].user = u
                   /\ req[p].window < day}

\* A check-in that waits across midnight looks for a row in the old day and
\* writes one in the new: a day gets no more such rows than there were requests
\* waiting at its midnight.
LateCheckinsBounded ==
    \A u \in Users :
        /\ checkins[u][day].late + Cardinality(Straddling(u)) <= Cardinality(Procs)
        /\ \A d \in Days : checkins[u][d].late <= Cardinality(Procs)

\* What a second check-in of a day is told ("already checked in today",
\* src/internal/handler/misc_handler.go:74): no day has two check-in rows.
OneCheckinPerDay == \A u \in Users, d \in Days : Rows(u, d) <= 1

\* A check-in is answered although it waits for a lock that other check-ins of
\* the same user hold.
CheckinAnswered ==
    \A p \in Procs : req[p].stage = "waitLock" ~> req[p].stage = "idle"

=============================================================================
