------------------------ MODULE PointsLedger_proofs ------------------------
(***************************************************************************)
(* Proofs about PointsLedger, for every set of users and of concurrent    *)
(* requests and for every bound.                                          *)
(***************************************************************************)
EXTENDS PointsLedger, FiniteSetTheorems, TLAPS

LEMMA NoRequestType == NoRequest \in Request
  <1>1. (CHOOSE u \in Users : TRUE) \in Users
    BY LedgerAssumption
  <1>2. 0 \in Days
    BY LedgerAssumption DEF Days
  <1> QED BY <1>1, <1>2 DEF NoRequest, NoRow, Request, Stages, Row

\* What a relative update of the balance does to the rows.
LEMMA AddPointsEffect ==
    ASSUME users \in [Users -> Row], NEW u \in Users, NEW n \in Int, AddPoints(u, n)
    PROVE  /\ users' \in [Users -> Row]
           /\ users'[u].points = users[u].points + n
           /\ users'[u].free = users[u].free
           /\ users'[u].verified = users[u].verified
           /\ \A v \in Users \ {u} : users'[v] = users[v]
  BY DEF AddPoints, Row

\* What taking a free download does to the rows.
LEMMA TakeFreeEffect ==
    ASSUME users \in [Users -> Row], NEW u \in Users,
           users' = [users EXCEPT ![u].free = @ - 1]
    PROVE  /\ users' \in [Users -> Row]
           /\ users'[u].points = users[u].points
           /\ users'[u].free = users[u].free - 1
           /\ \A v \in Users \ {u} : users'[v] = users[v]
  BY DEF Row

\* What setting the balance does to the rows.
LEMMA SetPointsEffect ==
    ASSUME users \in [Users -> Row], NEW u \in Users, NEW n \in Int,
           users' = [users EXCEPT ![u].points = n]
    PROVE  /\ users' \in [Users -> Row]
           /\ users'[u].points = n
           /\ users'[u].free = users[u].free
           /\ \A v \in Users \ {u} : users'[v] = users[v]
  BY DEF Row

\* What verifying the e-mail does to the rows.
LEMMA VerifyEffect ==
    ASSUME users \in [Users -> Row], NEW u \in Users,
           users' = [users EXCEPT ![u].verified = TRUE]
    PROVE  /\ users' \in [Users -> Row]
           /\ users'[u].points = users[u].points
           /\ users'[u].free = users[u].free
           /\ \A v \in Users \ {u} : users'[v] = users[v]
  BY DEF Row

\* A check-in adds one row to its day, to the own or to the late ones.
LEMMA CheckinEffect ==
    ASSUME TypeOK, NEW p \in Procs, CommitCheckin(p)
    PROVE  LET u == req[p].user IN
           /\ checkins' \in [Users -> [Days -> CheckinCount]]
           /\ \A v \in Users, d \in Days :
                 (v # u \/ d # day) => checkins'[v][d] = checkins[v][d]
           /\ req[p].window = day => /\ checkins'[u][day].own = checkins[u][day].own + 1
                                     /\ checkins'[u][day].late = checkins[u][day].late
           /\ req[p].window # day => /\ checkins'[u][day].own = checkins[u][day].own
                                     /\ checkins'[u][day].late = checkins[u][day].late + 1
  <1> DEFINE u == req[p].user
  <1>1. u \in Users /\ day \in Days /\ checkins[u][day] \in CheckinCount
    BY DEF TypeOK, Request
  <1>2. CASE req[p].window = day
    <2> DEFINE c == [checkins[u][day] EXCEPT !.own = @ + 1]
    <2>1. c \in CheckinCount /\ c.own = checkins[u][day].own + 1 /\ c.late = checkins[u][day].late
      BY <1>1 DEF CheckinCount
    <2>2. checkins' = [checkins EXCEPT ![u][day] = c]
      BY <1>2 DEF CommitCheckin
    <2> HIDE DEF c
    <2> QED BY <1>1, <1>2, <2>1, <2>2 DEF TypeOK
  <1>3. CASE req[p].window # day
    <2> DEFINE c == [checkins[u][day] EXCEPT !.late = @ + 1]
    <2>1. c \in CheckinCount /\ c.late = checkins[u][day].late + 1 /\ c.own = checkins[u][day].own
      BY <1>1 DEF CheckinCount
    <2>2. checkins' = [checkins EXCEPT ![u][day] = c]
      BY <1>3 DEF CommitCheckin
    <2> HIDE DEF c
    <2> QED BY <1>1, <1>3, <2>1, <2>2 DEF TypeOK
  <1> QED BY <1>2, <1>3

LEMMA InitTypeOK == Init => TypeOK
  <1> SUFFICES ASSUME Init PROVE TypeOK
    OBVIOUS
  <1>1. 0 \in Days
    BY LedgerAssumption DEF Days
  <1>2. \A u \in Users : NewUser(u) \in Row /\ InitialRecord(u) \in Int
    BY LedgerAssumption DEF NewUser, Row, InitialRecord
  <1> QED BY <1>1, <1>2, NoRequestType DEF Init, TypeOK, CheckinCount

\* Every action of the module keeps the types.
LEMMA NextTypeOK == TypeOK /\ [Next]_vars => TypeOK'
  <1> SUFFICES ASSUME TypeOK, [Next]_vars PROVE TypeOK'
    OBVIOUS
  <1> USE LedgerAssumption
  <1>1. ASSUME NEW p \in Procs, NEW u \in Users, BeginDownload(p, u) PROVE TypeOK'
    <2>1. users[u] \in Row /\ 0 \in Days /\ req \in [Procs -> Request]
      BY DEF TypeOK, Days
    <2>2. PICK r : r = [stage |-> "download", user |-> u, seen |-> users[u], window |-> 0]
      OBVIOUS
    <2>3. r \in Request
      BY <2>1, <2>2 DEF Request, Stages
    <2>4. req' \in [Procs -> Request]
      BY <1>1, <2>1, <2>2, <2>3 DEF BeginDownload, Start
    <2> QED BY <1>1, <2>4 DEF BeginDownload, TypeOK
  <1>2. ASSUME NEW p \in Procs, CommitDownload(p) PROVE TypeOK'
    <2>1. users' \in [Users -> Row] /\ spent' \in [Users -> Nat]
      <3>1. req[p].user \in Users /\ users \in [Users -> Row] /\ -DownloadCost \in Int
        BY DEF TypeOK, Request, DownloadCost
      <3>2. CASE req[p].seen.verified
        <4>1. AddPoints(req[p].user, -DownloadCost) /\ spent' = [spent EXCEPT ![req[p].user] = @ + DownloadCost]
          BY <1>2, <3>2 DEF CommitDownload
        <4>2. users' \in [Users -> Row]
          BY <3>1, <4>1, AddPointsEffect
        <4>3. DownloadCost \in Nat
          BY DEF DownloadCost
        <4>4. spent' \in [Users -> Nat]
          BY <3>1, <4>1, <4>3 DEF TypeOK
        <4> QED BY <4>2, <4>4
      <3>3. CASE ~req[p].seen.verified
        BY <1>2, <3>1, <3>3, TakeFreeEffect DEF CommitDownload, TypeOK
      <3> QED BY <3>2, <3>3
    <2>2. downloads' \in [Users -> Nat] /\ req' \in [Procs -> Request]
      BY <1>2, NoRequestType DEF CommitDownload, Finish, TypeOK, Request
    <2> QED BY <1>2, <2>1, <2>2 DEF CommitDownload, TypeOK
  <1>3. ASSUME NEW u \in Users, NEW delta \in RewardDeltas, Reward(u, delta) PROVE TypeOK'
    BY <1>3, AddPointsEffect DEF Reward, TypeOK
  <1>4. ASSUME NEW p \in Procs, NEW u \in Users, BeginCheckin(p, u) PROVE TypeOK'
    BY <1>4 DEF BeginCheckin, Start, NoRow, Row, TypeOK, Request, Stages
  <1>5. ASSUME NEW p \in Procs, EnterCheckin(p) PROVE TypeOK'
    BY <1>5 DEF EnterCheckin, Start, NoRow, Row, TypeOK, Request, Stages
  <1>6. ASSUME NEW p \in Procs, RefuseCheckin(p) PROVE TypeOK'
    BY <1>6, NoRequestType DEF RefuseCheckin, Finish, TypeOK
  <1>7. ASSUME NEW p \in Procs, CommitCheckin(p) PROVE TypeOK'
    <2>1. users' \in [Users -> Row] /\ earned' \in [Users -> Int]
      BY <1>7, AddPointsEffect DEF CommitCheckin, TypeOK, Request
    <2>2. checkins' \in [Users -> [Days -> CheckinCount]]
      BY <1>7, CheckinEffect
    <2>3. lock' \in [Users -> Procs \cup {NoProc}] /\ req' \in [Procs -> Request]
      BY <1>7, NoRequestType DEF CommitCheckin, Finish, TypeOK
    <2> QED BY <1>7, <2>1, <2>2, <2>3 DEF CommitCheckin, TypeOK
  <1>8. ASSUME NEW u \in Users, NEW delta \in AdjustDeltas, AdjustUserPoints(u, delta) PROVE TypeOK'
    <2> DEFINE balance == IF users[u].points + delta < 0 THEN 0 ELSE users[u].points + delta
    <2>1. balance \in Int /\ users[u].points \in Int
      BY DEF TypeOK, Row
    <2>2. users' \in [Users -> Row]
      BY <1>8, <2>1, SetPointsEffect DEF AdjustUserPoints, TypeOK
    <2> QED BY <1>8, <2>1, <2>2 DEF AdjustUserPoints, TypeOK
  <1>9. ASSUME NEW u \in Users, BindEmail(u) PROVE TypeOK'
    BY <1>9, VerifyEffect DEF BindEmail, TypeOK
  <1>10. ASSUME NEW p \in Procs, NEW u \in Users, BeginSave(p, u) PROVE TypeOK'
    BY <1>10 DEF BeginSave, Start, TypeOK, Request, Stages, Days
  <1>11. ASSUME NEW p \in Procs, CommitSave(p) PROVE TypeOK'
    <2>1. users' \in [Users -> Row]
      <3>1. \A verified \in {req[p].seen.verified, TRUE} : [req[p].seen EXCEPT !.verified = verified] \in Row
        BY DEF TypeOK, Request, Row
      <3>2. PICK verified \in {req[p].seen.verified, TRUE} :
                users' = [users EXCEPT ![req[p].user] = [req[p].seen EXCEPT !.verified = verified]]
        BY <1>11 DEF CommitSave
      <3>3. users' = [users EXCEPT ![req[p].user] = [req[p].seen EXCEPT !.verified = verified]]
        BY <3>2
      <3> DEFINE row == [req[p].seen EXCEPT !.verified = verified]
      <3>4. row \in Row
        BY <3>1
      <3> HIDE DEF row
      <3> QED BY <3>3, <3>4 DEF TypeOK, row
    <2> QED BY <1>11, <2>1, NoRequestType DEF CommitSave, Finish, TypeOK
  <1>12. ASSUME NEW p \in Procs, Rollback(p) PROVE TypeOK'
    BY <1>12, NoRequestType DEF Rollback, Finish, TypeOK
  <1>13. CASE Midnight
    BY <1>13 DEF Midnight, TypeOK, Days
  <1>14. CASE UNCHANGED vars
    BY <1>14 DEF vars, TypeOK
  <1> QED
    BY <1>1, <1>2, <1>3, <1>4, <1>5, <1>6, <1>7, <1>8, <1>9, <1>10, <1>11, <1>12, <1>13, <1>14
    DEF Next, AccountNext, RowEditNext

\* Every variable keeps its type, whatever the requests do.
THEOREM TypeCorrect == Spec => []TypeOK
  BY InitTypeOK, NextTypeOK, PTL DEF Spec

LEMMA AccountTypeCorrect == AccountSpec => []TypeOK
  <1>1. [AccountNext]_vars => [Next]_vars
    BY DEF Next
  <1> QED BY <1>1, InitTypeOK, NextTypeOK, PTL DEF AccountSpec

-----------------------------------------------------------------------------
\* The journal

\* Both books of the account: the journal against the balance, the downloads
\* against what was charged for them.
Books == LedgerMatchesPoints /\ DownloadsPaid

LEMMA InitBooks == Init => Books
  BY LedgerAssumption
  DEF Init, Books, LedgerMatchesPoints, DownloadsPaid, NewUser, UnrecordedGrant, InitialRecord

\* The integers the equations of Books are about.
LEMMA BookTypes ==
    ASSUME TypeOK, NEW u \in Users
    PROVE  /\ users[u].points \in Int /\ users[u].free \in Int
           /\ earned[u] \in Int /\ spent[u] \in Nat /\ downloads[u] \in Nat
           /\ UnrecordedGrant(u) \in Int /\ InitialFree \in Int
  BY LedgerAssumption DEF TypeOK, Row, UnrecordedGrant, InitialRecord

LEMMA BooksNext == TypeOK /\ Books /\ [AccountNext]_vars => Books'
  <1> SUFFICES ASSUME TypeOK, Books, [AccountNext]_vars,
                      NEW v \in Users
               PROVE  /\ users'[v].points = UnrecordedGrant(v) + earned'[v] - spent'[v]
                      /\ downloads'[v] = spent'[v] + (InitialFree - users'[v].free)
    BY DEF Books, LedgerMatchesPoints, DownloadsPaid, UnrecordedGrant, InitialRecord
  <1> DEFINE Goal == /\ users'[v].points = UnrecordedGrant(v) + earned'[v] - spent'[v]
                     /\ downloads'[v] = spent'[v] + (InitialFree - users'[v].free)
  <1>types. /\ users \in [Users -> Row] /\ earned \in [Users -> Int]
            /\ spent \in [Users -> Nat] /\ downloads \in [Users -> Nat]
            /\ \A p \in Procs : req[p].user \in Users
    BY DEF TypeOK, Request
  <1>before. /\ users[v].points = UnrecordedGrant(v) + earned[v] - spent[v]
             /\ downloads[v] = spent[v] + (InitialFree - users[v].free)
    BY DEF Books, LedgerMatchesPoints, DownloadsPaid
  <1>1. ASSUME NEW p \in Procs, CommitDownload(p) PROVE Goal
    <2> DEFINE u == req[p].user
    <2>1. downloads' = [downloads EXCEPT ![u] = @ + 1] /\ earned' = earned
      BY <1>1 DEF CommitDownload
    <2>2. CASE req[p].seen.verified
      <3>1. AddPoints(u, -DownloadCost) /\ spent' = [spent EXCEPT ![u] = @ + DownloadCost]
        BY <1>1, <2>2 DEF CommitDownload
      <3>2. DownloadCost = 1 /\ -DownloadCost \in Int
        BY DEF DownloadCost
      <3>3. /\ users'[u].points = users[u].points + (-DownloadCost)
            /\ users'[u].free = users[u].free
            /\ \A w \in Users \ {u} : users'[w] = users[w]
        BY <1>types, <3>1, <3>2, AddPointsEffect
      <3> QED BY <1>types, <1>before, <2>1, <3>1, <3>2, <3>3, BookTypes
    <2>3. CASE ~req[p].seen.verified
      <3>1. users' = [users EXCEPT ![u].free = @ - 1] /\ spent' = spent
        BY <1>1, <2>3 DEF CommitDownload
      <3>2. /\ users'[u].points = users[u].points
            /\ users'[u].free = users[u].free - 1
            /\ \A w \in Users \ {u} : users'[w] = users[w]
        BY <1>types, <3>1, TakeFreeEffect
      <3> QED BY <1>types, <1>before, <2>1, <3>1, <3>2, BookTypes
    <2> QED BY <2>2, <2>3
  <1>2. ASSUME NEW u \in Users, NEW delta \in RewardDeltas, Reward(u, delta) PROVE Goal
    <2>1. delta \in Int
      BY LedgerAssumption
    <2>2. /\ AddPoints(u, delta) /\ earned' = [earned EXCEPT ![u] = @ + delta]
          /\ spent' = spent /\ downloads' = downloads
      BY <1>2 DEF Reward
    <2>3. /\ users'[u].points = users[u].points + delta
          /\ users'[u].free = users[u].free
          /\ \A w \in Users \ {u} : users'[w] = users[w]
      BY <1>types, <2>1, <2>2, AddPointsEffect
    <2> QED BY <1>types, <1>before, <2>1, <2>2, <2>3, BookTypes
  <1>3. ASSUME NEW p \in Procs, CommitCheckin(p) PROVE Goal
    <2> DEFINE u == req[p].user
    <2>1. /\ AddPoints(u, 1) /\ earned' = [earned EXCEPT ![u] = @ + 1]
          /\ spent' = spent /\ downloads' = downloads
      BY <1>3 DEF CommitCheckin
    <2>2. /\ users'[u].points = users[u].points + 1
          /\ users'[u].free = users[u].free
          /\ \A w \in Users \ {u} : users'[w] = users[w]
      BY <1>types, <2>1, AddPointsEffect
    <2> QED BY <1>types, <1>before, <2>1, <2>2, BookTypes
  <1>4. ASSUME NEW u \in Users, NEW delta \in AdjustDeltas, AdjustUserPoints(u, delta) PROVE Goal
    <2> DEFINE balance == IF users[u].points + delta < 0 THEN 0 ELSE users[u].points + delta
    <2>1. balance \in Int
      BY LedgerAssumption, BookTypes
    <2>2. /\ users' = [users EXCEPT ![u].points = balance]
          /\ earned' = [earned EXCEPT ![u] = @ + (balance - users[u].points)]
          /\ spent' = spent /\ downloads' = downloads
      BY <1>4 DEF AdjustUserPoints
    <2> HIDE DEF balance
    <2>3. /\ users'[u].points = balance
          /\ users'[u].free = users[u].free
          /\ \A w \in Users \ {u} : users'[w] = users[w]
      BY <1>types, <2>1, <2>2, SetPointsEffect
    <2> QED BY <1>types, <1>before, <2>1, <2>2, <2>3, BookTypes
  <1>5. ASSUME NEW u \in Users, BindEmail(u) PROVE Goal
    <2>1. /\ users' = [users EXCEPT ![u].verified = TRUE]
          /\ earned' = earned /\ spent' = spent /\ downloads' = downloads
      BY <1>5 DEF BindEmail
    <2> QED BY <1>types, <1>before, <2>1, VerifyEffect
  <1>6. CASE UNCHANGED <<users, earned, spent, downloads>>
    BY <1>6, <1>before
  <1> QED
    BY <1>1, <1>2, <1>3, <1>4, <1>5, <1>6
    DEF AccountNext, BeginDownload, BeginCheckin, EnterCheckin, RefuseCheckin, Rollback, Midnight, vars

\* The points of an account are what its journal adds up to, for any number of
\* interleaved downloads, rewards, check-ins and adjustments.
THEOREM LedgerHolds == AccountSpec => []LedgerMatchesPoints
  <1>1. Books => LedgerMatchesPoints
    BY DEF Books
  <1> QED BY <1>1, InitBooks, BooksNext, AccountTypeCorrect, PTL DEF AccountSpec

\* Every download row was charged for exactly once.
THEOREM DownloadsArePaid == AccountSpec => []DownloadsPaid
  <1>1. Books => DownloadsPaid
    BY DEF Books
  <1> QED BY <1>1, InitBooks, BooksNext, AccountTypeCorrect, PTL DEF AccountSpec

-----------------------------------------------------------------------------
\* The daily check-in

\* A request past the count holds its user's lock, so there is one per user ...
HolderInv == \A p \in Procs : req[p].stage = "checkin" => lock[req[p].user] = p

\* ... and what it has counted stays true until it commits.
CountInv == \A p \in Procs : req[p].stage = "checkin" => Rows(req[p].user, req[p].window) = 0

CheckinInv == HolderInv /\ CountInv /\ OwnDayCheckinOnce

LEMMA InitCheckinInv == Init => CheckinInv
  BY DEF Init, CheckinInv, HolderInv, CountInv, OwnDayCheckinOnce, NoRequest

LEMMA CheckinInvNext == TypeOK /\ CheckinInv /\ [Next]_vars => CheckinInv'
  <1> SUFFICES ASSUME TypeOK, CheckinInv, [Next]_vars PROVE CheckinInv'
    OBVIOUS
  <1> USE DEF CheckinInv
  \* A step that neither touches the lock nor the rows, and starts or ends no
  \* counted check-in.
  <1>1. ASSUME checkins' = checkins, lock' = lock,
               \A p \in Procs : req'[p].stage = "checkin" => req'[p] = req[p]
        PROVE  CheckinInv'
    BY <1>1 DEF HolderInv, CountInv, OwnDayCheckinOnce, Rows
  <1>2. ASSUME NEW p \in Procs, NEW r, r.stage # "checkin", req' = [req EXCEPT ![p] = r]
        PROVE  \A q \in Procs : req'[q].stage = "checkin" => req'[q] = req[q]
    BY <1>2 DEF TypeOK
  <1>3. NoRequest.stage # "checkin"
    BY DEF NoRequest
  <1>4. ASSUME NEW p \in Procs, NEW u \in Users,
               BeginDownload(p, u) \/ BeginCheckin(p, u) \/ BeginSave(p, u)
        PROVE  CheckinInv'
    <2>1. checkins' = checkins /\ lock' = lock
      BY <1>4 DEF BeginDownload, BeginCheckin, BeginSave
    <2>2. \A q \in Procs : req'[q].stage = "checkin" => req'[q] = req[q]
      BY <1>4 DEF BeginDownload, BeginCheckin, BeginSave, Start, TypeOK
    <2> QED BY <1>1, <2>1, <2>2
  <1>5. ASSUME NEW p \in Procs, CommitDownload(p) \/ RefuseCheckin(p) \/ CommitSave(p)
        PROVE  CheckinInv'
    <2>1. checkins' = checkins /\ lock' = lock /\ Finish(p)
      BY <1>5 DEF CommitDownload, RefuseCheckin, CommitSave
    <2> QED BY <1>1, <1>2, <1>3, <2>1 DEF Finish
  <1>6. ASSUME NEW p \in Procs, EnterCheckin(p) PROVE CheckinInv'
    <2> DEFINE u == req[p].user
    <2>1. /\ u \in Users /\ lock[u] = NoProc /\ Rows(u, req[p].window) = 0
          /\ lock' = [lock EXCEPT ![u] = p] /\ checkins' = checkins
          /\ req' = [req EXCEPT ![p] = [stage |-> "checkin", user |-> u, seen |-> NoRow,
                                        window |-> req[p].window]]
      BY <1>6 DEF EnterCheckin, Start, TypeOK, Request
    <2>2. \A q \in Procs \ {p} : req'[q] = req[q] /\ (req[q].stage = "checkin" => req[q].user # u)
      BY <2>1, LedgerAssumption DEF HolderInv, TypeOK
    <2>3. HolderInv' /\ CountInv'
      BY <2>1, <2>2 DEF HolderInv, CountInv, Rows, TypeOK
    <2> QED BY <2>1, <2>3 DEF OwnDayCheckinOnce
  <1>7. ASSUME NEW p \in Procs, CommitCheckin(p) PROVE CheckinInv'
    <2> DEFINE u == req[p].user
    <2>1. /\ u \in Users /\ day \in Days /\ lock[u] = p /\ Rows(u, req[p].window) = 0
          /\ lock' = [lock EXCEPT ![u] = NoProc] /\ req' = [req EXCEPT ![p] = NoRequest]
          /\ day' = day
      BY <1>7 DEF CommitCheckin, Finish, HolderInv, CountInv, TypeOK, Request
    <2>2. \A q \in Procs : req'[q].stage = "checkin" =>
             q # p /\ req'[q] = req[q] /\ req[q].user \in Users /\ req[q].user # u
      BY <1>3, <2>1 DEF HolderInv, TypeOK, Request
    <2>3. HolderInv'
      BY <2>1, <2>2 DEF HolderInv, TypeOK
    <2>4. \A w \in Users, d \in Days : (w # u \/ d # day) => checkins'[w][d] = checkins[w][d]
      BY <1>7, CheckinEffect
    <2>5. \A q \in Procs : req[q].window \in Days
      BY DEF TypeOK, Request
    <2>6. CountInv'
      <3>1. ASSUME NEW q \in Procs, req'[q].stage = "checkin"
            PROVE  Rows(req[q].user, req[q].window) = 0
        BY <2>2, <3>1 DEF CountInv
      <3>2. ASSUME NEW q \in Procs, req'[q].stage = "checkin"
            PROVE  checkins'[req[q].user][req[q].window] = checkins[req[q].user][req[q].window]
        <4>1. req[q].user \in Users /\ req[q].user # u /\ req[q].window \in Days
          BY <2>2, <2>5, <3>2
        <4> QED BY <2>4, <4>1
      <3> HIDE DEF u
      <3> QED BY <2>2, <3>1, <3>2 DEF CountInv, Rows
    <2>7. checkins[u][day].own \in Nat /\ checkins[u][day].late \in Nat
      BY <2>1 DEF TypeOK, CheckinCount
    <2>8. checkins'[u][day].own <= 1
      <3>1. CASE req[p].window = day
        <4>1. checkins[u][day].own = 0
          BY <2>1, <2>7, <3>1 DEF Rows
        <4>2. checkins'[u][day].own = checkins[u][day].own + 1
          BY <1>7, <3>1, CheckinEffect
        <4> QED BY <4>1, <4>2
      <3>2. CASE req[p].window # day
        <4>1. checkins'[u][day].own = checkins[u][day].own
          BY <1>7, <3>2, CheckinEffect
        <4> QED BY <2>1, <4>1 DEF OwnDayCheckinOnce
      <3> QED BY <3>1, <3>2
    <2>9. OwnDayCheckinOnce'
      BY <2>4, <2>8 DEF OwnDayCheckinOnce
    <2> QED BY <2>3, <2>6, <2>9
  <1>8. ASSUME NEW p \in Procs, Rollback(p) PROVE CheckinInv'
    <2>1. /\ checkins' = checkins /\ req' = [req EXCEPT ![p] = NoRequest]
          /\ lock' = [w \in Users |-> IF lock[w] = p THEN NoProc ELSE lock[w]]
      BY <1>8 DEF Rollback, Finish
    <2>2. \A q \in Procs : req'[q].stage = "checkin" => q # p /\ req'[q] = req[q]
      BY <1>3, <2>1 DEF TypeOK
    <2>3. \A q \in Procs : req[q].user \in Users
      BY DEF TypeOK, Request
    <2> QED BY <2>1, <2>2, <2>3 DEF HolderInv, CountInv, OwnDayCheckinOnce, Rows
  <1>9. CASE UNCHANGED <<checkins, lock, req>>
    BY <1>1, <1>9
  <1> QED
    BY <1>4, <1>5, <1>6, <1>7, <1>8, <1>9
    DEF Next, AccountNext, RowEditNext, Reward, AdjustUserPoints, BindEmail, Midnight, vars

\* No two check-ins that insert their row on the day they have counted both
\* succeed, whatever else runs, the saves of administrators included.
THEOREM CheckinOnce == Spec => []OwnDayCheckinOnce
  <1>1. CheckinInv => OwnDayCheckinOnce
    BY DEF CheckinInv
  <1> QED BY <1>1, InitCheckinInv, CheckinInvNext, TypeCorrect, PTL DEF Spec

-----------------------------------------------------------------------------
\* How far an account can be overdrawn

\* Of the requests in progress there are at most as many as goroutines.
LEMMA RequestCount ==
    ASSUME NEW S \in SUBSET Procs
    PROVE  /\ Cardinality(S) \in Nat /\ Cardinality(Procs) \in Nat
           /\ Cardinality(S) <= Cardinality(Procs)
  BY LedgerAssumption, FS_Subset, FS_CardinalityType

\* A smaller set of requests counts no more.
LEMMA FewerRequests ==
    ASSUME NEW S \in SUBSET Procs, NEW T \in SUBSET S
    PROVE  Cardinality(T) <= Cardinality(S)
  <1>1. IsFiniteSet(S)
    BY LedgerAssumption, FS_Subset
  <1> QED BY <1>1, FS_Subset

\* A request that ends is one less.
LEMMA OneRequestLess ==
    ASSUME NEW S \in SUBSET Procs, NEW p \in S
    PROVE  Cardinality(S \ {p}) = Cardinality(S) - 1
  <1>1. IsFiniteSet(S)
    BY LedgerAssumption, FS_Subset
  <1> QED BY <1>1, FS_RemoveElement

LEMMA InitOverdraft == Init => OverdraftBounded
  <1> SUFFICES ASSUME Init, NEW u \in Users
               PROVE  /\ users[u].points >= Cardinality(InFlight(u, TRUE)) - Cardinality(Procs)
                      /\ users[u].free >= Cardinality(InFlight(u, FALSE)) - Cardinality(Procs)
    BY DEF OverdraftBounded
  <1> DEFINE all == Cardinality(Procs)
             paying == Cardinality(InFlight(u, TRUE))
             granted == Cardinality(InFlight(u, FALSE))
  <1>1. InFlight(u, TRUE) \in SUBSET Procs /\ InFlight(u, FALSE) \in SUBSET Procs
    BY DEF InFlight
  <1>2. paying \in Nat /\ all \in Nat /\ paying <= all
    BY <1>1, RequestCount
  <1>3. granted \in Nat /\ granted <= all
    BY <1>1, RequestCount
  <1>4. users[u].points \in Nat /\ users[u].free \in Nat
    BY LedgerAssumption DEF Init, NewUser
  <1> HIDE DEF all, paying, granted
  <1>5. users[u].points >= paying - all /\ users[u].free >= granted - all
    BY <1>2, <1>3, <1>4
  <1> QED BY <1>5 DEF all, paying, granted

LEMMA OverdraftNext == TypeOK /\ OverdraftBounded /\ [AccountNext]_vars => OverdraftBounded'
  <1> SUFFICES ASSUME TypeOK, OverdraftBounded, [AccountNext]_vars, NEW v \in Users
               PROVE  /\ users'[v].points >= Cardinality(InFlight(v, TRUE)') - Cardinality(Procs)
                      /\ users'[v].free >= Cardinality(InFlight(v, FALSE)') - Cardinality(Procs)
    BY DEF OverdraftBounded
  <1> DEFINE all == Cardinality(Procs)
             paying == Cardinality(InFlight(v, TRUE))
             granted == Cardinality(InFlight(v, FALSE))
             payingNext == Cardinality(InFlight(v, TRUE)')
             grantedNext == Cardinality(InFlight(v, FALSE)')
             Goal == /\ users'[v].points >= payingNext - all
                     /\ users'[v].free >= grantedNext - all
             NoNewPaying == InFlight(v, TRUE)' \subseteq InFlight(v, TRUE)
             NoNewGranted == InFlight(v, FALSE)' \subseteq InFlight(v, FALSE)
  <1>types. /\ users \in [Users -> Row] /\ users[v].points \in Int /\ users[v].free \in Int
            /\ \A p \in Procs : req[p].user \in Users
    BY DEF TypeOK, Request, Row
  <1>before. users[v].points >= paying - all /\ users[v].free >= granted - all
    BY DEF OverdraftBounded
  <1>sets. /\ InFlight(v, TRUE) \in SUBSET Procs /\ InFlight(v, TRUE)' \in SUBSET Procs
           /\ InFlight(v, FALSE) \in SUBSET Procs /\ InFlight(v, FALSE)' \in SUBSET Procs
    BY DEF InFlight
  <1>numbers. /\ all \in Nat /\ paying \in Nat /\ granted \in Nat
              /\ payingNext \in Nat /\ payingNext <= all
              /\ grantedNext \in Nat /\ grantedNext <= all
    <2>1. all \in Nat /\ paying \in Nat
      BY <1>sets, RequestCount
    <2>2. granted \in Nat
      BY <1>sets, RequestCount
    <2>3. payingNext \in Nat /\ payingNext <= all
      BY <1>sets, RequestCount
    <2>4. grantedNext \in Nat /\ grantedNext <= all
      BY <1>sets, RequestCount
    <2> HIDE DEF all, paying, granted, payingNext, grantedNext
    <2> QED BY <2>1, <2>2, <2>3, <2>4
  <1>fewer. (NoNewPaying => payingNext <= paying) /\ (NoNewGranted => grantedNext <= granted)
    <2>1. ASSUME NoNewPaying PROVE payingNext <= paying
      BY <1>sets, <2>1, FewerRequests
    <2>2. ASSUME NoNewGranted PROVE grantedNext <= granted
      BY <1>sets, <2>2, FewerRequests
    <2> HIDE DEF paying, granted, payingNext, grantedNext, NoNewPaying, NoNewGranted
    <2> QED BY <2>1, <2>2
  <1> SUFFICES Goal
    OBVIOUS
  <1> HIDE DEF all, paying, granted, payingNext, grantedNext
  \* A step that starts no download and takes nothing.
  <1>1. ASSUME NoNewPaying, NoNewGranted,
               users'[v].points \in Int, users'[v].free \in Int,
               users'[v].points >= users[v].points \/ users'[v].points >= 0,
               users'[v].free >= users[v].free
        PROVE  Goal
    <2>1. payingNext <= paying /\ grantedNext <= granted
      BY <1>1, <1>fewer
    <2> HIDE DEF NoNewPaying, NoNewGranted
    <2>2. users'[v].points >= payingNext - all
      BY <1>1, <1>types, <1>before, <1>numbers, <2>1
    <2>3. users'[v].free >= grantedNext - all
      BY <1>1, <1>types, <1>before, <1>numbers, <2>1
    <2> QED BY <2>2, <2>3
  <1>2. ASSUME NEW p \in Procs, NEW r, r.stage # "download", req' = [req EXCEPT ![p] = r]
        PROVE  NoNewPaying /\ NoNewGranted
    BY <1>2 DEF TypeOK, InFlight
  <1>3. NoRequest.stage # "download"
    BY DEF NoRequest
  <1>4. ASSUME NEW p \in Procs, NEW u \in Users, BeginDownload(p, u) PROVE Goal
    <2>1. /\ users' = users /\ MayDownload(users[u])
          /\ req' = [req EXCEPT ![p] = [stage |-> "download", user |-> u, seen |-> users[u],
                                        window |-> 0]]
      BY <1>4 DEF BeginDownload, Start
    <2>2. users[u].verified \in BOOLEAN
      BY <1>types DEF Row
    <2>3. (v # u \/ ~users[u].verified) => NoNewPaying
      BY <2>1, <2>2 DEF InFlight, TypeOK
    <2>4. (v # u \/ users[u].verified) => NoNewGranted
      BY <2>1, <2>2 DEF InFlight, TypeOK
    <2>5. CASE v # u
      <3>1. NoNewPaying /\ NoNewGranted
        BY <2>3, <2>4, <2>5
      <3> HIDE DEF NoNewPaying, NoNewGranted, Goal
      <3> QED BY <1>1, <1>types, <2>1, <3>1
    <2>6. CASE v = u /\ users[u].verified
      <3>1. users'[v].points >= 1 /\ users'[v].free = users[v].free
        BY <2>1, <2>6 DEF MayDownload, DownloadCost
      <3>2. grantedNext <= granted
        BY <1>fewer, <2>4, <2>6
      <3>3. users'[v].points \in Int
        BY <1>types, <2>1
      <3> QED BY <1>types, <1>before, <1>numbers, <3>1, <3>2, <3>3
    <2>7. CASE v = u /\ ~users[u].verified
      <3>1. users'[v].free >= 1 /\ users'[v].points = users[v].points
        BY <1>types, <2>1, <2>7 DEF MayDownload
      <3>2. payingNext <= paying
        BY <1>fewer, <2>3, <2>7
      <3>3. users'[v].free \in Int
        BY <1>types, <2>1
      <3> QED BY <1>types, <1>before, <1>numbers, <3>1, <3>2, <3>3
    <2> QED BY <2>2, <2>5, <2>6, <2>7
  <1>5. ASSUME NEW p \in Procs, CommitDownload(p) PROVE Goal
    <2> DEFINE u == req[p].user
    <2>1. req[p].stage = "download" /\ u \in Users /\ req' = [req EXCEPT ![p] = NoRequest]
          /\ req[p].seen.verified \in BOOLEAN
      BY <1>5 DEF CommitDownload, Finish, TypeOK, Request, Row
    <2>2. NoNewPaying /\ NoNewGranted
      <3> HIDE DEF NoNewPaying, NoNewGranted
      <3> QED BY <1>2, <1>3, <2>1
    <2>3. payingNext <= paying /\ grantedNext <= granted
      BY <1>fewer, <2>2
    <2>4. CASE req[p].seen.verified
      <3>1. DownloadCost = 1 /\ -DownloadCost \in Int /\ AddPoints(u, -DownloadCost)
        BY <1>5, <2>4 DEF CommitDownload, DownloadCost
      <3>2. /\ users'[u].points = users[u].points - 1
            /\ users'[u].free = users[u].free
            /\ \A w \in Users \ {u} : users'[w] = users[w]
        BY <1>types, <2>1, <3>1, AddPointsEffect
      <3>3. CASE v = u
        <4>1. p \in InFlight(v, TRUE) /\ InFlight(v, TRUE)' = InFlight(v, TRUE) \ {p}
          BY <1>3, <2>1, <2>4, <3>3 DEF InFlight, TypeOK
        <4>2. payingNext = paying - 1
          BY <1>sets, <4>1, OneRequestLess DEF paying, payingNext
        <4>3. users'[v].points = users[v].points - 1 /\ users'[v].free = users[v].free
          BY <3>2, <3>3
        <4> QED BY <1>types, <1>before, <1>numbers, <2>3, <4>2, <4>3
      <3>4. CASE v # u
        <4>1. users'[v] = users[v]
          BY <3>2, <3>4
        <4> HIDE DEF NoNewPaying, NoNewGranted, Goal
        <4> QED BY <1>1, <1>types, <2>2, <4>1
      <3> QED BY <3>3, <3>4
    <2>5. CASE ~req[p].seen.verified
      <3>1. users' = [users EXCEPT ![u].free = @ - 1]
        BY <1>5, <2>5 DEF CommitDownload
      <3>2. /\ users'[u].points = users[u].points
            /\ users'[u].free = users[u].free - 1
            /\ \A w \in Users \ {u} : users'[w] = users[w]
        BY <1>types, <2>1, <3>1, TakeFreeEffect
      <3>3. CASE v = u
        <4>1. p \in InFlight(v, FALSE) /\ InFlight(v, FALSE)' = InFlight(v, FALSE) \ {p}
          BY <1>3, <2>1, <2>5, <3>3 DEF InFlight, TypeOK
        <4>2. grantedNext = granted - 1
          BY <1>sets, <4>1, OneRequestLess DEF granted, grantedNext
        <4>3. users'[v].points = users[v].points /\ users'[v].free = users[v].free - 1
          BY <3>2, <3>3
        <4> QED BY <1>types, <1>before, <1>numbers, <2>3, <4>2, <4>3
      <3>4. CASE v # u
        <4>1. users'[v] = users[v]
          BY <3>2, <3>4
        <4> HIDE DEF NoNewPaying, NoNewGranted, Goal
        <4> QED BY <1>1, <1>types, <2>2, <4>1
      <3> QED BY <3>3, <3>4
    <2> QED BY <2>1, <2>4, <2>5
  <1>6. ASSUME req' = req PROVE NoNewPaying /\ NoNewGranted
    BY <1>6 DEF InFlight
  <1> HIDE DEF NoNewPaying, NoNewGranted, Goal
  <1>7. ASSUME NEW u \in Users, NEW delta \in RewardDeltas, Reward(u, delta) PROVE Goal
    <2>1. delta \in Nat /\ delta \in Int /\ AddPoints(u, delta) /\ req' = req
      BY <1>7, LedgerAssumption DEF Reward
    <2>2. /\ users'[u].points = users[u].points + delta /\ users'[u].free = users[u].free
          /\ \A w \in Users \ {u} : users'[w] = users[w]
      BY <1>types, <2>1, AddPointsEffect
    <2>3. users'[v].points \in Int /\ users'[v].points >= users[v].points /\ users'[v].free = users[v].free
      BY <1>types, <2>1, <2>2
    <2> QED BY <1>1, <1>6, <1>types, <2>1, <2>3
  <1>8. ASSUME NEW p \in Procs, CommitCheckin(p) PROVE Goal
    <2>1. AddPoints(req[p].user, 1) /\ req' = [req EXCEPT ![p] = NoRequest]
      BY <1>8 DEF CommitCheckin, Finish
    <2>2. /\ users'[req[p].user].points = users[req[p].user].points + 1
          /\ users'[req[p].user].free = users[req[p].user].free
          /\ \A w \in Users \ {req[p].user} : users'[w] = users[w]
      BY <1>types, <2>1, AddPointsEffect
    <2>3. users'[v].points \in Int /\ users'[v].points >= users[v].points /\ users'[v].free = users[v].free
      BY <1>types, <2>2
    <2>4. NoNewPaying /\ NoNewGranted
      BY <1>2, <1>3, <2>1
    <2> QED BY <1>1, <1>types, <2>3, <2>4
  <1>9. ASSUME NEW u \in Users, NEW delta \in AdjustDeltas, AdjustUserPoints(u, delta) PROVE Goal
    <2> DEFINE balance == IF users[u].points + delta < 0 THEN 0 ELSE users[u].points + delta
    <2>1. balance \in Int /\ balance >= 0
      BY LedgerAssumption, BookTypes
    <2>2. users' = [users EXCEPT ![u].points = balance] /\ req' = req
      BY <1>9 DEF AdjustUserPoints
    <2> HIDE DEF balance
    <2>3. /\ users'[u].points = balance
          /\ users'[u].free = users[u].free
          /\ \A w \in Users \ {u} : users'[w] = users[w]
      BY <1>types, <2>1, <2>2, SetPointsEffect
    <2>4. /\ users'[v].points \in Int /\ users'[v].free = users[v].free
          /\ users'[v].points >= users[v].points \/ users'[v].points >= 0
      BY <1>types, <2>1, <2>3
    <2> QED BY <1>1, <1>6, <1>types, <2>2, <2>4
  <1>10. ASSUME NEW u \in Users, BindEmail(u) PROVE Goal
    <2>1. users'[v].points = users[v].points /\ users'[v].free = users[v].free /\ req' = req
      BY <1>10, <1>types, VerifyEffect DEF BindEmail
    <2> QED BY <1>1, <1>6, <1>types, <2>1
  <1>11. ASSUME users' = users, NoNewPaying, NoNewGranted PROVE Goal
    BY <1>1, <1>11, <1>types
  <1>12. ASSUME NEW p \in Procs, NEW u \in Users, BeginCheckin(p, u) PROVE Goal
    <2>1. /\ users' = users
          /\ req' = [req EXCEPT ![p] = [stage |-> "waitLock", user |-> u, seen |-> NoRow,
                                        window |-> day]]
      BY <1>12 DEF BeginCheckin, Start
    <2> QED BY <1>2, <1>11, <2>1
  <1>13. ASSUME NEW p \in Procs, EnterCheckin(p) PROVE Goal
    <2>1. /\ users' = users
          /\ req' = [req EXCEPT ![p] = [stage |-> "checkin", user |-> req[p].user,
                                        seen |-> NoRow, window |-> req[p].window]]
      BY <1>13 DEF EnterCheckin, Start
    <2> QED BY <1>2, <1>11, <2>1
  <1>14. ASSUME NEW p \in Procs, RefuseCheckin(p) \/ Rollback(p) PROVE Goal
    <2>1. users' = users /\ req' = [req EXCEPT ![p] = NoRequest]
      BY <1>14 DEF RefuseCheckin, Rollback, Finish
    <2> QED BY <1>2, <1>3, <1>11, <2>1
  <1>15. CASE UNCHANGED <<users, req>>
    BY <1>6, <1>11, <1>15
  <1> QED
    BY <1>4, <1>5, <1>7, <1>8, <1>9, <1>10, <1>12, <1>13, <1>14, <1>15
    DEF AccountNext, Midnight, vars

\* An account is never overdrawn by more than one charge per concurrent request.
THEOREM OverdraftIsBounded == AccountSpec => []OverdraftBounded
  BY InitOverdraft, OverdraftNext, AccountTypeCorrect, PTL DEF AccountSpec

-----------------------------------------------------------------------------
\* Check-ins across midnight

\* A window is never ahead of the clock, and no check-in is on a day to come.
LateInv ==
    /\ LateCheckinsBounded
    /\ \A p \in Procs : req[p].window <= day
    /\ \A u \in Users, d \in Days : d > day => checkins[u][d].late = 0

LEMMA InitLateInv == Init => LateInv
  <1> SUFFICES ASSUME Init PROVE LateInv
    OBVIOUS
  <1>1. \A p \in Procs : req[p].stage = "idle" /\ req[p].window = 0
    BY DEF Init, NoRequest
  <1>2. ASSUME NEW u \in Users PROVE Straddling(u) = {}
    BY <1>1 DEF Straddling
  <1>3. Cardinality({}) = 0 /\ Cardinality(Procs) \in Nat
    BY FS_EmptySet, FS_CardinalityType, LedgerAssumption
  <1>4. day = 0 /\ day \in Days /\ \A u \in Users, d \in Days : checkins[u][d].late = 0
    BY LedgerAssumption DEF Init, Days
  <1>5. \A u \in Users : Cardinality(Straddling(u)) = 0
    BY <1>2, <1>3
  <1>6. LateCheckinsBounded
    BY <1>3, <1>4, <1>5 DEF LateCheckinsBounded
  <1> QED BY <1>1, <1>4, <1>6 DEF LateInv

LEMMA LateInvNext == TypeOK /\ LateInv /\ [Next]_vars => LateInv'
  <1> SUFFICES ASSUME TypeOK, LateInv, [Next]_vars PROVE LateInv'
    OBVIOUS
  <1> DEFINE all == Cardinality(Procs)
             Waiting(u) == Cardinality(Straddling(u))
  <1>types. /\ day \in Days /\ day \in Nat /\ all \in Nat
            /\ \A p \in Procs : req[p].user \in Users /\ req[p].window \in Days
            /\ \A d \in Days : d \in Nat
            /\ \A u \in Users, d \in Days : checkins[u][d].late \in Nat
    <2>1. day \in Days /\ \A d \in Days : d \in Nat
      BY LedgerAssumption DEF TypeOK, Days
    <2>2. all \in Nat
      BY FS_CardinalityType, LedgerAssumption
    <2>3. \A p \in Procs : req[p].user \in Users /\ req[p].window \in Days
      BY DEF TypeOK, Request
    <2>4. \A u \in Users, d \in Days : checkins[u][d].late \in Nat
      BY DEF TypeOK, CheckinCount
    <2> QED BY <2>1, <2>2, <2>3, <2>4
  <1>before. /\ \A p \in Procs : req[p].window <= day
             /\ \A u \in Users, d \in Days : d > day => checkins[u][d].late = 0
             /\ \A u \in Users : checkins[u][day].late + Waiting(u) <= all
             /\ \A u \in Users, d \in Days : checkins[u][d].late <= all
    BY DEF LateInv, LateCheckinsBounded
  <1>sets. \A u \in Users : Straddling(u) \in SUBSET Procs /\ Straddling(u)' \in SUBSET Procs
    BY DEF Straddling
  <1>numbers. \A u \in Users : /\ Waiting(u) \in Nat /\ Waiting(u)' \in Nat
                               /\ Waiting(u)' <= all
    BY <1>sets, RequestCount
  <1> HIDE DEF all
  \* A step on the same day, after which no more check-ins straddle its midnight and no
  \* check-in has come in.
  <1>1. ASSUME day' = day, checkins' = checkins,
               \A p \in Procs : req'[p].window <= day,
               \A u \in Users : Straddling(u)' \subseteq Straddling(u)
        PROVE  LateInv'
    <2>1. ASSUME NEW u \in Users PROVE Waiting(u)' <= Waiting(u)
      BY <1>1, <1>sets, FewerRequests
    <2> HIDE DEF Waiting
    <2>2. ASSUME NEW u \in Users PROVE checkins[u][day].late + Waiting(u)' <= all
      BY <1>before, <1>types, <1>numbers, <2>1
    <2> QED BY <1>1, <1>before, <2>2 DEF LateInv, LateCheckinsBounded, Waiting, all
  \* The request of p becomes r, which straddles no midnight unless p's did, for the same user.
  <1>2. ASSUME NEW p \in Procs, NEW r, r.window <= day,
               r.stage \in {"waitLock", "checkin"} =>
                  \/ r.window = day
                  \/ /\ req[p].stage \in {"waitLock", "checkin"}
                     /\ r.user = req[p].user /\ r.window = req[p].window,
               req' = [req EXCEPT ![p] = r], day' = day, checkins' = checkins
        PROVE  LateInv'
    <2>1. \A q \in Procs : req'[q].window <= day
      BY <1>2, <1>before DEF TypeOK
    <2>2. \A u \in Users : Straddling(u)' \subseteq Straddling(u)
      BY <1>2, <1>types DEF Straddling, TypeOK
    <2> QED BY <1>1, <1>2, <2>1, <2>2
  <1>3. NoRequest.stage = "idle" /\ NoRequest.window = 0
    BY DEF NoRequest
  <1>4. ASSUME NEW p \in Procs, NEW u \in Users,
               BeginDownload(p, u) \/ BeginCheckin(p, u) \/ BeginSave(p, u)
        PROVE  LateInv'
    <2>1. PICK r : /\ r.stage \in {"download", "save"} \/ r.window = day
                   /\ r.window \in {0, day} /\ req' = [req EXCEPT ![p] = r]
      BY <1>4 DEF BeginDownload, BeginCheckin, BeginSave, Start
    <2>2. day' = day /\ checkins' = checkins
      BY <1>4 DEF BeginDownload, BeginCheckin, BeginSave
    <2>3. r.window <= day
      BY <1>types, <2>1
    <2> QED BY <1>2, <2>1, <2>2, <2>3
  <1>5. ASSUME NEW p \in Procs,
               \/ CommitDownload(p) \/ RefuseCheckin(p) \/ CommitSave(p) \/ Rollback(p)
        PROVE  LateInv'
    <2>1. day' = day /\ checkins' = checkins /\ req' = [req EXCEPT ![p] = NoRequest]
      BY <1>5 DEF CommitDownload, RefuseCheckin, CommitSave, Rollback, Finish
    <2>2. NoRequest.window <= day
      BY <1>3, <1>types
    <2> QED BY <1>2, <1>3, <2>1, <2>2
  <1>6. ASSUME NEW p \in Procs, EnterCheckin(p) PROVE LateInv'
    <2> DEFINE r == [stage |-> "checkin", user |-> req[p].user, seen |-> NoRow,
                     window |-> req[p].window]
    <2>1. /\ day' = day /\ checkins' = checkins /\ req' = [req EXCEPT ![p] = r]
          /\ req[p].stage = "waitLock"
      BY <1>6 DEF EnterCheckin, Start
    <2>2. r.stage = "checkin" /\ r.user = req[p].user /\ r.window = req[p].window
      OBVIOUS
    <2> HIDE DEF r
    <2> QED BY <1>2, <1>before, <2>1, <2>2
  <1>7. ASSUME NEW p \in Procs, CommitCheckin(p) PROVE LateInv'
    <2>0. PICK u \in Users : u = req[p].user
      BY <1>types
    <2>1. /\ u \in Users /\ day' = day /\ req' = [req EXCEPT ![p] = NoRequest]
          /\ req[p].stage = "checkin"
      BY <1>7, <1>types DEF CommitCheckin, Finish
    <2>2. \A q \in Procs : req'[q].window <= day
      BY <1>3, <1>before, <1>types, <2>1 DEF TypeOK
    <2>3. \A v \in Users : Straddling(v)' = Straddling(v) \ {p}
      BY <1>3, <2>1 DEF Straddling, TypeOK
    <2>4. \A v \in Users, d \in Days : (v # u \/ d # day) => checkins'[v][d] = checkins[v][d]
      BY <1>7, <2>0, CheckinEffect
    <2>5. CASE req[p].window = day
      <3>1. \A v \in Users, d \in Days : checkins'[v][d].late = checkins[v][d].late
        <4>1. checkins'[u][day].late = checkins[u][day].late
          BY <1>7, <2>0, <2>5, CheckinEffect
        <4> QED BY <2>4, <4>1
      <3>2. ASSUME NEW v \in Users PROVE Waiting(v)' <= Waiting(v)
        BY <1>sets, <2>3, FewerRequests
      <3> HIDE DEF Waiting
      <3>3. ASSUME NEW v \in Users PROVE checkins'[v][day].late + Waiting(v)' <= all
        BY <1>before, <1>types, <1>numbers, <3>1, <3>2
      <3> QED BY <1>before, <1>types, <2>1, <2>2, <3>1, <3>3 DEF LateInv, LateCheckinsBounded, Waiting, all
    <2>6. CASE req[p].window # day
      <3>1. p \in Straddling(u)
        <4>1. req[p].window < day
          <5>1. req[p].window \in Nat /\ req[p].window <= day
            BY <1>before, <1>types
          <5> QED BY <1>types, <2>6, <5>1
        <4> QED BY <2>0, <2>1, <4>1 DEF Straddling
      <3>2. Waiting(u)' = Waiting(u) - 1
        <4>1. Straddling(u) \in SUBSET Procs /\ Straddling(u)' = Straddling(u) \ {p}
          BY <1>sets, <2>1, <2>3
        <4> QED BY <3>1, <4>1, OneRequestLess
      <3>3. checkins'[u][day].late = checkins[u][day].late + 1
        BY <1>7, <2>0, <2>6, CheckinEffect
      <3>4. ASSUME NEW v \in Users PROVE Waiting(v)' <= Waiting(v)
        BY <1>sets, <2>3, FewerRequests
      <3> HIDE DEF Waiting
      <3>5. checkins'[u][day].late + Waiting(u)' <= all
        BY <1>before, <1>types, <1>numbers, <2>1, <3>2, <3>3
      <3>6. ASSUME NEW v \in Users PROVE checkins'[v][day].late + Waiting(v)' <= all
        <4>1. CASE v = u
          BY <3>5, <4>1 DEF Waiting
        <4>2. CASE v # u
          <5>1. checkins'[v][day].late = checkins[v][day].late
            BY <1>types, <2>4, <4>2
          <5> QED BY <1>before, <1>types, <1>numbers, <3>4, <5>1
        <4> QED BY <4>1, <4>2
      <3>7. checkins'[u][day].late <= all
        <4>1. Waiting(u)' \in Nat /\ checkins'[u][day].late \in Nat
          BY <1>types, <1>numbers, <2>1, <3>3
        <4> QED BY <1>types, <3>5, <4>1
      <3>8. \A v \in Users, d \in Days : checkins'[v][d].late <= all
        BY <1>before, <2>4, <3>7
      <3>9. ASSUME NEW v \in Users, NEW d \in Days, d > day PROVE checkins'[v][d].late = 0
        <4>1. d \in Nat /\ d # day
          BY <1>types, <3>9 DEF Days
        <4>2. checkins'[v][d] = checkins[v][d]
          BY <2>4, <4>1
        <4>3. checkins[v][d].late = 0
          BY <1>before, <3>9
        <4> QED BY <4>2, <4>3
      <3> QED BY <2>1, <2>2, <3>6, <3>8, <3>9 DEF LateInv, LateCheckinsBounded, Waiting, all
    <2> QED BY <2>5, <2>6
  <1>8. CASE Midnight
    <2>1. day' = day + 1 /\ day' \in Days /\ checkins' = checkins /\ req' = req
      BY <1>8, <1>types, LedgerAssumption DEF Midnight, Days
    <2>2. \A u \in Users : checkins[u][day'].late = 0
      BY <1>before, <1>types, <2>1
    <2> HIDE DEF Waiting
    <2>3. ASSUME NEW u \in Users PROVE checkins'[u][day'].late + Waiting(u)' <= all
      BY <1>numbers, <2>1, <2>2
    <2>4. \A p \in Procs : req'[p].window <= day'
      <3>1. \A p \in Procs : req[p].window \in Nat /\ req[p].window <= day
        BY <1>before, <1>types
      <3> QED BY <1>types, <2>1, <3>1
    <2>5. \A u \in Users, d \in Days : d > day' => checkins'[u][d].late = 0
      BY <1>before, <1>types, <2>1
    <2> QED BY <1>before, <2>1, <2>3, <2>4, <2>5 DEF LateInv, LateCheckinsBounded, Waiting, all
  <1>9. CASE UNCHANGED <<checkins, day, req>>
    <2>1. \A u \in Users : Straddling(u)' = Straddling(u)
      BY <1>9 DEF Straddling
    <2> QED BY <1>1, <1>9, <1>before, <2>1
  <1> QED
    BY <1>4, <1>5, <1>6, <1>7, <1>8, <1>9
    DEF Next, AccountNext, RowEditNext, Reward, AdjustUserPoints, BindEmail, vars

\* A day gets no more check-ins that counted the day before than there are goroutines to
\* wait at its midnight, whatever else runs, the saves of administrators included.
THEOREM LateCheckinsAreFew == Spec => []LateCheckinsBounded
  <1>1. LateInv => LateCheckinsBounded
    BY DEF LateInv
  <1> QED BY <1>1, InitLateInv, LateInvNext, TypeCorrect, PTL DEF Spec
=============================================================================
