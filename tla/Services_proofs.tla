---------------------------- MODULE Services_proofs ----------------------------
(***************************************************************************)
(* Proofs about Access, MailPool, Wiki, Compass and Notifications, for any *)
(* accounts, documents, pages and notices and any finite set of requests,  *)
(* and about RealtimeHub, which delivers the notices: for any number of    *)
(* connections and any sizes of the channels.                              *)
(***************************************************************************)
EXTENDS MCServices, RealtimeHub, FiniteSetTheorems, SequenceTheorems, TLAPS

-----------------------------------------------------------------------------
\* Access

\* What a request is about at every stage: the user and the session it needs are there, and
\* a ban is lifted only where a lapsed one was read.
KnownRequest(r) ==
    /\ r.stage # "idle" => r.user \in Accounts
    /\ r.op \in {"work", "refresh"} => r.session \in Sessions
    /\ r.stage = "asked" => r.op = "refresh"
    /\ r.stage = "lift" => r.row.ban = "lapsed"
    /\ r.stage = "save" => r.op \in {"ban", "unban", "update"}

RequestsKnown == \A c \in Callers : KnownRequest(caller[c])

\* A row of u, in the table or read by a request, counts no violation that is not recorded,
\* and says for ever only with three of them.
KnownRow(row, u) ==
    /\ row.count <= recorded[u]
    /\ row.ban = "forever" /\ row.by = "system" => row.count >= 3

RowsKnown ==
    /\ \A u \in Accounts : KnownRow(account[u], u)
    /\ \A c \in Callers : caller[c].stage # "idle" => KnownRow(caller[c].row, caller[c].user)

\* The bound on violations holds with those that are about to be recorded.
Recording(u) == {c \in Callers : caller[c].stage = "write" /\ caller[c].user = u}

RoomToRecord == \A u \in Accounts : recorded[u] + Cardinality(Recording(u)) <= MaxRecorded

\* Only a refresh token that is on the blacklist has given a pair.
Refreshing(s) == {c \in Callers : caller[c].op = "refresh" /\ caller[c].session = s}

SpentForPairs == \A s \in Sessions : session[s].pairs > 0 => session[s].spent

AccessInv ==
    /\ AccessTypeOK
    /\ RequestsKnown
    /\ RowsKnown
    /\ RoomToRecord
    /\ SpentForPairs
    /\ PairsBounded

\* The values that the types of Access leave to a request.
LEMMA RestingKnown == Resting \in Caller /\ KnownRequest(Resting)
  <1>1. Active(0) \in Account
    BY AccessAssumption DEF Active, Account, Bans
  <1> HIDE DEF Active, Account
  <1> QED BY <1>1, AccessAssumption DEF Resting, Caller, KnownRequest

LEMMA AccessInit_Inv == AccessInit => AccessInv
  <1> SUFFICES ASSUME AccessInit PROVE AccessInv
    OBVIOUS
  <1>1. /\ account = [u \in Accounts |-> Active(0)]
        /\ recorded = [u \in Accounts |-> 0]
        /\ abuse = [u \in Accounts |-> [hits |-> 0, timed |-> FALSE]]
        /\ session = [s \in Sessions |-> [user |-> Absent, out |-> FALSE, spent |-> FALSE, pairs |-> 0]]
        /\ caller = [c \in Callers |-> Resting]
    BY DEF AccessInit
  <1>2. Active(0) \in Account /\ Active(0).ban = "none" /\ Active(0).count = 0
    BY AccessAssumption DEF Active, Account, Bans
  <1>3. Cardinality(Callers) \in Nat /\ AbuseLimit + 1 \in Nat
    BY FS_CardinalityType, AccessAssumption
  <1>4. AccessTypeOK
    BY <1>1, <1>2, <1>3, RestingKnown, AccessAssumption DEF AccessTypeOK
  <1>5. Resting.stage = "idle" /\ Resting.op = "none"
    BY DEF Resting
  <1>6. RequestsKnown
    BY <1>1, RestingKnown DEF RequestsKnown
  <1>7. RowsKnown
    BY <1>1, <1>2, <1>5 DEF RowsKnown, KnownRow
  <1>8. \A u \in Accounts : Recording(u) = {}
    BY <1>1, <1>5 DEF Recording
  <1>9. \A s \in Sessions : Refreshing(s) = {}
    BY <1>1, <1>5 DEF Refreshing
  <1>10. RoomToRecord /\ PairsBounded
    <2>1. Cardinality({}) = 0
      BY FS_EmptySet
    <2>2. \A u \in Accounts : recorded[u] + Cardinality(Recording(u)) <= MaxRecorded
      <3>1. \A u \in Accounts : recorded[u] = 0 /\ Cardinality(Recording(u)) = 0
        BY <1>1, <1>8, <2>1
      <3> QED BY <3>1, AccessAssumption
    <2>3. \A s \in Sessions : session[s].pairs + Cardinality(Refreshing(s)) <= Cardinality(Callers)
      <3>1. \A s \in Sessions : session[s].pairs = 0 /\ Cardinality(Refreshing(s)) = 0
        BY <1>1, <1>9, <2>1
      <3> QED BY <1>3, <3>1
    <2> QED BY <2>2, <2>3 DEF RoomToRecord, PairsBounded, Refreshing
  <1>11. SpentForPairs
    BY <1>1 DEF SpentForPairs
  <1> QED BY <1>4, <1>6, <1>7, <1>10, <1>11 DEF AccessInv

\* The variables of Access one by one.
LEMMA AccessTypes ==
    ASSUME AccessTypeOK
    PROVE  /\ account \in [Accounts -> Account]
           /\ recorded \in [Accounts -> 0 .. MaxRecorded]
           /\ abuse \in [Accounts -> [hits : 0 .. AbuseLimit + 1, timed : BOOLEAN]]
           /\ session \in [Sessions -> [user : Accounts \cup {Absent}, out : BOOLEAN, spent : BOOLEAN,
                                        pairs : 0 .. Cardinality(Callers)]]
           /\ caller \in [Callers -> Caller]
  BY DEF AccessTypeOK

\* Of a finite set of requests a smaller one counts no more, and one that ends is one less.
LEMMA FewerCallers ==
    ASSUME NEW S \in SUBSET Callers, NEW T \in SUBSET S
    PROVE  /\ Cardinality(S) \in Nat /\ Cardinality(T) \in Nat /\ Cardinality(Callers) \in Nat
           /\ Cardinality(T) <= Cardinality(S) /\ Cardinality(S) <= Cardinality(Callers)
  <1>1. IsFiniteSet(S)
    BY AccessAssumption, FS_Subset
  <1> QED BY <1>1, AccessAssumption, FS_Subset, FS_CardinalityType

LEMMA OneCallerLess ==
    ASSUME NEW S \in SUBSET Callers, NEW c \in S
    PROVE  Cardinality(S \ {c}) = Cardinality(S) - 1
  <1>1. IsFiniteSet(S)
    BY AccessAssumption, FS_Subset
  <1> QED BY <1>1, FS_RemoveElement

LEMMA OneCallerMore ==
    ASSUME NEW S \in SUBSET Callers, NEW c
    PROVE  Cardinality(S \cup {c}) <= Cardinality(S) + 1
  <1>1. IsFiniteSet(S)
    BY AccessAssumption, FS_Subset
  <1>2. Cardinality(S) \in Nat
    BY <1>1, FS_CardinalityType
  <1> QED BY <1>1, <1>2, FS_AddElement

\* A request goes on: what is known of the requests holds if it holds of that one.
LEMMA CallerBecomes ==
    ASSUME AccessTypeOK, RequestsKnown, NEW c \in Callers, NEW r \in Caller, KnownRequest(r),
           caller' = [caller EXCEPT ![c] = r]
    PROVE  /\ caller' \in [Callers -> Caller]
           /\ RequestsKnown'
           /\ caller'[c] = r
           /\ \A d \in Callers \ {c} : caller'[d] = caller[d]
  <1>1. caller \in [Callers -> Caller]
    BY AccessTypes
  <1>2. /\ caller'[c] = r
        /\ \A d \in Callers \ {c} : caller'[d] = caller[d]
        /\ caller' \in [Callers -> Caller]
    BY <1>1
  <1> QED BY <1>2 DEF RequestsKnown, KnownRequest

\* A step in which no request starts to record a violation or to refresh, and no token is
\* refreshed.
LEMMA QuietAccess ==
    ASSUME AccessInv,
           caller' \in [Callers -> Caller], RequestsKnown',
           account' \in [Accounts -> Account], recorded' = recorded,
           abuse' \in [Accounts -> [hits : 0 .. AbuseLimit + 1, timed : BOOLEAN]],
           session' \in [Sessions -> [user : Accounts \cup {Absent}, out : BOOLEAN, spent : BOOLEAN,
                                      pairs : 0 .. Cardinality(Callers)]],
           \A s \in Sessions : session'[s].pairs = session[s].pairs
                               /\ (session[s].spent => session'[s].spent),
           \A u \in Accounts : KnownRow(account'[u], u),
           \A c \in Callers :
              \/ caller'[c] = caller[c]
              \/ /\ caller'[c].stage # "idle" => KnownRow(caller'[c].row, caller'[c].user)
                 /\ caller'[c].stage # "write"
                 /\ caller'[c].op = "refresh" =>
                       caller[c].op = "refresh" /\ caller'[c].session = caller[c].session
    PROVE  AccessInv'
  <1>1. AccessTypeOK'
    BY AccessTypes DEF AccessTypeOK, AccessInv
  <1>2. RowsKnown'
    BY DEF RowsKnown, KnownRow, AccessInv
  <1>3. ASSUME NEW u \in Accounts
        PROVE  recorded'[u] + Cardinality(Recording(u)') <= MaxRecorded
    <2>1. Recording(u)' \in SUBSET Recording(u) /\ Recording(u) \in SUBSET Callers
      BY DEF Recording
    <2>2. /\ Cardinality(Recording(u)') \in Nat /\ Cardinality(Recording(u)) \in Nat
          /\ Cardinality(Recording(u)') <= Cardinality(Recording(u))
      BY <2>1, FewerCallers
    <2>3. recorded[u] \in Nat /\ recorded[u] + Cardinality(Recording(u)) <= MaxRecorded
      BY AccessTypes, AccessAssumption DEF AccessInv, RoomToRecord
    <2> QED BY <2>2, <2>3, AccessAssumption
  <1>4. ASSUME NEW s \in Sessions
        PROVE  session'[s].pairs + Cardinality(Refreshing(s)') <= Cardinality(Callers)
    <2>1. Refreshing(s)' \in SUBSET Refreshing(s) /\ Refreshing(s) \in SUBSET Callers
      BY DEF Refreshing
    <2>2. /\ Cardinality(Refreshing(s)') \in Nat /\ Cardinality(Refreshing(s)) \in Nat
          /\ Cardinality(Refreshing(s)') <= Cardinality(Refreshing(s))
          /\ Cardinality(Callers) \in Nat
      BY <2>1, FewerCallers
    <2>3. session[s].pairs \in Nat /\ session[s].pairs + Cardinality(Refreshing(s)) <= Cardinality(Callers)
      BY <2>2, AccessTypes DEF AccessInv, PairsBounded, Refreshing
    <2> QED BY <2>2, <2>3
  <1>5. SpentForPairs'
    BY DEF SpentForPairs, AccessInv
  <1>6. RoomToRecord' /\ PairsBounded'
    BY <1>3, <1>4 DEF RoomToRecord, PairsBounded, Refreshing
  <1> QED BY <1>1, <1>2, <1>5, <1>6 DEF AccessInv

\* The same for a step of one request that becomes r and leaves the tables and counters alone.
LEMMA QuietCaller ==
    ASSUME AccessInv, NEW c \in Callers, NEW r \in Caller, KnownRequest(r),
           caller' = [caller EXCEPT ![c] = r],
           UNCHANGED <<account, recorded, abuse, session>>,
           r.stage # "idle" => KnownRow(r.row, r.user),
           r.stage # "write",
           r.op = "refresh" => caller[c].op = "refresh" /\ r.session = caller[c].session
    PROVE  AccessInv'
  <1>1. AccessTypeOK /\ RequestsKnown /\ RowsKnown
    BY DEF AccessInv
  <1>2. /\ caller' \in [Callers -> Caller] /\ RequestsKnown'
        /\ caller'[c] = r /\ \A d \in Callers \ {c} : caller'[d] = caller[d]
    BY <1>1, CallerBecomes
  <1> QED BY <1>1, <1>2, QuietAccess, AccessTypes DEF RowsKnown

\* The access check lets a request in, or has it lift a lapsed ban.
LEMMA EnforceInv ==
    ASSUME AccessInv, NEW c \in Callers, NEW u \in Accounts,
           NEW op \in {"work", "login", "refresh"}, NEW s \in Sessions \cup {Absent},
           op \in {"work", "refresh"} => s \in Sessions,
           op = "refresh" => caller[c].op = "refresh" /\ s = caller[c].session,
           Enforce(c, op, u, s)
    PROVE  AccessInv'
  <1> DEFINE r == [stage |-> IF Lapsed(account[u]) THEN "lift" ELSE "in",
                   op |-> op, user |-> u, session |-> s, row |-> account[u]]
  <1>1. account[u] \in Account /\ KnownRow(account[u], u)
    BY AccessTypes DEF AccessInv, RowsKnown
  <1>2. r \in Caller
    BY <1>1 DEF Caller
  <1>3. KnownRequest(r)
    BY DEF KnownRequest, Lapsed
  <1>4. /\ r.user = u /\ r.row = account[u] /\ r.op = op /\ r.session = s /\ r.stage # "write"
    OBVIOUS
  <1>5. caller' = [caller EXCEPT ![c] = r] /\ UNCHANGED <<account, recorded, abuse, session>>
    BY DEF Enforce
  <1> HIDE DEF r
  <1> QED BY <1>1, <1>2, <1>3, <1>4, <1>5, QuietCaller

LEMMA AccessNext_Inv == AccessInv /\ [AccessNext]_accessVars => AccessInv'
  <1> SUFFICES ASSUME AccessInv, [AccessNext]_accessVars PROVE AccessInv'
    OBVIOUS
  <1> USE AccessAssumption
  <1>inv. /\ AccessTypeOK /\ RequestsKnown /\ RowsKnown
          /\ RoomToRecord /\ SpentForPairs /\ PairsBounded
    BY DEF AccessInv
  <1>types. /\ account \in [Accounts -> Account]
            /\ recorded \in [Accounts -> 0 .. MaxRecorded]
            /\ abuse \in [Accounts -> [hits : 0 .. AbuseLimit + 1, timed : BOOLEAN]]
            /\ session \in [Sessions -> [user : Accounts \cup {Absent}, out : BOOLEAN, spent : BOOLEAN,
                                         pairs : 0 .. Cardinality(Callers)]]
            /\ caller \in [Callers -> Caller]
    BY <1>inv, AccessTypes
  <1>known. \A c \in Callers : /\ caller[c] \in Caller /\ KnownRequest(caller[c])
                               /\ caller[c].stage # "idle" => KnownRow(caller[c].row, caller[c].user)
    BY <1>inv, <1>types DEF RequestsKnown, RowsKnown
  <1>rows. \A u \in Accounts : KnownRow(account[u], u)
    BY <1>inv DEF RowsKnown
  <1>rest. /\ Resting \in Caller /\ KnownRequest(Resting)
           /\ Resting.stage = "idle" /\ Resting.op = "none"
    BY RestingKnown DEF Resting
  \* Requests that return, and change no more than tokens, counters and the row of a user.
  <1>1. ASSUME NEW c \in Callers, Return(c), recorded' = recorded,
               account' \in [Accounts -> Account],
               abuse' \in [Accounts -> [hits : 0 .. AbuseLimit + 1, timed : BOOLEAN]],
               session' \in [Sessions -> [user : Accounts \cup {Absent}, out : BOOLEAN, spent : BOOLEAN,
                                          pairs : 0 .. Cardinality(Callers)]],
               \A s \in Sessions : session'[s].pairs = session[s].pairs
                                   /\ (session[s].spent => session'[s].spent),
               \A u \in Accounts : KnownRow(account'[u], u)
        PROVE  AccessInv'
    <2>1. caller' = [caller EXCEPT ![c] = Resting]
      BY <1>1 DEF Return
    <2>2. /\ caller' \in [Callers -> Caller] /\ RequestsKnown'
          /\ caller'[c] = Resting /\ \A d \in Callers \ {c} : caller'[d] = caller[d]
      BY <1>inv, <1>rest, <2>1, CallerBecomes
    <2> QED BY <1>1, <1>rest, <2>2, QuietAccess
  <1>2. ASSUME NEW c \in Callers, Return(c), UNCHANGED <<account, recorded, abuse, session>>
        PROVE  AccessInv'
    BY <1>1, <1>2, <1>types, <1>rows
  <1>3. ASSUME NEW c \in Callers, NEW s \in Sessions, Authenticate(c, s) PROVE AccessInv'
    <2>1. session[s].user \in Accounts
      BY <1>3, <1>types DEF Authenticate
    <2> QED BY <1>3, <2>1, EnforceInv DEF Authenticate
  <1>4. ASSUME NEW c \in Callers, Lift(c) PROVE AccessInv'
    <2> DEFINE row == Active(account[caller[c].user].count)
    <2>1. PICK u \in Accounts : u = caller[c].user
      BY <1>4, <1>known DEF Lift, KnownRequest
    <2> DEFINE back == Active(account[u].count)
               r == [caller[c] EXCEPT !.stage = "in", !.row = Active(@.count)]
    <2>2. account[u] \in Account /\ account[u].count \in 0 .. MaxRecorded /\ KnownRow(account[u], u)
      BY <1>types, <1>rows DEF Account
    <2>3. back \in Account /\ KnownRow(back, u)
      BY <2>2 DEF Active, Account, Bans, KnownRow
    <2>4. /\ account' = [account EXCEPT ![u] = back]
          /\ caller' = [caller EXCEPT ![c] = r]
          /\ UNCHANGED <<recorded, abuse, session>>
          /\ caller[c].stage = "lift"
      BY <1>4, <1>types, <2>1 DEF Lift
    <2>5. caller[c].row \in Account /\ KnownRow(caller[c].row, u)
      BY <1>known, <2>1, <2>4 DEF Caller
    <2>6. /\ r \in Caller /\ KnownRequest(r) /\ r.stage = "in" /\ r.op = caller[c].op
          /\ r.session = caller[c].session /\ r.user = u /\ KnownRow(r.row, u)
      <3> DEFINE after == Active(caller[c].row.count)
      <3>1. after \in Account /\ KnownRow(after, u)
        BY <2>5 DEF Active, Account, Bans, KnownRow
      <3>2. r = [caller[c] EXCEPT !.stage = "in", !.row = after]
        BY <1>known DEF Caller
      <3> HIDE DEF after, r
      <3> QED BY <1>known, <2>1, <2>4, <3>1, <3>2 DEF Caller, KnownRequest
    <2> HIDE DEF back, r
    <2>7. /\ caller' \in [Callers -> Caller] /\ RequestsKnown'
          /\ caller'[c] = r /\ \A d \in Callers \ {c} : caller'[d] = caller[d]
      BY <1>inv, <2>4, <2>6, CallerBecomes
    <2>8. account' \in [Accounts -> Account] /\ \A v \in Accounts : KnownRow(account'[v], v)
      BY <1>types, <1>rows, <2>3, <2>4
    <2> QED BY <1>types, <2>4, <2>6, <2>7, <2>8, QuietAccess
  <1>5. ASSUME NEW c \in Callers, FinishWork(c) \/ Fail(c) PROVE AccessInv'
    BY <1>2, <1>5 DEF FinishWork, Fail
  <1>6. ASSUME NEW c \in Callers, NEW u \in Accounts, Login(c, u) PROVE AccessInv'
    BY <1>6, EnforceInv DEF Login
  <1>7. ASSUME NEW c \in Callers, NEW s \in Sessions, FinishLogin(c, s) PROVE AccessInv'
    <2> DEFINE u == caller[c].user
    <2>1. /\ session' = [session EXCEPT ![s].user = u] /\ Return(c)
          /\ UNCHANGED <<account, recorded, abuse>> /\ u \in Accounts \cup {Absent}
      BY <1>7, <1>known DEF FinishLogin, Issued, Caller
    <2> QED BY <1>1, <1>types, <1>rows, <2>1
  <1>8. ASSUME NEW c \in Callers, NEW s \in Sessions, BeginRefresh(c, s) PROVE AccessInv'
    <2> DEFINE r == [Resting EXCEPT !.stage = "asked", !.op = "refresh", !.user = session[s].user,
                                    !.session = s]
    <2>1. session[s].user \in Accounts /\ ~session[s].spent /\ caller[c].stage = "idle"
      BY <1>8, <1>types DEF BeginRefresh, Refreshable
    <2>2. Active(0) \in Account /\ Active(0).count = 0 /\ Active(0).ban = "none"
      BY DEF Active, Account, Bans
    <2>3. /\ r.stage = "asked" /\ r.op = "refresh" /\ r.user = session[s].user /\ r.session = s
          /\ r.row = Active(0) /\ r \in Caller
      <3> HIDE DEF Active, Account
      <3> QED BY <2>1, <2>2 DEF Resting, Caller
    <2>4. /\ caller' = [caller EXCEPT ![c] = r]
          /\ UNCHANGED <<account, recorded, abuse, session>>
      BY <1>8 DEF BeginRefresh
    <2> HIDE DEF r
    <2>5. KnownRequest(r) /\ KnownRow(r.row, r.user)
      BY <1>types, <2>1, <2>2, <2>3 DEF KnownRequest, KnownRow
    <2>6. /\ caller' \in [Callers -> Caller] /\ RequestsKnown'
          /\ caller'[c] = r /\ \A d \in Callers \ {c} : caller'[d] = caller[d]
      BY <1>inv, <2>3, <2>4, <2>5, CallerBecomes
    <2>7. AccessTypeOK'
      BY <1>types, <2>4, <2>6 DEF AccessTypeOK
    <2>8. RowsKnown'
      BY <1>known, <1>rows, <2>4, <2>5, <2>6 DEF RowsKnown, KnownRow
    <2>9. \A u \in Accounts : Recording(u)' \in SUBSET Recording(u) /\ Recording(u) \in SUBSET Callers
      BY <2>3, <2>6 DEF Recording
    <2>10. ASSUME NEW u \in Accounts
           PROVE  recorded'[u] + Cardinality(Recording(u)') <= MaxRecorded
      <3>1. /\ Cardinality(Recording(u)') \in Nat /\ Cardinality(Recording(u)) \in Nat
            /\ Cardinality(Recording(u)') <= Cardinality(Recording(u))
        BY <2>9, FewerCallers
      <3>2. recorded[u] \in Nat /\ recorded[u] + Cardinality(Recording(u)) <= MaxRecorded
        BY <1>types, <1>inv DEF RoomToRecord
      <3> QED BY <2>4, <3>1, <3>2
    <2>11. ASSUME NEW t \in Sessions
           PROVE  session'[t].pairs + Cardinality(Refreshing(t)') <= Cardinality(Callers)
      <3>1. /\ Refreshing(t) \in SUBSET Callers /\ Refreshing(t)' \in SUBSET Callers
        BY DEF Refreshing
      <3>2. CASE t = s
        <4>1. session'[t].pairs = 0
          BY <1>inv, <1>types, <2>1, <2>4, <3>2 DEF SpentForPairs
        <4>2. /\ Cardinality(Refreshing(t)') \in Nat
              /\ Cardinality(Refreshing(t)') <= Cardinality(Callers)
          BY <3>1, FewerCallers
        <4> QED BY <4>1, <4>2
      <3>3. CASE t # s
        <4>1. Refreshing(t)' \in SUBSET Refreshing(t)
          BY <2>3, <2>6, <3>3 DEF Refreshing
        <4>2. /\ Cardinality(Refreshing(t)') \in Nat /\ Cardinality(Refreshing(t)) \in Nat
              /\ Cardinality(Refreshing(t)') <= Cardinality(Refreshing(t))
              /\ Cardinality(Callers) \in Nat
          BY <3>1, <4>1, FewerCallers
        <4>3. session[t].pairs \in Nat
              /\ session[t].pairs + Cardinality(Refreshing(t)) <= Cardinality(Callers)
          BY <1>inv, <1>types, <4>2 DEF PairsBounded, Refreshing
        <4> QED BY <2>4, <4>2, <4>3
      <3> QED BY <3>2, <3>3
    <2>12. SpentForPairs'
      BY <1>inv, <2>4 DEF SpentForPairs
    <2>13. RoomToRecord' /\ PairsBounded'
      BY <2>10, <2>11 DEF RoomToRecord, PairsBounded, Refreshing
    <2> QED BY <2>6, <2>7, <2>8, <2>12, <2>13 DEF AccessInv
  <1>9. ASSUME NEW c \in Callers, NEW s \in Sessions, FinishRefresh(c, s) PROVE AccessInv'
    <2>1. PICK old \in Sessions : old = caller[c].session
      BY <1>9, <1>known DEF FinishRefresh, KnownRequest
    <2> DEFINE u == caller[c].user
    <2>2. /\ caller[c].stage = "in" /\ caller[c].op = "refresh"
          /\ caller' = [caller EXCEPT ![c] = Resting]
          /\ UNCHANGED <<account, recorded, abuse>> /\ u \in Accounts \cup {Absent}
      BY <1>9, <1>known DEF FinishRefresh, Return, Caller
    <2>3. PICK given : /\ given = [session EXCEPT ![old].spent = TRUE, ![old].pairs = @ + 1]
                       /\ session' = [given EXCEPT ![s].user = u]
      BY <1>9, <2>1 DEF FinishRefresh, Issued
    <2>4. c \in Refreshing(old) /\ Refreshing(old) \in SUBSET Callers
      BY <2>1, <2>2 DEF Refreshing
    <2>5. /\ caller' \in [Callers -> Caller] /\ RequestsKnown'
          /\ caller'[c] = Resting /\ \A d \in Callers \ {c} : caller'[d] = caller[d]
      BY <1>inv, <1>rest, <2>2, CallerBecomes
    <2>6. /\ Refreshing(old)' = Refreshing(old) \ {c}
          /\ \A t \in Sessions \ {old} : Refreshing(t)' = Refreshing(t)
      BY <1>rest, <2>1, <2>2, <2>5 DEF Refreshing
    <2>7. /\ Cardinality(Refreshing(old)') = Cardinality(Refreshing(old)) - 1
          /\ Cardinality(Refreshing(old)) \in Nat
          /\ Cardinality(Refreshing(old)') \in Nat
      <3>1. Refreshing(old) \ {c} \in SUBSET Refreshing(old)
        OBVIOUS
      <3> QED BY <2>4, <2>6, <3>1, OneCallerLess, FewerCallers
    <2>8. /\ session[old].pairs \in Nat /\ Cardinality(Callers) \in Nat
          /\ session[old].pairs + Cardinality(Refreshing(old)) <= Cardinality(Callers)
      BY <1>inv, <1>types, FS_CardinalityType DEF PairsBounded, Refreshing
    <2>9. session[old].pairs + 1 \in 0 .. Cardinality(Callers)
      BY <2>7, <2>8
    <2>10. /\ given \in [Sessions -> [user : Accounts \cup {Absent}, out : BOOLEAN, spent : BOOLEAN,
                                      pairs : 0 .. Cardinality(Callers)]]
           /\ given[old].spent /\ given[old].pairs = session[old].pairs + 1
           /\ \A t \in Sessions \ {old} : given[t] = session[t]
      <3> DEFINE now == [session[old] EXCEPT !.spent = TRUE, !.pairs = @ + 1]
      <3>1. /\ now \in [user : Accounts \cup {Absent}, out : BOOLEAN, spent : BOOLEAN,
                        pairs : 0 .. Cardinality(Callers)]
            /\ now.spent /\ now.pairs = session[old].pairs + 1
        BY <1>types, <2>9
      <3>2. given = [session EXCEPT ![old] = now]
        BY <1>types, <2>3
      <3> HIDE DEF now
      <3> QED BY <1>types, <3>1, <3>2
    <2>11. /\ session' \in [Sessions -> [user : Accounts \cup {Absent}, out : BOOLEAN, spent : BOOLEAN,
                                         pairs : 0 .. Cardinality(Callers)]]
           /\ session'[old].spent /\ session'[old].pairs = session[old].pairs + 1
           /\ \A t \in Sessions \ {old} : session'[t].pairs = session[t].pairs
                                          /\ session'[t].spent = session[t].spent
      BY <2>2, <2>3, <2>10
    <2>12. AccessTypeOK'
      BY <1>types, <2>2, <2>5, <2>11 DEF AccessTypeOK
    <2>13. RowsKnown'
      BY <1>known, <1>rows, <1>rest, <2>2, <2>5 DEF RowsKnown, KnownRow
    <2>14. ASSUME NEW v \in Accounts PROVE Recording(v)' = Recording(v)
      BY <1>rest, <2>2, <2>5 DEF Recording
    <2>15. RoomToRecord'
      BY <1>inv, <2>2, <2>14 DEF RoomToRecord
    <2>16. SpentForPairs'
      BY <1>inv, <2>11 DEF SpentForPairs
    <2>17. ASSUME NEW t \in Sessions
           PROVE  session'[t].pairs + Cardinality(Refreshing(t)') <= Cardinality(Callers)
      <3>1. CASE t = old
        BY <2>7, <2>8, <2>11, <3>1
      <3>2. CASE t # old
        <4>1. session[t].pairs + Cardinality(Refreshing(t)) <= Cardinality(Callers)
          BY <1>inv DEF PairsBounded, Refreshing
        <4>2. Refreshing(t)' = Refreshing(t) /\ session'[t].pairs = session[t].pairs
          BY <2>6, <2>11, <3>2
        <4> HIDE DEF Refreshing
        <4> QED BY <4>1, <4>2
      <3> QED BY <3>1, <3>2
    <2>18. PairsBounded'
      BY <2>17 DEF PairsBounded, Refreshing
    <2> QED BY <2>5, <2>12, <2>13, <2>15, <2>16, <2>18 DEF AccessInv
  <1>10. ASSUME NEW c \in Callers, CheckRefresh(c) PROVE AccessInv'
    <2>1. caller[c].stage = "asked" /\ Enforce(c, "refresh", caller[c].user, caller[c].session)
      BY <1>10 DEF CheckRefresh
    <2>2. caller[c].op = "refresh" /\ caller[c].user \in Accounts /\ caller[c].session \in Sessions
      BY <1>known, <2>1 DEF KnownRequest
    <2> QED BY <2>1, <2>2, EnforceInv
  <1>11. ASSUME NEW c \in Callers, Logout(c) PROVE AccessInv'
    <2>1. PICK s \in Sessions : s = caller[c].session
      BY <1>11, <1>known DEF Logout, KnownRequest
    <2>2. /\ session' = [session EXCEPT ![s].out = TRUE] /\ Return(c)
          /\ UNCHANGED <<account, recorded, abuse>>
      BY <1>11, <2>1 DEF Logout
    <2> QED BY <1>1, <1>types, <1>rows, <2>2
  <1>12. ASSUME NEW c \in Callers, CountAbuse(c) PROVE AccessInv'
    <2>1. PICK u \in Accounts : u = caller[c].user
      BY <1>12, <1>known DEF CountAbuse, KnownRequest
    <2>2. PICK n \in 0 .. AbuseLimit + 1 : n = Counted(u)
      <3>1. abuse[u].hits \in 0 .. AbuseLimit + 1
        BY <1>types
      <3> QED BY <3>1 DEF Counted
    <2>3. UNCHANGED <<account, recorded, session>> /\ caller[c].stage = "in" /\ caller[c].op = "work"
      BY <1>12 DEF CountAbuse
    <2>4. /\ abuse' \in [Accounts -> [hits : 0 .. AbuseLimit + 1, timed : BOOLEAN]]
          /\ Return(c) \/ caller' = [caller EXCEPT ![c].stage = "read"]
      <3>1. \/ abuse' = [abuse EXCEPT ![u] = [hits |-> n, timed |-> TRUE]]
            \/ abuse' = [abuse EXCEPT ![u].hits = n]
        BY <1>12, <2>1, <2>2 DEF CountAbuse
      <3>2. abuse' \in [Accounts -> [hits : 0 .. AbuseLimit + 1, timed : BOOLEAN]]
        <4>1. CASE abuse' = [abuse EXCEPT ![u] = [hits |-> n, timed |-> TRUE]]
          BY <1>types, <4>1
        <4>2. CASE abuse' = [abuse EXCEPT ![u].hits = n]
          <5> DEFINE counter == [abuse[u] EXCEPT !.hits = n]
          <5>1. counter \in [hits : 0 .. AbuseLimit + 1, timed : BOOLEAN]
            BY <1>types
          <5>2. abuse' = [abuse EXCEPT ![u] = counter]
            BY <1>types, <4>2
          <5> HIDE DEF counter
          <5> QED BY <1>types, <5>1, <5>2
        <4> QED BY <3>1, <4>1, <4>2
      <3> QED BY <1>12, <3>2 DEF CountAbuse
    <2>5. CASE Return(c)
      BY <1>1, <1>types, <1>rows, <2>3, <2>4, <2>5
    <2>6. CASE caller' = [caller EXCEPT ![c].stage = "read"]
      <3> DEFINE r == [caller[c] EXCEPT !.stage = "read"]
      <3>1. /\ r \in Caller /\ r.stage = "read" /\ r.op = "work" /\ r.row = caller[c].row
            /\ r.user = u /\ r.session = caller[c].session
        BY <1>known, <2>1, <2>3 DEF Caller
      <3>2. caller' = [caller EXCEPT ![c] = r]
        BY <1>types, <2>6
      <3> HIDE DEF r
      <3>3. KnownRequest(r) /\ KnownRow(r.row, r.user)
        BY <1>known, <2>1, <2>3, <3>1 DEF KnownRequest
      <3>4. /\ caller' \in [Callers -> Caller] /\ RequestsKnown'
            /\ caller'[c] = r /\ \A d \in Callers \ {c} : caller'[d] = caller[d]
        BY <1>inv, <3>1, <3>2, <3>3, CallerBecomes
      <3> QED BY <1>types, <1>rows, <2>3, <2>4, <3>1, <3>3, <3>4, QuietAccess
    <2> QED BY <2>4, <2>5, <2>6
  <1>13. ASSUME NEW u \in Accounts, EndWindow(u) PROVE AccessInv'
    <2>1. abuse' = [abuse EXCEPT ![u] = [hits |-> 0, timed |-> FALSE]]
          /\ UNCHANGED <<account, recorded, session, caller>>
      BY <1>13 DEF EndWindow
    <2>2. abuse' \in [Accounts -> [hits : 0 .. AbuseLimit + 1, timed : BOOLEAN]]
      BY <1>types, <2>1
    <2>3. RequestsKnown'
      BY <1>inv, <2>1 DEF RequestsKnown
    <2> QED BY <1>types, <1>rows, <2>1, <2>2, <2>3, QuietAccess
  <1>14. ASSUME NEW c \in Callers, ReadViolation(c) PROVE AccessInv'
    <2>1. PICK u \in Accounts : u = caller[c].user
      BY <1>14, <1>known DEF ReadViolation, KnownRequest
    <2> DEFINE r == [caller[c] EXCEPT !.stage = "write", !.row = account[u]]
    <2>2. /\ caller[c].stage = "read"
          /\ recorded[u] + Cardinality(Recording(u)) < MaxRecorded
          /\ UNCHANGED <<account, recorded, abuse, session>>
          /\ caller' = [caller EXCEPT ![c] = r]
      BY <1>14, <1>types, <2>1 DEF ReadViolation, Recording
    <2>3. account[u] \in Account /\ KnownRow(account[u], u)
      BY <1>types, <1>rows
    <2>4. /\ r \in Caller /\ r.stage = "write" /\ r.op = caller[c].op /\ r.row = account[u]
          /\ r.user = u /\ r.session = caller[c].session
      BY <1>known, <2>1, <2>3 DEF Caller
    <2> HIDE DEF r
    <2>5. KnownRequest(r)
      BY <1>known, <2>4 DEF KnownRequest
    <2>6. /\ caller' \in [Callers -> Caller] /\ RequestsKnown'
          /\ caller'[c] = r /\ \A d \in Callers \ {c} : caller'[d] = caller[d]
      BY <1>inv, <2>2, <2>4, <2>5, CallerBecomes
    <2>7. AccessTypeOK'
      BY <1>types, <2>2, <2>6 DEF AccessTypeOK
    <2>8. RowsKnown'
      BY <1>known, <1>rows, <2>2, <2>3, <2>4, <2>6 DEF RowsKnown, KnownRow
    <2>9. /\ Recording(u)' = Recording(u) \cup {c}
          /\ \A v \in Accounts \ {u} : Recording(v)' = Recording(v)
      BY <2>1, <2>2, <2>4, <2>6 DEF Recording
    <2>10. ASSUME NEW v \in Accounts
           PROVE  recorded'[v] + Cardinality(Recording(v)') <= MaxRecorded
      <3>1. CASE v = u
        <4>1. Recording(u) \in SUBSET Callers /\ Recording(u)' \in SUBSET Callers
          BY DEF Recording
        <4>2. /\ Cardinality(Recording(u)') <= Cardinality(Recording(u)) + 1
              /\ Cardinality(Recording(u)) \in Nat /\ Cardinality(Recording(u)') \in Nat
          BY <2>9, <4>1, OneCallerMore, FewerCallers
        <4>3. recorded[u] \in Nat
          BY <1>types
        <4> QED BY <2>2, <3>1, <4>2, <4>3
      <3>2. CASE v # u
        BY <1>inv, <2>2, <2>9, <3>2 DEF RoomToRecord
      <3> QED BY <3>1, <3>2
    <2>11. \A s \in Sessions : Refreshing(s)' = Refreshing(s)
      BY <2>4, <2>6 DEF Refreshing
    <2>12. PairsBounded'
      BY <1>inv, <2>2, <2>11 DEF PairsBounded, Refreshing
    <2>13. SpentForPairs' /\ RoomToRecord'
      BY <1>inv, <2>2, <2>10 DEF SpentForPairs, RoomToRecord
    <2> QED BY <2>6, <2>7, <2>8, <2>12, <2>13 DEF AccessInv
  <1>15. ASSUME NEW c \in Callers, WriteViolation(c) PROVE AccessInv'
    <2>1. PICK u \in Accounts : u = caller[c].user
      BY <1>15, <1>known DEF WriteViolation, KnownRequest
    <2>2. PICK n : n = caller[c].row.count + 1
      OBVIOUS
    <2>3. /\ caller[c].stage = "write"
          /\ recorded' = [recorded EXCEPT ![u] = @ + 1]
          /\ account' = [account EXCEPT ![u] = Penalty(n)]
          /\ caller' = [caller EXCEPT ![c] = Resting]
          /\ UNCHANGED <<abuse, session>>
      BY <1>15, <2>1, <2>2 DEF WriteViolation, Return
    <2>4. c \in Recording(u) /\ Recording(u) \in SUBSET Callers
      BY <2>1, <2>3 DEF Recording
    <2>5. /\ caller' \in [Callers -> Caller] /\ RequestsKnown'
          /\ caller'[c] = Resting /\ \A d \in Callers \ {c} : caller'[d] = caller[d]
      BY <1>inv, <1>rest, <2>3, CallerBecomes
    <2>6. /\ Recording(u)' = Recording(u) \ {c}
          /\ \A v \in Accounts \ {u} : Recording(v)' = Recording(v)
      BY <1>rest, <2>1, <2>3, <2>5 DEF Recording
    <2>7. /\ Cardinality(Recording(u)') = Cardinality(Recording(u)) - 1
          /\ Cardinality(Recording(u)) \in Nat /\ Cardinality(Recording(u)') \in Nat
      <3>1. Recording(u) \ {c} \in SUBSET Recording(u)
        OBVIOUS
      <3> QED BY <2>4, <2>6, <3>1, OneCallerLess, FewerCallers
    <2>8. recorded[u] \in Nat /\ recorded[u] + Cardinality(Recording(u)) <= MaxRecorded
      BY <1>inv, <1>types DEF RoomToRecord
    <2>9. recorded[u] + 1 <= MaxRecorded
      BY <2>7, <2>8
    <2>10. /\ recorded' \in [Accounts -> 0 .. MaxRecorded] /\ recorded'[u] = recorded[u] + 1
           /\ \A v \in Accounts \ {u} : recorded'[v] = recorded[v]
      <3>1. recorded[u] + 1 \in 0 .. MaxRecorded
        BY <2>8, <2>9
      <3> QED BY <1>types, <2>3, <3>1
    <2>11. n \in 0 .. MaxRecorded /\ n <= recorded[u] + 1
      <3>1. caller[c].row \in Account /\ KnownRow(caller[c].row, u)
        BY <1>known, <2>1, <2>3 DEF Caller
      <3>2. caller[c].row.count \in Nat /\ caller[c].row.count <= recorded[u]
        BY <3>1 DEF Account, KnownRow
      <3> QED BY <2>2, <2>8, <2>9, <3>2
    <2>12. /\ Penalty(n) \in Account /\ Penalty(n).count = n
           /\ Penalty(n).ban = "forever" => Penalty(n).count >= 3
      BY <2>11 DEF Penalty, Account, Bans
    <2>13. account' \in [Accounts -> Account] /\ account'[u] = Penalty(n)
           /\ \A v \in Accounts \ {u} : account'[v] = account[v]
      BY <1>types, <2>3, <2>12
    <2>14. AccessTypeOK'
      BY <1>types, <2>3, <2>5, <2>10, <2>13 DEF AccessTypeOK
    <2>15. ASSUME NEW row \in Account, NEW v \in Accounts, KnownRow(row, v)
           PROVE  row.count <= recorded'[v] /\ (row.ban = "forever" /\ row.by = "system" => row.count >= 3)
      <3>1. row.count \in Nat /\ recorded[v] \in Nat /\ row.count <= recorded[v]
        BY <1>types, <2>15 DEF Account, KnownRow
      <3>2. recorded'[v] \in {recorded[v], recorded[v] + 1}
        BY <2>10
      <3> QED BY <2>15, <3>1, <3>2 DEF KnownRow
    <2>16. ASSUME NEW v \in Accounts PROVE KnownRow(account[v], v)'
      <3>1. CASE v = u
        BY <2>10, <2>11, <2>12, <2>13, <3>1 DEF KnownRow
      <3>2. CASE v # u
        BY <1>types, <1>rows, <2>13, <2>15, <3>2 DEF KnownRow
      <3> QED BY <3>1, <3>2
    <2>17. ASSUME NEW d \in Callers, caller'[d].stage # "idle"
           PROVE  KnownRow(caller[d].row, caller[d].user)'
      <3>1. d # c /\ caller'[d] = caller[d]
        BY <1>rest, <2>5, <2>17
      <3>2. /\ caller[d].row \in Account /\ caller[d].user \in Accounts
            /\ KnownRow(caller[d].row, caller[d].user)
        BY <1>known, <2>17, <3>1 DEF KnownRequest, Caller
      <3> QED BY <2>15, <3>1, <3>2 DEF KnownRow
    <2>18. RowsKnown'
      BY <2>16, <2>17 DEF RowsKnown, KnownRow
    <2>19. ASSUME NEW v \in Accounts
           PROVE  recorded'[v] + Cardinality(Recording(v)') <= MaxRecorded
      <3>1. CASE v = u
        BY <2>7, <2>8, <2>10, <3>1
      <3>2. CASE v # u
        BY <1>inv, <2>6, <2>10, <3>2 DEF RoomToRecord
      <3> QED BY <3>1, <3>2
    <2>20. ASSUME NEW s \in Sessions
           PROVE  session'[s].pairs + Cardinality(Refreshing(s)') <= Cardinality(Callers)
      <3>1. Refreshing(s)' \in SUBSET Refreshing(s) /\ Refreshing(s) \in SUBSET Callers
        BY <1>rest, <2>5 DEF Refreshing
      <3>2. /\ Cardinality(Refreshing(s)') \in Nat /\ Cardinality(Refreshing(s)) \in Nat
            /\ Cardinality(Refreshing(s)') <= Cardinality(Refreshing(s))
            /\ Cardinality(Callers) \in Nat
        BY <3>1, FewerCallers
      <3>3. session[s].pairs \in Nat
            /\ session[s].pairs + Cardinality(Refreshing(s)) <= Cardinality(Callers)
        BY <1>inv, <1>types, <3>2 DEF PairsBounded, Refreshing
      <3> QED BY <2>3, <3>2, <3>3
    <2>21. RoomToRecord' /\ PairsBounded'
      BY <2>19, <2>20 DEF RoomToRecord, PairsBounded, Refreshing
    <2>22. SpentForPairs'
      BY <1>inv, <2>3 DEF SpentForPairs
    <2> QED BY <2>5, <2>14, <2>18, <2>21, <2>22 DEF AccessInv
  <1>16. ASSUME NEW u \in Accounts, LetBanLapse(u) PROVE AccessInv'
    <2> DEFINE row == [account[u] EXCEPT !.ban = "lapsed"]
    <2>1. account' = [account EXCEPT ![u] = row] /\ UNCHANGED <<recorded, abuse, session, caller>>
      BY <1>16, <1>types DEF LetBanLapse
    <2>2. row \in Account /\ KnownRow(row, u)
      BY <1>types, <1>rows DEF Account, Bans, KnownRow
    <2> HIDE DEF row
    <2>3. account' \in [Accounts -> Account] /\ \A v \in Accounts : KnownRow(account'[v], v)
      BY <1>types, <1>rows, <2>1, <2>2
    <2>4. RequestsKnown'
      BY <1>inv, <2>1 DEF RequestsKnown
    <2> QED BY <1>types, <2>1, <2>3, <2>4, QuietAccess
  <1>17. ASSUME NEW c \in Callers, NEW u \in Accounts,
                BanUser(c, u) \/ UnbanUser(c, u) \/ UpdateUser(c, u)
         PROVE  AccessInv'
    <2>1. PICK op \in {"ban", "unban", "update"} : BeginChange(c, u, op)
      BY <1>17 DEF BanUser, UnbanUser, UpdateUser
    <2> DEFINE r == [Resting EXCEPT !.stage = "save", !.op = op, !.user = u, !.row = account[u]]
    <2>2. caller' = [caller EXCEPT ![c] = r] /\ UNCHANGED <<account, recorded, abuse, session>>
      BY <2>1 DEF BeginChange
    <2>3. account[u] \in Account /\ KnownRow(account[u], u)
      BY <1>types, <1>rows
    <2>4. /\ r \in Caller /\ r.stage = "save" /\ r.op = op /\ r.user = u /\ r.row = account[u]
      BY <2>3 DEF Resting, Caller
    <2> HIDE DEF r
    <2>5. KnownRequest(r)
      BY <2>4 DEF KnownRequest
    <2> QED BY <2>2, <2>3, <2>4, <2>5, QuietCaller
  <1>18. ASSUME NEW c \in Callers, SaveUser(c) PROVE AccessInv'
    <2>1. PICK u \in Accounts : u = caller[c].user
      BY <1>18, <1>known DEF SaveUser, KnownRequest
    <2> DEFINE row == ChangedRow(caller[c].op, caller[c].row)
    <2>2. /\ account' = [account EXCEPT ![u] = row] /\ Return(c)
          /\ UNCHANGED <<recorded, abuse, session>> /\ caller[c].stage = "save"
      BY <1>18, <2>1 DEF SaveUser
    <2>3. /\ caller[c].op \in {"ban", "unban", "update"}
          /\ caller[c].row \in Account /\ KnownRow(caller[c].row, u)
      BY <1>known, <2>1, <2>2 DEF KnownRequest, Caller
    <2>4. row \in Account /\ KnownRow(row, u)
      BY <2>3 DEF ChangedRow, Account, Bans, Active, KnownRow
    <2> HIDE DEF row
    <2>5. account' \in [Accounts -> Account] /\ \A v \in Accounts : KnownRow(account'[v], v)
      BY <1>types, <1>rows, <2>2, <2>4
    <2> QED BY <1>1, <1>types, <2>2, <2>5
  <1>19. CASE UNCHANGED accessVars
    <2>1. UNCHANGED <<account, recorded, abuse, session, caller>>
      BY <1>19 DEF accessVars
    <2>2. RequestsKnown'
      BY <1>inv, <2>1 DEF RequestsKnown
    <2> QED BY <1>types, <1>rows, <2>1, <2>2, QuietAccess
  <1> QED
    BY <1>3, <1>4, <1>5, <1>6, <1>7, <1>8, <1>9, <1>10, <1>11, <1>12, <1>13, <1>14, <1>15, <1>16,
       <1>17, <1>18, <1>19
    DEF AccessNext, RequestsNext, TokensNext, AbuseNext, UsersNext

LEMMA AccessInvariant == AccessSpec => []AccessInv
  BY AccessInit_Inv, AccessNext_Inv, PTL DEF AccessSpec

\* A ban for ever of the system has its three violations, and a refresh token has given no
\* more pairs than there were requests at work with it, for any number of users, sessions
\* and requests, whatever administrators save.
THEOREM AccessIsSound == AccessSpec => []AccessSound
  <1>1. AccessInv => AccessSound
    <2> SUFFICES ASSUME AccessInv PROVE AccessSound
      OBVIOUS
    <2>1. AccessTypeOK /\ PairsBounded
      BY DEF AccessInv
    <2>2. ASSUME NEW u \in Accounts, account[u].ban = "forever", account[u].by = "system"
          PROVE  recorded[u] >= 3
      <3>1. account[u].count \in Nat /\ recorded[u] \in Nat
        BY <2>1, AccessTypes, AccessAssumption DEF Account
      <3> QED BY <2>2, <3>1 DEF AccessInv, RowsKnown, KnownRow
    <2> QED BY <2>1, <2>2 DEF AccessSound, PenaltyEarned
  <1> QED BY <1>1, AccessInvariant, PTL

\* What may change the row of u in a step: a ban that is eased, and a count that goes astray.
EasedWell(u) ==
    Eased(u) => \/ Stale(u)
                \/ \E c \in Callers : /\ Acting(c, u)
                                      /\ \/ caller[c].op = "unban"
                                         \/ caller[c].stage = "write" /\ account'[u].ban # "none"

CountedWell(u) == account[u].count = recorded[u] => account'[u].count = recorded'[u] \/ Stale(u)

\* Only four actions write a row of users, each that of the user of its request, and what
\* they write of a row that nobody else wrote since is what the property allows.
LEMMA BansExplainedStep ==
    ASSUME AccessInv, [AccessNext]_accessVars, NEW u \in Accounts
    PROVE  EasedWell(u) /\ CountedWell(u)
  <1>types. /\ account \in [Accounts -> Account] /\ caller \in [Callers -> Caller]
            /\ recorded \in [Accounts -> 0 .. MaxRecorded]
            /\ \A c \in Callers : KnownRequest(caller[c])
    BY AccessTypes DEF AccessInv, RequestsKnown
  <1>1. ASSUME account' = account, recorded' = recorded PROVE EasedWell(u) /\ CountedWell(u)
    BY <1>1 DEF EasedWell, CountedWell, Eased
  \* The request c writes the row of its user, from the row it has read.
  <1>2. ASSUME NEW c \in Callers, NEW v \in Accounts, NEW row, v = caller[c].user,
               caller'[c] # caller[c],
               account' = [account EXCEPT ![v] = row],
               \A w \in Accounts \ {v} : recorded'[w] = recorded[w],
               v = u /\ caller[c].row = account[u] /\ Eased(u) =>
                  caller[c].op = "unban" \/ (caller[c].stage = "write" /\ account'[u].ban # "none"),
               v = u /\ caller[c].row = account[u] /\ account[u].count = recorded[u] =>
                  account'[u].count = recorded'[u]
        PROVE  EasedWell(u) /\ CountedWell(u)
    <2>1. CASE v = u
      <3>1. Acting(c, u)
        BY <1>2, <2>1 DEF Acting
      <3>2. caller[c].row # account[u] => Stale(u)
        BY <3>1 DEF Stale
      <3> QED BY <1>2, <2>1, <3>1, <3>2 DEF EasedWell, CountedWell
    <2>2. CASE v # u
      <3>1. account'[u] = account[u] /\ recorded'[u] = recorded[u]
        BY <1>2, <1>types, <2>2
      <3> QED BY <3>1 DEF EasedWell, CountedWell, Eased
    <2> QED BY <2>1, <2>2
  <1>3. ASSUME NEW c \in Callers, NEW r, r.stage # caller[c].stage, caller' = [caller EXCEPT ![c] = r]
        PROVE  caller'[c] # caller[c]
    BY <1>3, <1>types
  <1>4. ASSUME NEW c \in Callers, Lift(c) PROVE EasedWell(u) /\ CountedWell(u)
    <2>1. PICK v \in Accounts : v = caller[c].user
      BY <1>4, <1>types DEF Lift, KnownRequest
    <2>2. /\ account' = [account EXCEPT ![v] = Active(account[v].count)]
          /\ recorded' = recorded /\ caller[c].stage = "lift" /\ caller[c].row.ban = "lapsed"
      BY <1>4, <1>types, <2>1 DEF Lift, KnownRequest
    <2>3. caller'[c] # caller[c]
      <3>1. caller'[c].stage = "in"
        BY <1>4, <1>types DEF Lift, Caller
      <3> QED BY <2>2, <3>1
    <2>4. caller[c].row = account[u] => ~Eased(u)
      BY <2>2 DEF Eased
    <2>5. v = u => account'[u].count = account[u].count
      BY <1>types, <2>2 DEF Active
    <2> QED BY <1>2, <2>1, <2>2, <2>3, <2>4, <2>5
  <1>5. ASSUME NEW c \in Callers, WriteViolation(c) PROVE EasedWell(u) /\ CountedWell(u)
    <2>1. PICK v \in Accounts : v = caller[c].user
      BY <1>5, <1>types DEF WriteViolation, KnownRequest
    <2>2. /\ account' = [account EXCEPT ![v] = Penalty(caller[c].row.count + 1)]
          /\ recorded' = [recorded EXCEPT ![v] = @ + 1]
          /\ caller' = [caller EXCEPT ![c] = Resting] /\ caller[c].stage = "write"
      BY <1>5, <2>1 DEF WriteViolation, Return
    <2>3. caller'[c] # caller[c]
      BY <1>3, <2>2 DEF Resting
    <2>4. v = u => /\ account'[u].ban # "none"
                   /\ account'[u].count = caller[c].row.count + 1
                   /\ recorded'[u] = recorded[u] + 1
      BY <1>types, <2>2 DEF Penalty
    <2>5. \A w \in Accounts \ {v} : recorded'[w] = recorded[w]
      BY <1>types, <2>2
    <2>6. v = u /\ caller[c].row = account[u] /\ account[u].count = recorded[u] =>
             account'[u].count = recorded'[u]
      BY <2>4
    <2>7. v = u /\ caller[c].row = account[u] /\ Eased(u) =>
             caller[c].op = "unban" \/ (caller[c].stage = "write" /\ account'[u].ban # "none")
      BY <2>2, <2>4
    <2> HIDE DEF Penalty
    <2> QED BY <1>2, <2>1, <2>2, <2>3, <2>5, <2>6, <2>7
  <1>6. ASSUME NEW v \in Accounts, LetBanLapse(v) PROVE EasedWell(u) /\ CountedWell(u)
    <2>1. account' = [account EXCEPT ![v].ban = "lapsed"] /\ recorded' = recorded
      BY <1>6 DEF LetBanLapse
    <2>2. /\ account'[u].count = account[u].count
          /\ account'[u].ban \in {account[u].ban, "lapsed"}
      BY <1>types, <2>1 DEF Account
    <2> QED BY <2>1, <2>2 DEF EasedWell, CountedWell, Eased
  <1>7. ASSUME NEW c \in Callers, SaveUser(c) PROVE EasedWell(u) /\ CountedWell(u)
    <2>1. PICK v \in Accounts : v = caller[c].user
      BY <1>7, <1>types DEF SaveUser, KnownRequest
    <2> DEFINE row == ChangedRow(caller[c].op, caller[c].row)
    <2>2. /\ account' = [account EXCEPT ![v] = row] /\ recorded' = recorded
          /\ caller' = [caller EXCEPT ![c] = Resting] /\ caller[c].stage = "save"
      BY <1>7, <2>1 DEF SaveUser, Return
    <2>3. caller[c].op \in {"ban", "unban", "update"} /\ caller[c].row \in Account
      BY <1>types, <2>2 DEF KnownRequest, Caller
    <2>4. /\ row.count = caller[c].row.count
          /\ caller[c].op = "ban" => row.ban = "forever"
          /\ caller[c].op = "update" => row = caller[c].row
      BY <2>3 DEF ChangedRow, Account, Active
    <2> HIDE DEF row
    <2>5. caller'[c] # caller[c]
      BY <1>3, <2>2 DEF Resting
    <2>6. v = u => account'[u] = row
      BY <1>types, <2>2
    <2>7. v = u /\ caller[c].row = account[u] /\ Eased(u) => caller[c].op = "unban"
      BY <2>3, <2>4, <2>6 DEF Eased
    <2>8. v = u /\ caller[c].row = account[u] /\ account[u].count = recorded[u] =>
             account'[u].count = recorded'[u]
      BY <2>2, <2>4, <2>6
    <2> QED BY <1>2, <2>1, <2>2, <2>5, <2>7, <2>8
  <1>8. CASE UNCHANGED accessVars
    BY <1>1, <1>8 DEF accessVars
  <1>9. ASSUME NEW c \in Callers, NEW s \in Sessions,
               \/ Authenticate(c, s) \/ FinishLogin(c, s) \/ BeginRefresh(c, s) \/ FinishRefresh(c, s)
        PROVE  EasedWell(u) /\ CountedWell(u)
    BY <1>1, <1>9 DEF Authenticate, Enforce, FinishLogin, BeginRefresh, FinishRefresh
  <1>10. ASSUME NEW c \in Callers,
                \/ FinishWork(c) \/ Fail(c) \/ CheckRefresh(c) \/ Logout(c)
                \/ CountAbuse(c) \/ ReadViolation(c)
         PROVE  EasedWell(u) /\ CountedWell(u)
    BY <1>1, <1>10 DEF FinishWork, Fail, CheckRefresh, Enforce, Logout, CountAbuse, ReadViolation
  <1>11. ASSUME NEW c \in Callers, NEW v \in Accounts,
                \/ Login(c, v) \/ BanUser(c, v) \/ UnbanUser(c, v) \/ UpdateUser(c, v) \/ EndWindow(v)
         PROVE  EasedWell(u) /\ CountedWell(u)
    BY <1>1, <1>11 DEF Login, Enforce, BanUser, UnbanUser, UpdateUser, BeginChange, EndWindow
  <1>12. ASSUME NEW v \in Accounts, EndWindow(v) PROVE EasedWell(u) /\ CountedWell(u)
    BY <1>1, <1>12 DEF EndWindow
  <1> QED
    BY <1>4, <1>5, <1>6, <1>7, <1>8, <1>9, <1>10, <1>11, <1>12
    DEF AccessNext, RequestsNext, TokensNext, AbuseNext, UsersNext

\* A ban that holds ends or is shortened, and the count of violations leaves that of their
\* rows, only where the property says: by an unban, by a violation of a request that was let
\* in before, or by the write of a row that had been read before another write.
THEOREM BansAreExplained == AccessSpec => BansExplained
  <1>1. AccessInv /\ [AccessNext]_accessVars =>
           [\A u \in Accounts :
               /\ Eased(u) => \/ Stale(u)
                              \/ \E c \in Callers :
                                    /\ Acting(c, u)
                                    /\ \/ caller[c].op = "unban"
                                       \/ caller[c].stage = "write" /\ account'[u].ban # "none"
               /\ account[u].count = recorded[u] =>
                     account'[u].count = recorded'[u] \/ Stale(u)]_accessVars
    BY BansExplainedStep DEF EasedWell, CountedWell
  <1> QED BY <1>1, AccessInvariant, PTL DEF AccessSpec, BansExplained

-----------------------------------------------------------------------------
\* Wiki

DocumentRow == [state : {"none", "live", "deleted"}, published : BOOLEAN,
                slug : Slugs \cup {Missing}, under : Categories \cup {Missing}, text : Texts]

CategoryRow == [state : {"none", "live", "deleted"}, label : Texts]

\* What a request is about to write: a category that it saw empty, or a document with a
\* category that was there when it looked.
KnownDrop(m) == m.id \in Categories /\ m.saw = {}

KnownCreate(m) ==
    /\ m.id \in Documents /\ m.field \in Slugs
    /\ m.value \in Categories \cup {Missing}
    /\ m.value \in m.saw \cup {Missing}

KnownUpdate(m) ==
    /\ m.id \in Documents
    /\ \/ /\ m.field = "under" /\ m.value \in Categories \cup {Missing}
          /\ m.value \in m.saw \cup {Missing}
       \/ m.field = "slug" /\ m.value \in Slugs
       \/ m.field = "text" /\ m.value \in Texts

KnownWork(m) ==
    /\ m.stage \in {"idle", "tree", "page", "store", "write", "written"}
    /\ m.stage = "write" =>
          \/ m.op = "drop" /\ KnownDrop(m)
          \/ m.op = "create" /\ KnownCreate(m)
          \/ m.op = "update" /\ KnownUpdate(m)

EditorsKnown == \A e \in Editors : KnownWork(editor[e])

\* The cache holds a value and a mark for every key, or nothing.
CacheRows ==
    /\ shown = [k \in Places |-> shown[k]]
    /\ \A k \in Places :
          shown[k] # Missing => shown[k] = [value |-> shown[k].value, late |-> shown[k].late]

EditorsOf == editor = [e \in Editors |-> editor[e]]

WikiInv ==
    /\ document \in [Documents -> DocumentRow]
    /\ category \in [Categories -> CategoryRow]
    /\ EditorsOf
    /\ EditorsKnown
    /\ CacheRows
    /\ ShownKnown

LEMMA UnoccupiedKnown ==
    /\ KnownWork(Unoccupied) /\ Unoccupied.stage = "idle"
    /\ KnownWork([Unoccupied EXCEPT !.stage = "written"])
    /\ [Unoccupied EXCEPT !.stage = "written"].stage = "written"
  BY DEF Unoccupied, KnownWork

LEMMA WikiInit_Inv == WikiInit => WikiInv
  <1> SUFFICES ASSUME WikiInit PROVE WikiInv
    OBVIOUS
  <1>1. document \in [Documents -> DocumentRow]
    BY DEF WikiInit, DocumentRow, NoDocument, Texts
  <1>2. category \in [Categories -> CategoryRow]
    BY DEF WikiInit, CategoryRow, Texts
  <1>3. EditorsOf /\ EditorsKnown
    BY UnoccupiedKnown DEF WikiInit, EditorsOf, EditorsKnown
  <1>4. CacheRows /\ ShownKnown
    BY DEF WikiInit, CacheRows, ShownKnown
  <1> QED BY <1>1, <1>2, <1>3, <1>4 DEF WikiInv

\* What a key should hold is a matter of the two tables.
LEMMA SameTables ==
    ASSUME document' = document, category' = category
    PROVE  \A k \in Places : Current(k)' = Current(k)
  BY DEF Current, TreeOf, CategoryList, DocumentList, Visible, LiveCategories, PageOf, NameOf, Found

LEMMA EditorBecomes ==
    ASSUME EditorsOf, EditorsKnown, NEW e \in Editors, NEW m, KnownWork(m),
           editor' = [editor EXCEPT ![e] = m]
    PROVE  /\ EditorsOf' /\ EditorsKnown'
           /\ editor'[e] = m /\ \A x \in Editors \ {e} : editor'[x] = editor[x]
  <1>1. editor'[e] = m /\ \A x \in Editors \ {e} : editor'[x] = editor[x]
    BY DEF EditorsOf
  <1>2. EditorsOf'
    BY DEF EditorsOf
  <1> QED BY <1>1, <1>2 DEF EditorsKnown

\* A request that does not write goes on; the tables and the cache stay.
LEMMA QuietWiki ==
    ASSUME WikiInv, NEW e \in Editors, NEW m, KnownWork(m),
           editor[e].stage # "written",
           editor' = [editor EXCEPT ![e] = m],
           UNCHANGED <<document, category, shown>>
    PROVE  WikiInv'
  <1>1. /\ EditorsOf' /\ EditorsKnown'
        /\ editor'[e] = m /\ \A x \in Editors \ {e} : editor'[x] = editor[x]
    BY EditorBecomes DEF WikiInv
  <1>2. \A x \in Editors : editor[x].stage = "written" => editor'[x].stage = "written"
    BY <1>1
  <1>3. ShownKnown'
    BY <1>2, SameTables DEF WikiInv, ShownKnown
  <1> QED BY <1>1, <1>3 DEF WikiInv, CacheRows

\* A request has written, and has yet to empty the cache.
LEMMA WrittenWiki ==
    ASSUME WikiInv, NEW e \in Editors, NEW d, Committed(e, d), shown' = shown,
           document' \in [Documents -> DocumentRow], category' \in [Categories -> CategoryRow]
    PROVE  WikiInv'
  <1>1. /\ EditorsOf' /\ EditorsKnown' /\ editor'[e].stage = "written"
    BY EditorBecomes, UnoccupiedKnown DEF WikiInv, Committed
  <1>2. ShownKnown'
    BY <1>1 DEF ShownKnown
  <1> QED BY <1>1, <1>2 DEF WikiInv, CacheRows

\* The row that an update writes: one field of the document is set.
LEMMA UpdatedRow ==
    ASSUME NEW row \in DocumentRow, NEW m, KnownUpdate(m)
    PROVE  /\ [row EXCEPT ![m.field] = m.value] \in DocumentRow
           /\ [row EXCEPT ![m.field] = m.value].state = row.state
           /\ m.field = "under" => [row EXCEPT ![m.field] = m.value].under = m.value
           /\ m.field # "under" => [row EXCEPT ![m.field] = m.value].under = row.under
  <1>1. CASE m.field = "under" /\ m.value \in Categories \cup {Missing}
    BY <1>1 DEF DocumentRow
  <1>2. CASE m.field = "slug" /\ m.value \in Slugs
    BY <1>2 DEF DocumentRow
  <1>3. CASE m.field = "text" /\ m.value \in Texts
    BY <1>3 DEF DocumentRow
  <1> QED BY <1>1, <1>2, <1>3 DEF KnownUpdate

LEMMA WikiNext_Inv == WikiInv /\ [WikiNext]_wikiVars => WikiInv'
  <1> SUFFICES ASSUME WikiInv, [WikiNext]_wikiVars PROVE WikiInv'
    OBVIOUS
  <1>types. /\ document \in [Documents -> DocumentRow]
            /\ category \in [Categories -> CategoryRow]
            /\ EditorsOf /\ EditorsKnown /\ CacheRows /\ ShownKnown
    BY DEF WikiInv
  <1>known. \A e \in Editors : KnownWork(editor[e])
    BY DEF WikiInv, EditorsKnown
  <1>1. ASSUME NEW e \in Editors, BeginTree(e) PROVE WikiInv'
    <2> DEFINE m == [Unoccupied EXCEPT !.stage = "tree", !.saw = CategoryList]
    <2>1. KnownWork(m)
      BY DEF KnownWork, Unoccupied
    <2>2. editor' = [editor EXCEPT ![e] = m] /\ editor[e].stage = "idle"
      BY <1>1 DEF BeginTree
    <2> HIDE DEF m
    <2> QED BY <1>1, <2>1, <2>2, QuietWiki DEF BeginTree
  <1>2. ASSUME NEW e \in Editors, ReadTree(e) PROVE WikiInv'
    <2>1. PICK v : editor' = [editor EXCEPT ![e] = [Unoccupied EXCEPT !.stage = "store", !.id = "tree",
                                                                    !.value = v]]
      BY <1>2 DEF ReadTree
    <2> DEFINE m == [Unoccupied EXCEPT !.stage = "store", !.id = "tree", !.value = v]
    <2>2. KnownWork(m)
      BY DEF KnownWork, Unoccupied
    <2>3. editor' = [editor EXCEPT ![e] = m] /\ editor[e].stage = "tree"
      BY <1>2, <2>1 DEF ReadTree
    <2> HIDE DEF m
    <2> QED BY <1>2, <2>2, <2>3, QuietWiki DEF ReadTree
  <1>3. ASSUME NEW e \in Editors, NEW k \in Slugs, ReadPage(e, k) PROVE WikiInv'
    <2>1. PICK v : editor' = [editor EXCEPT ![e] = [Unoccupied EXCEPT !.stage = "page", !.id = k,
                                                                    !.value = v]]
      BY <1>3 DEF ReadPage
    <2> DEFINE m == [Unoccupied EXCEPT !.stage = "page", !.id = k, !.value = v]
    <2>2. KnownWork(m)
      BY DEF KnownWork, Unoccupied
    <2>3. editor' = [editor EXCEPT ![e] = m] /\ editor[e].stage = "idle"
      BY <1>3, <2>1 DEF ReadPage
    <2> HIDE DEF m
    <2> QED BY <1>3, <2>2, <2>3, QuietWiki DEF ReadPage
  <1>4. ASSUME NEW e \in Editors, Store(e) PROVE WikiInv'
    <2> DEFINE j == editor[e].id
               row == [value |-> editor[e].value, late |-> editor[e].value # Current(j)]
    <2>1. /\ editor[e].stage = "store" /\ shown' = [shown EXCEPT ![j] = row]
          /\ editor' = [editor EXCEPT ![e] = Unoccupied]
          /\ document' = document /\ category' = category
      BY <1>4 DEF Store, Done
    <2>2. /\ EditorsOf' /\ EditorsKnown'
          /\ editor'[e] = Unoccupied /\ \A x \in Editors \ {e} : editor'[x] = editor[x]
      BY <1>types, <2>1, EditorBecomes, UnoccupiedKnown
    <2>3. \A x \in Editors : editor[x].stage = "written" => editor'[x].stage = "written"
      BY <2>1, <2>2
    <2>4. \A k \in Places : Current(k)' = Current(k)
      BY <2>1, SameTables
    <2>5. row.value = editor[e].value /\ row.late = (editor[e].value # Current(j))
          /\ row = [value |-> row.value, late |-> row.late]
      OBVIOUS
    <2> HIDE DEF row
    <2>6. \A k \in Places : shown'[k] = IF k = j THEN row ELSE shown[k]
      BY <1>types, <2>1 DEF CacheRows
    <2>7. CacheRows'
      BY <1>types, <2>1, <2>5, <2>6 DEF CacheRows
    <2>8. ShownKnown'
      <3> SUFFICES ASSUME NEW k \in Places, shown'[k] # Missing, shown'[k].value # Current(k)'
                   PROVE  shown'[k].late \/ \E x \in Editors : editor'[x].stage = "written"
        BY DEF ShownKnown
      <3>1. CASE k = j
        BY <2>4, <2>5, <2>6, <3>1
      <3>2. CASE k # j
        BY <1>types, <2>3, <2>4, <2>6, <3>2 DEF ShownKnown
      <3> QED BY <3>1, <3>2
    <2> QED BY <1>types, <2>1, <2>2, <2>7, <2>8 DEF WikiInv
  <1>5. ASSUME NEW k \in Places, EndPage(k) PROVE WikiInv'
    <2>1. /\ shown' = [shown EXCEPT ![k] = Missing]
          /\ UNCHANGED <<document, category, editor>>
      BY <1>5 DEF EndPage
    <2>2. \A i \in Places : shown'[i] = IF i = k THEN Missing ELSE shown[i]
      BY <1>types, <2>1 DEF CacheRows
    <2>3. CacheRows'
      BY <1>types, <2>1, <2>2 DEF CacheRows
    <2>4. ShownKnown'
      BY <1>types, <2>1, <2>2, SameTables DEF ShownKnown
    <2> QED BY <1>types, <2>1, <2>3, <2>4 DEF WikiInv, EditorsOf, EditorsKnown
  <1>6. ASSUME NEW e \in Editors, Invalidate(e) PROVE WikiInv'
    <2>1. /\ editor' = [editor EXCEPT ![e] = Unoccupied] /\ UNCHANGED <<document, category>>
      BY <1>6 DEF Invalidate, Done
    <2>2. EditorsOf' /\ EditorsKnown'
      BY <1>types, <2>1, EditorBecomes, UnoccupiedKnown
    <2>3. CASE shown' = [k \in Places |-> Missing]
      <3>1. CacheRows' /\ ShownKnown'
        BY <2>3 DEF CacheRows, ShownKnown
      <3> QED BY <1>types, <2>1, <2>2, <3>1 DEF WikiInv
    <2>4. CASE shown' = [k \in Places |->
                            IF shown[k] = Missing THEN Missing ELSE [shown[k] EXCEPT !.late = TRUE]]
      <3>1. ASSUME NEW k \in Places, shown'[k] # Missing
            PROVE  shown'[k].late = TRUE /\ shown'[k] = [value |-> shown'[k].value, late |-> TRUE]
        <4>1. shown[k] # Missing /\ shown'[k] = [shown[k] EXCEPT !.late = TRUE]
          BY <2>4, <3>1
        <4>2. shown[k] = [value |-> shown[k].value, late |-> shown[k].late]
          BY <1>types, <4>1 DEF CacheRows
        <4> QED BY <4>1, <4>2
      <3>2. shown' = [k \in Places |-> shown'[k]]
        BY <2>4
      <3>3. CacheRows' /\ ShownKnown'
        BY <3>1, <3>2 DEF CacheRows, ShownKnown
      <3> QED BY <1>types, <2>1, <2>2, <3>3 DEF WikiInv
    <2> QED BY <1>6, <2>3, <2>4 DEF Invalidate
  <1>7. ASSUME NEW e \in Editors, NEW c \in Categories,
               CreateCategory(e, c) \/ \E l \in Texts : UpdateCategory(e, c, l)
        PROVE  WikiInv'
    <2>1. /\ Committed(e, Missing) /\ UNCHANGED <<document, shown>>
          /\ \/ category' = [category EXCEPT ![c].state = "live"]
             \/ \E l \in Texts : category' = [category EXCEPT ![c].label = l]
      BY <1>7 DEF CreateCategory, UpdateCategory
    <2>2. category' \in [Categories -> CategoryRow]
      <3>1. CASE category' = [category EXCEPT ![c].state = "live"]
        BY <1>types, <3>1 DEF CategoryRow
      <3>2. ASSUME NEW l \in Texts, category' = [category EXCEPT ![c].label = l]
            PROVE  category' \in [Categories -> CategoryRow]
        BY <1>types, <3>2 DEF CategoryRow
      <3> QED BY <2>1, <3>1, <3>2
    <2> QED BY <1>types, <2>1, <2>2, WrittenWiki
  <1>8. ASSUME NEW e \in Editors, NEW c \in Categories, BeginDeleteCategory(e, c) PROVE WikiInv'
    <2> DEFINE m == [Unoccupied EXCEPT !.stage = "write", !.op = "drop", !.id = c, !.saw = DocsIn(c)]
    <2>1. DocsIn(c) = {} /\ editor' = [editor EXCEPT ![e] = m] /\ editor[e].stage = "idle"
      BY <1>8 DEF BeginDeleteCategory, Empty
    <2>2. KnownWork(m)
      BY <2>1 DEF KnownWork, KnownDrop, Unoccupied
    <2> HIDE DEF m
    <2> QED BY <1>8, <2>1, <2>2, QuietWiki DEF BeginDeleteCategory
  <1>9. ASSUME NEW e \in Editors, DropCategory(e) PROVE WikiInv'
    <2>1. category' = [category EXCEPT ![editor[e].id].state = "deleted"]
          /\ Committed(e, Missing) /\ UNCHANGED <<document, shown>>
      BY <1>9 DEF DropCategory
    <2>2. category' \in [Categories -> CategoryRow]
      BY <1>types, <2>1 DEF CategoryRow
    <2> QED BY <1>types, <2>1, <2>2, WrittenWiki
  <1>10. ASSUME NEW e \in Editors, NEW d \in Documents, NEW slug \in Slugs,
                NEW c \in Categories \cup {Missing}, BeginCreateDoc(e, d, slug, c)
         PROVE  WikiInv'
    <2> DEFINE m == [Unoccupied EXCEPT !.stage = "write", !.op = "create", !.id = d,
                                       !.field = slug, !.value = c, !.saw = LiveCategories]
    <2>1. /\ c \in LiveCategories \cup {Missing}
          /\ editor' = [editor EXCEPT ![e] = m] /\ editor[e].stage = "idle"
      BY <1>10 DEF BeginCreateDoc, Placeable
    <2>2. KnownWork(m)
      BY <2>1 DEF KnownWork, KnownCreate, Unoccupied
    <2> HIDE DEF m
    <2> QED BY <1>10, <2>1, <2>2, QuietWiki DEF BeginCreateDoc
  <1>11. ASSUME NEW e \in Editors, NEW d \in Documents, NEW field, NEW v,
                BeginUpdateDoc(e, d, field, v),
                \/ field = "under" /\ v \in Categories \cup {Missing}
                \/ field = "slug" /\ v \in Slugs
                \/ field = "text" /\ v \in Texts
         PROVE  WikiInv'
    <2> DEFINE m == [Unoccupied EXCEPT !.stage = "write", !.op = "update", !.id = d,
                                       !.field = field, !.value = v, !.saw = LiveCategories]
    <2>1. /\ field = "under" => v \in LiveCategories \cup {Missing}
          /\ editor' = [editor EXCEPT ![e] = m] /\ editor[e].stage = "idle"
      BY <1>11 DEF BeginUpdateDoc, Placeable
    <2>2. KnownWork(m)
      BY <1>11, <2>1 DEF KnownWork, KnownUpdate, Unoccupied
    <2> HIDE DEF m
    <2> QED BY <1>11, <2>1, <2>2, QuietWiki DEF BeginUpdateDoc
  <1>12. ASSUME NEW e \in Editors, WriteDoc(e) PROVE WikiInv'
    <2> DEFINE d == editor[e].id
    <2>1. KnownWork(editor[e]) /\ editor[e].stage = "write" /\ editor[e].op \in {"create", "update"}
      BY <1>12, <1>known DEF WriteDoc
    <2>2. PICK row \in DocumentRow : document' = [document EXCEPT ![d] = row]
      <3>1. CASE editor[e].op = "create"
        <4> DEFINE new == [NoDocument EXCEPT !.state = "live", !.slug = editor[e].field,
                                             !.under = editor[e].value]
        <4>1. new \in DocumentRow
          BY <2>1, <3>1 DEF KnownWork, KnownCreate, NoDocument, DocumentRow, Texts
        <4>2. document' = [document EXCEPT ![d] = new]
          BY <1>12, <3>1 DEF WriteDoc
        <4> QED BY <4>1, <4>2
      <3>2. CASE editor[e].op = "update"
        <4> DEFINE new == [document[d] EXCEPT ![editor[e].field] = editor[e].value]
        <4>1. KnownUpdate(editor[e]) /\ document[d] \in DocumentRow
          BY <1>types, <2>1, <3>2 DEF KnownWork, KnownUpdate
        <4>2. new \in DocumentRow
          BY <4>1, UpdatedRow
        <4>3. document' = [document EXCEPT ![d] = new]
          BY <1>12, <3>2 DEF WriteDoc
        <4> QED BY <4>2, <4>3
      <3> QED BY <2>1, <3>1, <3>2
    <2>3. document' \in [Documents -> DocumentRow]
      BY <1>types, <2>2
    <2>4. Committed(e, d) /\ UNCHANGED <<category, shown>>
      BY <1>12 DEF WriteDoc
    <2> QED BY <1>types, <2>3, <2>4, WrittenWiki
  <1>13. ASSUME NEW e \in Editors, Refuse(e) PROVE WikiInv'
    BY <1>13, QuietWiki, UnoccupiedKnown DEF Refuse, Done
  <1>14. ASSUME NEW e \in Editors, NEW d \in Documents,
                DeleteDoc(e, d) \/ \E b \in BOOLEAN : SetDocPublished(e, d, b)
         PROVE  WikiInv'
    <2>1. /\ Committed(e, d) /\ UNCHANGED <<category, shown>>
          /\ \/ document' = [document EXCEPT ![d] = [NoDocument EXCEPT !.state = "deleted"]]
             \/ \E b \in BOOLEAN : document' = [document EXCEPT ![d].published = b]
      BY <1>14 DEF DeleteDoc, SetDocPublished
    <2>2. document' \in [Documents -> DocumentRow]
      <3>1. [NoDocument EXCEPT !.state = "deleted"] \in DocumentRow
        BY DEF NoDocument, DocumentRow, Texts
      <3>2. ASSUME NEW b \in BOOLEAN, document' = [document EXCEPT ![d].published = b]
            PROVE  document' \in [Documents -> DocumentRow]
        <4> DEFINE row == [document[d] EXCEPT !.published = b]
        <4>1. row \in DocumentRow /\ document' = [document EXCEPT ![d] = row]
          BY <1>types, <3>2 DEF DocumentRow
        <4> HIDE DEF row
        <4> QED BY <1>types, <4>1
      <3> QED BY <1>types, <2>1, <3>1, <3>2
    <2> QED BY <1>types, <2>1, <2>2, WrittenWiki
  <1>15. CASE UNCHANGED wikiVars
    <2>1. UNCHANGED <<document, category, shown, editor>>
      BY <1>15 DEF wikiVars
    <2>2. ShownKnown'
      BY <1>types, <2>1, SameTables DEF ShownKnown
    <2> QED BY <1>types, <2>1, <2>2 DEF WikiInv, EditorsOf, EditorsKnown, CacheRows
  <1>16. ASSUME NEW e \in Editors, ReadName(e) PROVE WikiInv'
    <2>1. PICK i, v : editor' = [editor EXCEPT ![e] = [Unoccupied EXCEPT !.stage = "store", !.id = i,
                                                                       !.value = v]]
      BY <1>16 DEF ReadName
    <2> DEFINE m == [Unoccupied EXCEPT !.stage = "store", !.id = i, !.value = v]
    <2>2. KnownWork(m)
      BY DEF KnownWork, Unoccupied
    <2>3. editor' = [editor EXCEPT ![e] = m] /\ editor[e].stage = "page"
      BY <1>16, <2>1 DEF ReadName
    <2> HIDE DEF m
    <2> QED BY <1>16, <2>2, <2>3, QuietWiki DEF ReadName
  <1> QED
    BY <1>1, <1>2, <1>3, <1>4, <1>5, <1>6, <1>7, <1>8, <1>9, <1>10, <1>11, <1>12, <1>13, <1>14,
       <1>15, <1>16
    DEF WikiNext, TreeNext, SlugNext, CacheNext, EditorsNext

LEMMA WikiInvariant == WikiSpec => []WikiInv
  BY WikiInit_Inv, WikiNext_Inv, PTL DEF WikiSpec

\* A document loses its category only by a write that had looked before another write.
OrphanedBy(e) ==
    /\ editor[e].stage = "write" /\ editor'[e] # editor[e]
    /\ editor[e].saw # IF editor[e].op = "drop" THEN DocsIn(editor[e].id) ELSE LiveCategories

LEMMA OrphansStep ==
    ASSUME WikiInv, [WikiNext]_wikiVars, NEW d \in Documents, Homed(d)
    PROVE  Homed(d)' \/ \E e \in Editors : OrphanedBy(e)
  <1>types. /\ document \in [Documents -> DocumentRow]
            /\ category \in [Categories -> CategoryRow]
            /\ EditorsOf /\ \A e \in Editors : KnownWork(editor[e])
    BY DEF WikiInv, EditorsKnown
  <1>1. ASSUME UNCHANGED <<document, category>> PROVE Homed(d)'
    BY <1>1 DEF Homed, Placeable, LiveCategories
  <1>2. ASSUME NEW e \in Editors, NEW x, editor[e].stage = "write", Committed(e, x)
        PROVE  editor'[e] # editor[e]
    <2>1. editor'[e] = [Unoccupied EXCEPT !.stage = "written"]
      BY <1>2, <1>types DEF Committed, EditorsOf
    <2> QED BY <1>2, <2>1, UnoccupiedKnown
  \* The categories that are there stay.
  <1>3. ASSUME document' = document, LiveCategories \subseteq LiveCategories' PROVE Homed(d)'
    BY <1>3 DEF Homed, Placeable
  <1>4. ASSUME NEW e \in Editors, NEW c \in Categories,
               CreateCategory(e, c) \/ \E l \in Texts : UpdateCategory(e, c, l)
        PROVE  Homed(d)'
    <2>1. /\ document' = document
          /\ \/ category' = [category EXCEPT ![c].state = "live"]
             \/ \E l \in Texts : category' = [category EXCEPT ![c].label = l]
      BY <1>4 DEF CreateCategory, UpdateCategory
    <2>2. \A g \in Categories : category[g].state = "live" => category'[g].state = "live"
      BY <1>types, <2>1 DEF CategoryRow
    <2> QED BY <1>3, <2>1, <2>2 DEF LiveCategories
  <1>5. ASSUME NEW e \in Editors, DropCategory(e) PROVE Homed(d)' \/ OrphanedBy(e)
    <2>1. PICK c \in Categories : c = editor[e].id
      BY <1>5, <1>types DEF DropCategory, KnownWork, KnownDrop
    <2>2. /\ editor[e].stage = "write" /\ editor[e].op = "drop" /\ editor[e].saw = {}
          /\ category' = [category EXCEPT ![c].state = "deleted"]
          /\ Committed(e, Missing) /\ document' = document
      BY <1>5, <1>types, <2>1 DEF DropCategory, KnownWork, KnownDrop
    <2>3. CASE d \in DocsIn(c)
      BY <1>2, <2>1, <2>2, <2>3 DEF OrphanedBy
    <2>4. CASE d \notin DocsIn(c)
      <3>1. \A g \in Categories \ {c} : category'[g] = category[g]
        BY <1>types, <2>2
      <3> QED BY <2>2, <2>4, <3>1 DEF Homed, Placeable, LiveCategories, DocsIn
    <2> QED BY <2>3, <2>4
  <1>6. ASSUME NEW e \in Editors, WriteDoc(e) PROVE Homed(d)' \/ OrphanedBy(e)
    <2>1. PICK x \in Documents : x = editor[e].id
      BY <1>6, <1>types DEF WriteDoc, KnownWork, KnownCreate, KnownUpdate
    <2>2. /\ editor[e].stage = "write" /\ editor[e].op \in {"create", "update"}
          /\ Committed(e, x) /\ category' = category
      BY <1>6, <2>1 DEF WriteDoc
    <2>3. LiveCategories' = LiveCategories
      BY <2>2 DEF LiveCategories
    <2>4. CASE x # d
      <3>1. document'[d] = document[d]
        BY <1>6, <1>types, <2>1, <2>4 DEF WriteDoc
      <3> QED BY <2>3, <3>1 DEF Homed, Placeable
    <2>5. CASE x = d
      <3>1. \/ document'[d].under = document[d].under /\ document[d].state = "live"
            \/ document'[d].under = editor[e].value /\ editor[e].value \in editor[e].saw \cup {Missing}
        <4>1. CASE editor[e].op = "create"
          <5>1. document'[d] = [NoDocument EXCEPT !.state = "live", !.slug = editor[e].field,
                                                  !.under = editor[e].value]
            BY <1>6, <1>types, <2>1, <2>5, <4>1 DEF WriteDoc
          <5>2. document'[d].under = editor[e].value
            BY <5>1 DEF NoDocument
          <5> QED BY <1>types, <2>2, <4>1, <5>2 DEF KnownWork, KnownCreate
        <4>2. CASE editor[e].op = "update"
          <5>1. /\ document'[d] = [document[d] EXCEPT ![editor[e].field] = editor[e].value]
                /\ document[d].state = "live" /\ document[d] \in DocumentRow
            BY <1>6, <1>types, <2>1, <2>5, <4>2 DEF WriteDoc
          <5>2. KnownUpdate(editor[e])
            BY <1>types, <2>2, <4>2 DEF KnownWork
          <5>3. /\ editor[e].field = "under" => document'[d].under = editor[e].value
                /\ editor[e].field # "under" => document'[d].under = document[d].under
            BY <5>1, <5>2, UpdatedRow
          <5> QED BY <5>1, <5>2, <5>3 DEF KnownUpdate
        <4> QED BY <2>2, <4>1, <4>2
      <3>2. CASE document'[d].under = document[d].under /\ document[d].state = "live"
        BY <2>3, <3>2 DEF Homed, Placeable
      <3>3. CASE document'[d].under = editor[e].value /\ editor[e].value \in editor[e].saw \cup {Missing}
        <4>1. CASE editor[e].saw = LiveCategories
          BY <2>3, <3>3, <4>1 DEF Homed, Placeable
        <4>2. CASE editor[e].saw # LiveCategories
          BY <1>2, <2>2, <4>2 DEF OrphanedBy
        <4> QED BY <4>1, <4>2
      <3> QED BY <3>1, <3>2, <3>3
    <2> QED BY <2>4, <2>5
  <1>7. ASSUME NEW e \in Editors, NEW x \in Documents,
               DeleteDoc(e, x) \/ \E b \in BOOLEAN : SetDocPublished(e, x, b)
        PROVE  Homed(d)'
    <2>1. /\ category' = category
          /\ \/ document' = [document EXCEPT ![x] = [NoDocument EXCEPT !.state = "deleted"]]
             \/ \E b \in BOOLEAN : document' = [document EXCEPT ![x].published = b]
      BY <1>7 DEF DeleteDoc, SetDocPublished
    <2>2. \/ document'[d].state = "deleted"
          \/ document'[d].state = document[d].state /\ document'[d].under = document[d].under
      BY <1>types, <2>1 DEF NoDocument, DocumentRow
    <2> QED BY <2>1, <2>2 DEF Homed, Placeable, LiveCategories
  <1>8. CASE UNCHANGED wikiVars
    BY <1>1, <1>8 DEF wikiVars
  <1>9. ASSUME NEW e \in Editors, BeginTree(e) \/ ReadTree(e) \/ ReadName(e) \/ Store(e) \/ Invalidate(e) \/ Refuse(e)
        PROVE  Homed(d)'
    BY <1>1, <1>9 DEF BeginTree, ReadTree, ReadName, Store, Invalidate, Refuse
  <1>10. ASSUME NEW e \in Editors, NEW k, ReadPage(e, k) \/ EndPage(k) PROVE Homed(d)'
    BY <1>1, <1>10 DEF ReadPage, EndPage
  <1>11. ASSUME NEW k \in Places, EndPage(k) PROVE Homed(d)'
    BY <1>1, <1>11 DEF EndPage
  <1>12. ASSUME NEW e \in Editors, NEW c \in Categories, BeginDeleteCategory(e, c) PROVE Homed(d)'
    BY <1>1, <1>12 DEF BeginDeleteCategory
  <1>13. ASSUME NEW e \in Editors, NEW x, NEW k, NEW c, BeginCreateDoc(e, x, k, c) PROVE Homed(d)'
    BY <1>1, <1>13 DEF BeginCreateDoc
  <1>14. ASSUME NEW e \in Editors, NEW x, NEW field, NEW v, BeginUpdateDoc(e, x, field, v)
         PROVE  Homed(d)'
    BY <1>1, <1>14 DEF BeginUpdateDoc
  <1> QED
    BY <1>4, <1>5, <1>6, <1>7, <1>8, <1>9, <1>10, <1>11, <1>12, <1>13, <1>14
    DEF WikiNext, TreeNext, SlugNext, CacheNext, EditorsNext

LEMMA OrphansAreExplained == WikiSpec => OrphansExplained
  <1>1. WikiInv /\ [WikiNext]_wikiVars =>
           [\A d \in Documents :
               Homed(d) => \/ Homed(d)'
                           \/ \E e \in Editors :
                                 /\ editor[e].stage = "write" /\ editor'[e] # editor[e]
                                 /\ editor[e].saw # IF editor[e].op = "drop" THEN DocsIn(editor[e].id)
                                                    ELSE LiveCategories]_wikiVars
    BY OrphansStep DEF OrphanedBy
  <1> QED BY <1>1, WikiInvariant, PTL DEF WikiSpec, OrphansExplained

-----------------------------------------------------------------------------
\* Compass

Form == [status : {"none", "pending", "approved", "rejected"}, by : Members \cup {Null},
         page : Notes \cup {Null}]

Reviewing == {"grant", "settle"}
Editing == {"write", "append", "collect", "tie"}
Rooting == {"plant", "link"}

\* What an application or a request for one grants.
Granted(f) == form[f].by \in IF form[f].page = Null THEN authors ELSE writers[form[f].page]

\* What a request of every stage is about: a form that is there, whose right is given before
\* it is approved; a page that is there, and what was read of it; a course without a root.
KnownHand(m) ==
    /\ m.stage \in {"idle", "ask"} \cup Reviewing \cup Editing \cup Rooting
    /\ m.stage = "ask" => m.who \in Members /\ m.id \in Notes \cup {Null}
    /\ m.stage \in Reviewing =>
          /\ m.id \in Forms /\ form[m.id].status # "none"
          /\ m.verdict \in {"approved", "rejected"}
    /\ m.stage = "settle" /\ m.verdict = "approved" => Granted(m.id)
    /\ m.stage \in Editing =>
          /\ m.page \in Notes /\ note[m.page].there
          /\ m.read \in Note /\ m.read.there
          /\ m.fields \subseteq {"title", "body"} /\ m.value \in Wordings
    /\ m.stage \in {"collect", "tie"} =>
          m.fields = {} /\ <<m.read.title, m.read.body>> \in history[m.page]
    /\ m.stage \in Rooting => m.who \in Members /\ m.id \in Subjects /\ m.found = Null
    /\ m.stage = "link" => m.page \in Notes

\* The last write of a page is in its history, or about to be, or was not logged.
WritesLogged ==
    \A n \in Notes :
        note[n].there =>
            \/ <<note[n].title, note[n].body>> \in history[n] \/ n \in unlogged
            \/ \E h \in Hands : /\ hand[h].stage = "append" /\ hand[h].page = n
                                /\ Version(h) = <<note[n].title, note[n].body>>

CompassInv ==
    /\ authors \subseteq Members
    /\ writers \in [Notes -> SUBSET Members]
    /\ form \in [Forms -> Form]
    /\ \A f \in Forms : form[f].status # "none" => form[f].by \in Members
    /\ note \in [Notes -> Note]
    /\ history \in [Notes -> SUBSET (Wordings \X Wordings)]
    /\ unlogged \subseteq Notes
    /\ root \in [Subjects -> Notes \cup {Null}]
    /\ collection \in [Notes -> {"none", "made", "known"}]
    /\ hand = [h \in Hands |-> hand[h]]
    /\ \A h \in Hands : KnownHand(hand[h])
    /\ GrantsKept
    /\ WritesLogged

\* Forms keep what they ask for, rights are not taken back, pages stay with their history.
Grows ==
    /\ authors \subseteq authors' /\ \A n \in Notes : writers[n] \subseteq writers'[n]
    /\ \A f \in Forms :
          form[f].status # "none" =>
             form'[f].status # "none" /\ form'[f].by = form[f].by /\ form'[f].page = form[f].page
    /\ \A n \in Notes : note[n].there => note'[n].there /\ history[n] \subseteq history'[n]

CompassTables ==
    /\ authors \subseteq Members
    /\ writers \in [Notes -> SUBSET Members]
    /\ form \in [Forms -> Form]
    /\ \A f \in Forms : form[f].status # "none" => form[f].by \in Members
    /\ note \in [Notes -> Note]
    /\ history \in [Notes -> SUBSET (Wordings \X Wordings)]
    /\ unlogged \subseteq Notes
    /\ root \in [Subjects -> Notes \cup {Null}]
    /\ collection \in [Notes -> {"none", "made", "known"}]

HandsKnown ==
    /\ hand = [h \in Hands |-> hand[h]]
    /\ \A h \in Hands : KnownHand(hand[h])

LEMMA CompassParts == CompassInv <=> CompassTables /\ HandsKnown /\ GrantsKept /\ WritesLogged
  BY DEF CompassInv, CompassTables, HandsKnown

LEMMA FreeKnown == KnownHand(Free) /\ KnownHand(Free)' /\ Free.stage = "idle"
  BY DEF Free, KnownHand, Reviewing, Editing, Rooting

LEMMA CompassInit_Inv == CompassInit => CompassInv
  <1> SUFFICES ASSUME CompassInit PROVE CompassInv
    OBVIOUS
  <1>1. CompassTables
    BY DEF CompassInit, CompassTables, NoForm, Form, NoNote, Note, Wordings
  <1>2. HandsKnown
    BY FreeKnown DEF CompassInit, HandsKnown
  <1>3. GrantsKept
    BY DEF CompassInit, GrantsKept, NoForm
  <1>4. WritesLogged
    BY DEF CompassInit, WritesLogged, NoNote
  <1> QED BY <1>1, <1>2, <1>3, <1>4, CompassParts

LEMMA KnownHandStays ==
    ASSUME CompassTables, CompassTables', Grows, NEW m, KnownHand(m)
    PROVE  KnownHand(m)'
  <1>1. m.stage = "settle" /\ m.verdict = "approved" => Granted(m.id)'
    <2> SUFFICES ASSUME m.stage = "settle", m.verdict = "approved" PROVE Granted(m.id)'
      OBVIOUS
    <2>1. m.id \in Forms /\ form[m.id].status # "none" /\ Granted(m.id)
      BY DEF KnownHand, Reviewing
    <2>2. form[m.id].page \in Notes \cup {Null}
      BY <2>1 DEF CompassTables, Form
    <2> QED BY <2>1, <2>2 DEF Granted, Grows
  <1>2. m.stage \in Reviewing => form'[m.id].status # "none"
    BY DEF KnownHand, Grows
  <1>3. m.stage \in Editing => note'[m.page].there /\ history[m.page] \subseteq history'[m.page]
    BY DEF KnownHand, Grows
  <1>4. m.stage \in {"collect", "tie"} => m.stage \in Editing
    BY DEF Editing
  <1> QED BY <1>1, <1>2, <1>3, <1>4 DEF KnownHand

LEMMA HandBecomes ==
    ASSUME CompassTables, CompassTables', Grows, HandsKnown,
           NEW h \in Hands, NEW m, KnownHand(m)', hand' = [hand EXCEPT ![h] = m]
    PROVE  /\ HandsKnown'
           /\ hand'[h] = m /\ \A x \in Hands \ {h} : hand'[x] = hand[x]
  <1>1. /\ hand'[h] = m /\ \A x \in Hands \ {h} : hand'[x] = hand[x]
        /\ hand' = [x \in Hands |-> hand'[x]]
    BY DEF HandsKnown
  <1>2. ASSUME NEW x \in Hands, NEW y, y = hand'[x] PROVE KnownHand(y)'
    <2>1. CASE x = h
      BY <1>1, <1>2, <2>1
    <2>2. CASE x # h
      <3>1. KnownHand(y)
        BY <1>1, <1>2, <2>2 DEF HandsKnown
      <3> QED BY <3>1, KnownHandStays
    <2> QED BY <2>1, <2>2
  <1>3. \A x \in Hands : KnownHand(hand[x])'
    <2> SUFFICES ASSUME NEW x \in Hands PROVE KnownHand(hand[x])'
      OBVIOUS
    <2>1. PICK y : y = hand'[x]
      OBVIOUS
    <2>2. KnownHand(y)'
      BY <1>2, <2>1
    <2> QED BY <2>1, <2>2 DEF KnownHand, Granted
  <1> QED BY <1>1, <1>3 DEF HandsKnown

\* The pages stay as they are, and nothing is taken from what is about to be logged.
LEMMA LoggedStays ==
    ASSUME WritesLogged, note' = note,
           \A n \in Notes : history[n] \subseteq history'[n],
           unlogged \subseteq unlogged',
           \A x \in Hands : hand[x].stage = "append" => hand'[x] = hand[x]
    PROVE  WritesLogged'
  <1> SUFFICES ASSUME NEW n \in Notes, note'[n].there
               PROVE  \/ <<note'[n].title, note'[n].body>> \in history'[n] \/ n \in unlogged'
                      \/ \E x \in Hands : /\ hand'[x].stage = "append" /\ hand'[x].page = n
                                          /\ Version(x)' = <<note'[n].title, note'[n].body>>
    BY DEF WritesLogged
  <1>1. CASE <<note[n].title, note[n].body>> \in history[n] \/ n \in unlogged
    BY <1>1
  <1>2. ASSUME NEW x \in Hands, hand[x].stage = "append", hand[x].page = n,
               Version(x) = <<note[n].title, note[n].body>>
        PROVE  /\ hand'[x].stage = "append" /\ hand'[x].page = n
               /\ Version(x)' = <<note'[n].title, note'[n].body>>
    BY <1>2 DEF Version, Edited
  <1> QED BY <1>1, <1>2 DEF WritesLogged

\* A request that changes no table goes on.
LEMMA QuietCompass ==
    ASSUME CompassInv, NEW h \in Hands, NEW m, KnownHand(m), hand[h].stage # "append",
           hand' = [hand EXCEPT ![h] = m],
           UNCHANGED <<authors, writers, form, note, history, unlogged, root, collection>>
    PROVE  CompassInv'
  <1>1. CompassTables /\ HandsKnown /\ GrantsKept /\ WritesLogged
    BY CompassParts
  <1>2. CompassTables' /\ Grows
    BY <1>1 DEF CompassTables, Grows
  <1>3. KnownHand(m)'
    BY <1>1, <1>2, KnownHandStays
  <1>4. HandsKnown' /\ hand'[h] = m /\ \A x \in Hands \ {h} : hand'[x] = hand[x]
    BY <1>1, <1>2, <1>3, HandBecomes
  <1>5. \A x \in Hands : hand[x].stage = "append" => hand'[x] = hand[x]
    BY <1>4
  <1>6. WritesLogged'
    BY <1>1, <1>5, LoggedStays
  <1>7. GrantsKept'
    BY <1>1 DEF GrantsKept
  <1> QED BY <1>2, <1>4, <1>6, <1>7 DEF CompassInv, CompassTables, HandsKnown

\* The row of an edit: a page that is there.
LEMMA EditedNote ==
    ASSUME NEW h \in Hands, KnownHand(hand[h]), hand[h].stage \in Editing
    PROVE  /\ Edited(h) \in Note /\ Edited(h).there
           /\ Version(h) \in Wordings \X Wordings
           /\ Version(h) = <<Edited(h).title, Edited(h).body>>
           /\ hand[h].stage \in {"collect", "tie"} => Version(h) = <<hand[h].read.title, hand[h].read.body>>
           /\ \A f \in {"title", "body"} : f \notin hand[h].fields => Edited(h)[f] = hand[h].read[f]
  <1>1. DOMAIN NoNote = {"there", "owner", "title", "body"}
    BY DEF NoNote
  <1>2. /\ hand[h].read \in Note /\ hand[h].read.there
        /\ hand[h].fields \subseteq {"title", "body"} /\ hand[h].value \in Wordings
    BY DEF KnownHand
  <1>3. /\ Edited(h).there = hand[h].read.there /\ Edited(h).owner = hand[h].read.owner
        /\ Edited(h).title = IF "title" \in hand[h].fields THEN hand[h].value ELSE hand[h].read.title
        /\ Edited(h).body = IF "body" \in hand[h].fields THEN hand[h].value ELSE hand[h].read.body
    BY <1>1, <1>2 DEF Edited
  <1>4. Edited(h) = [there |-> Edited(h).there, owner |-> Edited(h).owner,
                     title |-> Edited(h).title, body |-> Edited(h).body]
    BY <1>1 DEF Edited
  <1>5. Edited(h) \in Note
    BY <1>2, <1>3, <1>4 DEF Note
  <1>6. hand[h].stage \in {"collect", "tie"} => hand[h].fields = {}
    BY DEF KnownHand
  <1> QED BY <1>2, <1>3, <1>5, <1>6 DEF Version, Note

LEMMA CompassNext_Inv == CompassInv /\ [CompassNext]_compassVars => CompassInv'
  <1> SUFFICES ASSUME CompassInv, [CompassNext]_compassVars PROVE CompassInv'
    OBVIOUS
  <1>inv. CompassTables /\ HandsKnown /\ GrantsKept /\ WritesLogged
    BY CompassParts
  <1>known. \A h \in Hands : KnownHand(hand[h])
    BY <1>inv DEF HandsKnown
  <1>types. /\ form \in [Forms -> Form] /\ note \in [Notes -> Note]
            /\ writers \in [Notes -> SUBSET Members] /\ authors \subseteq Members
            /\ history \in [Notes -> SUBSET (Wordings \X Wordings)]
    BY <1>inv DEF CompassTables
  <1>all. CompassTables' /\ HandsKnown' /\ GrantsKept' /\ WritesLogged' => CompassInv'
    BY DEF CompassInv, CompassTables, HandsKnown
  \* The request h goes on as m, after a step that only adds.
  <1>1. ASSUME NEW h \in Hands, NEW m, KnownHand(m)', hand[h].stage # "append",
               hand' = [hand EXCEPT ![h] = m],
               CompassTables', Grows, GrantsKept', note' = note,
               \A n \in Notes : history[n] \subseteq history'[n],
               unlogged \subseteq unlogged'
        PROVE  CompassInv'
    <2>1. HandsKnown' /\ \A x \in Hands \ {h} : hand'[x] = hand[x]
      BY <1>1, <1>inv, HandBecomes
    <2>2. \A x \in Hands : hand[x].stage = "append" => hand'[x] = hand[x]
      BY <1>1, <2>1
    <2>3. WritesLogged'
      BY <1>1, <1>inv, <2>2, LoggedStays
    <2> QED BY <1>1, <1>all, <2>1, <2>3
  <1>2. ASSUME NEW h \in Hands, Stumble(h) PROVE CompassInv'
    BY <1>2, QuietCompass, FreeKnown DEF Stumble, Leave
  <1>3. ASSUME NEW h \in Hands, NEW u \in Members, NEW n \in Notes \cup {Null}, BeginAsk(h, u, n)
        PROVE  CompassInv'
    <2> DEFINE m == [Free EXCEPT !.stage = "ask", !.who = u, !.id = n]
    <2>1. KnownHand(m)
      BY DEF KnownHand, Free, Reviewing, Editing, Rooting
    <2>2. hand[h].stage = "idle" /\ hand' = [hand EXCEPT ![h] = m]
      BY <1>3, FreeKnown DEF BeginAsk, Take
    <2> HIDE DEF m
    <2> QED BY <1>3, <2>1, <2>2, QuietCompass DEF BeginAsk
  <1>4. ASSUME NEW h \in Hands, NEW f \in Forms, NEW v \in {"approved", "rejected"}, BeginReview(h, f, v)
        PROVE  CompassInv'
    <2> DEFINE m == [Free EXCEPT !.stage = First(v), !.id = f, !.verdict = v]
    <2>1. KnownHand(m)
      BY <1>4 DEF BeginReview, First, KnownHand, Free, Reviewing, Editing, Rooting
    <2>2. hand[h].stage = "idle" /\ hand' = [hand EXCEPT ![h] = m]
      BY <1>4, FreeKnown DEF BeginReview, Take
    <2> HIDE DEF m
    <2> QED BY <1>4, <2>1, <2>2, QuietCompass DEF BeginReview
  <1>5. ASSUME NEW h \in Hands, NEW n \in Notes, NEW fields \in SUBSET {"title", "body"},
               NEW w \in Wordings, BeginUpdatePage(h, n, fields, w)
        PROVE  CompassInv'
    <2> DEFINE m == [Free EXCEPT !.stage = "write", !.page = n, !.read = note[n],
                                 !.fields = fields, !.value = w]
    <2>1. KnownHand(m)
      BY <1>5, <1>types DEF BeginUpdatePage, KnownHand, Free, Reviewing, Editing, Rooting
    <2>2. hand[h].stage = "idle" /\ hand' = [hand EXCEPT ![h] = m]
      BY <1>5, FreeKnown DEF BeginUpdatePage, Take
    <2> HIDE DEF m
    <2> QED BY <1>5, <2>1, <2>2, QuietCompass DEF BeginUpdatePage
  <1>6. ASSUME NEW h \in Hands, NEW u \in Members, NEW x \in Subjects, BeginCourseRoot(h, u, x)
        PROVE  CompassInv'
    <2> DEFINE m == [Free EXCEPT !.stage = "plant", !.who = u, !.id = x, !.found = root[x]]
    <2>1. KnownHand(m)
      BY <1>6 DEF BeginCourseRoot, Rootless, KnownHand, Free, Reviewing, Editing, Rooting
    <2>2. hand[h].stage = "idle" /\ hand' = [hand EXCEPT ![h] = m]
      BY <1>6, FreeKnown DEF BeginCourseRoot, Take
    <2> HIDE DEF m
    <2> QED BY <1>6, <2>1, <2>2, QuietCompass DEF BeginCourseRoot
  <1>7. ASSUME NEW h \in Hands, NEW f \in Forms, InsertForm(h, f) PROVE CompassInv'
    <2> DEFINE row == [status |-> "pending", by |-> hand[h].who, page |-> hand[h].id]
    <2>a. /\ hand[h].stage = "ask" /\ form[f] = NoForm
          /\ form' = [form EXCEPT ![f] = row] /\ hand' = [hand EXCEPT ![h] = Free]
          /\ UNCHANGED <<authors, writers, note, history, unlogged, root, collection>>
      BY <1>7 DEF InsertForm, Leave
    <2>b. hand[h].who \in Members /\ hand[h].id \in Notes \cup {Null}
      BY <2>a, <1>known DEF KnownHand
    <2>1. form[f].status = "none" /\ hand[h].who \in Members /\ hand[h].id \in Notes \cup {Null}
      BY <2>a, <2>b DEF NoForm
    <2>2. row \in Form /\ row.by \in Members /\ row.status = "pending"
      BY <2>1 DEF Form
    <2> HIDE DEF row
    <2>3. form'[f] = row /\ (\A g \in Forms \ {f} : form'[g] = form[g]) /\ form' \in [Forms -> Form]
      BY <1>types, <2>a, <2>2
    <2>4. CompassTables'
      BY <1>inv, <2>a, <2>1, <2>2, <2>3 DEF CompassTables
    <2>5. Grows /\ GrantsKept'
      BY <1>inv, <2>a, <2>1, <2>2, <2>3 DEF Grows, GrantsKept
    <2> QED BY <1>1, <2>a, <2>4, <2>5, FreeKnown
  <1>8. ASSUME NEW h \in Hands, Grant(h) PROVE CompassInv'
    <2>1. PICK f \in Forms : f = hand[h].id
      BY <1>8, <1>known DEF Grant, KnownHand, Reviewing
    <2>2. PICK m : m = [hand[h] EXCEPT !.stage = "settle"]
      OBVIOUS
    <2>3. /\ hand[h].stage = "grant" /\ form[f].status # "none"
          /\ hand[h].verdict \in {"approved", "rejected"}
          /\ hand' = [hand EXCEPT ![h] = m]
          /\ UNCHANGED <<form, note, history, unlogged, root, collection>>
          /\ IF form[f].page = Null
             THEN authors' = authors \cup {form[f].by} /\ writers' = writers
             ELSE writers' = [writers EXCEPT ![form[f].page] = @ \cup {form[f].by}] /\ authors' = authors
      BY <1>8, <1>known, <1>inv, <2>1, <2>2 DEF Grant, KnownHand, Reviewing, HandsKnown
    <2>4. form[f].by \in Members /\ form[f].page \in Notes \cup {Null}
      BY <1>inv, <2>3 DEF CompassTables, Form
    <2>5. /\ authors' \subseteq Members /\ writers' \in [Notes -> SUBSET Members]
          /\ authors \subseteq authors' /\ \A n \in Notes : writers[n] \subseteq writers'[n]
          /\ form[f].by \in IF form[f].page = Null THEN authors' ELSE writers'[form[f].page]
      BY <1>types, <2>3, <2>4
    <2>6. CompassTables'
      BY <1>inv, <2>3, <2>5 DEF CompassTables
    <2>7. Grows
      BY <2>3, <2>5 DEF Grows
    <2>8. GrantsKept'
      <3>1. ASSUME NEW g \in Forms, form[g].status = "approved"
            PROVE  form[g].by \in IF form[g].page = Null THEN authors' ELSE writers'[form[g].page]
        <4>1. /\ form[g].page \in Notes \cup {Null}
              /\ form[g].by \in IF form[g].page = Null THEN authors ELSE writers[form[g].page]
          BY <1>inv, <1>types, <3>1 DEF GrantsKept, Form
        <4> QED BY <2>5, <4>1
      <3> QED BY <2>3, <3>1 DEF GrantsKept
    <2>9. KnownHand(m)'
      <3>1. m.stage = "settle" /\ m.id = f /\ m.verdict = hand[h].verdict
        BY <2>1, <2>2, <2>3, <1>known DEF KnownHand
      <3>2. Granted(f)'
        BY <2>3, <2>5 DEF Granted
      <3> QED BY <2>3, <3>1, <3>2 DEF KnownHand, Granted, Reviewing, Editing, Rooting
    <2> QED BY <1>1, <2>3, <2>6, <2>7, <2>8, <2>9
  <1>9. ASSUME NEW h \in Hands, Settle(h) PROVE CompassInv'
    <2>1. PICK f \in Forms : f = hand[h].id
      BY <1>9, <1>known DEF Settle, KnownHand, Reviewing
    <2>2. /\ hand[h].stage = "settle" /\ form[f].status # "none"
          /\ hand[h].verdict \in {"approved", "rejected"}
          /\ hand[h].verdict = "approved" => Granted(f)
          /\ form' = [form EXCEPT ![f].status = hand[h].verdict]
          /\ hand' = [hand EXCEPT ![h] = Free]
          /\ UNCHANGED <<authors, writers, note, history, unlogged, root, collection>>
      BY <1>9, <1>known, <2>1 DEF Settle, Leave, KnownHand, Reviewing
    <2>3. /\ form'[f].status = hand[h].verdict /\ form'[f].by = form[f].by
          /\ form'[f].page = form[f].page /\ form' \in [Forms -> Form]
          /\ \A g \in Forms \ {f} : form'[g] = form[g]
      <3> DEFINE row == [form[f] EXCEPT !.status = hand[h].verdict]
      <3>1. row \in Form /\ row.status = hand[h].verdict /\ row.by = form[f].by /\ row.page = form[f].page
        BY <1>types, <2>2 DEF Form
      <3>2. form' = [form EXCEPT ![f] = row]
        BY <1>types, <2>2
      <3> HIDE DEF row
      <3> QED BY <1>types, <3>1, <3>2
    <2>4. CompassTables'
      BY <1>inv, <2>2, <2>3 DEF CompassTables
    <2>5. Grows
      BY <2>2, <2>3 DEF Grows
    <2>6. GrantsKept'
      BY <1>inv, <2>2, <2>3 DEF GrantsKept, Granted
    <2> QED BY <1>1, <2>2, <2>4, <2>5, <2>6, FreeKnown
  \* A page is made, with its first version.
  <1>10. ASSUME NEW u \in Members, NEW n \in Notes, NEW w \in Wordings, Created(n, u, w),
                UNCHANGED <<authors, writers, form, unlogged, root, collection>>
         PROVE  /\ CompassTables' /\ Grows /\ GrantsKept'
                /\ note'[n] \in Note /\ note'[n].there /\ note'[n].title = w /\ note'[n].body = w
                /\ <<w, w>> \in history'[n]
                /\ (\A x \in Hands : hand[x].stage = "append" => hand'[x] = hand[x]) => WritesLogged'
    <2> DEFINE row == [there |-> TRUE, owner |-> u, title |-> w, body |-> w]
    <2>1. /\ ~note[n].there
          /\ note' = [note EXCEPT ![n] = row] /\ history' = [history EXCEPT ![n] = {<<w, w>>}]
      BY <1>10 DEF Created
    <2>2. row \in Note /\ row.there /\ row.title = w /\ row.body = w
      BY DEF Note
    <2> HIDE DEF row
    <2>3. /\ note'[n] = row /\ \A k \in Notes \ {n} : note'[k] = note[k] /\ history'[k] = history[k]
          /\ note' \in [Notes -> Note]
          /\ history' \in [Notes -> SUBSET (Wordings \X Wordings)] /\ <<w, w>> \in history'[n]
      BY <1>types, <2>1, <2>2
    <2>4. CompassTables'
      BY <1>10, <1>inv, <2>3 DEF CompassTables
    <2>5. Grows
      BY <1>10, <2>1, <2>3 DEF Grows
    <2>6. GrantsKept'
      BY <1>10, <1>inv DEF GrantsKept
    <2>7. ASSUME \A x \in Hands : hand[x].stage = "append" => hand'[x] = hand[x],
                 NEW k \in Notes, note'[k].there
          PROVE  \/ <<note'[k].title, note'[k].body>> \in history'[k] \/ k \in unlogged'
                 \/ \E x \in Hands : /\ hand'[x].stage = "append" /\ hand'[x].page = k
                                     /\ Version(x)' = <<note'[k].title, note'[k].body>>
      <3>1. CASE k = n
        BY <2>2, <2>3, <3>1
      <3>2. CASE k # n
        <4>1. note'[k] = note[k] /\ history'[k] = history[k] /\ note[k].there
          BY <2>3, <2>7, <3>2
        <4>2. ASSUME NEW x \in Hands, hand[x].stage = "append", hand[x].page = k,
                     Version(x) = <<note[k].title, note[k].body>>
              PROVE  /\ hand'[x].stage = "append" /\ hand'[x].page = k
                     /\ Version(x)' = <<note'[k].title, note'[k].body>>
          BY <2>7, <4>1, <4>2 DEF Version, Edited
        <4> QED BY <1>10, <1>inv, <4>1, <4>2 DEF WritesLogged
      <3> QED BY <3>1, <3>2
    <2>8. (\A x \in Hands : hand[x].stage = "append" => hand'[x] = hand[x]) => WritesLogged'
      BY <2>7 DEF WritesLogged
    <2> QED BY <2>2, <2>3, <2>4, <2>5, <2>6, <2>8
  \* It is made by a request that goes on as m.
  <1>11. ASSUME NEW h \in Hands, NEW m, KnownHand(m)', hand[h].stage # "append",
                hand' = [hand EXCEPT ![h] = m],
                CompassTables', Grows, GrantsKept',
                (\A x \in Hands : hand[x].stage = "append" => hand'[x] = hand[x]) => WritesLogged'
         PROVE  CompassInv'
    <2>1. HandsKnown' /\ \A x \in Hands \ {h} : hand'[x] = hand[x]
      BY <1>11, <1>inv, HandBecomes
    <2>2. WritesLogged'
      BY <1>11, <2>1
    <2> QED BY <1>11, <1>all, <2>1, <2>2
  <1>12. ASSUME NEW h \in Hands, NEW u \in Members, NEW n \in Notes, NEW w \in Wordings,
                CreateEssay(h, u, n, w)
         PROVE  CompassInv'
    <2>1. Created(n, u, w) /\ UNCHANGED <<authors, writers, form, unlogged, root, collection, hand>>
      BY <1>12 DEF CreateEssay
    <2>2. CompassTables' /\ Grows /\ GrantsKept' /\ WritesLogged'
      BY <1>10, <2>1
    <2>3. ASSUME NEW x \in Hands, NEW y, y = hand[x] PROVE KnownHand(y)'
      BY <1>inv, <1>known, <2>2, <2>3, KnownHandStays
    <2>4. HandsKnown'
      <3>1. ASSUME NEW x \in Hands PROVE KnownHand(hand[x])'
        <4>1. PICK y : y = hand[x]
          OBVIOUS
        <4> QED BY <2>1, <2>3, <4>1 DEF KnownHand, Granted
      <3> QED BY <1>inv, <2>1, <3>1 DEF HandsKnown
    <2> QED BY <1>all, <2>2, <2>4
  <1>13. ASSUME NEW h \in Hands, NEW u \in Members, NEW n \in Notes, NEW w \in Wordings,
                CreateRootPage(h, u, n, w)
         PROVE  CompassInv'
    <2>1. PICK row : row = note'[n]
      OBVIOUS
    <2> DEFINE m == [Free EXCEPT !.stage = "collect", !.page = n, !.read = row]
    <2>2. /\ Created(n, u, w) /\ UNCHANGED <<authors, writers, form, unlogged, root, collection>>
          /\ hand[h].stage = "idle" /\ hand' = [hand EXCEPT ![h] = m]
      BY <1>13, <2>1, FreeKnown DEF CreateRootPage, Take
    <2>3. /\ CompassTables' /\ Grows /\ GrantsKept'
          /\ row \in Note /\ row.there /\ row.title = w /\ row.body = w /\ <<w, w>> \in history'[n]
          /\ (\A x \in Hands : hand[x].stage = "append" => hand'[x] = hand[x]) => WritesLogged'
      BY <1>10, <2>1, <2>2
    <2>4. KnownHand(m)'
      BY <2>1, <2>3 DEF KnownHand, Free, Reviewing, Editing, Rooting, Wordings
    <2> HIDE DEF m
    <2> QED BY <1>11, <2>2, <2>3, <2>4
  <1>14. ASSUME NEW h \in Hands, NEW n \in Notes, PlantCourseRoot(h, n) PROVE CompassInv'
    <2>1. PICK u \in Members : u = hand[h].who
      BY <1>14, <1>known DEF PlantCourseRoot, KnownHand, Rooting
    <2>2. PICK m : m = [hand[h] EXCEPT !.stage = "link", !.page = n]
      OBVIOUS
    <2>3. /\ Created(n, u, 0) /\ UNCHANGED <<authors, writers, form, unlogged, root, collection>>
          /\ hand[h].stage = "plant" /\ hand' = [hand EXCEPT ![h] = m]
      BY <1>14, <1>inv, <2>1, <2>2 DEF PlantCourseRoot, HandsKnown
    <2>4. /\ CompassTables' /\ Grows /\ GrantsKept'
          /\ (\A x \in Hands : hand[x].stage = "append" => hand'[x] = hand[x]) => WritesLogged'
      BY <1>10, <2>3 DEF Wordings
    <2>5. KnownHand(m)'
      <3>1. /\ hand[h].who \in Members /\ hand[h].id \in Subjects /\ hand[h].found = Null
        BY <1>known, <2>3 DEF KnownHand, Rooting
      <3>2. m.stage = "link" /\ m.page = n /\ m.who = hand[h].who /\ m.id = hand[h].id
            /\ m.found = hand[h].found
        BY <2>2
      <3> QED BY <3>1, <3>2 DEF KnownHand, Reviewing, Editing, Rooting
    <2> QED BY <1>11, <2>3, <2>4, <2>5
  <1>15. ASSUME NEW h \in Hands, WritePage(h) PROVE CompassInv'
    <2>1. PICK n \in Notes : n = hand[h].page
      BY <1>15, <1>known DEF WritePage, KnownHand, Editing
    <2>2. PICK m : m = [hand[h] EXCEPT !.stage = "append"]
      OBVIOUS
    <2>3. PICK row : row = Edited(h)
      OBVIOUS
    <2>4. /\ hand[h].stage = "write" /\ hand[h].stage \in Editing /\ note[n].there
          /\ note' = [note EXCEPT ![n] = row] /\ hand' = [hand EXCEPT ![h] = m]
          /\ UNCHANGED <<authors, writers, form, history, unlogged, root, collection>>
      BY <1>15, <1>known, <2>1, <2>2, <2>3 DEF WritePage, KnownHand, Editing
    <2>5. row \in Note /\ row.there /\ Version(h) = <<row.title, row.body>>
      BY <1>known, <2>3, <2>4, EditedNote
    <2>6. /\ note'[n] = row /\ \A k \in Notes \ {n} : note'[k] = note[k]
          /\ note' \in [Notes -> Note]
      BY <1>types, <2>4, <2>5
    <2>7. CompassTables' /\ Grows /\ GrantsKept'
      BY <1>inv, <2>4, <2>5, <2>6 DEF CompassTables, Grows, GrantsKept
    <2>8. /\ m.stage = "append" /\ m.page = n /\ m.read = hand[h].read
          /\ m.fields = hand[h].fields /\ m.value = hand[h].value
      BY <1>known, <2>1, <2>2 DEF KnownHand
    <2>9. KnownHand(m)'
      <3>1. /\ m.read \in Note /\ m.read.there /\ m.fields \subseteq {"title", "body"}
            /\ m.value \in Wordings /\ note'[n].there
        BY <1>known, <2>4, <2>5, <2>6, <2>8 DEF KnownHand, Editing
      <3> QED BY <2>8, <3>1 DEF KnownHand, Reviewing, Editing, Rooting
    <2>10. HandsKnown' /\ hand'[h] = m /\ \A x \in Hands \ {h} : hand'[x] = hand[x]
      BY <1>inv, <2>4, <2>7, <2>9, HandBecomes
    <2>11. Version(h)' = Version(h)
      BY <2>8, <2>10 DEF Version, Edited
    <2>12. ASSUME NEW k \in Notes, note'[k].there
           PROVE  \/ <<note'[k].title, note'[k].body>> \in history'[k] \/ k \in unlogged'
                  \/ \E x \in Hands : /\ hand'[x].stage = "append" /\ hand'[x].page = k
                                      /\ Version(x)' = <<note'[k].title, note'[k].body>>
      <3>1. CASE k = n
        BY <2>5, <2>6, <2>8, <2>10, <2>11, <3>1
      <3>2. CASE k # n
        <4>1. note'[k] = note[k] /\ note[k].there
          BY <2>6, <2>12, <3>2
        <4>2. ASSUME NEW x \in Hands, hand[x].stage = "append", hand[x].page = k,
                     Version(x) = <<note[k].title, note[k].body>>
              PROVE  /\ hand'[x].stage = "append" /\ hand'[x].page = k
                     /\ Version(x)' = <<note'[k].title, note'[k].body>>
          BY <2>4, <2>10, <4>1, <4>2 DEF Version, Edited
        <4> QED BY <1>inv, <2>4, <4>1, <4>2 DEF WritesLogged
      <3> QED BY <3>1, <3>2
    <2> QED BY <1>all, <2>7, <2>10, <2>12 DEF WritesLogged
  <1>16. ASSUME NEW h \in Hands, AppendHistory(h) PROVE CompassInv'
    <2>1. PICK n \in Notes : n = hand[h].page
      BY <1>16, <1>known DEF AppendHistory, KnownHand, Editing
    <2>2. /\ hand[h].stage = "append" /\ hand[h].stage \in Editing
          /\ hand' = [hand EXCEPT ![h] = Free]
          /\ UNCHANGED <<authors, writers, form, note, root, collection>>
          /\ \/ history' = [history EXCEPT ![n] = @ \cup {Version(h)}] /\ UNCHANGED unlogged
             \/ unlogged' = unlogged \cup {n} /\ UNCHANGED history
      BY <1>16, <2>1 DEF AppendHistory, Leave, Editing
    <2>3. Version(h) \in Wordings \X Wordings
      BY <1>known, <2>2, EditedNote
    <2>4. PICK v : v = Version(h)
      OBVIOUS
    <2>5. /\ history' \in [Notes -> SUBSET (Wordings \X Wordings)]
          /\ \A k \in Notes : history[k] \subseteq history'[k]
          /\ unlogged \subseteq unlogged' /\ unlogged' \subseteq unlogged \cup {n}
          /\ v \in history'[n] \/ n \in unlogged'
      BY <1>types, <2>2, <2>3, <2>4
    <2>6. CompassTables' /\ Grows /\ GrantsKept'
      BY <1>inv, <2>2, <2>5 DEF CompassTables, Grows, GrantsKept
    <2>7. HandsKnown' /\ hand'[h] = Free /\ \A x \in Hands \ {h} : hand'[x] = hand[x]
      BY <1>inv, <2>2, <2>6, FreeKnown, HandBecomes
    <2>8. ASSUME NEW k \in Notes, note'[k].there
          PROVE  \/ <<note'[k].title, note'[k].body>> \in history'[k] \/ k \in unlogged'
                 \/ \E x \in Hands : /\ hand'[x].stage = "append" /\ hand'[x].page = k
                                     /\ Version(x)' = <<note'[k].title, note'[k].body>>
      <3>1. CASE <<note[k].title, note[k].body>> \in history[k] \/ k \in unlogged
        BY <2>2, <2>5, <3>1
      <3>2. ASSUME NEW x \in Hands \ {h}, hand[x].stage = "append", hand[x].page = k,
                   Version(x) = <<note[k].title, note[k].body>>
            PROVE  /\ hand'[x].stage = "append" /\ hand'[x].page = k
                   /\ Version(x)' = <<note'[k].title, note'[k].body>>
        BY <2>2, <2>7, <3>2 DEF Version, Edited
      <3>3. CASE hand[h].page = k /\ Version(h) = <<note[k].title, note[k].body>>
        BY <2>1, <2>2, <2>4, <2>5, <3>3
      <3> QED BY <1>inv, <2>2, <2>8, <3>1, <3>2, <3>3 DEF WritesLogged
    <2> QED BY <1>all, <2>6, <2>7, <2>8 DEF WritesLogged
  <1>17. ASSUME NEW h \in Hands, InsertCollection(h) PROVE CompassInv'
    <2>1. PICK n \in Notes : n = hand[h].page
      BY <1>17, <1>known DEF InsertCollection, KnownHand, Editing
    <2>2. PICK m : m = [hand[h] EXCEPT !.stage = "tie"]
      OBVIOUS
    <2>3. /\ hand[h].stage = "collect" /\ hand' = [hand EXCEPT ![h] = m]
          /\ collection' = [collection EXCEPT ![n] = "made"]
          /\ UNCHANGED <<authors, writers, form, note, history, unlogged, root>>
      BY <1>17, <1>inv, <2>1, <2>2 DEF InsertCollection, HandsKnown
    <2>4. CompassTables' /\ Grows /\ GrantsKept'
      BY <1>inv, <2>3 DEF CompassTables, Grows, GrantsKept
    <2>5. KnownHand(m)'
      <3>1. m.stage = "tie" /\ m = [hand[h] EXCEPT !.stage = "tie"]
        BY <2>2, <2>3, <1>known DEF KnownHand
      <3> QED BY <1>known, <2>3, <3>1 DEF KnownHand, Granted, Reviewing, Editing, Rooting
    <2> QED BY <1>1, <2>3, <2>4, <2>5
  <1>18. ASSUME NEW h \in Hands, TieCollection(h) PROVE CompassInv'
    <2>1. PICK n \in Notes : n = hand[h].page
      BY <1>18, <1>known DEF TieCollection, KnownHand, Editing
    <2>2. PICK row : row = Edited(h)
      OBVIOUS
    <2>3. /\ hand[h].stage = "tie" /\ hand[h].stage \in Editing
          /\ note' = [note EXCEPT ![n] = row] /\ hand' = [hand EXCEPT ![h] = Free]
          /\ collection' = [collection EXCEPT ![n] = "known"]
          /\ UNCHANGED <<authors, writers, form, history, unlogged, root>>
      BY <1>18, <2>1, <2>2 DEF TieCollection, Leave, Editing
    <2>4. row \in Note /\ row.there /\ <<row.title, row.body>> \in history[n]
      BY <1>known, <2>1, <2>2, <2>3, EditedNote DEF KnownHand
    <2>5. /\ note'[n] = row /\ \A k \in Notes \ {n} : note'[k] = note[k]
          /\ note' \in [Notes -> Note]
      BY <1>types, <2>3, <2>4
    <2>6. CompassTables' /\ Grows /\ GrantsKept'
      BY <1>inv, <2>3, <2>4, <2>5 DEF CompassTables, Grows, GrantsKept
    <2>7. HandsKnown' /\ hand'[h] = Free /\ \A x \in Hands \ {h} : hand'[x] = hand[x]
      BY <1>inv, <2>3, <2>6, FreeKnown, HandBecomes
    <2>8. ASSUME NEW k \in Notes, note'[k].there
          PROVE  \/ <<note'[k].title, note'[k].body>> \in history'[k] \/ k \in unlogged'
                 \/ \E x \in Hands : /\ hand'[x].stage = "append" /\ hand'[x].page = k
                                     /\ Version(x)' = <<note'[k].title, note'[k].body>>
      <3>1. CASE k = n
        BY <2>3, <2>4, <2>5, <3>1
      <3>2. CASE k # n
        <4>1. note'[k] = note[k] /\ note[k].there
          BY <2>5, <2>8, <3>2
        <4>2. ASSUME NEW x \in Hands, hand[x].stage = "append", hand[x].page = k,
                     Version(x) = <<note[k].title, note[k].body>>
              PROVE  /\ hand'[x].stage = "append" /\ hand'[x].page = k
                     /\ Version(x)' = <<note'[k].title, note'[k].body>>
          BY <2>3, <2>7, <4>1, <4>2 DEF Version, Edited
        <4> QED BY <1>inv, <2>3, <4>1, <4>2 DEF WritesLogged
      <3> QED BY <3>1, <3>2
    <2> QED BY <1>all, <2>6, <2>7, <2>8 DEF WritesLogged
  <1>19. ASSUME NEW h \in Hands, LinkCourseRoot(h) PROVE CompassInv'
    <2>1. /\ hand[h].stage = "link" /\ hand[h].page \in Notes
          /\ root' = [root EXCEPT ![hand[h].id] = hand[h].page]
          /\ hand' = [hand EXCEPT ![h] = Free]
          /\ UNCHANGED <<authors, writers, form, note, history, unlogged, collection>>
      BY <1>19, <1>known DEF LinkCourseRoot, Leave, KnownHand
    <2>2. CompassTables' /\ Grows /\ GrantsKept'
      BY <1>inv, <2>1 DEF CompassTables, Grows, GrantsKept
    <2> QED BY <1>1, <2>1, <2>2, FreeKnown
  <1>20. CASE UNCHANGED compassVars
    <2>1. UNCHANGED <<authors, writers, form, note, history, unlogged, root, collection, hand>>
      BY <1>20 DEF compassVars
    <2>2. CompassTables' /\ GrantsKept'
      BY <1>inv, <2>1 DEF CompassTables, GrantsKept
    <2>3. WritesLogged'
      BY <1>inv, <2>1, LoggedStays
    <2>4. HandsKnown'
      <3>1. ASSUME NEW h \in Hands PROVE KnownHand(hand[h])'
        BY <1>known, <2>1 DEF KnownHand, Granted
      <3> QED BY <1>inv, <2>1, <3>1 DEF HandsKnown
    <2> QED BY <1>all, <2>2, <2>3, <2>4
  <1> QED
    BY <1>2, <1>3, <1>4, <1>5, <1>6, <1>7, <1>8, <1>9, <1>12, <1>13, <1>14, <1>15, <1>16, <1>17,
       <1>18, <1>19, <1>20
    DEF CompassNext, FormsNext, NotesNext, RootsNext

LEMMA CompassInvariant == CompassSpec => []CompassInv
  BY CompassInit_Inv, CompassNext_Inv, PTL DEF CompassSpec

\* What the wiki shows is what its tables say, up to the races the property names; an
\* approval has its right and a page its history, for any number of documents, categories,
\* pages and requests.
THEOREM DocumentsAreSound == WikiSpec /\ CompassSpec => []DocumentsSound
  <1>1. WikiInv => WikiTypeOK /\ ShownKnown
    BY DEF WikiInv, WikiTypeOK, DocumentRow, CategoryRow, EditorsKnown, KnownWork
  <1>2. CompassInv => CompassTypeOK /\ GrantsKept
    <2> SUFFICES ASSUME CompassInv PROVE CompassTypeOK /\ GrantsKept
      OBVIOUS
    <2>1. \A f \in Forms : form[f].status \in {"none", "pending", "approved", "rejected"}
      BY DEF CompassInv, Form
    <2>2. \A n \in Notes : writers[n] \subseteq Members /\ history[n] \subseteq Wordings \X Wordings
      BY DEF CompassInv
    <2> QED BY <2>1, <2>2 DEF CompassInv, CompassTypeOK
  <1>3. CompassInv => HistoryKept
    BY DEF CompassInv, HistoryKept, WritesLogged
  <1>4. (WikiTypeOK /\ ShownKnown) /\ (CompassTypeOK /\ GrantsKept) /\ HistoryKept => DocumentsSound
    BY DEF DocumentsSound
  <1> QED BY <1>1, <1>2, <1>3, <1>4, WikiInvariant, CompassInvariant, PTL

\* A row of a page: a field of it changes only for a write that had the field or had read
\* another row.
LEMMA EditsStep ==
    ASSUME CompassInv, [CompassNext]_compassVars
    PROVE  /\ \A n \in Notes, field \in {"title", "body"} :
                 note[n].there /\ note'[n][field] # note[n][field] =>
                    \E h \in Hands :
                        /\ hand'[h] # hand[h] /\ hand[h].page = n
                        /\ field \in hand[h].fields \/ hand[h].read # note[n]
           /\ \A x \in Subjects :
                 Replanted(x) => \E h \in Hands : hand[h].stage = "link" /\ hand[h].found # root[x]
  <1>known. (\A h \in Hands : KnownHand(hand[h])) /\ hand = [h \in Hands |-> hand[h]]
    BY DEF CompassInv
  <1>types. note \in [Notes -> Note] /\ root \in [Subjects -> Notes \cup {Null}]
    BY DEF CompassInv
  <1>1. ASSUME NEW n \in Notes, NEW field \in {"title", "body"},
               note[n].there, note'[n][field] # note[n][field]
        PROVE  \E h \in Hands :
                  /\ hand'[h] # hand[h] /\ hand[h].page = n
                  /\ field \in hand[h].fields \/ hand[h].read # note[n]
    \* An edit of a request that goes on with another stage.
    <2>1. ASSUME NEW h \in Hands, hand[h].stage \in Editing,
                 note' = [note EXCEPT ![hand[h].page] = Edited(h)],
                 hand'[h].stage # hand[h].stage
          PROVE  \E g \in Hands :
                    /\ hand'[g] # hand[g] /\ hand[g].page = n
                    /\ field \in hand[g].fields \/ hand[g].read # note[n]
      <3>1. PICK k \in Notes : k = hand[h].page
        BY <1>known, <2>1 DEF KnownHand
      <3>2. PICK row : row = Edited(h)
        OBVIOUS
      <3>3. note' = [note EXCEPT ![k] = row]
        BY <2>1, <3>1, <3>2
      <3>4. n = k /\ row[field] # note[n][field]
        BY <1>1, <1>types, <3>3
      <3>5. field \notin hand[h].fields => row[field] = hand[h].read[field]
        BY <1>known, <2>1, <3>2, EditedNote
      <3> QED BY <2>1, <3>1, <3>4, <3>5
    <2>2. ASSUME NEW h \in Hands, WritePage(h)
          PROVE  \E g \in Hands :
                    /\ hand'[g] # hand[g] /\ hand[g].page = n
                    /\ field \in hand[g].fields \/ hand[g].read # note[n]
      <3>1. hand[h].stage = "write" /\ hand[h].stage \in Editing
        BY <2>2 DEF WritePage, Editing
      <3>2. PICK m : m = [hand[h] EXCEPT !.stage = "append"]
        OBVIOUS
      <3>3. m.stage = "append" /\ hand' = [hand EXCEPT ![h] = m]
        BY <1>known, <2>2, <3>1, <3>2 DEF WritePage, KnownHand
      <3>4. hand'[h].stage = "append"
        BY <1>known, <3>3
      <3> QED BY <2>1, <2>2, <3>1, <3>4 DEF WritePage
    <2>3. ASSUME NEW h \in Hands, TieCollection(h)
          PROVE  \E g \in Hands :
                    /\ hand'[g] # hand[g] /\ hand[g].page = n
                    /\ field \in hand[g].fields \/ hand[g].read # note[n]
      <3>1. hand[h].stage = "tie" /\ hand[h].stage \in Editing
        BY <2>3 DEF TieCollection, Editing
      <3>2. hand'[h].stage = "idle"
        BY <1>known, <2>3, FreeKnown DEF TieCollection, Leave
      <3> QED BY <2>1, <2>3, <3>1, <3>2 DEF TieCollection
    \* A new page is no change of one that is there.
    <2>4. ASSUME NEW u, NEW k \in Notes, NEW w, Created(k, u, w) PROVE FALSE
      BY <1>1, <1>types, <2>4 DEF Created
    <2>5. note' # note
      BY <1>1
    <2> QED
      BY <2>2, <2>3, <2>4, <2>5
      DEF CompassNext, FormsNext, NotesNext, RootsNext, compassVars, BeginAsk, InsertForm,
          BeginReview, Grant, Settle, Stumble, CreateEssay, CreateRootPage, BeginUpdatePage,
          AppendHistory, InsertCollection, BeginCourseRoot, PlantCourseRoot, LinkCourseRoot
  <1>2. ASSUME NEW x \in Subjects, Replanted(x)
        PROVE  \E h \in Hands : hand[h].stage = "link" /\ hand[h].found # root[x]
    <2>1. root[x] # Null /\ root' # root
      BY <1>2 DEF Replanted
    <2>2. PICK h \in Hands : LinkCourseRoot(h)
      BY <2>1
      DEF CompassNext, FormsNext, NotesNext, RootsNext, compassVars, BeginAsk, InsertForm,
          BeginReview, Grant, Settle, Stumble, CreateEssay, CreateRootPage, BeginUpdatePage,
          WritePage, AppendHistory, InsertCollection, TieCollection, BeginCourseRoot, PlantCourseRoot
    <2>3. hand[h].stage = "link"
      BY <2>2 DEF LinkCourseRoot
    <2>4. hand[h].found = Null
      BY <1>known, <2>3 DEF KnownHand, Rooting
    <2> QED BY <2>1, <2>3, <2>4
  <1> QED BY <1>1, <1>2

LEMMA EditsAreExplained == CompassSpec => EditsExplained
  <1>1. CompassInv /\ [CompassNext]_compassVars =>
           [/\ \A n \in Notes, field \in {"title", "body"} :
                  note[n].there /\ note'[n][field] # note[n][field] =>
                     \E h \in Hands :
                         /\ hand'[h] # hand[h] /\ hand[h].page = n
                         /\ field \in hand[h].fields \/ hand[h].read # note[n]
            /\ \A x \in Subjects :
                  Replanted(x) => \E h \in Hands : hand[h].stage = "link" /\ hand[h].found # root[x]]_compassVars
    BY EditsStep
  <1> QED BY <1>1, CompassInvariant, PTL DEF CompassSpec, EditsExplained

-----------------------------------------------------------------------------
\* Notifications

Row == [state : {"none", "open", "there", "gone"}, to : Receivers \cup {Everyone},
        about : Bulletins \cup {Nobody}, read : BOOLEAN, old : BOOLEAN]

BulletinRow == [state : {"none", "live", "deleted"}, published : BOOLEAN, text : {0, 1}]

MessengerRow ==
    [stage : {"idle", "push", "pushed", "edit", "ready", "mark", "count", "all", "tell"},
     user : Receivers \cup {Nobody}, slot : Slots \cup {0}, about : Bulletins \cup {Nobody},
     was : BulletinRow, face : BulletinRow, seen : SUBSET Slots, met : BOOLEAN, failed : BOOLEAN]

Page == [on : BOOLEAN, known : SUBSET Slots,
         why : {"nothing", "overlap", "early", "phantom", "withdrawn", "old", "failed"}]

NoticeTables ==
    /\ notice \in [Slots -> Row]
    /\ marked \subseteq [of : Slots, by : Receivers, late : BOOLEAN]
    /\ bulletin \in [Bulletins -> BulletinRow]
    /\ told \in [Receivers -> Page]

Made(s) == notice[s].state \in {"there", "gone"}

\* A user has no more to read of a notice.
Finished(s, u) == notice[s].state = "gone" \/ notice[s].read \/ \E m \in marked : m.of = s /\ m.by = u

\* A notice that is not committed is fresh; one to all has its announcement.
NoticesKnown ==
    \A s \in Slots :
        /\ notice[s].state = "open" => ~notice[s].read /\ ~notice[s].old
        /\ notice[s].state = "there" /\ notice[s].to = Everyone =>
              notice[s].about \in Bulletins /\ bulletin[notice[s].about].state # "none"

\* Marks are made on what was committed; pages are told of what is addressed to them.
MarksMade == \A m \in marked : Made(m.of) /\ (m.late \/ (notice[m.of].state = "there" /\ notice[m.of].to = Everyone))

ToldOf(s, u) == s \in Slots /\ notice[s].state # "none" /\ Addressed(s, u)

PagesKnown == \A u \in Receivers : \A s \in told[u].known : ToldOf(s, u)

\* What a goroutine has in hand: a notice or an announcement at every stage.
Sends(m) ==
    /\ m.stage = "push" => m.slot \in Slots /\ Made(m.slot)
    /\ m.stage = "pushed" =>
          /\ m.slot \in Slots /\ notice[m.slot].state = "open" /\ notice[m.slot].about = m.about
          /\ m.about = Nobody <=> notice[m.slot].to \in Receivers
    /\ m.about # Nobody =>
          m.stage \in {"edit", "pushed"} /\ m.face.state = "live"
    /\ m.stage = "edit" => m.about # Nobody

Reads(m) ==
    /\ m.stage \in {"ready", "mark", "count", "all", "tell"} => m.user \in Receivers
    /\ m.stage \in {"mark", "count"} => m.slot \in Slots /\ Made(m.slot) /\ Addressed(m.slot, m.user)
    /\ m.stage = "count" => Finished(m.slot, m.user)
    /\ m.stage = "all" =>
          \A s \in m.seen : s \in Slots /\ Made(s) /\ (notice[s].state = "there" => notice[s].to = m.user)
    /\ m.stage = "tell" => \A s \in m.seen : ToldOf(s, m.user)

\* What one that met no other can rely on.
Undisturbed(m) ==
    /\ m.about # Nobody => bulletin[m.about].state # "deleted"
    /\ m.stage = "push" => notice[m.slot].to \in Receivers /\ m.slot \in Unread(notice[m.slot].to)
    /\ m.stage = "pushed" =>
          \A u \in Receivers : Addressed(m.slot, u) /\ told[u].on => m.slot \in told[u].known
    /\ m.stage = "tell" => m.failed \/ m.seen = Unread(m.user)

Messenger(m) ==
    /\ Sends(m)
    /\ Reads(m)
    /\ m.met \/ Undisturbed(m)

Carries(m, s) == m.stage \in {"push", "pushed"} /\ m.slot = s

Busy(s) == \E g \in Messengers : Carries(messenger[g], s)

Counting(s, u) == \E g \in Messengers : messenger[g].stage = "count" /\ messenger[g].user = u /\ messenger[g].slot = s

Awaited(u) == \E g \in Messengers : messenger[g].stage \in {"ready", "tell"} /\ messenger[g].user = u

\* The page of a user knows what there is to read, save what is under way and what is about
\* to be told as read.
Informed(u) ==
    told[u].on /\ told[u].why = "nothing" /\ ~Awaited(u) =>
        \A s \in Slots : Busy(s) \/ (s \in Unread(u) <=> s \in told[u].known /\ ~Counting(s, u))

NoticesInv ==
    /\ NoticeTables
    /\ NoticesKnown
    /\ MarksMade
    /\ PagesKnown
    /\ messenger \in [Messengers -> MessengerRow]
    /\ \A g \in Messengers : Messenger(messenger[g])
    /\ \A g, h \in Messengers : \A s \in Slots : Carries(messenger[g], s) /\ Carries(messenger[h], s) => g = h
    /\ \A u \in Receivers : Informed(u)

LEMMA UnreadIs ==
    ASSUME NEW u, NEW s
    PROVE  /\ s \in Unread(u) <=>
                 /\ s \in Slots /\ notice[s].state = "there" /\ ~notice[s].old /\ Addressed(s, u)
                 /\ notice[s].to = Everyone => bulletin[notice[s].about].state = "live"
                 /\ ~notice[s].read /\ ~\E m \in marked : m.of = s /\ m.by = u
           /\ s \in Unread(u)' <=>
                 /\ s \in Slots /\ notice'[s].state = "there" /\ ~notice'[s].old /\ Addressed(s, u)'
                 /\ notice'[s].to = Everyone => bulletin'[notice'[s].about].state = "live"
                 /\ ~notice'[s].read /\ ~\E m \in marked' : m.of = s /\ m.by = u
  BY DEF Unread, Displayed, ReadBy

LEMMA UnsentKnown ==
    /\ Unsent \in MessengerRow /\ Messenger(Unsent) /\ Messenger(Unsent)'
    /\ Unsent.stage = "idle" /\ \A s : ~Carries(Unsent, s)
  BY DEF Unsent, NoBulletin, BulletinRow, MessengerRow, Messenger, Sends, Reads, Undisturbed,
     Carries

LEMMA NoticesInit_Inv == NoticesInit => NoticesInv
  <1> SUFFICES ASSUME NoticesInit PROVE NoticesInv
    OBVIOUS
  <1>1. NoticeTables
    BY DEF NoticesInit, NoticeTables, NoNotice, NoBulletin, BulletinRow, Row, Offline, Page
  <1>2. NoticesKnown /\ MarksMade /\ PagesKnown
    BY DEF NoticesInit, NoticesKnown, MarksMade, PagesKnown, NoNotice, Offline
  <1>3. messenger \in [Messengers -> MessengerRow] /\ \A g \in Messengers : messenger[g] = Unsent
    BY UnsentKnown DEF NoticesInit
  <1>4. \A u \in Receivers : Informed(u)
    BY DEF NoticesInit, Informed, Offline
  <1> QED BY <1>1, <1>2, <1>3, <1>4, UnsentKnown DEF NoticesInv

\* What a step keeps of a goroutine that does not make it.
Keeps(h) ==
    /\ messenger'[h].stage = messenger[h].stage /\ messenger'[h].user = messenger[h].user
    /\ messenger'[h].slot = messenger[h].slot /\ messenger'[h].about = messenger[h].about
    /\ messenger'[h].face = messenger[h].face /\ messenger'[h].seen = messenger[h].seen
    /\ messenger'[h].failed = messenger[h].failed
    /\ messenger'[h] \in MessengerRow

\* It has met the step, or the step changed nothing of its concern.
Misses(h) ==
    ~messenger'[h].met =>
        /\ ~messenger[h].met
        /\ messenger[h].about \in Bulletins => bulletin'[messenger[h].about] = bulletin[messenger[h].about]
        /\ \A u \in Receivers :
              Concerns(messenger[h], u) =>
                 /\ Unread(u)' = Unread(u)
                 /\ told'[u].on = told[u].on /\ told'[u].known = told[u].known

LEMMA Bystanders ==
    ASSUME messenger \in [Messengers -> MessengerRow], NEW g, NEW m, Becomes(g, m)
    PROVE  /\ messenger' = [h \in Messengers |-> messenger'[h]]
           /\ g \in Messengers => messenger'[g] = m
           /\ \A h \in Messengers : h # g => Keeps(h) /\ Misses(h)
  <1>1. PICK moved \in SUBSET Receivers, edited \in SUBSET Bulletins :
           /\ moved = {u \in Receivers : \/ Unread(u)' # Unread(u)
                                       \/ <<told'[u].on, told'[u].known>> # <<told[u].on, told[u].known>>}
           /\ edited = {b \in Bulletins : bulletin'[b] # bulletin[b]}
           /\ messenger' = [h \in Messengers |->
                  IF h = g THEN m
                  ELSE [messenger[h] EXCEPT
                           !.met = @ \/ (\E u \in moved : Concerns(messenger[h], u)) \/ messenger[h].about \in edited]]
    BY DEF Becomes
  <1>2. ASSUME NEW h \in Messengers, h # g PROVE Keeps(h) /\ Misses(h)
    <2> DEFINE x == \/ messenger[h].met
                    \/ \E u \in moved : Concerns(messenger[h], u)
                    \/ messenger[h].about \in edited
    <2>1. messenger'[h] = [messenger[h] EXCEPT !.met = x]
      BY <1>1, <1>2
    <2>2. x \in BOOLEAN
      OBVIOUS
    <2>3. PICK r \in MessengerRow : r = messenger[h]
      OBVIOUS
    <2>4. messenger'[h] = [r EXCEPT !.met = x]
      BY <2>1, <2>3
    <2>5. Keeps(h) /\ messenger'[h].met = x
      <3> HIDE DEF x
      <3> QED BY <2>2, <2>3, <2>4 DEF Keeps, MessengerRow
    <2>6. ASSUME ~x
          PROVE  /\ ~messenger[h].met
                 /\ messenger[h].about \in Bulletins => bulletin'[messenger[h].about] = bulletin[messenger[h].about]
                 /\ \A u \in Receivers :
                       Concerns(messenger[h], u) =>
                          /\ Unread(u)' = Unread(u)
                          /\ told'[u].on = told[u].on /\ told'[u].known = told[u].known
      <3>1. messenger[h].about \notin edited /\ ~messenger[h].met
        BY <2>6
      <3>2. ASSUME NEW u \in Receivers, Concerns(messenger[h], u) PROVE u \notin moved
        BY <2>6, <3>2
      <3> QED BY <1>1, <3>1, <3>2
    <2> QED BY <2>5, <2>6 DEF Misses
  <1>3. messenger' = [h \in Messengers |-> messenger'[h]] /\ (g \in Messengers => messenger'[g] = m)
    BY <1>1
  <1> QED BY <1>2, <1>3

\* What no step does to a notice.
Onward ==
    \A s \in Slots :
        /\ notice[s].state # "none" => notice'[s].state # "none" /\ notice'[s].to \in {notice[s].to, Everyone}
        /\ Made(s) => Made(s)'
        /\ notice[s].state = "gone" => notice'[s].state = "gone"
        /\ notice[s].state # "none" /\ notice'[s].state = "there" => notice'[s].to = notice[s].to
        /\ \A u \in Receivers : Made(s) /\ Finished(s, u) => Finished(s, u)'

\* The goroutines that do not make the step.
LEMMA OthersStay ==
    ASSUME NoticesInv, NoticeTables', Onward, NEW h \in Messengers, Keeps(h), Misses(h),
           messenger[h].stage = "pushed" => notice'[messenger[h].slot] = notice[messenger[h].slot]
    PROVE  Messenger(messenger[h])'
  <1> DEFINE old == messenger[h]
  <1>0. Messenger(old) /\ old \in MessengerRow
    BY DEF NoticesInv
  <1>1. PICK r : r = messenger'[h]
    OBVIOUS
  <1>2. PICK q \in MessengerRow : q = old
    BY <1>0
  <1>3. /\ r.stage = q.stage /\ r.user = q.user /\ r.slot = q.slot /\ r.about = q.about
        /\ r.face = q.face /\ r.seen = q.seen /\ r.failed = q.failed
    BY <1>1, <1>2 DEF Keeps
  <1>4. Messenger(q)
    BY <1>0, <1>2
  <1>5. /\ q.user \in Receivers \cup {Nobody} /\ q.slot \in Slots \cup {0}
        /\ q.about \in Bulletins \cup {Nobody} /\ q.seen \subseteq Slots
    BY DEF MessengerRow
  <1>6. q.stage = "pushed" => notice'[q.slot] = notice[q.slot]
    BY <1>2
  <1>7. Sends(r)'
    BY <1>3, <1>4, <1>5, <1>6 DEF Sends, Messenger, Onward
  <1>8. Reads(r)'
    <2>1. Reads(q)
      BY <1>4 DEF Messenger
    <2>2. ASSUME r.stage \in {"mark", "count"}
          PROVE  r.slot \in Slots /\ Made(r.slot)' /\ Addressed(r.slot, r.user)'
      BY <1>3, <2>1, <2>2 DEF Reads, Onward, Addressed, Made
    <2>3. ASSUME r.stage = "count" PROVE Finished(r.slot, r.user)'
      BY <1>3, <2>1, <2>3 DEF Reads, Onward
    <2>4. ASSUME r.stage = "all", NEW s \in r.seen
          PROVE  s \in Slots /\ Made(s)' /\ (notice'[s].state = "there" => notice'[s].to = r.user)
      <3>1. s \in Slots /\ Made(s) /\ (notice[s].state = "there" => notice[s].to = q.user)
        BY <1>3, <2>1, <2>4 DEF Reads
      <3>2. notice[s].state \in {"there", "gone"}
        BY <3>1 DEF Made
      <3>3. /\ Made(s)' /\ (notice'[s].state = "there" => notice'[s].to = notice[s].to)
            /\ notice[s].state = "gone" => notice'[s].state = "gone"
        BY <3>1, <3>2 DEF Onward
      <3> QED BY <1>3, <3>1, <3>2, <3>3
    <2>5. ASSUME r.stage = "tell", NEW s \in r.seen PROVE ToldOf(s, r.user)'
      BY <1>3, <2>1, <2>5 DEF Reads, Onward, ToldOf, Addressed
    <2>6. r.stage \in {"ready", "mark", "count", "all", "tell"} => r.user \in Receivers
      BY <1>3, <2>1 DEF Reads
    <2> QED BY <2>2, <2>3, <2>4, <2>5, <2>6 DEF Reads
  <1>9. ASSUME ~r.met PROVE Undisturbed(r)'
    <2>1. /\ Undisturbed(q)
          /\ q.about \in Bulletins => bulletin'[q.about] = bulletin[q.about]
          /\ \A u \in Receivers :
                Concerns(q, u) =>
                   /\ Unread(u)' = Unread(u)
                   /\ told'[u].on = told[u].on /\ told'[u].known = told[u].known
      BY <1>1, <1>2, <1>4, <1>9 DEF Misses, Messenger
    <2>2. r.about # Nobody => bulletin'[r.about].state # "deleted"
      BY <1>3, <1>5, <2>1 DEF Undisturbed
    <2>3. ASSUME r.stage = "push"
          PROVE  notice'[r.slot].to \in Receivers /\ (r.slot \in Unread(notice[r.slot].to))'
      <3>1. q.slot \in Slots /\ Made(q.slot) /\ notice[q.slot].to \in Receivers
            /\ q.slot \in Unread(notice[q.slot].to)
        BY <1>3, <1>4, <2>1, <2>3 DEF Messenger, Sends, Undisturbed
      <3>2. PICK u \in Receivers : u = notice[q.slot].to
        BY <3>1
      <3>3. Concerns(q, u)
        BY <3>1, <3>2, NoticesAssumption DEF Concerns, Addressed
      <3>4. q.slot \in Unread(u)'
        BY <2>1, <3>1, <3>2, <3>3
      <3>5. notice'[q.slot].state = "there"
        BY <3>4, UnreadIs
      <3>6. notice'[q.slot].to = u
        BY <3>1, <3>2, <3>5 DEF Onward, Made
      <3>7. PICK v : v = notice'[q.slot].to
        OBVIOUS
      <3>8. v = u /\ q.slot \in Unread(v)'
        BY <3>4, <3>6, <3>7
      <3>9. notice'[r.slot].to = v /\ r.slot \in Unread(v)'
        BY <1>3, <3>7, <3>8
      <3> QED BY <3>6, <3>8, <3>9 DEF Unread, Displayed, ReadBy, Addressed
    <2>4. ASSUME r.stage = "pushed", NEW u \in Receivers, Addressed(r.slot, u)', told'[u].on
          PROVE  r.slot \in told'[u].known
      <3>1. Addressed(q.slot, u) /\ q.slot \in Slots
        BY <1>3, <1>4, <1>6, <2>4 DEF Addressed, Messenger, Sends
      <3>2. Concerns(q, u)
        BY <3>1, NoticesAssumption DEF Concerns
      <3> QED BY <1>3, <2>1, <2>4, <3>1, <3>2 DEF Undisturbed
    <2>5. ASSUME r.stage = "tell" PROVE r.failed \/ r.seen = Unread(r.user)'
      <3>1. q.user \in Receivers
        BY <1>3, <1>4, <2>5 DEF Messenger, Reads
      <3>2. PICK u \in Receivers : u = q.user
        BY <3>1
      <3>3. Concerns(q, u) /\ (q.failed \/ q.seen = Unread(u))
        BY <1>3, <2>1, <2>5, <3>2 DEF Concerns, Undisturbed
      <3>4. r.failed \/ r.seen = Unread(u)'
        BY <1>3, <2>1, <3>2, <3>3
      <3>5. r.user = u
        BY <1>3, <3>2
      <3> QED BY <3>4, <3>5 DEF Unread, Displayed, ReadBy, Addressed
    <2> QED BY <2>2, <2>3, <2>4, <2>5 DEF Undisturbed
  <1>10. Sends(messenger[h])'
    BY <1>1, <1>7 DEF Sends, Made, Addressed
  <1>11. Reads(messenger[h])'
    BY <1>1, <1>8 DEF Reads, Made, Addressed, Finished, ToldOf
  <1>12. messenger'[h].met \/ Undisturbed(messenger[h])'
    BY <1>1, <1>9 DEF Undisturbed, Addressed, Unread, Displayed, ReadBy
  <1> QED BY <1>10, <1>11, <1>12 DEF Messenger

LEMMA NoticesStep ==
    ASSUME NoticesInv, NEW g, NEW m, Becomes(g, m),
           NoticeTables', NoticesKnown', MarksMade', PagesKnown', Onward,
           g \in Messengers =>
              /\ m \in MessengerRow /\ Messenger(m)'
              /\ \A s \in Slots : Carries(m, s) => Carries(messenger[g], s) \/ notice[s].state = "none",
           \A s \in Slots :
              notice[s].state = "open" =>
                 notice'[s] = notice[s] \/ (g \in Messengers /\ Carries(messenger[g], s)),
           \A u \in Receivers : Informed(u)'
    PROVE  NoticesInv'
  <1>1. /\ messenger \in [Messengers -> MessengerRow]
        /\ \A h \in Messengers : Messenger(messenger[h])
        /\ \A h, k \in Messengers : \A s \in Slots :
              Carries(messenger[h], s) /\ Carries(messenger[k], s) => h = k
    BY DEF NoticesInv
  <1>2. /\ messenger' = [h \in Messengers |-> messenger'[h]]
        /\ g \in Messengers => messenger'[g] = m
        /\ \A h \in Messengers : h # g => Keeps(h) /\ Misses(h)
    BY <1>1, Bystanders
  <1>3. messenger' \in [Messengers -> MessengerRow]
    BY <1>2 DEF Keeps
  <1>4. ASSUME NEW h \in Messengers, h # g, messenger[h].stage = "pushed"
        PROVE  notice'[messenger[h].slot] = notice[messenger[h].slot]
    <2>1. messenger[h].slot \in Slots /\ notice[messenger[h].slot].state = "open"
          /\ Carries(messenger[h], messenger[h].slot)
      BY <1>1, <1>4 DEF Messenger, Sends, Carries
    <2> QED BY <1>1, <1>4, <2>1
  <1>5. ASSUME NEW h \in Messengers PROVE Messenger(messenger[h])'
    <2>1. CASE h = g
      <3>1. PICK r : r = messenger'[h]
        OBVIOUS
      <3>2. r = m /\ Messenger(r)'
        BY <1>2, <2>1, <3>1
      <3>3. Sends(messenger[h])'
        BY <3>1, <3>2 DEF Messenger, Sends, Made, Addressed
      <3>4. Reads(messenger[h])'
        BY <3>1, <3>2 DEF Messenger, Reads, Made, Addressed, Finished, ToldOf
      <3>5. messenger'[h].met \/ Undisturbed(messenger[h])'
        <4> SUFFICES ASSUME ~r.met PROVE Undisturbed(messenger[h])'
          BY <3>1
        <4>1. Undisturbed(r)'
          BY <3>2 DEF Messenger
        <4>2. (messenger[h].about # Nobody => bulletin[messenger[h].about].state # "deleted")'
          BY <3>1, <4>1 DEF Undisturbed
        <4>3. (messenger[h].stage = "push" =>
                  /\ notice[messenger[h].slot].to \in Receivers
                  /\ messenger[h].slot \in Unread(notice[messenger[h].slot].to))'
          BY <3>1, <4>1 DEF Undisturbed, Unread, Displayed, ReadBy, Addressed
        <4>4. (messenger[h].stage = "pushed" =>
                  \A u \in Receivers :
                      Addressed(messenger[h].slot, u) /\ told[u].on => messenger[h].slot \in told[u].known)'
          BY <3>1, <4>1 DEF Undisturbed, Addressed
        <4>5. (messenger[h].stage = "tell" => messenger[h].failed \/ messenger[h].seen = Unread(messenger[h].user))'
          BY <3>1, <4>1 DEF Undisturbed, Unread, Displayed, ReadBy, Addressed
        <4> QED BY <4>2, <4>3, <4>4, <4>5 DEF Undisturbed
      <3> QED BY <3>3, <3>4, <3>5 DEF Messenger
    <2>2. CASE h # g
      BY <1>2, <1>4, <2>2, OthersStay
    <2> QED BY <2>1, <2>2
  <1>6. ASSUME NEW h \in Messengers, NEW s \in Slots, Carries(messenger[h], s)
        PROVE  notice[s].state # "none"
    BY <1>1, <1>6 DEF Carries, Messenger, Sends, Made
  <1>7. ASSUME NEW h \in Messengers, NEW k \in Messengers, NEW s \in Slots,
               Carries(messenger[h], s)', Carries(messenger[k], s)'
        PROVE  h = k
    <2>1. ASSUME NEW x \in Messengers, Carries(messenger[x], s)', x # g
          PROVE  Carries(messenger[x], s)
      BY <1>2, <2>1 DEF Carries, Keeps
    <2>2. ASSUME Carries(messenger[g], s)', g \in Messengers
          PROVE  Carries(messenger[g], s) \/ notice[s].state = "none"
      <3>1. Carries(m, s)
        BY <1>2, <2>2 DEF Carries
      <3> QED BY <2>2, <3>1
    <2> QED BY <1>1, <1>6, <1>7, <2>1, <2>2
  <1> QED BY <1>3, <1>5, <1>7 DEF NoticesInv

\* Where every goroutine is after a step of g.
LEMMA Handed ==
    ASSUME NoticesInv, NEW g, NEW m, Becomes(g, m)
    PROVE  \A h \in Messengers :
              /\ messenger'[h].stage = IF h = g THEN m.stage ELSE messenger[h].stage
              /\ messenger'[h].user = IF h = g THEN m.user ELSE messenger[h].user
              /\ messenger'[h].slot = IF h = g THEN m.slot ELSE messenger[h].slot
  BY Bystanders DEF NoticesInv, Keeps

\* A goroutine with nothing that concerns what the page of u knows.
Apart(m, u) == m.stage \notin {"push", "pushed"} /\ (m.user = u => m.stage \notin {"ready", "count", "tell"})

Trusted(u) == told[u].on /\ told[u].why = "nothing"

LEMMA InformedQuiet ==
    ASSUME NoticesInv, NEW g, NEW m, Becomes(g, m), NEW u \in Receivers,
           Trusted(u)' => Trusted(u) /\ Unread(u)' = Unread(u) /\ told'[u].known = told[u].known,
           g \in Messengers => Apart(messenger[g], u) /\ Apart(m, u)
    PROVE  Informed(u)'
  <1> SUFFICES ASSUME Trusted(u)', ~Awaited(u)', NEW s \in Slots, ~Busy(s)'
               PROVE  s \in Unread(u)' <=> s \in told'[u].known /\ ~Counting(s, u)'
    BY DEF Informed, Trusted
  <1>1. ~Awaited(u) /\ ~Busy(s) /\ (Counting(s, u)' <=> Counting(s, u))
    BY Handed DEF Awaited, Busy, Carries, Counting, Apart
  <1>2. Informed(u)
    BY DEF NoticesInv
  <1> QED BY <1>1, <1>2 DEF Informed, Trusted

\* A step of one that carries a notice, before it or after.
LEMMA InformedCarried ==
    ASSUME NoticesInv, NEW g \in Messengers, NEW m, Becomes(g, m), NEW u \in Receivers, NEW s \in Slots,
           Trusted(u)' =>
              /\ Trusted(u)
              /\ \A r \in Slots \ {s} :
                    (r \in Unread(u)' <=> r \in Unread(u)) /\ (r \in told'[u].known <=> r \in told[u].known)
              /\ Carries(m, s) \/ (s \in Unread(u)' <=> s \in told'[u].known /\ ~Counting(s, u)),
           messenger[g].stage \notin {"ready", "count", "tell"}, m.stage \notin {"ready", "count", "tell"},
           \A r \in Slots : Carries(messenger[g], r) => r = s
    PROVE  Informed(u)'
  <1> SUFFICES ASSUME Trusted(u)', ~Awaited(u)', NEW r \in Slots, ~Busy(r)'
               PROVE  r \in Unread(u)' <=> r \in told'[u].known /\ ~Counting(r, u)'
    BY DEF Informed, Trusted
  <1>1. ~Awaited(u) /\ (Counting(r, u)' <=> Counting(r, u)) /\ ~Carries(m, r)
    BY Handed DEF Awaited, Busy, Carries, Counting
  <1>2. r # s => ~Busy(r)
    BY Handed DEF Busy, Carries
  <1>3. Informed(u)
    BY DEF NoticesInv
  <1> QED BY <1>1, <1>2, <1>3 DEF Informed, Trusted

\* A page whose user has a request that still has a number to send.
LEMMA InformedLater ==
    ASSUME NoticesInv, NEW g \in Messengers, NEW m, Becomes(g, m), NEW u \in Receivers,
           m.user = u, m.stage \in {"ready", "tell"}
    PROVE  Informed(u)'
  <1>1. messenger'[g].user = u /\ messenger'[g].stage \in {"ready", "tell"}
    BY Handed
  <1> QED BY <1>1 DEF Informed, Awaited

LEMMA ConfusedPages ==
    ASSUME NoticeTables, NEW us \in SUBSET Receivers, NEW why \in {"overlap", "early", "phantom", "withdrawn", "old"}
    PROVE  /\ Confused(us, why) \in [Receivers -> Page]
           /\ \A u \in Receivers :
                 /\ Confused(us, why)[u].on = told[u].on /\ Confused(us, why)[u].known = told[u].known
                 /\ Confused(us, why)[u].why = "nothing" => told[u].why = "nothing" /\ u \notin us
  <1>1. told \in [Receivers -> Page]
    BY DEF NoticeTables
  <1>2. ASSUME NEW u \in Receivers
        PROVE  /\ Confused(us, why)[u] \in Page
               /\ Confused(us, why)[u].on = told[u].on /\ Confused(us, why)[u].known = told[u].known
               /\ Confused(us, why)[u].why = "nothing" => told[u].why = "nothing" /\ u \notin us
    <2>1. Confused(us, why)[u] =
             IF u \in us /\ told[u].why = "nothing" THEN [told[u] EXCEPT !.why = why] ELSE told[u]
      BY DEF Confused
    <2>2. PICK p \in Page : p = told[u]
      BY <1>1
    <2> QED BY <2>1, <2>2 DEF Page
  <1>3. Confused(us, why) = [u \in Receivers |-> Confused(us, why)[u]]
    BY DEF Confused
  <1> QED BY <1>2, <1>3

\* A step that writes no row.
LEMMA SameRows ==
    ASSUME NoticesInv, UNCHANGED <<notice, marked, bulletin>>, told' \in [Receivers -> Page],
           \A u \in Receivers : \A s \in told'[u].known : ToldOf(s, u)
    PROVE  /\ NoticeTables' /\ NoticesKnown' /\ MarksMade' /\ PagesKnown' /\ Onward
           /\ \A u : Unread(u)' = Unread(u)
           /\ \A s \in Slots : notice'[s] = notice[s]
  <1>1. NoticeTables /\ NoticesKnown /\ MarksMade
    BY DEF NoticesInv
  <1>2. NoticeTables' /\ NoticesKnown'
    BY <1>1 DEF NoticeTables, NoticesKnown
  <1>3. MarksMade'
    BY <1>1 DEF MarksMade, Made
  <1>4. PagesKnown'
    BY DEF PagesKnown, ToldOf, Addressed
  <1>5. Onward
    BY <1>1 DEF Onward, Made, Finished, NoticeTables, Row
  <1>6. \A u : Unread(u)' = Unread(u)
    BY DEF Unread, Displayed, ReadBy, Addressed
  <1> QED BY <1>2, <1>3, <1>4, <1>5, <1>6

LEMMA QuietNotices ==
    ASSUME NoticesInv, NEW g \in Messengers, NEW m \in MessengerRow, Becomes(g, m), Messenger(m),
           UNCHANGED <<notice, marked, bulletin, told>>,
           m.stage \notin {"push", "pushed"},
           \A u \in Receivers : Apart(messenger[g], u) /\ Apart(m, u)
    PROVE  NoticesInv'
  <1>1. told' \in [Receivers -> Page] /\ \A u \in Receivers : \A s \in told'[u].known : ToldOf(s, u)
    BY DEF NoticesInv, NoticeTables, PagesKnown
  <1>2. /\ NoticeTables' /\ NoticesKnown' /\ MarksMade' /\ PagesKnown' /\ Onward
        /\ \A u : Unread(u)' = Unread(u)
        /\ \A s \in Slots : notice'[s] = notice[s]
    BY <1>1, SameRows
  <1>3. Messenger(m)'
    BY DEF Messenger, Sends, Reads, Undisturbed, Made, Addressed, Finished, ToldOf, Unread,
       Displayed, ReadBy
  <1>4. ASSUME NEW u \in Receivers PROVE Informed(u)'
    <2>1. Trusted(u)' => Trusted(u) /\ Unread(u)' = Unread(u) /\ told'[u].known = told[u].known
      BY <1>2 DEF Trusted
    <2> QED BY <2>1, InformedQuiet
  <1>5. \A s \in Slots : Carries(m, s) => FALSE
    BY DEF Carries
  <1> QED BY <1>2, <1>3, <1>4, <1>5, NoticesStep

\* A step in which the pages of some users are told another number.
LEMMA ToldPages ==
    ASSUME NoticesInv, NEW g, NEW m, Becomes(g, m),
           UNCHANGED <<notice, marked, bulletin>>, told' \in [Receivers -> Page],
           \A u \in Receivers : \A s \in told'[u].known : ToldOf(s, u),
           g \in Messengers =>
              /\ m \in MessengerRow /\ Messenger(m)'
              /\ \A s \in Slots : Carries(m, s) => Carries(messenger[g], s) \/ notice[s].state = "none",
           \A u \in Receivers : Informed(u)'
    PROVE  NoticesInv'
  <1>1. /\ NoticeTables' /\ NoticesKnown' /\ MarksMade' /\ PagesKnown' /\ Onward
        /\ \A s \in Slots : notice'[s] = notice[s]
    BY SameRows
  <1> QED BY <1>1, NoticesStep

LEMMA PagesNext_Inv ==
    ASSUME NoticesInv,
           \/ \E g \in Messengers, u \in Receivers : OpenPage(g, u)
           \/ \E u \in Receivers : ClosePage(u)
           \/ \E g \in Messengers : CountUnread(g) \/ Tell(g) \/ PushNotice(g)
    PROVE  NoticesInv'
  <1>told. told \in [Receivers -> Page]
    BY DEF NoticesInv, NoticeTables
  <1>known. \A u \in Receivers : \A s \in told[u].known : ToldOf(s, u)
    BY DEF NoticesInv, PagesKnown
  <1>offline. Offline \in Page /\ Offline.known = {} /\ ~Offline.on /\ Offline.why = "nothing"
    BY DEF Offline, Page
  <1>each. \A g \in Messengers : Messenger(messenger[g]) /\ messenger[g] \in MessengerRow
    BY DEF NoticesInv
  <1>1. ASSUME NEW g \in Messengers, NEW u \in Receivers, OpenPage(g, u) PROVE NoticesInv'
    <2> DEFINE m == [Unsent EXCEPT !.stage = "ready", !.user = u]
    <2>1. m \in MessengerRow /\ Messenger(m)' /\ m.stage = "ready" /\ m.user = u /\ \A s : ~Carries(m, s)
      BY DEF Unsent, NoBulletin, BulletinRow, MessengerRow, Messenger, Sends, Reads, Undisturbed,
         Carries
    <2>2. Becomes(g, m) /\ UNCHANGED <<notice, marked, bulletin>> /\ messenger[g].stage = "idle"
      BY <1>1 DEF OpenPage
    <2> HIDE DEF m
    <2>3. PICK p : p = [Offline EXCEPT !.on = TRUE]
      OBVIOUS
    <2>4. p \in Page /\ p.known = {} /\ told' = [told EXCEPT ![u] = p]
      BY <1>1, <2>3 DEF OpenPage, Offline, Page
    <2>5. told' \in [Receivers -> Page] /\ told'[u] = p /\ \A v \in Receivers \ {u} : told'[v] = told[v]
      BY <1>told, <2>4
    <2>6. \A v \in Receivers : \A s \in told'[v].known : ToldOf(s, v)
      BY <1>known, <2>4, <2>5
    <2>7. \A v : Unread(v)' = Unread(v)
      BY <2>2, <2>5, <2>6, SameRows
    <2>8. ASSUME NEW v \in Receivers, v # u PROVE Informed(v)'
      <3>1. Trusted(v)' => Trusted(v) /\ Unread(v)' = Unread(v) /\ told'[v].known = told[v].known
        BY <2>5, <2>7, <2>8 DEF Trusted
      <3>2. Apart(messenger[g], v) /\ Apart(m, v)
        BY <2>1, <2>2, <2>8 DEF Apart
      <3> QED BY <2>2, <3>1, <3>2, InformedQuiet
    <2>9. Informed(u)'
      BY <2>1, <2>2, InformedLater
    <2> QED BY <2>1, <2>2, <2>5, <2>6, <2>8, <2>9, ToldPages
  <1>2. ASSUME NEW u \in Receivers, ClosePage(u) PROVE NoticesInv'
    <2>1. /\ told' = [told EXCEPT ![u] = Offline] /\ UNCHANGED <<notice, marked, bulletin>>
          /\ Becomes(Nobody, Unsent) /\ Nobody \notin Messengers
      BY <1>2, NoticesAssumption DEF ClosePage
    <2>2. told' \in [Receivers -> Page] /\ told'[u] = Offline /\ \A v \in Receivers \ {u} : told'[v] = told[v]
      BY <1>told, <1>offline, <2>1
    <2>3. \A v \in Receivers : \A s \in told'[v].known : ToldOf(s, v)
      BY <1>known, <1>offline, <2>2
    <2>4. \A v : Unread(v)' = Unread(v)
      BY <2>1, <2>2, <2>3, SameRows
    <2>5. ASSUME NEW v \in Receivers PROVE Informed(v)'
      <3>1. Trusted(v)' => Trusted(v) /\ Unread(v)' = Unread(v) /\ told'[v].known = told[v].known
        BY <1>offline, <2>2, <2>4 DEF Trusted
      <3> QED BY <2>1, <3>1, InformedQuiet
    <2> QED BY <2>1, <2>2, <2>3, <2>5, ToldPages
  <1>3. ASSUME NEW g \in Messengers, Tell(g) PROVE NoticesInv'
    <2>1. PICK q \in MessengerRow : q = messenger[g]
      BY <1>each
    <2>2. /\ q.stage = "tell" /\ Becomes(g, Unsent) /\ UNCHANGED <<notice, marked, bulletin>>
          /\ Messenger(q)
      BY <1>3, <1>each, <2>1 DEF Tell
    <2>3. PICK u \in Receivers : u = q.user
      BY <2>2 DEF Messenger, Reads
    <2> DEFINE p == [on |-> TRUE, known |-> q.seen,
                     why |-> IF q.met THEN "overlap" ELSE IF q.failed THEN "failed" ELSE "nothing"]
    <2>4. told' = IF told[u].on THEN [told EXCEPT ![u] = p] ELSE told
      BY <1>3, <2>1, <2>3 DEF Tell
    <2>5. p \in Page /\ p.on /\ p.known = q.seen /\ (p.why = "nothing" => ~q.met /\ ~q.failed)
      BY DEF Page, MessengerRow
    <2> HIDE DEF p
    <2>6. /\ told' \in [Receivers -> Page] /\ \A v \in Receivers \ {u} : told'[v] = told[v]
          /\ told'[u] = IF told[u].on THEN p ELSE told[u]
      BY <1>told, <2>4, <2>5
    <2>7. \A s \in q.seen : ToldOf(s, u)
      BY <2>2, <2>3 DEF Messenger, Reads
    <2>8. \A v \in Receivers : \A s \in told'[v].known : ToldOf(s, v)
      BY <1>known, <2>5, <2>6, <2>7
    <2>9. \A v : Unread(v)' = Unread(v)
      BY <2>2, <2>6, <2>8, SameRows
    <2>10. ASSUME NEW v \in Receivers, v # u PROVE Informed(v)'
      <3>1. Trusted(v)' => Trusted(v) /\ Unread(v)' = Unread(v) /\ told'[v].known = told[v].known
        BY <2>6, <2>9, <2>10 DEF Trusted
      <3>2. Apart(messenger[g], v) /\ Apart(Unsent, v)
        BY <2>1, <2>2, <2>3, <2>10, UnsentKnown DEF Apart
      <3> QED BY <2>2, <3>1, <3>2, InformedQuiet
    <2>11. Informed(u)'
      <3> SUFFICES ASSUME Trusted(u)', NEW s \in Slots
                   PROVE  s \in Unread(u)' <=> s \in told'[u].known /\ ~Counting(s, u)'
        BY DEF Informed, Trusted
      <3>1. told[u].on /\ told'[u] = p /\ ~q.met /\ ~q.failed
        BY <2>5, <2>6 DEF Trusted
      <3>2. q.seen = Unread(u)
        BY <2>2, <2>3, <3>1 DEF Messenger, Undisturbed
      <3>3. Counting(s, u)' => s \notin Unread(u)
        <4>1. ASSUME NEW h \in Messengers, messenger[h].stage = "count", messenger[h].user = u, messenger[h].slot = s
              PROVE  s \notin Unread(u)
          <5>1. Finished(s, u)
            BY <1>each, <4>1 DEF Messenger, Reads
          <5> QED BY <5>1, UnreadIs DEF Finished
        <4> QED BY <2>2, <4>1, Handed, UnsentKnown DEF Counting
      <3> QED BY <2>5, <2>9, <3>1, <3>2, <3>3
    <2>12. \A v \in Receivers : Informed(v)'
      BY <2>10, <2>11
    <2> QED BY <2>2, <2>6, <2>8, <2>12, UnsentKnown, ToldPages
  <1>4. ASSUME NEW g \in Messengers, CountUnread(g) PROVE NoticesInv'
    <2>1. PICK q \in MessengerRow : q = messenger[g]
      BY <1>each
    <2>2. q.stage \in {"ready", "count"} /\ Messenger(q) /\ UNCHANGED <<notice, marked, bulletin>>
      BY <1>4, <1>each, <2>1 DEF CountUnread
    <2>3. PICK u \in Receivers : u = q.user
      BY <2>2 DEF Messenger, Reads
    <2>4. PICK r \in Page : r = told[u]
      BY <1>told
    <2> DEFINE p == [r EXCEPT !.known = @ \ {q.slot},
                              !.why = IF q.met /\ @ = "nothing" THEN "overlap" ELSE @]
    <2>5. told' = IF q.stage = "count" THEN [told EXCEPT ![u] = p] ELSE told
      BY <1>told, <1>4, <2>1, <2>3, <2>4 DEF CountUnread
    <2>6. /\ p \in Page /\ p.on = r.on /\ p.known = r.known \ {q.slot}
          /\ p.why = "nothing" => r.why = "nothing"
      BY DEF Page
    <2> HIDE DEF p
    <2>7. /\ told' \in [Receivers -> Page] /\ \A v \in Receivers \ {u} : told'[v] = told[v]
          /\ told'[u] = IF q.stage = "count" THEN p ELSE r
      BY <1>told, <2>4, <2>5, <2>6
    <2>8. \A v \in Receivers : \A s \in told'[v].known : ToldOf(s, v)
      BY <1>known, <2>4, <2>6, <2>7
    <2>9. \A v : Unread(v)' = Unread(v)
      BY <2>2, <2>7, <2>8, SameRows
    <2>10. ASSUME NEW m, Becomes(g, m), NEW v \in Receivers, v # u, Apart(m, v) PROVE Informed(v)'
      <3>1. Trusted(v)' => Trusted(v) /\ Unread(v)' = Unread(v) /\ told'[v].known = told[v].known
        BY <2>7, <2>9, <2>10 DEF Trusted
      <3>2. Apart(messenger[g], v)
        BY <2>1, <2>2, <2>3, <2>10 DEF Apart
      <3> QED BY <2>10, <3>1, <3>2, InformedQuiet
    \* A number to send.
    <2>11. ASSUME NEW m \in MessengerRow, Becomes(g, m), Messenger(m)', m.stage = "tell", m.user = u
           PROVE  NoticesInv'
      <3>1. \A v \in Receivers \ {u} : Apart(m, v)
        BY <2>11 DEF Apart
      <3>2. \A v \in Receivers : Informed(v)'
        BY <2>10, <2>11, <3>1, InformedLater
      <3>3. \A s \in Slots : ~Carries(m, s)
        BY <2>11 DEF Carries
      <3> QED BY <2>2, <2>7, <2>8, <2>11, <3>2, <3>3, ToldPages
    <2>12. PICK seen : seen = Unread(u)
      OBVIOUS
    <2>13. seen \subseteq Slots /\ \A s \in seen : ToldOf(s, u)
      BY <2>12, UnreadIs DEF ToldOf
    <2>14. \A s \in seen : ToldOf(s, u)'
      BY <2>2, <2>13 DEF ToldOf, Addressed
    <2>15. seen = Unread(u)'
      BY <2>9, <2>12
    <2>16. ASSUME Becomes(g, [Unsent EXCEPT !.stage = "tell", !.user = u, !.seen = Unread(u)])
           PROVE  NoticesInv'
      <3> DEFINE m == [Unsent EXCEPT !.stage = "tell", !.user = u, !.seen = seen]
      <3>1. /\ m \in MessengerRow /\ m.stage = "tell" /\ m.user = u /\ m.seen = seen
            /\ m.about = Nobody /\ ~m.met
        BY <2>13 DEF Unsent, NoBulletin, BulletinRow, MessengerRow
      <3>2. Becomes(g, m)
        BY <2>12, <2>16
      <3> HIDE DEF m
      <3>3. Sends(m)' /\ Reads(m)'
        BY <2>14, <3>1 DEF Sends, Reads
      <3>4. Undisturbed(m)'
        BY <2>15, <3>1 DEF Undisturbed, Unread, Displayed, ReadBy, Addressed
      <3> QED BY <2>11, <3>1, <3>2, <3>3, <3>4 DEF Messenger
    <2>17. ASSUME Becomes(g, [Unsent EXCEPT !.stage = "tell", !.user = u, !.failed = TRUE])
           PROVE  NoticesInv'
      <3> DEFINE m == [Unsent EXCEPT !.stage = "tell", !.user = u, !.failed = TRUE]
      <3>1. /\ m \in MessengerRow /\ m.stage = "tell" /\ m.user = u /\ m.seen = {} /\ m.failed
            /\ m.about = Nobody /\ ~m.met
        BY DEF Unsent, NoBulletin, BulletinRow, MessengerRow
      <3>2. Becomes(g, m)
        BY <2>17
      <3> HIDE DEF m
      <3>3. Sends(m)' /\ Reads(m)' /\ Undisturbed(m)'
        BY <3>1 DEF Sends, Reads, Undisturbed
      <3> QED BY <2>11, <3>1, <3>2, <3>3 DEF Messenger
    \* The number cannot be read: what was read meanwhile is known.
    <2>18. ASSUME q.stage = "count", Becomes(g, Unsent) PROVE NoticesInv'
      <3>1. \A v \in Receivers : Apart(Unsent, v)
        BY UnsentKnown DEF Apart
      <3>2. Informed(u)'
        <4> SUFFICES ASSUME Trusted(u)', ~Awaited(u)', NEW s \in Slots, ~Busy(s)'
                     PROVE  s \in Unread(u)' <=> s \in told'[u].known /\ ~Counting(s, u)'
          BY DEF Informed, Trusted
        <4>1. Trusted(u) /\ told'[u].known = told[u].known \ {q.slot}
          BY <2>4, <2>6, <2>7, <2>18 DEF Trusted
        <4>2. ~Awaited(u) /\ ~Busy(s)
          BY <2>1, <2>18, Handed, UnsentKnown DEF Awaited, Busy, Carries
        <4>3. Counting(s, u) <=> Counting(s, u)' \/ s = q.slot
          BY <2>1, <2>3, <2>18, Handed, UnsentKnown DEF Counting
        <4>4. Informed(u)
          BY DEF NoticesInv
        <4> QED BY <2>9, <4>1, <4>2, <4>3, <4>4 DEF Informed, Trusted
      <3>3. \A v \in Receivers : Informed(v)'
        BY <2>10, <2>18, <3>1, <3>2
      <3> QED BY <2>2, <2>7, <2>8, <2>18, <3>3, UnsentKnown, ToldPages
    <2>19. \/ Becomes(g, [Unsent EXCEPT !.stage = "tell", !.user = u, !.seen = Unread(u)])
           \/ q.stage = "count" /\ Becomes(g, Unsent)
           \/ Becomes(g, [Unsent EXCEPT !.stage = "tell", !.user = u, !.failed = TRUE])
      BY <1>4, <2>1, <2>3 DEF CountUnread
    <2> QED BY <2>16, <2>17, <2>18, <2>19
  <1>5. ASSUME NEW g \in Messengers, PushNotice(g) PROVE NoticesInv'
    <2>1. PICK q \in MessengerRow : q = messenger[g]
      BY <1>each
    <2>2. /\ q.stage = "push" /\ Messenger(q) /\ UNCHANGED <<notice, marked, bulletin>>
          /\ Becomes(g, Unsent)
      BY <1>5, <1>each, <2>1 DEF PushNotice
    <2>3. PICK s \in Slots : s = q.slot
      BY <2>2 DEF Messenger, Sends
    <2>4. Made(s) /\ (q.met \/ (notice[s].to \in Receivers /\ s \in Unread(notice[s].to)))
      BY <2>2, <2>3 DEF Messenger, Sends, Undisturbed
    <2>5. PICK late \in SUBSET Receivers : late = IF q.met THEN Pages(s) ELSE {}
      BY DEF Pages
    <2>6. told' = [v \in Receivers |->
                     IF v \in Pages(s) THEN [Confused(late, "overlap")[v] EXCEPT !.known = @ \cup {s}]
                     ELSE told[v]]
      BY <1>5, <2>1, <2>3, <2>5 DEF PushNotice
    <2>7. ASSUME NEW v \in Receivers
          PROVE  /\ told'[v] \in Page /\ told'[v].on = told[v].on
                 /\ told'[v].known = IF v \in Pages(s) THEN told[v].known \cup {s} ELSE told[v].known
                 /\ told'[v].why = "nothing" => told[v].why = "nothing" /\ v \notin late
      <3>1. PICK p \in Page : p = Confused(late, "overlap")[v]
        BY ConfusedPages DEF NoticesInv
      <3>2. /\ p.on = told[v].on /\ p.known = told[v].known
            /\ p.why = "nothing" => told[v].why = "nothing" /\ v \notin late
        BY <3>1, ConfusedPages DEF NoticesInv
      <3>3. CASE v \in Pages(s)
        <4>1. told'[v] = [p EXCEPT !.known = @ \cup {s}]
          BY <2>6, <3>1, <3>3
        <4> QED BY <3>2, <3>3, <4>1 DEF Page
      <3>4. CASE v \notin Pages(s)
        BY <1>told, <2>5, <2>6, <3>4
      <3> QED BY <3>3, <3>4
    <2>8. told' \in [Receivers -> Page]
      BY <2>6, <2>7
    <2>9. \A v \in Pages(s) : ToldOf(s, v)
      BY <2>4 DEF Pages, ToldOf, Made
    <2>10. \A v \in Receivers : \A r \in told'[v].known : ToldOf(r, v)
      BY <1>known, <2>7, <2>9
    <2>11. \A v : Unread(v)' = Unread(v)
      BY <2>2, <2>8, <2>10, SameRows
    <2>12. ASSUME NEW v \in Receivers, Trusted(v)'
           PROVE  /\ Trusted(v)
                  /\ \A r \in Slots \ {s} : r \in told'[v].known <=> r \in told[v].known
                  /\ s \in Unread(v)' <=> s \in told'[v].known /\ ~Counting(s, v)
      <3>1. told[v].on /\ told[v].why = "nothing" /\ v \notin late
        BY <2>7, <2>12 DEF Trusted
      <3>2. CASE v \in Pages(s)
        <4>1. ~q.met
          BY <2>5, <3>1, <3>2
        <4>2. notice[s].to = v
          BY <2>4, <3>2, <4>1, NoticesAssumption DEF Pages, Addressed
        <4>3. s \in Unread(v)
          BY <2>4, <4>1, <4>2
        <4>4. ~Counting(s, v)
          <5>1. ASSUME NEW h \in Messengers, messenger[h].stage = "count", messenger[h].user = v, messenger[h].slot = s
                PROVE  FALSE
            <6>1. Finished(s, v)
              BY <1>each, <5>1 DEF Messenger, Reads
            <6> QED BY <4>3, <6>1, UnreadIs DEF Finished
          <5> QED BY <5>1 DEF Counting
        <4> QED BY <2>7, <2>11, <3>1, <3>2, <4>3, <4>4 DEF Trusted
      <3>3. CASE v \notin Pages(s)
        <4>1. s \notin Unread(v) /\ s \notin told[v].known
          BY <1>known, <3>1, <3>3, UnreadIs DEF Pages, ToldOf
        <4> QED BY <2>7, <2>11, <3>1, <3>3, <4>1 DEF Trusted
      <3> QED BY <3>2, <3>3
    <2>13. ASSUME NEW v \in Receivers PROVE Informed(v)'
      <3>1. /\ messenger[g].stage \notin {"ready", "count", "tell"}
            /\ \A r \in Slots : Carries(messenger[g], r) => r = s
        BY <2>1, <2>2, <2>3 DEF Carries
      <3> QED BY <2>2, <2>11, <2>12, <3>1, InformedCarried, UnsentKnown
    <2> QED BY <2>2, <2>8, <2>10, <2>13, UnsentKnown, ToldPages
  <1> QED BY <1>1, <1>2, <1>3, <1>4, <1>5

\* A row that is not there yet.
LEMMA NewRow ==
    ASSUME NoticesInv, NEW s \in FreeSlot, NEW row \in Row,
           row.state = "open" \/ (row.state = "there" /\ row.to \in Receivers),
           ~row.read, ~row.old,
           notice' = [notice EXCEPT ![s] = row], UNCHANGED <<marked, bulletin>>,
           told' \in [Receivers -> Page],
           \A u \in Receivers : \A r \in told'[u].known :
              r \in told[u].known \/ (r = s /\ row.to \in {u, Everyone})
    PROVE  /\ NoticeTables' /\ NoticesKnown' /\ MarksMade' /\ PagesKnown' /\ Onward
           /\ s \in Slots /\ notice[s].state = "none"
           /\ notice'[s] = row /\ \A r \in Slots \ {s} : notice'[r] = notice[r]
           /\ \A u \in Receivers : \A r \in Slots \ {s} : r \in Unread(u)' <=> r \in Unread(u)
           /\ \A u \in Receivers : row.state = "there" /\ row.to = u => s \in Unread(u)'
  <1>inv. NoticeTables /\ NoticesKnown /\ MarksMade /\ PagesKnown
    BY DEF NoticesInv
  <1>1. s \in Slots /\ notice[s].state = "none"
    BY DEF FreeSlot
  <1>2. /\ notice'[s] = row /\ \A r \in Slots \ {s} : notice'[r] = notice[r]
        /\ notice' \in [Slots -> Row]
    BY <1>inv, <1>1 DEF NoticeTables
  <1>3. NoticeTables'
    BY <1>inv, <1>2 DEF NoticeTables
  <1>4. NoticesKnown'
    BY <1>inv, <1>2, NoticesAssumption DEF NoticesKnown
  <1>5. \A m \in marked : m.of \in Slots \ {s}
    BY <1>inv, <1>1 DEF MarksMade, NoticeTables, Made
  <1>6. MarksMade'
    BY <1>inv, <1>2, <1>5 DEF MarksMade, Made
  <1>7. PagesKnown'
    <2> SUFFICES ASSUME NEW u \in Receivers, NEW r \in told'[u].known PROVE ToldOf(r, u)'
      BY DEF PagesKnown
    <2>1. CASE r \in told[u].known
      <3>1. ToldOf(r, u)
        BY <1>inv, <2>1 DEF PagesKnown
      <3> QED BY <1>1, <1>2, <3>1 DEF ToldOf, Addressed
    <2>2. CASE r = s /\ row.to \in {u, Everyone}
      BY <1>1, <1>2, <2>2 DEF ToldOf, Addressed
    <2> QED BY <2>1, <2>2
  <1>8. Onward
    BY <1>inv, <1>1, <1>2 DEF Onward, Made, Finished, NoticeTables, Row
  <1>9. ASSUME NEW u \in Receivers, NEW r \in Slots \ {s} PROVE r \in Unread(u)' <=> r \in Unread(u)
    BY <1>2, UnreadIs DEF Addressed
  <1>10. ASSUME NEW u \in Receivers, row.state = "there", row.to = u PROVE s \in Unread(u)'
    BY <1>1, <1>2, <1>5, <1>10, UnreadIs, NoticesAssumption DEF Addressed
  <1> QED BY <1>1, <1>2, <1>3, <1>4, <1>6, <1>7, <1>8, <1>9, <1>10

LEMMA SendNotice_Inv ==
    ASSUME NoticesInv, NEW g \in Messengers, NEW u \in Receivers, SendNotice(g, u)
    PROVE  NoticesInv'
  <1>1. PICK s \in FreeSlot :
           /\ notice' = [notice EXCEPT ![s] = [NoNotice EXCEPT !.state = "there", !.to = u]]
           /\ UNCHANGED <<marked, bulletin, told>>
           /\ Becomes(g, [Unsent EXCEPT !.stage = "push", !.slot = s])
    BY DEF SendNotice
  <1> DEFINE row == [NoNotice EXCEPT !.state = "there", !.to = u]
             m == [Unsent EXCEPT !.stage = "push", !.slot = s]
  <1>2. row \in Row /\ row.state = "there" /\ row.to = u /\ ~row.read /\ ~row.old
    BY DEF NoNotice, Row
  <1>3. s \in Slots
    BY DEF FreeSlot
  <1>4. /\ m \in MessengerRow /\ m.stage = "push" /\ m.slot = s /\ m.about = Nobody /\ ~m.met
    BY <1>3 DEF Unsent, NoBulletin, BulletinRow, MessengerRow
  <1>5. notice' = [notice EXCEPT ![s] = row] /\ Becomes(g, m)
    BY <1>1
  <1> HIDE DEF row, m
  <1>6. told' \in [Receivers -> Page]
    BY <1>1 DEF NoticesInv, NoticeTables
  <1>7. /\ NoticeTables' /\ NoticesKnown' /\ MarksMade' /\ PagesKnown' /\ Onward
        /\ notice[s].state = "none"
        /\ notice'[s] = row /\ \A r \in Slots \ {s} : notice'[r] = notice[r]
        /\ \A v \in Receivers : \A r \in Slots \ {s} : r \in Unread(v)' <=> r \in Unread(v)
        /\ \A v \in Receivers : row.state = "there" /\ row.to = v => s \in Unread(v)'
    BY <1>1, <1>2, <1>5, <1>6, NewRow
  <1>8. Messenger(m)'
    <2>1. Sends(m)' /\ Reads(m)'
      BY <1>2, <1>3, <1>4, <1>7 DEF Sends, Reads, Made
    <2>2. notice'[m.slot].to = u /\ m.slot \in Unread(u)'
      BY <1>2, <1>4, <1>7
    <2>3. Undisturbed(m)'
      BY <1>4, <2>2 DEF Undisturbed, Unread, Displayed, ReadBy, Addressed
    <2> QED BY <2>1, <2>3 DEF Messenger
  <1>9. messenger[g].stage = "idle" /\ \A r \in Slots : ~Carries(messenger[g], r)
    BY DEF SendNotice, Carries
  <1>10. Carries(m, s) /\ \A r \in Slots : Carries(m, r) => r = s
    BY <1>4 DEF Carries
  <1>11. ASSUME NEW v \in Receivers PROVE Informed(v)'
    <2>1. Trusted(v)' =>
             /\ Trusted(v)
             /\ \A r \in Slots \ {s} :
                   (r \in Unread(v)' <=> r \in Unread(v)) /\ (r \in told'[v].known <=> r \in told[v].known)
             /\ Carries(m, s) \/ (s \in Unread(v)' <=> s \in told'[v].known /\ ~Counting(s, v))
      BY <1>1, <1>7, <1>10 DEF Trusted
    <2> QED BY <1>3, <1>4, <1>5, <1>9, <2>1, InformedCarried
  <1>12. \A r \in Slots : notice[r].state = "open" => notice'[r] = notice[r]
    BY <1>7
  <1> QED BY <1>4, <1>5, <1>7, <1>8, <1>10, <1>11, <1>12, NoticesStep

LEMMA Push_Inv ==
    ASSUME NoticesInv, NEW g \in Messengers, NEW s \in FreeSlot, NEW to \in Receivers \cup {Everyone},
           NEW about \in Bulletins \cup {Nobody}, about = Nobody <=> to \in Receivers,
           NEW next \in MessengerRow, next.about = about,
           about # Nobody =>
              next.face.state = "live" /\ (next.met \/ bulletin[about].state # "deleted"),
           messenger[g].stage \in {"idle", "edit"},
           Push(g, s, to, about, next)
    PROVE  NoticesInv'
  <1> DEFINE row == [NoNotice EXCEPT !.state = "open", !.to = to, !.about = about]
             m == [next EXCEPT !.stage = "pushed", !.slot = s]
  <1>told. told \in [Receivers -> Page]
    BY DEF NoticesInv, NoticeTables
  <1>1. row \in Row /\ row.state = "open" /\ row.to = to /\ row.about = about /\ ~row.read /\ ~row.old
    BY DEF NoNotice, Row
  <1>2. s \in Slots
    BY DEF FreeSlot
  <1>3. /\ m \in MessengerRow /\ m.stage = "pushed" /\ m.slot = s /\ m.about = about
        /\ m.face = next.face /\ m.met = next.met
    BY <1>2 DEF MessengerRow
  <1>4. /\ notice' = [notice EXCEPT ![s] = row] /\ Becomes(g, m) /\ UNCHANGED <<marked, bulletin>>
        /\ told' = [u \in Receivers |->
                      IF told[u].on /\ to \in {u, Everyone}
                      THEN [told[u] EXCEPT !.known = @ \cup {s}]
                      ELSE told[u]]
    BY DEF Push
  <1> HIDE DEF row, m
  <1>5. ASSUME NEW u \in Receivers
        PROVE  /\ told'[u] \in Page /\ told'[u].on = told[u].on /\ told'[u].why = told[u].why
               /\ told'[u].known = IF told[u].on /\ to \in {u, Everyone} THEN told[u].known \cup {s}
                                   ELSE told[u].known
    <2>1. PICK p \in Page : p = told[u]
      BY <1>told
    <2>2. told'[u] = IF told[u].on /\ to \in {u, Everyone} THEN [p EXCEPT !.known = @ \cup {s}] ELSE p
      BY <1>4, <2>1
    <2> QED BY <1>2, <2>1, <2>2 DEF Page
  <1>6. told' \in [Receivers -> Page]
    BY <1>4, <1>5
  <1>7. /\ NoticeTables' /\ NoticesKnown' /\ MarksMade' /\ PagesKnown' /\ Onward
        /\ notice[s].state = "none"
        /\ notice'[s] = row /\ \A r \in Slots \ {s} : notice'[r] = notice[r]
        /\ \A v \in Receivers : \A r \in Slots \ {s} : r \in Unread(v)' <=> r \in Unread(v)
    <2>1. \A u \in Receivers : \A r \in told'[u].known :
             r \in told[u].known \/ (r = s /\ row.to \in {u, Everyone})
      BY <1>1, <1>5
    <2>2. row.state = "open" \/ (row.state = "there" /\ row.to \in Receivers)
      BY <1>1
    <2> QED BY <1>1, <1>4, <1>6, <2>1, <2>2, NewRow
  <1>8. Messenger(m)'
    <2>1. Sends(m)' /\ Reads(m)'
      BY <1>1, <1>2, <1>3, <1>7 DEF Sends, Reads
    <2>2. ASSUME NEW u \in Receivers, Addressed(s, u)', told'[u].on PROVE s \in told'[u].known
      BY <1>1, <1>5, <1>7, <2>2 DEF Addressed
    <2>3. m.met \/ Undisturbed(m)'
      BY <1>3, <1>4, <2>2 DEF Undisturbed
    <2> QED BY <2>1, <2>3 DEF Messenger
  <1>9. \A r \in Slots : ~Carries(messenger[g], r)
    BY DEF Carries
  <1>10. Carries(m, s) /\ \A r \in Slots : Carries(m, r) => r = s
    BY <1>3 DEF Carries
  <1>11. ASSUME NEW v \in Receivers PROVE Informed(v)'
    <2>1. Trusted(v)' =>
             /\ Trusted(v)
             /\ \A r \in Slots \ {s} :
                   (r \in Unread(v)' <=> r \in Unread(v)) /\ (r \in told'[v].known <=> r \in told[v].known)
             /\ Carries(m, s) \/ (s \in Unread(v)' <=> s \in told'[v].known /\ ~Counting(s, v))
      BY <1>5, <1>7, <1>10 DEF Trusted
    <2> QED BY <1>2, <1>3, <1>4, <1>9, <2>1, InformedCarried
  <1>12. \A r \in Slots : notice[r].state = "open" => notice'[r] = notice[r]
    BY <1>7
  <1> QED BY <1>3, <1>4, <1>7, <1>8, <1>10, <1>11, <1>12, NoticesStep

\* The row of a transaction at its end: notice and page of s, and what else there is to read.
LEMMA EndOfPush ==
    ASSUME NoticesInv, NEW g \in Messengers, messenger[g].stage = "pushed", Becomes(g, Unsent),
           NEW s \in Slots, s = messenger[g].slot,
           NEW end \in {"there", "gone"}, notice' = [notice EXCEPT ![s].state = end],
           NEW us \in SUBSET Receivers, NEW why \in {"early", "phantom"}, told' = Confused(us, why),
           UNCHANGED marked, bulletin' \in [Bulletins -> BulletinRow],
           \A b \in Bulletins : bulletin'[b] = bulletin[b] \/ bulletin'[b].state = "live",
           end = "there" /\ notice[s].to = Everyone =>
              notice[s].about \in Bulletins /\ bulletin'[notice[s].about].state = "live",
           \A u \in Receivers :
              told[u].on /\ u \notin us =>
                 /\ end = "there" => (s \in told[u].known <=> Addressed(s, u))
                 /\ end = "gone" => s \notin told[u].known
                 /\ \A b \in Bulletins : bulletin[b].state = "none" \/ (bulletin'[b].state = "live" <=> bulletin[b].state = "live")
    PROVE  NoticesInv'
  <1>inv. NoticeTables /\ NoticesKnown /\ MarksMade /\ PagesKnown
    BY DEF NoticesInv
  <1>each. \A h \in Messengers : Messenger(messenger[h])
    BY DEF NoticesInv
  <1>1. notice[s].state = "open" /\ ~notice[s].read /\ ~notice[s].old
    BY <1>inv, <1>each DEF Messenger, Sends, NoticesKnown
  <1>2. /\ notice'[s].state = end /\ notice'[s].to = notice[s].to /\ notice'[s].about = notice[s].about
        /\ notice'[s].read = notice[s].read /\ notice'[s].old = notice[s].old
        /\ notice'[s] \in Row
        /\ \A r \in Slots \ {s} : notice'[r] = notice[r]
        /\ notice' \in [Slots -> Row]
    <2>1. PICK row \in Row : row = notice[s]
      BY <1>inv DEF NoticeTables
    <2>2. PICK new : new = [row EXCEPT !.state = end]
      OBVIOUS
    <2>3. /\ new \in Row /\ new.state = end /\ new.to = row.to /\ new.about = row.about
          /\ new.read = row.read /\ new.old = row.old
      BY <2>2 DEF Row
    <2>4. notice' = [notice EXCEPT ![s] = new]
      BY <1>inv, <2>1, <2>2 DEF NoticeTables
    <2> QED BY <1>inv, <2>1, <2>3, <2>4 DEF NoticeTables
  <1>3. /\ told' \in [Receivers -> Page]
        /\ \A u \in Receivers :
              /\ told'[u].on = told[u].on /\ told'[u].known = told[u].known
              /\ told'[u].why = "nothing" => told[u].why = "nothing" /\ u \notin us
    BY <1>inv, ConfusedPages
  <1>4. NoticeTables'
    BY <1>inv, <1>2, <1>3 DEF NoticeTables
  <1>5. NoticesKnown'
    <2> SUFFICES ASSUME NEW r \in Slots
                 PROVE  /\ notice'[r].state = "open" => ~notice'[r].read /\ ~notice'[r].old
                        /\ notice'[r].state = "there" /\ notice'[r].to = Everyone =>
                              notice'[r].about \in Bulletins /\ bulletin'[notice'[r].about].state # "none"
      BY DEF NoticesKnown
    <2>1. CASE r = s
      BY <1>1, <1>2, <2>1
    <2>2. CASE r # s
      BY <1>inv, <1>2, <2>2 DEF NoticesKnown
    <2> QED BY <2>1, <2>2
  <1>6. \A k \in marked : k.of \in Slots \ {s}
    BY <1>inv, <1>1 DEF MarksMade, NoticeTables, Made
  <1>7. MarksMade'
    BY <1>inv, <1>2, <1>6 DEF MarksMade, Made
  <1>8. PagesKnown'
    BY <1>inv, <1>2, <1>3 DEF PagesKnown, ToldOf, Addressed
  <1>9. Onward
    BY <1>inv, <1>1, <1>2 DEF Onward, Made, Finished, NoticeTables, Row
  <1>10. ASSUME NEW u \in Receivers PROVE Informed(u)'
    <2>1. ASSUME Trusted(u)'
          PROVE  /\ Trusted(u)
                 /\ \A r \in Slots \ {s} :
                       (r \in Unread(u)' <=> r \in Unread(u)) /\ (r \in told'[u].known <=> r \in told[u].known)
                 /\ Carries(Unsent, s) \/ (s \in Unread(u)' <=> s \in told'[u].known /\ ~Counting(s, u))
      <3>1. Trusted(u) /\ u \notin us /\ told[u].on
        BY <1>3, <2>1 DEF Trusted
      <3>2. ASSUME NEW r \in Slots \ {s} PROVE r \in Unread(u)' <=> r \in Unread(u)
        <4>1. notice'[r] = notice[r]
          BY <1>2
        <4>2. notice[r].state = "there" /\ notice[r].to = Everyone =>
                 (bulletin'[notice[r].about].state = "live" <=> bulletin[notice[r].about].state = "live")
          BY <1>inv, <3>1 DEF NoticesKnown
        <4> QED BY <4>1, <4>2, UnreadIs DEF Addressed
      <3>3. ~Counting(s, u)
        <4>1. ASSUME NEW h \in Messengers, messenger[h].stage = "count", messenger[h].slot = s
              PROVE  FALSE
          BY <1>1, <1>each, <4>1 DEF Messenger, Reads, Made
        <4> QED BY <4>1 DEF Counting
      <3>4. end = "there" => (s \in Unread(u)' <=> Addressed(s, u))
        <4>1. Addressed(s, u)' <=> Addressed(s, u)
          BY <1>2 DEF Addressed
        <4>2. ~notice'[s].read /\ ~notice'[s].old /\ ~\E k \in marked' : k.of = s /\ k.by = u
          BY <1>1, <1>2, <1>6
        <4> SUFFICES ASSUME end = "there" PROVE s \in Unread(u)' <=> Addressed(s, u)
          OBVIOUS
        <4>3. notice'[s].state = "there"
          BY <1>2
        <4>4. notice'[s].to = Everyone => bulletin'[notice'[s].about].state = "live"
          BY <1>2
        <4> QED BY <4>1, <4>2, <4>3, <4>4, UnreadIs
      <3>5. end = "gone" => s \notin Unread(u)'
        BY <1>2, UnreadIs
      <3>6. s \in Unread(u)' <=> s \in told[u].known
        <4>1. CASE end = "there"
          BY <3>1, <3>4, <4>1
        <4>2. CASE end = "gone"
          BY <3>1, <3>5, <4>2
        <4> QED BY <4>1, <4>2
      <3> QED BY <1>3, <3>1, <3>2, <3>3, <3>6
    <2>2. \A r \in Slots : Carries(messenger[g], r) => r = s
      BY DEF Carries
    <2> QED BY <2>1, <2>2, InformedCarried, UnsentKnown
  <1>11. \A r \in Slots : notice[r].state = "open" => notice'[r] = notice[r] \/ (g \in Messengers /\ Carries(messenger[g], r))
    BY <1>2 DEF Carries
  <1> QED BY <1>4, <1>5, <1>7, <1>8, <1>9, <1>10, <1>11, UnsentKnown, NoticesStep

LEMMA CommitNotice_Inv ==
    ASSUME NoticesInv, NEW g \in Messengers, CommitNotice(g)
    PROVE  NoticesInv'
  <1>inv. NoticeTables /\ NoticesKnown /\ MarksMade /\ PagesKnown
    BY DEF NoticesInv
  <1>1. PICK q \in MessengerRow : q = messenger[g]
    BY DEF NoticesInv
  <1>2. q.stage = "pushed" /\ Messenger(q) /\ Becomes(g, Unsent) /\ UNCHANGED marked
    BY <1>1 DEF CommitNotice, NoticesInv
  <1>3. PICK s \in Slots : s = q.slot
    BY <1>2 DEF Messenger, Sends
  <1>4. /\ notice[s].state = "open" /\ notice[s].about = q.about
        /\ q.about = Nobody <=> notice[s].to \in Receivers
        /\ q.about # Nobody => q.face.state = "live"
    BY <1>2, <1>3 DEF Messenger, Sends
  <1>5. PICK us \in SUBSET Receivers : us = IF q.met THEN Pages(s) ELSE {}
    BY DEF Pages
  <1>6. /\ notice' = [notice EXCEPT ![s].state = "there"]
        /\ bulletin' = IF q.about = Nobody THEN bulletin ELSE [bulletin EXCEPT ![q.about] = q.face]
        /\ told' = Confused(us, "early")
    BY <1>1, <1>3, <1>5 DEF CommitNotice
  <1>7. q.about \in Bulletins \cup {Nobody} /\ q.face \in BulletinRow /\ bulletin \in [Bulletins -> BulletinRow]
    BY <1>inv DEF MessengerRow, NoticeTables
  <1>8. /\ bulletin' \in [Bulletins -> BulletinRow]
        /\ \A b \in Bulletins : bulletin'[b] = bulletin[b] \/ (b = q.about /\ bulletin'[b].state = "live")
        /\ q.about # Nobody => bulletin'[q.about].state = "live"
    BY <1>4, <1>6, <1>7
  <1>9. notice[s].to = Everyone => notice[s].about \in Bulletins /\ bulletin'[notice[s].about].state = "live"
    BY <1>4, <1>7, <1>8, NoticesAssumption
  <1>10. ASSUME NEW u \in Receivers, told[u].on, u \notin us
         PROVE  /\ s \in told[u].known <=> Addressed(s, u)
                /\ \A b \in Bulletins :
                      bulletin[b].state = "none" \/ (bulletin'[b].state = "live" <=> bulletin[b].state = "live")
    <2>1. s \in told[u].known => Addressed(s, u)
      BY <1>inv DEF PagesKnown, ToldOf
    <2>2. CASE ~Addressed(s, u)
      <3>1. notice[s].to \in Receivers
        BY <1>inv, <2>2 DEF Addressed, NoticeTables, Row
      <3> QED BY <1>4, <1>6, <2>1, <2>2, <3>1
    <2>3. CASE Addressed(s, u)
      <3>1. ~q.met
        BY <1>5, <1>10, <2>3 DEF Pages
      <3>2. /\ q.about # Nobody => bulletin[q.about].state # "deleted"
            /\ s \in told[u].known
        BY <1>2, <1>3, <1>10, <2>3, <3>1 DEF Messenger, Undisturbed
      <3>3. \A b \in Bulletins : bulletin[b].state \in {"none", "live", "deleted"}
        BY <1>7 DEF BulletinRow
      <3>4. ASSUME NEW b \in Bulletins, bulletin[b].state # "none"
            PROVE  bulletin'[b].state = "live" <=> bulletin[b].state = "live"
        <4>1. CASE b = q.about
          BY <1>8, <3>2, <3>3, <3>4, <4>1, NoticesAssumption
        <4>2. CASE b # q.about
          BY <1>8, <4>2
        <4> QED BY <4>1, <4>2
      <3> QED BY <2>1, <2>3, <3>2, <3>4
    <2> QED BY <2>2, <2>3
  <1>11. s = messenger[g].slot /\ messenger[g].stage = "pushed"
    BY <1>1, <1>2, <1>3
  <1>12. \A b \in Bulletins : bulletin'[b] = bulletin[b] \/ bulletin'[b].state = "live"
    BY <1>8
  <1>13. PICK end \in {"there", "gone"} : end = "there"
    OBVIOUS
  <1>14. PICK why \in {"early", "phantom"} : why = "early"
    OBVIOUS
  <1>15. notice' = [notice EXCEPT ![s].state = end] /\ told' = Confused(us, why)
    BY <1>6, <1>13, <1>14
  <1> QED BY <1>2, <1>8, <1>9, <1>10, <1>11, <1>12, <1>13, <1>15, EndOfPush

LEMMA RollBack_Inv ==
    ASSUME NoticesInv, NEW g \in Messengers, RollBack(g)
    PROVE  NoticesInv'
  <1>inv. NoticeTables /\ PagesKnown
    BY DEF NoticesInv
  <1>1. messenger[g].stage = "pushed" /\ Becomes(g, Unsent) /\ UNCHANGED <<marked, bulletin>>
    BY DEF RollBack
  <1>2. PICK s \in Slots : s = messenger[g].slot
    BY <1>1 DEF NoticesInv, Messenger, Sends
  <1>3. PICK us \in SUBSET Receivers : us = {u \in Pages(s) : s \in told[u].known}
    BY DEF Pages
  <1>4. notice' = [notice EXCEPT ![s].state = "gone"] /\ told' = Confused(us, "phantom")
    BY <1>2, <1>3 DEF RollBack
  <1>5. \A u \in Receivers : told[u].on /\ u \notin us => s \notin told[u].known
    BY <1>inv, <1>3 DEF PagesKnown, ToldOf, Pages
  <1>6. PICK end \in {"there", "gone"} : end = "gone"
    OBVIOUS
  <1>7. PICK why \in {"early", "phantom"} : why = "phantom"
    OBVIOUS
  <1>8. notice' = [notice EXCEPT ![s].state = end] /\ told' = Confused(us, why)
    BY <1>4, <1>6, <1>7
  <1>9. bulletin' \in [Bulletins -> BulletinRow]
    BY <1>inv, <1>1 DEF NoticeTables
  <1> QED BY <1>1, <1>2, <1>5, <1>6, <1>8, <1>9, EndOfPush

\* An announcement changes, and the pages of those who gain or lose a notice by it are not
\* trusted any more.
LEMMA BulletinStep ==
    ASSUME NoticesInv, NEW g \in Messengers, messenger[g].stage \in {"idle", "edit"}, Becomes(g, Unsent),
           NEW b \in Bulletins, NEW row \in BulletinRow, row.state # "none",
           bulletin' = [bulletin EXCEPT ![b] = row], UNCHANGED <<notice, marked>>,
           \/ told' = told /\ (\A u \in Receivers : Unread(u)' = Unread(u))
           \/ Confuses("withdrawn")
    PROVE  NoticesInv'
  <1>inv. NoticeTables /\ NoticesKnown /\ MarksMade /\ PagesKnown
    BY DEF NoticesInv
  <1>1. /\ told' \in [Receivers -> Page]
        /\ \A u \in Receivers :
              /\ told'[u].known = told[u].known
              /\ Trusted(u)' => Trusted(u) /\ Unread(u)' = Unread(u)
    <2>1. CASE told' = told /\ (\A u \in Receivers : Unread(u)' = Unread(u))
      BY <1>inv, <2>1 DEF NoticeTables, Trusted
    <2>2. CASE Confuses("withdrawn")
      <3>1. PICK us \in SUBSET Receivers :
               us = {u \in Receivers : Unread(u)' # Unread(u)} /\ told' = Confused(us, "withdrawn")
        BY <2>2 DEF Confuses
      <3> QED BY <1>inv, <3>1, ConfusedPages DEF Trusted
    <2> QED BY <2>1, <2>2
  <1>2. /\ bulletin' \in [Bulletins -> BulletinRow]
        /\ \A c \in Bulletins : bulletin'[c].state # "none" \/ bulletin'[c] = bulletin[c]
    BY <1>inv DEF NoticeTables
  <1>3. NoticeTables' /\ MarksMade' /\ PagesKnown'
    BY <1>inv, <1>1, <1>2 DEF NoticeTables, MarksMade, PagesKnown, Made, ToldOf, Addressed
  <1>4. NoticesKnown'
    BY <1>inv, <1>2 DEF NoticesKnown
  <1>5. Onward
    BY <1>inv DEF Onward, Made, Finished, NoticeTables, Row
  <1>6. ASSUME NEW u \in Receivers PROVE Informed(u)'
    BY <1>1, <1>6, InformedQuiet, UnsentKnown DEF Apart
  <1> QED BY <1>3, <1>4, <1>5, <1>6, NoticesStep, UnsentKnown

LEMMA Bulletins_Inv ==
    ASSUME NoticesInv, NEW g \in Messengers,
           \/ SaveBulletin(g)
           \/ \E b \in Bulletins :
                 CreateBulletin(g, b) \/ DraftBulletin(g, b) \/ ReadBulletin(g, b) \/ DeleteBulletin(g, b)
           \/ \E u \in Receivers : SendInside(g, u)
    PROVE  NoticesInv'
  <1>inv. NoticeTables /\ NoticesKnown
    BY DEF NoticesInv
  <1>rows. bulletin \in [Bulletins -> BulletinRow]
    BY <1>inv DEF NoticeTables
  <1>1. ASSUME NEW u \in Receivers, SendInside(g, u) PROVE NoticesInv'
    <2>1. PICK s \in FreeSlot : Push(g, s, u, Nobody, Unsent)
      BY <1>1 DEF SendInside
    <2>2. messenger[g].stage \in {"idle", "edit"} /\ Unsent.about = Nobody
      BY <1>1 DEF SendInside, Unsent
    <2> QED BY <2>1, <2>2, Push_Inv, UnsentKnown
  <1>2. ASSUME NEW b \in Bulletins, CreateBulletin(g, b) PROVE NoticesInv'
    <2> DEFINE next == [Unsent EXCEPT !.about = b, !.face = [state |-> "live", published |-> TRUE, text |-> 0]]
    <2>1. next \in MessengerRow /\ next.about = b /\ next.face.state = "live"
      BY DEF Unsent, NoBulletin, BulletinRow, MessengerRow
    <2>2. messenger[g].stage \in {"idle", "edit"} /\ bulletin[b].state # "deleted"
          /\ \E s \in FreeSlot : Push(g, s, Everyone, b, next)
      BY <1>2 DEF CreateBulletin
    <2> HIDE DEF next
    <2>3. PICK s \in FreeSlot : Push(g, s, Everyone, b, next)
      BY <2>2
    <2>4. b # Nobody /\ Everyone \notin Receivers
      BY NoticesAssumption
    <2> QED BY <2>1, <2>2, <2>3, <2>4, Push_Inv
  <1>3. ASSUME NEW b \in Bulletins, DraftBulletin(g, b) PROVE NoticesInv'
    <2>1. /\ messenger[g].stage = "idle" /\ bulletin[b].state = "none" /\ Becomes(g, Unsent)
          /\ bulletin' = [bulletin EXCEPT ![b].state = "live"] /\ UNCHANGED <<notice, marked, told>>
      BY <1>3 DEF DraftBulletin
    <2>2. PICK r \in BulletinRow : r = bulletin[b]
      BY <1>rows
    <2>3. PICK row : row = [r EXCEPT !.state = "live"]
      OBVIOUS
    <2>4. row \in BulletinRow /\ row.state = "live"
      BY <2>3 DEF BulletinRow
    <2>5. bulletin' = [bulletin EXCEPT ![b] = row]
      BY <1>rows, <2>1, <2>2, <2>3
    <2>6. ASSUME NEW u \in Receivers PROVE Unread(u)' = Unread(u)
      <3>1. ASSUME NEW s \in Slots, notice[s].state = "there", notice[s].to = Everyone
            PROVE  bulletin'[notice[s].about] = bulletin[notice[s].about]
        BY <1>inv, <1>rows, <2>1, <2>5, <3>1 DEF NoticesKnown
      <3>2. ASSUME NEW s PROVE s \in Unread(u)' <=> s \in Unread(u)
        <4>1. Addressed(s, u)' <=> Addressed(s, u)
          BY <2>1 DEF Addressed
        <4>2. notice' = notice /\ marked' = marked
          BY <2>1
        <4> QED BY <3>1, <4>1, <4>2, UnreadIs
      <3> QED BY <3>2
    <2> QED BY <2>1, <2>4, <2>5, <2>6, BulletinStep
  <1>4. ASSUME NEW b \in Bulletins, DeleteBulletin(g, b) PROVE NoticesInv'
    <2>1. /\ messenger[g].stage = "idle" /\ Becomes(g, Unsent) /\ Confuses("withdrawn")
          /\ bulletin' = [bulletin EXCEPT ![b].state = "deleted"] /\ UNCHANGED <<notice, marked>>
      BY <1>4 DEF DeleteBulletin
    <2>2. PICK r \in BulletinRow : r = bulletin[b]
      BY <1>rows
    <2>3. PICK row : row = [r EXCEPT !.state = "deleted"]
      OBVIOUS
    <2>4. row \in BulletinRow /\ row.state = "deleted"
      BY <2>3 DEF BulletinRow
    <2>5. bulletin' = [bulletin EXCEPT ![b] = row]
      BY <1>rows, <2>1, <2>2, <2>3
    <2> QED BY <2>1, <2>4, <2>5, BulletinStep
  <1>5. ASSUME NEW b \in Bulletins, ReadBulletin(g, b) PROVE NoticesInv'
    <2>1. PICK was \in BulletinRow : was = bulletin[b]
      BY <1>rows
    <2>2. PICK p \in BOOLEAN, x \in {0, 1} :
             Becomes(g, [Unsent EXCEPT !.stage = "edit", !.about = b, !.was = was,
                                        !.face = [state |-> "live", published |-> p, text |-> x]])
      BY <1>5, <2>1 DEF ReadBulletin
    <2> DEFINE m == [Unsent EXCEPT !.stage = "edit", !.about = b, !.was = was,
                                    !.face = [state |-> "live", published |-> p, text |-> x]]
    <2>3. /\ m \in MessengerRow /\ m.stage = "edit" /\ m.about = b /\ m.face.state = "live"
      BY DEF Unsent, NoBulletin, BulletinRow, MessengerRow
    <2>4. Becomes(g, m)
      BY <2>2
    <2> HIDE DEF m
    <2>5. /\ messenger[g].stage = "idle" /\ bulletin[b].state = "live"
          /\ UNCHANGED <<notice, marked, bulletin, told>>
      BY <1>5 DEF ReadBulletin, Readable
    <2>6. Messenger(m)
      BY <2>3, <2>5, NoticesAssumption DEF Messenger, Sends, Reads, Undisturbed
    <2>7. \A u \in Receivers : Apart(messenger[g], u) /\ Apart(m, u)
      BY <2>3, <2>5 DEF Apart
    <2> QED BY <2>3, <2>4, <2>5, <2>6, <2>7, QuietNotices
  <1>6. ASSUME SaveBulletin(g) PROVE NoticesInv'
    <2>1. PICK q \in MessengerRow : q = messenger[g]
      BY DEF NoticesInv
    <2>2. q.stage = "edit" /\ Messenger(q)
      BY <1>6, <2>1 DEF SaveBulletin, NoticesInv
    <2>3. /\ q.about \in Bulletins /\ q.face.state = "live" /\ q.face \in BulletinRow
          /\ q.met \/ bulletin[q.about].state # "deleted"
      BY <2>2 DEF Messenger, Sends, Undisturbed, MessengerRow
    <2>4. CASE \E s \in FreeSlot : Push(g, s, Everyone, q.about, [q EXCEPT !.was = NoBulletin])
      <3>1. PICK next : next = [q EXCEPT !.was = NoBulletin]
        OBVIOUS
      <3>2. /\ next \in MessengerRow /\ next.about = q.about /\ next.face = q.face /\ next.met = q.met
        BY <3>1 DEF MessengerRow, NoBulletin, BulletinRow
      <3>3. PICK s \in FreeSlot : Push(g, s, Everyone, q.about, next)
        BY <2>4, <3>1
      <3>4. PICK b \in Bulletins : b = q.about
        BY <2>3
      <3>5. b # Nobody /\ Everyone \notin Receivers
        BY NoticesAssumption
      <3>6. Push(g, s, Everyone, b, next) /\ next.about = b /\ next.face.state = "live"
            /\ (next.met \/ bulletin[b].state # "deleted") /\ messenger[g].stage \in {"idle", "edit"}
        BY <2>1, <2>2, <2>3, <3>2, <3>3, <3>4
      <3> QED BY <3>2, <3>5, <3>6, Push_Inv
    <2>5. CASE /\ bulletin' = [bulletin EXCEPT ![q.about] = q.face] /\ UNCHANGED <<notice, marked>>
               /\ Confuses("withdrawn") /\ Becomes(g, Unsent)
      BY <2>1, <2>2, <2>3, <2>5, BulletinStep
    <2> QED BY <1>6, <2>1, <2>4, <2>5 DEF SaveBulletin
  <1> QED BY <1>1, <1>2, <1>3, <1>4, <1>5, <1>6

LEMMA MarkingIs ==
    ASSUME NEW ss, NEW u
    PROVE  /\ \A k \in Marking(ss, u) :
                 /\ k.of \in ss /\ k.by = u /\ k.late = (notice[k.of].state # "there")
                 /\ k = [of |-> k.of, by |-> k.by, late |-> k.late]
           /\ \A s \in ss : \E k \in marked \cup Marking(ss, u) : k.of = s /\ k.by = u
  <1>1. ASSUME NEW k \in Marking(ss, u)
        PROVE  /\ k.of \in ss /\ k.by = u /\ k.late = (notice[k.of].state # "there")
               /\ k = [of |-> k.of, by |-> k.by, late |-> k.late]
    <2>1. PICK s \in ss : k = MarkOf(s, u)
      BY <1>1 DEF Marking
    <2>2. k.of = s /\ k.by = u /\ k.late = (notice[s].state # "there")
          /\ k = [of |-> k.of, by |-> k.by, late |-> k.late]
      BY <2>1 DEF MarkOf
    <2> QED BY <2>2
  <1>2. ASSUME NEW s \in ss PROVE \E k \in marked \cup Marking(ss, u) : k.of = s /\ k.by = u
    <2>1. MarkOf(s, u).of = s /\ MarkOf(s, u).by = u
      BY DEF MarkOf
    <2>2. CASE \A k \in marked : ~(k.of = s /\ k.by = u)
      <3>1. MarkOf(s, u) \in Marking(ss, u)
        BY <2>2 DEF Marking
      <3> QED BY <2>1, <3>1
    <2> QED BY <2>2
  <1> QED BY <1>1, <1>2

\* Rows keep all but their flag.
FlagsOnly(u) ==
    \A s \in Slots :
       \/ notice'[s] = notice[s]
       \/ /\ notice'[s] = [notice[s] EXCEPT !.read = TRUE]
          /\ notice[s].state = "there" /\ notice[s].to = u
       \/ notice'[s] = [notice[s] EXCEPT !.read = FALSE] /\ notice[s].state = "gone"

\* What a step writes that marks notices as read: rows that keep all but their flag, and
\* marks of one user.
LEMMA ReadRows ==
    ASSUME NoticesInv, NEW u \in Receivers, NEW ss \in SUBSET Slots, NEW kk,
           notice' = [s \in Slots |-> notice'[s]],
           FlagsOnly(u),
           \A s \in ss : Made(s) /\ notice[s].to = Everyone,
           kk = {} \/ kk = Marking(ss, u), marked' = marked \cup kk,
           UNCHANGED <<bulletin, told>>
    PROVE  /\ NoticeTables' /\ NoticesKnown' /\ MarksMade' /\ PagesKnown' /\ Onward
           /\ \A s \in Slots :
                 /\ notice'[s].state = notice[s].state /\ notice'[s].to = notice[s].to
                 /\ notice'[s].about = notice[s].about /\ notice'[s].old = notice[s].old
                 /\ notice[s].state = "open" => notice'[s] = notice[s]
           /\ \A v \in Receivers \ {u} : Unread(v)' = Unread(v)
           /\ \A s : s \in Unread(u)' <=> s \in Unread(u) /\ ~notice'[s].read /\ ~\E k \in kk : k.of = s
  <1>inv. NoticeTables /\ NoticesKnown /\ MarksMade /\ PagesKnown
    BY DEF NoticesInv
  <1>1. ASSUME NEW s \in Slots
        PROVE  /\ notice'[s].state = notice[s].state /\ notice'[s].to = notice[s].to
               /\ notice'[s].about = notice[s].about /\ notice'[s].old = notice[s].old
               /\ notice'[s].read \in BOOLEAN /\ notice'[s] \in Row
               /\ notice[s].state = "open" => notice'[s] = notice[s]
               /\ notice[s].state # "gone" => (notice[s].read => notice'[s].read)
               /\ notice'[s].read # notice[s].read => notice[s].state = "gone" \/ notice[s].to = u
    <2>1. PICK r \in Row : r = notice[s]
      BY <1>inv DEF NoticeTables
    <2>2. CASE notice'[s] = r
      BY <2>1, <2>2 DEF Row
    <2>3. CASE notice'[s] = [r EXCEPT !.read = TRUE] /\ r.state = "there" /\ r.to = u
      BY <2>1, <2>3 DEF Row
    <2>4. CASE notice'[s] = [r EXCEPT !.read = FALSE] /\ r.state = "gone"
      BY <2>1, <2>4 DEF Row
    <2> QED BY <2>1, <2>2, <2>3, <2>4 DEF FlagsOnly
  <1>2. /\ \A k \in kk : /\ k.of \in ss /\ k.by = u /\ k \in [of : Slots, by : Receivers, late : BOOLEAN]
                         /\ k.late \/ notice[k.of].state = "there"
    <2> SUFFICES ASSUME NEW k \in Marking(ss, u)
                 PROVE  /\ k.of \in ss /\ k.by = u /\ k \in [of : Slots, by : Receivers, late : BOOLEAN]
                        /\ k.late \/ notice[k.of].state = "there"
      OBVIOUS
    <2>1. /\ k.of \in ss /\ k.by = u /\ k.late = (notice[k.of].state # "there")
          /\ k = [of |-> k.of, by |-> k.by, late |-> k.late]
      BY MarkingIs
    <2>2. k.late \in BOOLEAN /\ k.of \in Slots
      BY <2>1
    <2> QED BY <2>1, <2>2
  <1>3. NoticeTables'
    BY <1>inv, <1>1, <1>2 DEF NoticeTables
  <1>4. NoticesKnown'
    <2> SUFFICES ASSUME NEW s \in Slots
                 PROVE  /\ notice'[s].state = "open" => ~notice'[s].read /\ ~notice'[s].old
                        /\ notice'[s].state = "there" /\ notice'[s].to = Everyone =>
                              notice'[s].about \in Bulletins /\ bulletin'[notice'[s].about].state # "none"
      BY DEF NoticesKnown
    <2> QED BY <1>inv, <1>1 DEF NoticesKnown
  <1>5. MarksMade'
    <2> SUFFICES ASSUME NEW k \in marked'
                 PROVE  /\ notice'[k.of].state \in {"there", "gone"}
                        /\ k.late \/ (notice'[k.of].state = "there" /\ notice'[k.of].to = Everyone)
      BY DEF MarksMade, Made
    <2>1. CASE k \in marked
      <3>1. k.of \in Slots
        BY <1>inv, <2>1 DEF NoticeTables
      <3> QED BY <1>inv, <1>1, <2>1, <3>1 DEF MarksMade, Made
    <2>2. CASE k \in kk
      <3>1. k.of \in Slots /\ k.of \in ss /\ (k.late \/ notice[k.of].state = "there")
        BY <1>2, <2>2
      <3> QED BY <1>1, <3>1 DEF Made
    <2> QED BY <2>1, <2>2
  <1>6. PagesKnown'
    BY <1>inv, <1>1 DEF PagesKnown, ToldOf, Addressed
  <1>7. Onward
    <2> SUFFICES ASSUME NEW s \in Slots
                 PROVE  /\ notice[s].state # "none" => notice'[s].state # "none" /\ notice'[s].to \in {notice[s].to, Everyone}
                        /\ Made(s) => Made(s)'
                        /\ notice[s].state = "gone" => notice'[s].state = "gone"
                        /\ notice[s].state # "none" /\ notice'[s].state = "there" => notice'[s].to = notice[s].to
                        /\ \A v \in Receivers : Made(s) /\ Finished(s, v) => Finished(s, v)'
      BY DEF Onward
    <2>1. ASSUME NEW v \in Receivers, Made(s), Finished(s, v) PROVE Finished(s, v)'
      BY <1>1, <2>1 DEF Finished, Made
    <2> QED BY <1>1, <2>1 DEF Made
  <1>8. ASSUME NEW v \in Receivers \ {u}, NEW s PROVE s \in Unread(v)' <=> s \in Unread(v)
    <2>1. CASE s \in Slots /\ notice[s].state = "there" /\ Addressed(s, v)
      <3>1. notice'[s].read = notice[s].read
        BY <1>1, <2>1, NoticesAssumption DEF Addressed
      <3>2. \A k \in kk : k.by # v
        BY <1>2
      <3> QED BY <1>1, <2>1, <3>1, <3>2, UnreadIs DEF Addressed
    <2>2. CASE ~(s \in Slots /\ notice[s].state = "there" /\ Addressed(s, v))
      BY <1>1, <2>2, UnreadIs DEF Addressed
    <2> QED BY <2>1, <2>2
  <1>9. ASSUME NEW s
        PROVE  s \in Unread(u)' <=> s \in Unread(u) /\ ~notice'[s].read /\ ~\E k \in kk : k.of = s
    <2>1. CASE s \in Slots /\ notice[s].state = "there"
      BY <1>1, <1>2, <2>1, UnreadIs DEF Addressed
    <2>2. CASE ~(s \in Slots /\ notice[s].state = "there")
      BY <1>1, <2>2, UnreadIs
    <2> QED BY <2>1, <2>2
  <1>10. \A v \in Receivers \ {u} : Unread(v)' = Unread(v)
    <2> SUFFICES ASSUME NEW v \in Receivers \ {u} PROVE Unread(v)' = Unread(v)
      OBVIOUS
    <2>1. PICK a, b : a = Unread(v) /\ b = Unread(v)'
      OBVIOUS
    <2>2. \A s : s \in b <=> s \in a
      BY <1>8, <2>1
    <2>3. a \in SUBSET Slots /\ b \in SUBSET Slots
      BY <2>1, UnreadIs
    <2>4. a = b
      BY <2>2, <2>3
    <2> QED BY <2>1, <2>4
  <1> QED BY <1>1, <1>3, <1>4, <1>5, <1>6, <1>7, <1>9, <1>10

LEMMA WriteMark_Inv ==
    ASSUME NoticesInv, NEW g \in Messengers, WriteMark(g)
    PROVE  NoticesInv'
  <1>inv. NoticeTables /\ NoticesKnown /\ MarksMade /\ PagesKnown
    BY DEF NoticesInv
  <1>1. PICK q \in MessengerRow : q = messenger[g]
    BY DEF NoticesInv
  <1>2. q.stage = "mark" /\ Messenger(q) /\ UNCHANGED <<bulletin, told>>
    BY <1>1 DEF WriteMark, NoticesInv
  <1>3. PICK s \in Slots, u \in Receivers : s = q.slot /\ u = q.user
    BY <1>2 DEF Messenger, Reads
  <1>4. Made(s) /\ Addressed(s, u) /\ q.about = Nobody
    BY <1>2, <1>3 DEF Messenger, Reads, Sends
  <1>5. PICK m : m = [q EXCEPT !.stage = "count", !.met = FALSE]
    OBVIOUS
  <1>6. /\ m \in MessengerRow /\ m.stage = "count" /\ ~m.met /\ m.user = u /\ m.slot = s /\ m.about = Nobody
    BY <1>3, <1>4, <1>5 DEF MessengerRow
  <1>7. /\ Becomes(g, m)
        /\ IF notice[s].to = Everyone
           THEN marked' = marked \cup Marking({s}, u) /\ UNCHANGED notice
           ELSE notice' = [notice EXCEPT ![s].read = (notice[s].state = "there")] /\ UNCHANGED marked
    BY <1>1, <1>3, <1>5 DEF WriteMark
  <1>8. PICK ss \in SUBSET Slots : ss = IF notice[s].to = Everyone THEN {s} ELSE {}
    OBVIOUS
  <1>9. PICK kk : kk = IF notice[s].to = Everyone THEN Marking({s}, u) ELSE {}
    OBVIOUS
  <1>10. notice' = [r \in Slots |-> notice'[r]]
    BY <1>inv, <1>7 DEF NoticeTables
  <1>11. /\ marked' = marked \cup kk /\ (kk = {} \/ kk = Marking(ss, u))
         /\ \A r \in ss : Made(r) /\ notice[r].to = Everyone
    BY <1>4, <1>7, <1>8, <1>9
  <1>12. ASSUME NEW r \in Slots
         PROVE  \/ notice'[r] = notice[r]
                \/ /\ notice'[r] = [notice[r] EXCEPT !.read = TRUE]
                   /\ notice[r].state = "there" /\ notice[r].to = u
                \/ notice'[r] = [notice[r] EXCEPT !.read = FALSE] /\ notice[r].state = "gone"
    <2>1. CASE notice[s].to = Everyone \/ r # s
      BY <1>inv, <1>7, <2>1 DEF NoticeTables
    <2>2. CASE notice[s].to # Everyone /\ r = s
      <3>1. notice[s].to = u
        BY <1>4, <2>2 DEF Addressed
      <3>2. CASE notice[s].state = "there"
        <4>1. notice'[s] = [notice[s] EXCEPT !.read = TRUE]
          BY <1>inv, <1>7, <2>2, <3>2 DEF NoticeTables
        <4> QED BY <2>2, <3>1, <3>2, <4>1
      <3>3. CASE notice[s].state = "gone"
        <4>1. notice'[s] = [notice[s] EXCEPT !.read = FALSE]
          BY <1>inv, <1>7, <2>2, <3>3 DEF NoticeTables
        <4> QED BY <2>2, <3>3, <4>1
      <3> QED BY <1>4, <3>2, <3>3 DEF Made
    <2> QED BY <2>1, <2>2
  <1>13. /\ NoticeTables' /\ NoticesKnown' /\ MarksMade' /\ PagesKnown' /\ Onward
         /\ \A r \in Slots :
               /\ notice'[r].state = notice[r].state /\ notice'[r].to = notice[r].to
               /\ notice[r].state = "open" => notice'[r] = notice[r]
         /\ \A v \in Receivers \ {u} : Unread(v)' = Unread(v)
         /\ \A r : r \in Unread(u)' <=> r \in Unread(u) /\ ~notice'[r].read /\ ~\E k \in kk : k.of = r
    <2>1. FlagsOnly(u)
      BY <1>12 DEF FlagsOnly
    <2>2. kk = {} \/ kk = Marking(ss, u)
      BY <1>11
    <2>3. \A r \in ss : Made(r) /\ notice[r].to = Everyone
      BY <1>11
    <2>4. marked' = marked \cup kk /\ UNCHANGED <<bulletin, told>>
      BY <1>2, <1>11
    <2>5. /\ NoticeTables' /\ NoticesKnown' /\ MarksMade' /\ PagesKnown' /\ Onward
          /\ \A r \in Slots :
                /\ notice'[r].state = notice[r].state /\ notice'[r].to = notice[r].to
                /\ notice'[r].about = notice[r].about /\ notice'[r].old = notice[r].old
                /\ notice[r].state = "open" => notice'[r] = notice[r]
          /\ \A v \in Receivers \ {u} : Unread(v)' = Unread(v)
          /\ \A r : r \in Unread(u)' <=> r \in Unread(u) /\ ~notice'[r].read /\ ~\E k \in kk : k.of = r
      BY <1>10, <2>1, <2>2, <2>3, <2>4, ReadRows
    <2> QED BY <2>5
  \* The user has read this one, and no other, by it.
  <1>14. Finished(s, u)'
    <2>1. CASE notice[s].to = Everyone
      <3>1. \E k \in marked \cup Marking({s}, u) : k.of = s /\ k.by = u
        BY MarkingIs
      <3> QED BY <1>7, <2>1, <3>1 DEF Finished
    <2>2. CASE notice[s].to # Everyone
      <3>1. notice[s].state = "there" => notice'[s].read
        <4> SUFFICES ASSUME notice[s].state = "there" PROVE notice'[s].read
          OBVIOUS
        <4>1. PICK r \in Row : r = notice[s]
          BY <1>inv DEF NoticeTables
        <4>2. notice'[s] = [r EXCEPT !.read = TRUE]
          BY <1>inv, <1>7, <2>2, <4>1 DEF NoticeTables
        <4> QED BY <4>2 DEF Row
      <3> QED BY <1>4, <1>13, <3>1 DEF Finished, Made
    <2> QED BY <2>1, <2>2
  <1>15. \A r \in Slots \ {s} : r \in Unread(u)' <=> r \in Unread(u)
    <2> SUFFICES ASSUME NEW r \in Slots \ {s} PROVE r \in Unread(u)' <=> r \in Unread(u)
      OBVIOUS
    <2>1. notice'[r] = notice[r]
      BY <1>inv, <1>7 DEF NoticeTables
    <2>2. \A k \in kk : k.of # r
      BY <1>9, MarkingIs
    <2>3. r \in Unread(u) => ~notice[r].read
      BY UnreadIs
    <2> QED BY <1>13, <2>1, <2>2, <2>3
  <1>16. s \notin Unread(u)'
    BY <1>14, UnreadIs DEF Finished
  <1>17. Messenger(m)'
    <2>1. Sends(m)'
      BY <1>6 DEF Sends
    <2>2. Reads(m)'
      BY <1>4, <1>6, <1>13, <1>14 DEF Reads, Made, Addressed
    <2>3. Undisturbed(m)'
      BY <1>6 DEF Undisturbed
    <2> QED BY <2>1, <2>2, <2>3 DEF Messenger
  <1>18. ASSUME NEW v \in Receivers, v # u PROVE Informed(v)'
    <2>1. Trusted(v)' => Trusted(v) /\ Unread(v)' = Unread(v) /\ told'[v].known = told[v].known
      BY <1>2, <1>13, <1>18 DEF Trusted
    <2>2. Apart(messenger[g], v) /\ Apart(m, v)
      BY <1>1, <1>2, <1>6, <1>18 DEF Apart
    <2> QED BY <1>7, <2>1, <2>2, InformedQuiet
  <1>19. Informed(u)'
    <2> SUFFICES ASSUME Trusted(u)', ~Awaited(u)', NEW r \in Slots, ~Busy(r)'
                 PROVE  r \in Unread(u)' <=> r \in told'[u].known /\ ~Counting(r, u)'
      BY DEF Informed, Trusted
    <2>1. Trusted(u) /\ told'[u].known = told[u].known
      BY <1>2 DEF Trusted
    <2>2. ~Awaited(u) /\ ~Busy(r)
      BY <1>1, <1>2, <1>7, Handed DEF Awaited, Busy, Carries
    <2>3. Counting(r, u)' <=> Counting(r, u) \/ r = s
      BY <1>1, <1>2, <1>6, <1>7, Handed DEF Counting
    <2>4. Informed(u)
      BY DEF NoticesInv
    <2> QED BY <1>15, <1>16, <2>1, <2>2, <2>3, <2>4 DEF Informed, Trusted
  <1>20. \A v \in Receivers : Informed(v)'
    BY <1>18, <1>19
  <1>21. \A r \in Slots : ~Carries(m, r)
    BY <1>6 DEF Carries
  <1> QED BY <1>6, <1>7, <1>13, <1>17, <1>20, <1>21, NoticesStep

LEMMA WriteAll_Inv ==
    ASSUME NoticesInv, NEW g \in Messengers, WriteAll(g)
    PROVE  NoticesInv'
  <1>inv. NoticeTables /\ NoticesKnown /\ MarksMade /\ PagesKnown
    BY DEF NoticesInv
  <1>1. PICK q \in MessengerRow : q = messenger[g]
    BY DEF NoticesInv
  <1>2. q.stage = "all" /\ Messenger(q) /\ UNCHANGED <<bulletin, told>>
    BY <1>1 DEF WriteAll, NoticesInv
  <1>3. PICK u \in Receivers : u = q.user
    BY <1>2 DEF Messenger, Reads
  <1>4. \A s \in q.seen : s \in Slots /\ Made(s) /\ (notice[s].state = "there" => notice[s].to = u)
    BY <1>2, <1>3 DEF Messenger, Reads
  <1>5. PICK missed : missed = {s \in Unread(u) : notice[s].to = u} \ q.seen
    OBVIOUS
  <1> DEFINE m == [Unsent EXCEPT !.stage = "tell", !.user = u, !.met = (missed # {})]
  <1>6. /\ notice' = [s \in Slots |->
                        IF s \in q.seen /\ notice[s].state = "there"
                        THEN [notice[s] EXCEPT !.read = TRUE] ELSE notice[s]]
        /\ marked' = marked \cup Marking(Public(u), u)
        /\ Becomes(g, m)
    BY <1>1, <1>3, <1>5 DEF WriteAll
  <1>7. /\ m \in MessengerRow /\ m.stage = "tell" /\ m.user = u /\ m.seen = {} /\ m.about = Nobody
        /\ ~m.met => missed = {}
    <2>1. (missed # {}) \in BOOLEAN
      OBVIOUS
    <2>2. PICK x \in BOOLEAN : x = (missed # {})
      BY <2>1
    <2>3. m = [Unsent EXCEPT !.stage = "tell", !.user = u, !.met = x]
      BY <2>2
    <2> HIDE DEF m
    <2>4. /\ m \in MessengerRow /\ m.stage = "tell" /\ m.user = u /\ m.seen = {} /\ m.about = Nobody
          /\ m.met = x
      BY <2>3 DEF Unsent, NoBulletin, BulletinRow, MessengerRow
    <2> QED BY <2>2, <2>4
  <1> HIDE DEF m
  <1>8. PICK ss \in SUBSET Slots : ss = Public(u)
    BY DEF Public, Displayed
  <1>9. \A s \in ss : Made(s) /\ notice[s].to = Everyone
    BY <1>8 DEF Public, Displayed, Made
  <1>10. PICK kk : kk = Marking(ss, u)
    OBVIOUS
  <1>11. marked' = marked \cup kk
    BY <1>6, <1>8, <1>10
  <1>12. notice' = [s \in Slots |-> notice'[s]]
    BY <1>6
  <1>13. \A s \in Slots :
            \/ notice'[s] = notice[s]
            \/ /\ notice'[s] = [notice[s] EXCEPT !.read = TRUE]
               /\ notice[s].state = "there" /\ notice[s].to = u
    BY <1>4, <1>6
  <1>14. /\ NoticeTables' /\ NoticesKnown' /\ MarksMade' /\ PagesKnown' /\ Onward
         /\ \A r \in Slots : notice[r].state = "open" => notice'[r] = notice[r]
         /\ \A v \in Receivers \ {u} : Unread(v)' = Unread(v)
         /\ \A r : r \in Unread(u)' <=> r \in Unread(u) /\ ~notice'[r].read /\ ~\E k \in kk : k.of = r
    <2>1. FlagsOnly(u)
      BY <1>13 DEF FlagsOnly
    <2>2. kk = {} \/ kk = Marking(ss, u)
      BY <1>10
    <2>3. marked' = marked \cup kk /\ UNCHANGED <<bulletin, told>>
      BY <1>2, <1>11
    <2>5. /\ NoticeTables' /\ NoticesKnown' /\ MarksMade' /\ PagesKnown' /\ Onward
          /\ \A r \in Slots :
                /\ notice'[r].state = notice[r].state /\ notice'[r].to = notice[r].to
                /\ notice'[r].about = notice[r].about /\ notice'[r].old = notice[r].old
                /\ notice[r].state = "open" => notice'[r] = notice[r]
          /\ \A v \in Receivers \ {u} : Unread(v)' = Unread(v)
          /\ \A r : r \in Unread(u)' <=> r \in Unread(u) /\ ~notice'[r].read /\ ~\E k \in kk : k.of = r
      BY <1>9, <1>12, <2>1, <2>2, <2>3, ReadRows
    <2> QED BY <2>5
  <1>15. missed = {} => Unread(u)' = {}
    <2> SUFFICES ASSUME missed = {}, NEW s \in Unread(u), ~notice'[s].read, ~\E k \in kk : k.of = s PROVE FALSE
      BY <1>14
    <2>1. /\ s \in Slots /\ notice[s].state = "there" /\ Addressed(s, u) /\ s \in Displayed(u)
          /\ ~\E k \in marked : k.of = s /\ k.by = u
      BY UnreadIs DEF Unread
    <2>2. CASE notice[s].to = Everyone
      <3>1. s \in ss
        BY <1>8, <2>1, <2>2 DEF Public
      <3>2. \E k \in marked \cup kk : k.of = s /\ k.by = u
        BY <1>10, <3>1, MarkingIs
      <3> QED BY <2>1, <3>2
    <2>3. CASE notice[s].to = u
      <3>1. s \in q.seen
        BY <1>5, <2>3
      <3>2. PICK r \in Row : r = notice[s]
        BY <1>inv, <2>1 DEF NoticeTables
      <3>3. notice'[s] = [r EXCEPT !.read = TRUE]
        BY <1>6, <2>1, <3>1, <3>2
      <3> QED BY <3>3 DEF Row
    <2> QED BY <2>1, <2>2, <2>3 DEF Addressed
  <1>16. Messenger(m)'
    <2>1. Sends(m)' /\ Reads(m)'
      BY <1>7 DEF Sends, Reads
    <2>2. ASSUME ~m.met PROVE Undisturbed(m)'
      <3>1. m.seen = Unread(u)'
        BY <1>7, <1>15, <2>2
      <3> QED BY <1>7, <3>1 DEF Undisturbed, Unread, Displayed, ReadBy, Addressed
    <2> QED BY <2>1, <2>2 DEF Messenger
  <1>17. ASSUME NEW v \in Receivers, v # u PROVE Informed(v)'
    <2>1. Trusted(v)' => Trusted(v) /\ Unread(v)' = Unread(v) /\ told'[v].known = told[v].known
      BY <1>2, <1>14, <1>17 DEF Trusted
    <2>2. Apart(messenger[g], v) /\ Apart(m, v)
      BY <1>1, <1>2, <1>7, <1>17 DEF Apart
    <2> QED BY <1>6, <2>1, <2>2, InformedQuiet
  <1>18. Informed(u)'
    BY <1>6, <1>7, InformedLater
  <1>19. \A v \in Receivers : Informed(v)'
    BY <1>17, <1>18
  <1>20. \A r \in Slots : ~Carries(m, r)
    BY <1>7 DEF Carries
  <1> QED BY <1>6, <1>7, <1>14, <1>16, <1>19, <1>20, NoticesStep

LEMMA GrowOld_Inv ==
    ASSUME NoticesInv, NEW s \in Slots, GrowOld(s)
    PROVE  NoticesInv'
  <1>inv. NoticeTables /\ NoticesKnown /\ MarksMade /\ PagesKnown
    BY DEF NoticesInv
  <1>1. /\ notice[s].state = "there" /\ notice' = [notice EXCEPT ![s].old = TRUE]
        /\ UNCHANGED <<marked, bulletin>> /\ Confuses("old")
        /\ Becomes(Nobody, Unsent) /\ Nobody \notin Messengers
    BY NoticesAssumption DEF GrowOld
  <1>2. PICK row \in Row : row = notice[s]
    BY <1>inv DEF NoticeTables
  <1>3. PICK new : new = [row EXCEPT !.old = TRUE]
    OBVIOUS
  <1>4. /\ new \in Row /\ new.state = row.state /\ new.to = row.to /\ new.about = row.about
        /\ new.read = row.read /\ new.old
    BY <1>3 DEF Row
  <1>5. /\ notice'[s] = new /\ \A r \in Slots \ {s} : notice'[r] = notice[r]
        /\ notice' \in [Slots -> Row]
    BY <1>inv, <1>1, <1>2, <1>3, <1>4 DEF NoticeTables
  <1>6. PICK us \in SUBSET Receivers :
           us = {u \in Receivers : Unread(u)' # Unread(u)} /\ told' = Confused(us, "old")
    BY <1>1 DEF Confuses
  <1>7. /\ told' \in [Receivers -> Page]
        /\ \A u \in Receivers :
              /\ told'[u].known = told[u].known
              /\ Trusted(u)' => Trusted(u) /\ Unread(u)' = Unread(u)
    BY <1>inv, <1>6, ConfusedPages DEF Trusted
  <1>8. NoticeTables' /\ NoticesKnown'
    BY <1>inv, <1>1, <1>2, <1>4, <1>5, <1>7 DEF NoticeTables, NoticesKnown
  <1>9. MarksMade' /\ PagesKnown'
    BY <1>inv, <1>1, <1>2, <1>4, <1>5, <1>7 DEF MarksMade, PagesKnown, Made, ToldOf, Addressed,
       NoticeTables
  <1>10. Onward
    BY <1>inv, <1>1, <1>2, <1>4, <1>5 DEF Onward, Made, Finished, NoticeTables, Row
  <1>11. ASSUME NEW u \in Receivers PROVE Informed(u)'
    BY <1>1, <1>7, InformedQuiet
  <1>12. \A r \in Slots : notice[r].state = "open" => notice'[r] = notice[r]
    BY <1>1, <1>5
  <1> QED BY <1>1, <1>8, <1>9, <1>10, <1>11, <1>12, NoticesStep

LEMMA Purge_Inv ==
    ASSUME NoticesInv, Purge
    PROVE  NoticesInv'
  <1>inv. NoticeTables /\ NoticesKnown /\ MarksMade /\ PagesKnown
    BY DEF NoticesInv
  <1>1. PICK expired : expired = {s \in Slots : notice[s].state = "there" /\ notice[s].old}
    OBVIOUS
  <1>2. PICK purged : purged = [NoNotice EXCEPT !.state = "gone"]
    OBVIOUS
  <1>3. /\ notice' = [s \in Slots |-> IF s \in expired THEN purged ELSE notice[s]]
        /\ marked' = marked \ Cleared(expired)
        /\ UNCHANGED <<bulletin, told>>
        /\ Becomes(Nobody, Unsent) /\ Nobody \notin Messengers
    BY <1>1, <1>2, NoticesAssumption DEF Purge
  <1>4. purged \in Row /\ purged.state = "gone" /\ purged.to = Everyone /\ ~purged.read
    BY <1>2 DEF Row, NoNotice
  <1>5. \A k \in marked : k \in Cleared(expired) <=> k.of \in expired \/ notice[k.of].state # "there"
    BY DEF Cleared
  <1>6. marked' \subseteq marked /\ \A k \in marked' : k.of \in Slots \ expired /\ notice[k.of].state = "there"
    BY <1>inv, <1>3, <1>5 DEF NoticeTables
  <1>7. NoticeTables' /\ NoticesKnown'
    BY <1>inv, <1>3, <1>4, <1>6 DEF NoticeTables, NoticesKnown
  <1>8. MarksMade'
    BY <1>inv, <1>3, <1>6 DEF MarksMade, Made
  <1>9. PagesKnown'
    <2> SUFFICES ASSUME NEW u \in Receivers, NEW s \in told[u].known PROVE ToldOf(s, u)'
      BY <1>3 DEF PagesKnown
    <2>1. ToldOf(s, u)
      BY <1>inv DEF PagesKnown
    <2> QED BY <1>3, <1>4, <2>1 DEF ToldOf, Addressed
  <1>10. Onward
    <2> SUFFICES ASSUME NEW s \in Slots
                 PROVE  /\ notice[s].state # "none" => notice'[s].state # "none" /\ notice'[s].to \in {notice[s].to, Everyone}
                        /\ Made(s) => Made(s)'
                        /\ notice[s].state = "gone" => notice'[s].state = "gone"
                        /\ notice[s].state # "none" /\ notice'[s].state = "there" => notice'[s].to = notice[s].to
                        /\ \A v \in Receivers : Made(s) /\ Finished(s, v) => Finished(s, v)'
      BY DEF Onward
    <2>1. CASE s \in expired
      BY <1>3, <1>4, <2>1 DEF Made, Finished
    <2>2. CASE s \notin expired
      <3>1. notice'[s] = notice[s]
        BY <1>3, <2>2
      <3>2. ASSUME NEW k \in marked, k.of = s, notice[s].state = "there" PROVE k \in marked'
        BY <1>3, <1>5, <2>2, <3>2
      <3>3. ASSUME NEW v \in Receivers, Made(s), Finished(s, v) PROVE Finished(s, v)'
        BY <3>1, <3>2, <3>3 DEF Finished, Made
      <3> QED BY <3>1, <3>3 DEF Made
    <2> QED BY <2>1, <2>2
  <1>11. ASSUME NEW u \in Receivers PROVE Unread(u)' = Unread(u)
    <2>1. ASSUME NEW s PROVE s \in Unread(u)' <=> s \in Unread(u)
      <3>1. CASE s \in expired
        BY <1>1, <1>3, <1>4, <3>1, UnreadIs
      <3>2. CASE s \in Slots \ expired /\ notice[s].state = "there"
        <4>1. notice'[s] = notice[s]
          BY <1>3, <3>2
        <4>2. (\E k \in marked' : k.of = s /\ k.by = u) <=> (\E k \in marked : k.of = s /\ k.by = u)
          BY <1>3, <1>5, <3>2
        <4>3. UNCHANGED bulletin
          BY <1>3
        <4> QED BY <4>1, <4>2, <4>3, UnreadIs DEF Addressed
      <3>3. CASE s \in Slots \ expired /\ notice[s].state # "there"
        BY <1>3, <3>3, UnreadIs
      <3>4. CASE s \notin Slots
        BY <3>4, UnreadIs
      <3> QED BY <3>1, <3>2, <3>3, <3>4
    <2>2. PICK a, b : a = Unread(u) /\ b = Unread(u)'
      OBVIOUS
    <2>3. \A s : s \in b <=> s \in a
      BY <2>1, <2>2
    <2>4. a \in SUBSET Slots /\ b \in SUBSET Slots
      BY <2>2, UnreadIs
    <2>5. a = b
      BY <2>3, <2>4
    <2> QED BY <2>2, <2>5
  <1>12. ASSUME NEW u \in Receivers PROVE Informed(u)'
    <2>1. Trusted(u)' => Trusted(u) /\ Unread(u)' = Unread(u) /\ told'[u].known = told[u].known
      BY <1>3, <1>11 DEF Trusted
    <2> QED BY <1>3, <2>1, InformedQuiet
  <1>13. \A r \in Slots : notice[r].state = "open" => notice'[r] = notice[r]
    BY <1>1, <1>3
  <1> QED BY <1>3, <1>7, <1>8, <1>9, <1>10, <1>12, <1>13, NoticesStep

LEMMA Finders_Inv ==
    ASSUME NoticesInv, NEW g \in Messengers, NEW u \in Receivers,
           BeginMarkAll(g, u) \/ \E s \in Slots : FindNotice(g, u, s)
    PROVE  NoticesInv'
  <1>1. ASSUME NEW s \in Slots, FindNotice(g, u, s) PROVE NoticesInv'
    <2> DEFINE m == [Unsent EXCEPT !.stage = "mark", !.user = u, !.slot = s]
    <2>1. /\ m \in MessengerRow /\ m.stage = "mark" /\ m.user = u /\ m.slot = s /\ m.about = Nobody
      BY DEF Unsent, NoBulletin, BulletinRow, MessengerRow
    <2>2. /\ messenger[g].stage = "idle" /\ s \in Displayed(u) /\ Becomes(g, m)
          /\ UNCHANGED <<notice, marked, bulletin, told>>
      BY <1>1 DEF FindNotice
    <2> HIDE DEF m
    <2>3. Messenger(m)
      BY <2>1, <2>2 DEF Messenger, Sends, Reads, Undisturbed, Displayed, Made
    <2>4. \A v \in Receivers : Apart(messenger[g], v) /\ Apart(m, v)
      BY <2>1, <2>2 DEF Apart
    <2> QED BY <2>1, <2>2, <2>3, <2>4, QuietNotices
  <1>2. ASSUME BeginMarkAll(g, u) PROVE NoticesInv'
    <2>1. PICK seen \in SUBSET Slots : seen = {s \in Displayed(u) : notice[s].to = u}
      BY DEF Displayed
    <2> DEFINE m == [Unsent EXCEPT !.stage = "all", !.user = u, !.seen = seen]
    <2>2. /\ m \in MessengerRow /\ m.stage = "all" /\ m.user = u /\ m.seen = seen /\ m.about = Nobody
      BY DEF Unsent, NoBulletin, BulletinRow, MessengerRow
    <2>3. /\ messenger[g].stage = "idle" /\ Becomes(g, m) /\ UNCHANGED <<notice, marked, bulletin, told>>
      BY <1>2, <2>1 DEF BeginMarkAll
    <2> HIDE DEF m
    <2>4. Messenger(m)
      BY <2>1, <2>2 DEF Messenger, Sends, Reads, Undisturbed, Displayed, Made
    <2>5. \A v \in Receivers : Apart(messenger[g], v) /\ Apart(m, v)
      BY <2>2, <2>3 DEF Apart
    <2> QED BY <2>2, <2>3, <2>4, <2>5, QuietNotices
  <1> QED BY <1>1, <1>2

LEMMA NoticesNext_Inv == NoticesInv /\ [NoticesNext]_noticeVars => NoticesInv'
  <1> SUFFICES ASSUME NoticesInv, [NoticesNext]_noticeVars PROVE NoticesInv'
    OBVIOUS
  <1>1. ASSUME NEW g \in Messengers, MessengerNext(g) PROVE NoticesInv'
    BY <1>1, PagesNext_Inv, SendNotice_Inv, Bulletins_Inv, CommitNotice_Inv, RollBack_Inv,
       WriteMark_Inv,
       WriteAll_Inv, Finders_Inv
    DEF MessengerNext
  <1>2. ASSUME NEW u \in Receivers, ClosePage(u) PROVE NoticesInv'
    BY <1>2, PagesNext_Inv
  <1>3. CASE UNCHANGED noticeVars
    <2>1. NoticeTables' /\ NoticesKnown'
      BY <1>3 DEF noticeVars, NoticesInv, NoticeTables, NoticesKnown
    <2>2. MarksMade' /\ PagesKnown'
      BY <1>3 DEF noticeVars, NoticesInv, MarksMade, PagesKnown, Made, ToldOf, Addressed
    <2>3. ASSUME NEW g \in Messengers PROVE Messenger(messenger[g])'
      <3>1. Messenger(messenger[g])
        BY DEF NoticesInv
      <3>2. Sends(messenger[g])'
        BY <1>3, <3>1 DEF noticeVars, Messenger, Sends, Made
      <3>3. Reads(messenger[g])'
        BY <1>3, <3>1 DEF noticeVars, Messenger, Reads, Made, Finished, ToldOf, Addressed
      <3>4. messenger'[g].met \/ Undisturbed(messenger[g])'
        <4>1. \A u : Unread(u)' = Unread(u) /\ \A s : Addressed(s, u)' <=> Addressed(s, u)
          BY <1>3 DEF noticeVars, Unread, Displayed, ReadBy, Addressed
        <4>2. messenger' = messenger /\ notice' = notice /\ bulletin' = bulletin /\ told' = told
          BY <1>3 DEF noticeVars
        <4> QED BY <3>1, <4>1, <4>2 DEF Messenger, Undisturbed
      <3> QED BY <3>2, <3>3, <3>4 DEF Messenger
    <2>4. ASSUME NEW u \in Receivers PROVE Informed(u)'
      <3>1. Unread(u)' = Unread(u) /\ (Awaited(u)' <=> Awaited(u)) /\ told' = told
        BY <1>3 DEF noticeVars, Unread, Displayed, ReadBy, Addressed, Awaited
      <3>2. \A s : (Busy(s)' <=> Busy(s)) /\ (Counting(s, u)' <=> Counting(s, u))
        BY <1>3 DEF noticeVars, Busy, Carries, Counting
      <3>3. Informed(u)
        BY DEF NoticesInv
      <3> QED BY <3>1, <3>2, <3>3 DEF Informed
    <2>5. /\ messenger' \in [Messengers -> MessengerRow]
          /\ \A g, h \in Messengers : \A s \in Slots :
                (Carries(messenger[g], s) /\ Carries(messenger[h], s))' => g = h
      BY <1>3 DEF noticeVars, NoticesInv, Carries
    <2> QED BY <2>1, <2>2, <2>3, <2>4, <2>5 DEF NoticesInv, Carries
  <1> QED BY <1>1, <1>2, <1>3, GrowOld_Inv, Purge_Inv DEF NoticesNext

LEMMA NoticesInvariant == NoticesSpec => []NoticesInv
  BY NoticesInit_Inv, NoticesNext_Inv, PTL DEF NoticesSpec

\* An announcement that was deleted is there again: by an update that had read it before.
LEMMA ReturnsStep ==
    ASSUME NoticesInv, [NoticesNext]_noticeVars,
           NEW b \in Bulletins, bulletin[b].state = "deleted", bulletin'[b].state = "live"
    PROVE  \E g \in Messengers : messenger[g].about = b /\ messenger[g].met
  <1>rows. bulletin \in [Bulletins -> BulletinRow]
    BY DEF NoticesInv, NoticeTables
  <1>1. ASSUME NEW g \in Messengers, messenger[g].about = b
        PROVE  messenger[g].met
    <2>1. Messenger(messenger[g])
      BY DEF NoticesInv
    <2>2. b # Nobody
      BY NoticesAssumption
    <2> QED BY <1>1, <2>1, <2>2 DEF Messenger, Undisturbed
  <1>2. ASSUME NEW g \in Messengers, CommitNotice(g) PROVE messenger[g].about = b
    <2>1. bulletin' \in {bulletin, [bulletin EXCEPT ![messenger[g].about] = messenger[g].face]}
      BY <1>2 DEF CommitNotice
    <2> QED BY <1>rows, <2>1
  <1>3. ASSUME NEW g \in Messengers, SaveBulletin(g) PROVE messenger[g].about = b
    BY <1>3, <1>rows DEF SaveBulletin, Push
  <1>4. ASSUME NEW g \in Messengers, NEW c \in Bulletins, DraftBulletin(g, c) \/ DeleteBulletin(g, c)
        PROVE  FALSE
    BY <1>4, <1>rows DEF DraftBulletin, DeleteBulletin
  <1>5. bulletin' # bulletin
    OBVIOUS
  <1>6. ~UNCHANGED noticeVars /\ ~Purge /\ (\A u \in Receivers : ~ClosePage(u)) /\ \A s \in Slots : ~GrowOld(s)
    BY <1>5 DEF noticeVars, Purge, ClosePage, GrowOld
  <1>7. PICK g \in Messengers : MessengerNext(g)
    BY <1>6 DEF NoticesNext
  <1>8. /\ ~PushNotice(g) /\ ~RollBack(g) /\ ~WriteMark(g) /\ ~WriteAll(g) /\ ~CountUnread(g) /\ ~Tell(g)
        /\ \A c \in Bulletins : ~CreateBulletin(g, c) /\ ~ReadBulletin(g, c)
    BY <1>5 DEF PushNotice, RollBack, WriteMark, WriteAll, CountUnread, Tell, CreateBulletin, ReadBulletin, Push
  <1>9. \A u \in Receivers :
           /\ ~SendNotice(g, u) /\ ~SendInside(g, u) /\ ~OpenPage(g, u) /\ ~BeginMarkAll(g, u)
           /\ \A s \in Slots : ~FindNotice(g, u, s)
    BY <1>5 DEF SendNotice, SendInside, OpenPage, BeginMarkAll, FindNotice, Push
  <1> QED BY <1>1, <1>2, <1>3, <1>4, <1>7, <1>8, <1>9 DEF MessengerNext

LEMMA ReturnsAreExplained == NoticesSpec => ReturnsExplained
  <1>1. NoticesInv /\ [NoticesNext]_noticeVars =>
           [\A b \in Bulletins :
               bulletin[b].state = "deleted" /\ bulletin'[b].state = "live" =>
                  \E g \in Messengers : messenger[g].about = b /\ messenger[g].met]_noticeVars
    BY ReturnsStep
  <1> QED BY <1>1, NoticesInvariant, PTL DEF NoticesSpec, ReturnsExplained

\* A document that lost its category, an edit its text, a course its root page, a deletion
\* of an announcement its effect: each only where the property says, for any number of
\* requests at work at once.
THEOREM DocumentsAreExplained == WikiSpec /\ CompassSpec /\ NoticesSpec => DocumentsExplained
  BY OrphansAreExplained, EditsAreExplained, ReturnsAreExplained DEF DocumentsExplained

\* The parts of MessagesSound that are about notices.
LEMMA NoticesSound == NoticesInv => NoticesTypeOK /\ NewsKnown /\ MarksKnown
  <1> SUFFICES ASSUME NoticesInv PROVE NoticesTypeOK /\ NewsKnown /\ MarksKnown
    OBVIOUS
  <1>inv. NoticeTables /\ MarksMade
    BY DEF NoticesInv
  <1>1. NoticesTypeOK
    BY <1>inv, NoticesAssumption DEF NoticeTables, NoticesTypeOK, Row, BulletinRow, Page
  <1>2. MarksKnown
    BY <1>inv DEF MarksMade, MarksKnown
  <1>3. NewsKnown
    <2> SUFFICES ASSUME NEW u \in Receivers, told[u].on, Settled(u), told[u].why = "nothing"
                 PROVE  told[u].known \ Underway = Unread(u) \ Underway
      BY DEF NewsKnown
    <2>1. ~Awaited(u) /\ \A s : ~Counting(s, u)
      BY DEF Settled, Awaited, Counting
    <2>2. \A s \in Slots : Busy(s) \/ (s \in Unread(u) <=> s \in told[u].known)
      BY <2>1 DEF NoticesInv, Informed
    <2>3. \A s : Busy(s) <=> s \in Underway
      BY DEF Busy, Carries, Underway
    <2>4. told[u].known \subseteq Slots /\ Unread(u) \subseteq Slots
      BY <1>inv, UnreadIs DEF NoticeTables, Page
    <2> QED BY <2>2, <2>3, <2>4
  <1> QED BY <1>1, <1>2, <1>3

-----------------------------------------------------------------------------
\* MailPool

\* The place of x among the numbers of S.
Place(S, x) == Cardinality({y \in S : y <= x})

\* A finite set of numbers has one place for each of them, and greater numbers come later.
LEMMA PlacesGrow ==
  ASSUME NEW S, S \subseteq Int, IsFiniteSet(S)
  PROVE  /\ \A x \in S : Place(S, x) \in 1 .. Cardinality(S)
         /\ \A x, y \in S : x < y => Place(S, x) < Place(S, y)
  <1> DEFINE Upto(x) == {y \in S : y <= x}
  <1>1. ASSUME NEW x \in S PROVE Place(S, x) \in 1 .. Cardinality(S)
    <2>1. Upto(x) \subseteq S /\ x \in Upto(x)
      BY DEF Upto
    <2>2. /\ IsFiniteSet(Upto(x)) /\ Cardinality(Upto(x)) \in Nat /\ Cardinality(S) \in Nat
          /\ Cardinality(Upto(x)) <= Cardinality(S)
      BY <2>1, FS_Subset, FS_CardinalityType
    <2>3. Cardinality(Upto(x)) # 0
      BY <2>1, <2>2, FS_EmptySet
    <2> QED BY <2>2, <2>3 DEF Place, Upto
  <1>2. ASSUME NEW x \in S, NEW y \in S, x < y PROVE Place(S, x) < Place(S, y)
    <2>1. Upto(x) \subseteq Upto(y) /\ y \in Upto(y) /\ y \notin Upto(x)
      <3>1. x \in Int /\ y \in Int
        OBVIOUS
      <3>2. \A z \in S : z \in Int /\ (z <= x => z <= y)
        BY <3>1, <1>2
      <3>3. y <= y /\ ~(y <= x)
        BY <3>1, <1>2
      <3> QED BY <3>2, <3>3
    <2>2. IsFiniteSet(Upto(y))
      BY FS_Subset
    <2>3. Cardinality(Upto(x)) < Cardinality(Upto(y))
      <3> HIDE DEF Upto
      <3>1. /\ IsFiniteSet(Upto(x)) /\ Cardinality(Upto(x)) <= Cardinality(Upto(y))
            /\ Cardinality(Upto(x)) = Cardinality(Upto(y)) => Upto(x) = Upto(y)
        BY <2>1, <2>2, FS_Subset
      <3>2. Cardinality(Upto(x)) \in Nat /\ Cardinality(Upto(y)) \in Nat
        BY <3>1, <2>2, FS_CardinalityType
      <3> QED BY <3>1, <3>2, <2>1
    <2> QED BY <2>3 DEF Place
  <1> QED BY <1>1, <1>2

\* The least of them.
LEMMA LeastOf ==
  ASSUME NEW S, S \subseteq Int, IsFiniteSet(S), S # {}
  PROVE  \E x \in S : \A y \in S : x <= y
  <1> DEFINE P == {Place(S, x) : x \in S}
             R == OpToRel(<, Nat)
  <1>1. P \subseteq Nat /\ P # {}
    <2>1. ASSUME NEW x \in S PROVE Place(S, x) \in Nat
      <3>1. Cardinality(S) \in Nat /\ Place(S, x) \in 1 .. Cardinality(S)
        BY FS_CardinalityType, PlacesGrow
      <3> QED BY <3>1
    <2> QED BY <2>1
  <1>2. PICK n \in P : \A m \in P : ~(<<m, n>> \in R)
    <2> HIDE DEF P, R
    <2>1. IsWellFoundedOn(R, Nat)
      BY NatLessThanWellFounded DEF R
    <2> QED BY <1>1, <2>1, WFMin
  <1>3. \A m \in P : ~(m < n)
    BY <1>1, <1>2 DEF OpToRel
  <1>4. PICK x \in S : n = Place(S, x)
    BY <1>2
  <1> QED BY <1>3, <1>4, PlacesGrow

\* The sequence of a finite set of numbers has each of them once.
LEMMA Ordered ==
  ASSUME NEW S, S \subseteq Int, IsFiniteSet(S)
  PROVE  LET s == InOrder(S) IN
         /\ Cardinality(S) \in Nat
         /\ s \in [1 .. Cardinality(S) -> S]
         /\ \A i, j \in 1 .. Cardinality(S) : i < j => s[i] < s[j]
         /\ \A x \in S : \E i \in 1 .. Cardinality(S) : s[i] = x
  <1> DEFINE n == Cardinality(S)
             place == [x \in S |-> Place(S, x)]
             sorted == [i \in 1 .. n |-> CHOOSE x \in S : Place(S, x) = i]
  <1>1. n \in Nat
    BY FS_CardinalityType
  <1>2. place \in Surjection(S, 1 .. n)
    <2>1. place \in Injection(S, 1 .. n)
      <3>1. place \in [S -> 1 .. n]
        BY PlacesGrow
      <3>2. ASSUME NEW x \in S, NEW y \in S, place[x] = place[y] PROVE x = y
        <4>1. Place(S, x) = Place(S, y)
          BY <3>2
        <4>3. Place(S, x) \in Int
          <5>1. Place(S, x) \in 1 .. n
            BY PlacesGrow
          <5> QED BY <5>1, <1>1
        <4>2. x < y \/ y < x \/ x = y
          OBVIOUS
        <4>4. ~(x < y) /\ ~(y < x)
          <5>1. \A v, w \in S : v < w => Place(S, v) < Place(S, w)
            BY PlacesGrow
          <5> HIDE DEF place
          <5> QED BY <5>1, <4>1, <4>3
        <4> QED BY <4>2, <4>4
      <3> QED BY <3>1, <3>2 DEF Injection, IsInjective
    <2>2. IsFiniteSet(1 .. n) /\ Cardinality(1 .. n) = n
      BY <1>1, FS_Interval
    <2> HIDE DEF place
    <2> QED BY <2>1, <2>2, FS_Injection
  <1>3. \A i \in 1 .. n : \E x \in S : Place(S, x) = i
    BY <1>2 DEF Surjection
  <1>4. \A i \in 1 .. n : sorted[i] \in S /\ Place(S, sorted[i]) = i
    BY <1>3
  <1>5. \A i, j \in 1 .. n : i < j => sorted[i] < sorted[j]
    <2> HIDE DEF sorted
    <2> SUFFICES ASSUME NEW i \in 1 .. n, NEW j \in 1 .. n, i < j, ~(sorted[i] < sorted[j])
                 PROVE  FALSE
      OBVIOUS
    <2>1. sorted[i] \in Int /\ sorted[j] \in Int
      BY <1>4
    <2>2. sorted[i] = sorted[j] \/ sorted[j] < sorted[i]
      BY <2>1
    <2>3. sorted[i] = sorted[j] \/ Place(S, sorted[j]) < Place(S, sorted[i])
      BY <2>2, <1>4, PlacesGrow
    <2> QED BY <2>3, <1>4
  <1>6. sorted \in [1 .. n -> S]
    BY <1>4
  <1> DEFINE s == InOrder(S)
  <1>7. s \in [1 .. n -> S] /\ \A i, j \in 1 .. n : i < j => s[i] < s[j]
    <2> HIDE DEF sorted
    <2> QED BY <1>5, <1>6 DEF InOrder
  <1>8. \A x \in S : \E i \in 1 .. n : s[i] = x
    <2> HIDE DEF s
    <2>1. s \in Injection(1 .. n, S)
      <3>1. \A i, j \in 1 .. n : s[i] = s[j] => i = j
        <4> SUFFICES ASSUME NEW i \in 1 .. n, NEW j \in 1 .. n, s[i] = s[j], i # j PROVE FALSE
          OBVIOUS
        <4>1. i < j \/ j < i
          OBVIOUS
        <4>2. s[i] \in Int /\ s[j] \in Int
          BY <1>7
        <4> QED BY <4>1, <4>2, <1>7
      <3> QED BY <3>1, <1>7 DEF Injection, IsInjective
    <2>2. IsFiniteSet(1 .. n) /\ Cardinality(1 .. n) = n
      BY <1>1, FS_Interval
    <2>3. s \in Surjection(1 .. n, S)
      <3> HIDE DEF n
      <3>1. Cardinality(1 .. n) = Cardinality(S)
        BY <2>2 DEF n
      <3> QED BY <2>1, <3>1, FS_Injection
    <2> QED BY <2>3 DEF Surjection
  <1> QED BY <1>1, <1>7, <1>8

\* Whether x is in the sequence s.
In(x, s) == \E i \in 1 .. Len(s) : s[i] = x

Once(s) == \A i, j \in 1 .. Len(s) : s[i] = s[j] => i = j

\* A list names no channel twice.
Named(list) == \A c, d \in list : c.id = d.id => c = d

Mail == [stage : {"idle", "store", "send", "done", "written"}, list : SUBSET Entry, left : SUBSET Entry,
         queue : Seq(Ids), tried : Seq(Ids), spent : 0 .. Budget, copies : Nat, unheard : Nat, ok : BOOLEAN]

Going(m) == m.stage \in {"send", "done"}

\* Where a mail has come in its list: what is left are the lower levels, and each channel of
\* the others is in the queue, which is of the last of these levels, or was tried, once.
Sorted(m) ==
    /\ m.left \subseteq m.list /\ Named(m.list)
    /\ \A c \in m.list \ m.left, d \in m.left : Going(m) => c.level < d.level
    /\ Once(m.tried) /\ Once(m.queue) /\ \A x \in Ids : ~(In(x, m.tried) /\ In(x, m.queue))
    /\ Going(m) => \A c \in m.list : c \in m.left \/ In(c.id, m.tried) \/ In(c.id, m.queue)
    /\ \A x \in Ids : In(x, m.tried) \/ In(x, m.queue) => \E c \in m.list \ m.left : c.id = x
    /\ \A c, d \in m.list \ m.left : In(c.id, m.queue) => d.level <= c.level

\* What its tries came to.
Tallied(m) ==
    /\ Len(m.tried) <= MaxAttempts
    /\ m.copies <= m.unheard + (IF m.ok THEN 1 ELSE 0)
    /\ m.stage = "send" => ~m.ok
    /\ m.stage = "done" /\ ~m.ok /\ Len(m.tried) < MaxAttempts /\ m.spent < Budget =>
          m.queue = <<>> /\ m.left = {}
    /\ ~Going(m) => m.tried = <<>> /\ m.queue = <<>>

KnownMail(m) == m \in Mail /\ Sorted(m) /\ Tallied(m)

ChannelsRows == channel \in [Channels -> [there : BOOLEAN, on : BOOLEAN, level : Levels]]

CursorsKnown == cursor \in [Levels -> 0 .. Turns - 1]

ListedRow == listed # Unlisted =>
    listed.list \subseteq Entry /\ Named(listed.list) /\ listed.late \in BOOLEAN

PostsKnown == post = [p \in Posters |-> post[p]] /\ \A p \in Posters : KnownMail(post[p])

MailInv == ChannelsRows /\ CursorsKnown /\ ListedRow /\ PostsKnown /\ ListKnown

LEMMA UnpostedKnown == KnownMail(Unposted)
  BY MailAssumption DEF KnownMail, Unposted, Mail, Sorted, Tallied, Named, Once, In, Going

\* A goroutine with nothing but its stage and its list.
LEMMA FreshMail ==
  ASSUME NEW m \in Mail, Named(m.list), m.left \subseteq m.list, m.stage = "send" => m.left = m.list,
         m.stage # "done", m.queue = <<>>, m.tried = <<>>, m.copies = 0, m.unheard = 0, m.ok = FALSE
  PROVE  KnownMail(m)
  BY MailAssumption DEF KnownMail, Sorted, Tallied, Once, In, Going

LEMMA SendingKnown ==
  ASSUME NEW list \in SUBSET Entry, Named(list)
  PROVE  KnownMail(Sending(list))
  <1> DEFINE usable == IF list = {} THEN Configured ELSE list
             m == [Unposted EXCEPT !.stage = "send", !.list = usable, !.left = usable]
  <1>1. usable \in SUBSET Entry /\ Named(usable)
    BY MailAssumption DEF Entry, Named
  <1>2. Sending(list) = m
    BY DEF Sending
  <1> HIDE DEF usable
  <1>3. m \in Mail
    BY <1>1, UnpostedKnown DEF KnownMail, Mail
  <1>4. /\ m.stage = "send" /\ m.list = usable /\ m.left = usable /\ m.queue = <<>> /\ m.tried = <<>>
        /\ m.copies = 0 /\ m.unheard = 0 /\ m.ok = FALSE
    BY DEF Unposted
  <1> QED BY <1>1, <1>2, <1>3, <1>4, FreshMail

LEMMA EnabledNamed ==
  ASSUME ChannelsRows
  PROVE  Enabled \in SUBSET Entry /\ Named(Enabled)
  BY DEF ChannelsRows, Enabled, Entry, Ids, Named

LEMMA StoreKnown ==
  ASSUME NEW list \in SUBSET Entry, Named(list)
  PROVE  KnownMail([Unposted EXCEPT !.stage = "store", !.list = list])
  <1> DEFINE m == [Unposted EXCEPT !.stage = "store", !.list = list]
  <1>1. m \in Mail
    BY UnpostedKnown DEF KnownMail, Mail
  <1>2. /\ m.stage = "store" /\ m.list = list /\ m.left = {} /\ m.queue = <<>> /\ m.tried = <<>>
        /\ m.copies = 0 /\ m.unheard = 0 /\ m.ok = FALSE
    BY DEF Unposted
  <1> QED BY <1>1, <1>2, FreshMail

LEMMA WrittenKnown == KnownMail([Unposted EXCEPT !.stage = "written"])
  <1> DEFINE m == [Unposted EXCEPT !.stage = "written"]
  <1>1. m \in Mail
    BY UnpostedKnown DEF KnownMail, Mail
  <1>2. /\ m.stage = "written" /\ m.list = {} /\ m.left = {} /\ m.queue = <<>> /\ m.tried = <<>>
        /\ m.copies = 0 /\ m.unheard = 0 /\ m.ok = FALSE
    BY DEF Unposted
  <1>3. Named(m.list)
    BY <1>2 DEF Named
  <1> QED BY <1>1, <1>2, <1>3, FreshMail

\* A rotated sequence has the same members, once if they were there once.
LEMMA RotatedIs ==
  ASSUME NEW S, NEW s \in Seq(S), NEW k \in 0 .. Len(s) - 1, Once(s)
  PROVE  /\ Rotated(s, k) \in Seq(S)
         /\ Once(Rotated(s, k))
         /\ \A x : In(x, Rotated(s, k)) <=> In(x, s)
  <1> DEFINE n == Len(s)
             r == Rotated(s, k)
  <1>1. /\ n \in Nat /\ k \in Nat /\ k < n
        /\ SubSeq(s, k + 1, n) \in Seq(S) /\ Len(SubSeq(s, k + 1, n)) = n - k
        /\ \A i \in 1 .. n - k : SubSeq(s, k + 1, n)[i] = s[i + k]
    OBVIOUS
  <1>2. /\ SubSeq(s, 1, k) \in Seq(S) /\ Len(SubSeq(s, 1, k)) = k
        /\ \A i \in 1 .. k : SubSeq(s, 1, k)[i] = s[i]
    BY <1>1
  <1>3. /\ r \in Seq(S) /\ Len(r) = n
        /\ \A i \in 1 .. n : r[i] = IF i <= n - k THEN s[i + k] ELSE s[i - (n - k)]
    <2> DEFINE a == SubSeq(s, k + 1, n)
               b == SubSeq(s, 1, k)
    <2>1. a \in Seq(S) /\ b \in Seq(S) /\ Len(a) = n - k /\ Len(b) = k
      BY <1>1, <1>2
    <2>2. r = a \o b
      BY DEF Rotated
    <2>3. \A i \in 1 .. n - k : a[i] = s[i + k]
      BY <1>1
    <2>4. \A i \in 1 .. k : b[i] = s[i]
      BY <1>2
    <2> HIDE DEF a, b, r, n
    <2>5. r \in Seq(S) /\ Len(r) = n
      <3>1. r \in Seq(S) /\ Len(r) = Len(a) + Len(b)
        BY <2>1, <2>2, ConcatProperties
      <3> QED BY <3>1, <2>1, <1>1
    <2>6. \A i \in 1 .. n : r[i] = IF i <= n - k THEN a[i] ELSE b[i - (n - k)]
      BY <2>1, <2>2, <1>1
    <2>7. \A i \in 1 .. n : i <= n - k => i \in 1 .. n - k
      BY <1>1
    <2>8. \A i \in 1 .. n : ~(i <= n - k) => i - (n - k) \in 1 .. k
      BY <1>1
    <2> QED BY <2>3, <2>4, <2>5, <2>6, <2>7, <2>8
  <1> HIDE DEF n, r
  <1>4. Once(r)
    <2> SUFFICES ASSUME NEW i \in 1 .. n, NEW j \in 1 .. n, r[i] = r[j] PROVE i = j
      BY <1>3 DEF Once
    <2> DEFINE at(h) == IF h <= n - k THEN h + k ELSE h - (n - k)
    <2>1. \A h \in 1 .. n : at(h) \in 1 .. n /\ r[h] = s[at(h)]
      BY <1>1, <1>3
    <2>2. at(i) = at(j)
      <3> HIDE DEF at
      <3> QED BY <2>1 DEF Once, n
    <2> QED BY <1>1, <2>2
  <1>5. ASSUME NEW x, In(x, r) PROVE In(x, s)
    <2>1. PICK i \in 1 .. n : r[i] = x
      BY <1>5, <1>3 DEF In
    <2>2. CASE i <= n - k
      <3>1. i + k \in 1 .. n /\ s[i + k] = x
        BY <2>1, <2>2, <1>1, <1>3
      <3> QED BY <3>1 DEF In, n
    <2>3. CASE ~(i <= n - k)
      <3>1. i - (n - k) \in 1 .. n /\ s[i - (n - k)] = x
        BY <2>1, <2>3, <1>1, <1>3
      <3> QED BY <3>1 DEF In, n
    <2> QED BY <2>2, <2>3
  <1>6. ASSUME NEW x, In(x, s) PROVE In(x, r)
    <2>1. PICK i \in 1 .. n : s[i] = x
      BY <1>6 DEF In, n
    <2>2. CASE i > k
      <3>1. i - k \in 1 .. n /\ i - k <= n - k /\ (i - k) + k = i
        BY <2>1, <2>2, <1>1
      <3>2. r[i - k] = x
        BY <2>1, <3>1, <1>3
      <3> QED BY <3>1, <3>2, <1>3 DEF In
    <2>3. CASE ~(i > k)
      <3>1. i + (n - k) \in 1 .. n /\ ~(i + (n - k) <= n - k) /\ i + (n - k) - (n - k) = i
        BY <2>1, <2>3, <1>1
      <3>2. r[i + (n - k)] = x
        BY <2>1, <3>1, <1>3
      <3> QED BY <3>1, <3>2, <1>3 DEF In
    <2> QED BY <2>2, <2>3
  <1> QED BY <1>3, <1>4, <1>5, <1>6 DEF r

\* The level that is next is the least of those that are left.
LEMMA TopLevelIs ==
  ASSUME NEW left \in SUBSET Entry, left # {}
  PROVE  /\ TopLevel(left) \in Levels
         /\ \E c \in left : c.level = TopLevel(left)
         /\ \A c \in left : TopLevel(left) <= c.level
  <1> DEFINE levels == {c.level : c \in left}
  <1>1. levels \subseteq Levels /\ levels # {}
    BY DEF Entry
  <1>2. levels \subseteq Int /\ IsFiniteSet(levels)
    BY <1>1, MailAssumption, FS_Subset
  <1>3. \E l \in levels : \A n \in levels : l <= n
    <2> HIDE DEF levels
    <2> QED BY <1>1, <1>2, LeastOf
  <1>4. \E l \in levels : \A c \in left : l <= c.level
    BY <1>3
  <1>5. TopLevel(left) \in levels /\ \A c \in left : TopLevel(left) <= c.level
    BY <1>4 DEF TopLevel
  <1> QED BY <1>1, <1>5

\* The sequence of a level, from where its cursor points.
LEMMA LevelSequence ==
  ASSUME NEW S \in SUBSET Ids, S # {}, NEW n \in Nat
  PROVE  LET s == Rotated(InOrder(S), n % Len(InOrder(S))) IN
         s \in Seq(Ids) /\ Once(s) /\ \A x : In(x, s) <=> x \in S
  <1> DEFINE o == InOrder(S)
  <1>1. S \subseteq Int /\ IsFiniteSet(S)
    BY MailAssumption, FS_Subset
  <1>2. /\ Cardinality(S) \in Nat
        /\ o \in [1 .. Cardinality(S) -> S]
        /\ \A i, j \in 1 .. Cardinality(S) : i < j => o[i] < o[j]
        /\ \A x \in S : \E i \in 1 .. Cardinality(S) : o[i] = x
    BY <1>1, Ordered
  <1> HIDE DEF o
  <1>3. o \in Seq(Ids) /\ Len(o) = Cardinality(S)
    BY <1>2
  <1>4. Len(o) # 0
    BY <1>1, <1>3, FS_EmptySet
  <1>5. Once(o)
    <2> SUFFICES ASSUME NEW i \in 1 .. Len(o), NEW j \in 1 .. Len(o), o[i] = o[j], i # j PROVE FALSE
      BY DEF Once
    <2>1. i < j \/ j < i
      OBVIOUS
    <2>2. o[i] \in Int /\ o[j] \in Int
      BY <1>1, <1>2, <1>3
    <2> QED BY <2>1, <2>2, <1>2, <1>3
  <1>6. \A x : In(x, o) <=> x \in S
    BY <1>2, <1>3 DEF In
  <1>7. n % Len(o) \in 0 .. Len(o) - 1
    BY <1>2, <1>3, <1>4
  <1> DEFINE k == n % Len(o)
  <1> HIDE DEF k
  <1>8. k \in 0 .. Len(o) - 1
    BY <1>7 DEF k
  <1>9. Rotated(o, k) \in Seq(Ids) /\ Once(Rotated(o, k)) /\ \A x : In(x, Rotated(o, k)) <=> In(x, o)
    BY <1>3, <1>5, <1>8, RotatedIs
  <1> QED BY <1>6, <1>9 DEF o, k

LEMMA EnteredKnown ==
  ASSUME NEW m, KnownMail(m), m.stage = "send", m.queue = <<>>, m.left # {}, NEW n \in Nat,
         NEW tier, tier = {c \in m.left : c.level = TopLevel(m.left)},
         NEW S, S = {c.id : c \in tier},
         NEW m2, m2 = [m EXCEPT !.queue = Rotated(InOrder(S), n % Len(InOrder(S))),
                                !.left = m.left \ tier]
  PROVE  KnownMail(m2)
  <1>1. m \in Mail /\ Sorted(m) /\ Tallied(m)
    BY DEF KnownMail
  <1>2. /\ m.left \in SUBSET Entry /\ m.list \in SUBSET Entry /\ m.left \subseteq m.list
        /\ m.tried \in Seq(Ids) /\ Going(m)
    BY <1>1 DEF Mail, Sorted, Going
  <1> DEFINE top == TopLevel(m.left)
  <1>3. top \in Levels /\ (\E c \in m.left : c.level = top) /\ (\A c \in m.left : top <= c.level)
    BY <1>2, TopLevelIs
  <1>4. S \in SUBSET Ids /\ S # {}
    <2>1. \A c \in tier : c \in Entry
      BY <1>2
    <2> QED BY <2>1, <1>3 DEF Entry
  <1> DEFINE s == Rotated(InOrder(S), n % Len(InOrder(S)))
  <1>5. s \in Seq(Ids) /\ Once(s) /\ \A x : In(x, s) <=> x \in S
    BY <1>4, LevelSequence
  <1>6. /\ m2.stage = "send" /\ m2.list = m.list /\ m2.left = m.left \ tier /\ m2.queue = s /\ m2.tried = m.tried
        /\ m2.spent = m.spent /\ m2.copies = m.copies /\ m2.unheard = m.unheard /\ m2.ok = m.ok
    BY <1>1 DEF Mail
  <1>7. m2 \in Mail
    <2> HIDE DEF s
    <2>1. m.left \ tier \in SUBSET Entry
      BY <1>2
    <2>2. m2 = [m EXCEPT !.queue = s, !.left = m.left \ tier]
      BY DEF s
    <2> QED BY <2>1, <2>2, <1>1, <1>5 DEF Mail
  <1> HIDE DEF s, top
  <1>8. \A c \in m.left : c.level = top <=> c \in tier
    BY DEF top
  <1>9. \A c \in m.list : c.id \in Ids /\ c.level \in Int
    BY <1>2, MailAssumption DEF Entry
  <1>10. \A x : ~In(x, <<>>)
    BY DEF In
  <1>11. \A c \in m.list : In(c.id, s) <=> c \in tier
    <2>1. Named(m.list)
      BY <1>1 DEF Sorted
    <2>2. tier \subseteq m.list
      BY <1>2
    <2>3. \A x : In(x, s) <=> \E c \in tier : x = c.id
      BY <1>5
    <2> QED BY <2>1, <2>2, <2>3 DEF Named
  <1>12. Sorted(m2)
    <2>1. m2.left \subseteq m2.list /\ Named(m2.list) /\ Once(m2.tried) /\ Once(m2.queue)
      BY <1>1, <1>2, <1>5, <1>6 DEF Sorted
    <2>2. \A c \in m2.list \ m2.left, d \in m2.left : Going(m2) => c.level < d.level
      <3> SUFFICES ASSUME NEW c \in m.list, c \notin m.left \ tier, NEW d \in m.left \ tier
                   PROVE  c.level < d.level
        BY <1>6
      <3>1. d.level \in Int /\ c.level \in Int /\ top \in Int /\ d.level # top /\ top <= d.level
        BY <1>2, <1>3, <1>8, <1>9, MailAssumption
      <3>2. CASE c \in m.left
        BY <3>1, <3>2, <1>8
      <3>3. CASE c \notin m.left
        BY <3>3, <1>1, <1>2 DEF Sorted
      <3> QED BY <3>2, <3>3
    <2>3. \A x \in Ids : ~(In(x, m2.tried) /\ In(x, m2.queue))
      <3> SUFFICES ASSUME NEW x \in Ids, In(x, m.tried), In(x, s) PROVE FALSE
        BY <1>6
      <3>1. PICK c \in m.list \ m.left : c.id = x
        BY <1>1 DEF Sorted
      <3> QED BY <3>1, <1>11
    <2>4. \A c \in m2.list : c \in m2.left \/ In(c.id, m2.tried) \/ In(c.id, m2.queue)
      <3> SUFFICES ASSUME NEW c \in m.list PROVE c \in m.left \ tier \/ In(c.id, m.tried) \/ In(c.id, s)
        BY <1>6
      <3>1. c \in m.left \/ In(c.id, m.tried)
        BY <1>1, <1>2, <1>10 DEF Sorted
      <3> QED BY <3>1, <1>11
    <2>5. \A x \in Ids : In(x, m2.tried) \/ In(x, m2.queue) => \E c \in m2.list \ m2.left : c.id = x
      <3> SUFFICES ASSUME NEW x \in Ids, In(x, m.tried) \/ In(x, s)
                   PROVE  \E c \in m.list \ (m.left \ tier) : c.id = x
        BY <1>6
      <3>1. CASE In(x, m.tried)
        BY <3>1, <1>1 DEF Sorted
      <3>2. CASE In(x, s)
        <4>1. PICK c \in tier : c.id = x
          BY <3>2, <1>5
        <4> QED BY <4>1, <1>2
      <3> QED BY <3>1, <3>2
    <2>6. \A c, d \in m2.list \ m2.left : In(c.id, m2.queue) => d.level <= c.level
      <3> SUFFICES ASSUME NEW c \in m.list, NEW d \in m.list, d \notin m.left \ tier, In(c.id, s)
                   PROVE  d.level <= c.level
        BY <1>6
      <3>1. c \in tier /\ c.level = top /\ d.level \in Int /\ c.level \in Int
        BY <1>8, <1>9, <1>11
      <3>2. CASE d \in m.left
        BY <3>1, <3>2, <1>8
      <3>3. CASE d \notin m.left
        BY <3>1, <3>3, <1>1, <1>2 DEF Sorted
      <3> QED BY <3>2, <3>3
    <2> QED BY <2>1, <2>2, <2>3, <2>4, <2>5, <2>6 DEF Sorted
  <1>13. Tallied(m2)
    BY <1>1, <1>6 DEF Tallied, Going
  <1> QED BY <1>7, <1>12, <1>13 DEF KnownMail

\* A channel goes from the head of the queue to the end of those that were tried.
LEMMA TriedSorted ==
  ASSUME NEW m, KnownMail(m), m.stage = "send", m.queue # <<>>,
         NEW m2 \in Mail, Going(m2), m2.list = m.list, m2.left = m.left,
         m2.tried = Append(m.tried, Head(m.queue)), m2.queue = Tail(m.queue)
  PROVE  Sorted(m2) /\ Len(m2.tried) = Len(m.tried) + 1
  <1> DEFINE q == m.queue
             t == m.tried
             h == Head(q)
             u == Append(t, h)
             r == Tail(q)
  <1>1. m \in Mail /\ Sorted(m) /\ Going(m)
    BY DEF KnownMail, Going
  <1>2. q \in Seq(Ids) /\ t \in Seq(Ids) /\ q # <<>> /\ Len(q) \in Nat \ {0} /\ Len(t) \in Nat
    BY <1>1 DEF Mail
  <1>3. /\ r \in Seq(Ids) /\ Len(r) = Len(q) - 1 /\ \A i \in 1 .. Len(q) - 1 : r[i] = q[i + 1]
        /\ h = q[1] /\ h \in Ids
    BY <1>2
  <1>4. /\ u \in Seq(Ids) /\ Len(u) = Len(t) + 1 /\ u[Len(t) + 1] = h
        /\ \A i \in 1 .. Len(t) : u[i] = t[i]
    BY <1>2, <1>3
  <1>5. m2.tried = u /\ m2.queue = r
    OBVIOUS
  <1> HIDE DEF h, u, r, q, t
  <1>6. Once(q) /\ Once(t) /\ \A x \in Ids : ~(In(x, t) /\ In(x, q))
    BY <1>1 DEF Sorted, q, t
  <1>7. In(h, q) /\ ~In(h, t)
    <2>1. In(h, q)
      BY <1>2, <1>3 DEF In
    <2> QED BY <2>1, <1>3, <1>6
  <1>8. \A x : In(x, u) <=> In(x, t) \/ x = h
    <2>1. ASSUME NEW x, In(x, u) PROVE In(x, t) \/ x = h
      <3>1. PICK i \in 1 .. Len(t) + 1 : u[i] = x
        BY <2>1, <1>4 DEF In
      <3>2. CASE i = Len(t) + 1
        BY <3>1, <3>2, <1>4
      <3>3. CASE i # Len(t) + 1
        <4>1. i \in 1 .. Len(t)
          BY <3>3, <1>2
        <4> QED BY <4>1, <3>1, <1>4 DEF In
      <3> QED BY <3>2, <3>3
    <2>2. ASSUME NEW x, In(x, t) PROVE In(x, u)
      <3>1. PICK i \in 1 .. Len(t) : t[i] = x
        BY <2>2 DEF In
      <3>2. i \in 1 .. Len(u) /\ u[i] = x
        BY <3>1, <1>2, <1>4
      <3> QED BY <3>2 DEF In
    <2>3. In(h, u)
      <3>1. Len(t) + 1 \in 1 .. Len(u) /\ u[Len(t) + 1] = h
        BY <1>2, <1>4
      <3> QED BY <3>1 DEF In
    <2> QED BY <2>1, <2>2, <2>3
  <1>9. \A x : In(x, q) <=> In(x, r) \/ x = h
    <2>1. ASSUME NEW x, In(x, q) PROVE In(x, r) \/ x = h
      <3>1. PICK i \in 1 .. Len(q) : q[i] = x
        BY <2>1 DEF In
      <3>2. CASE i = 1
        BY <3>1, <3>2, <1>3
      <3>3. CASE i # 1
        <4>1. i - 1 \in 1 .. Len(q) - 1 /\ (i - 1) + 1 = i
          BY <3>3, <1>2
        <4>2. r[i - 1] = x
          BY <4>1, <3>1, <1>3
        <4> QED BY <4>1, <4>2, <1>3 DEF In
      <3> QED BY <3>2, <3>3
    <2>2. ASSUME NEW x, In(x, r) PROVE In(x, q)
      <3>1. PICK i \in 1 .. Len(q) - 1 : r[i] = x
        BY <2>2, <1>3 DEF In
      <3>2. i + 1 \in 1 .. Len(q) /\ q[i + 1] = x
        BY <3>1, <1>2, <1>3
      <3> QED BY <3>2 DEF In
    <2> QED BY <2>1, <2>2, <1>7
  <1>10. ~In(h, r)
    <2> SUFFICES ASSUME In(h, r) PROVE FALSE
      OBVIOUS
    <2>1. PICK i \in 1 .. Len(q) - 1 : r[i] = h
      BY <1>3 DEF In
    <2>2. i + 1 \in 1 .. Len(q) /\ 1 \in 1 .. Len(q) /\ i + 1 # 1 /\ q[i + 1] = q[1]
      BY <2>1, <1>2, <1>3
    <2> QED BY <2>2, <1>6 DEF Once
  <1>11. Once(r)
    <2> SUFFICES ASSUME NEW i \in 1 .. Len(q) - 1, NEW j \in 1 .. Len(q) - 1, r[i] = r[j] PROVE i = j
      BY <1>3 DEF Once
    <2>1. i + 1 \in 1 .. Len(q) /\ j + 1 \in 1 .. Len(q) /\ q[i + 1] = q[j + 1]
      BY <1>2, <1>3
    <2>2. i + 1 = j + 1
      BY <2>1, <1>6 DEF Once
    <2> QED BY <2>2
  <1>12. Once(u)
    <2> SUFFICES ASSUME NEW i \in 1 .. Len(t) + 1, NEW j \in 1 .. Len(t) + 1, u[i] = u[j] PROVE i = j
      BY <1>4 DEF Once
    <2>1. \A k \in 1 .. Len(t) + 1 : k = Len(t) + 1 \/ k \in 1 .. Len(t)
      BY <1>2
    <2>2. \A k \in 1 .. Len(t) : u[k] = t[k] /\ t[k] # h
      BY <1>4, <1>7 DEF In
    <2> QED BY <2>1, <2>2, <1>4, <1>6 DEF Once
  <1>13. \A x : In(x, t) \/ In(x, q) <=> In(x, u) \/ In(x, r)
    BY <1>7, <1>8, <1>9
  <1>14. /\ m.left \subseteq m.list /\ Named(m.list)
         /\ \A c \in m.list \ m.left, d \in m.left : c.level < d.level
         /\ \A c \in m.list : c \in m.left \/ In(c.id, t) \/ In(c.id, q)
         /\ \A x \in Ids : In(x, t) \/ In(x, q) => \E c \in m.list \ m.left : c.id = x
         /\ \A c, d \in m.list \ m.left : In(c.id, q) => d.level <= c.level
    BY <1>1 DEF Sorted, q, t
  <1>15. \A x \in Ids : ~(In(x, u) /\ In(x, r))
    BY <1>6, <1>8, <1>9, <1>10
  <1>16. Sorted(m2)
    BY <1>5, <1>9, <1>11, <1>12, <1>13, <1>14, <1>15 DEF Sorted
  <1> QED BY <1>4, <1>5, <1>16 DEF t

LEMMA TriedKnown ==
  ASSUME NEW m, KnownMail(m), m.stage = "send", m.queue # <<>>,
         Len(m.tried) < MaxAttempts, m.spent < Budget,
         NEW n, n = [m EXCEPT !.tried = Append(m.tried, Head(m.queue)), !.queue = Tail(m.queue)]
  PROVE  /\ KnownMail([n EXCEPT !.stage = "done", !.copies = n.copies + 1, !.ok = TRUE])
         /\ \A slow, delivered \in {0, 1} :
               KnownMail([n EXCEPT !.spent = n.spent + slow, !.copies = n.copies + delivered,
                                   !.unheard = n.unheard + delivered])
  <1>1. m \in Mail /\ Tallied(m)
    BY DEF KnownMail
  <1>2. m.queue \in Seq(Ids) /\ m.tried \in Seq(Ids) /\ m.spent \in 0 .. Budget /\ m.copies \in Nat /\ m.unheard \in Nat
    BY <1>1 DEF Mail
  <1>3. Append(m.tried, Head(m.queue)) \in Seq(Ids) /\ Tail(m.queue) \in Seq(Ids)
    BY <1>2
  <1>4. n \in Mail
    BY <1>1, <1>3 DEF Mail
  <1>5. /\ n.stage = "send" /\ n.list = m.list /\ n.left = m.left /\ n.spent = m.spent /\ n.copies = m.copies
        /\ n.unheard = m.unheard /\ n.ok = m.ok
        /\ n.tried = Append(m.tried, Head(m.queue)) /\ n.queue = Tail(m.queue)
    BY <1>1 DEF Mail
  <1>6. /\ m.copies <= m.unheard + (IF m.ok THEN 1 ELSE 0) /\ ~m.ok /\ Len(m.tried) \in Nat
        /\ m.copies <= m.unheard
    BY <1>1, <1>2 DEF Tallied
  <1>7. KnownMail([n EXCEPT !.stage = "done", !.copies = n.copies + 1, !.ok = TRUE])
    <2> DEFINE m2 == [n EXCEPT !.stage = "done", !.copies = n.copies + 1, !.ok = TRUE]
    <2>1. m2 \in Mail
      <3>1. n.copies + 1 \in Nat
        BY <1>2, <1>5
      <3> QED BY <3>1, <1>4 DEF Mail
    <2>2. /\ m2.stage = "done" /\ m2.list = n.list /\ m2.left = n.left /\ m2.spent = n.spent
          /\ m2.copies = n.copies + 1 /\ m2.unheard = n.unheard /\ m2.ok = TRUE
          /\ m2.tried = n.tried /\ m2.queue = n.queue
      BY <1>4 DEF Mail
    <2> HIDE DEF m2
    <2>3. Sorted(m2) /\ Len(m2.tried) = Len(m.tried) + 1
      BY <2>1, <2>2, <1>5, TriedSorted DEF Going
    <2>4. Len(m2.tried) <= MaxAttempts
      BY <2>3, <1>6, MailAssumption
    <2>5. m2.copies <= m2.unheard + (IF m2.ok THEN 1 ELSE 0)
      BY <2>2, <1>2, <1>5, <1>6
    <2>6. Tallied(m2)
      BY <2>2, <2>4, <2>5 DEF Tallied, Going
    <2> QED BY <2>1, <2>3, <2>6 DEF KnownMail, m2
  <1>8. ASSUME NEW slow \in {0, 1}, NEW delivered \in {0, 1}
        PROVE  KnownMail([n EXCEPT !.spent = n.spent + slow, !.copies = n.copies + delivered,
                                   !.unheard = n.unheard + delivered])
    <2> DEFINE m2 == [n EXCEPT !.spent = n.spent + slow, !.copies = n.copies + delivered,
                               !.unheard = n.unheard + delivered]
    <2>0. n.spent + slow \in 0 .. Budget /\ n.copies + delivered \in Nat /\ n.unheard + delivered \in Nat
      <3>1. slow \in Int /\ delivered \in Int /\ 0 <= slow /\ slow <= 1 /\ 0 <= delivered /\ delivered <= 1
        OBVIOUS
      <3>2. n.spent \in Int /\ 0 <= n.spent /\ n.spent < Budget /\ Budget \in Int
        BY <1>2, <1>5, MailAssumption
      <3>3. n.copies \in Nat /\ n.unheard \in Nat
        BY <1>2, <1>5
      <3> QED BY <3>1, <3>2, <3>3
    <2>1. m2 \in Mail
      BY <2>0, <1>4 DEF Mail
    <2>2. /\ m2.stage = "send" /\ m2.list = n.list /\ m2.left = n.left /\ m2.spent = n.spent + slow
          /\ m2.copies = n.copies + delivered /\ m2.unheard = n.unheard + delivered /\ m2.ok = n.ok
          /\ m2.tried = n.tried /\ m2.queue = n.queue
      BY <1>4, <1>5 DEF Mail
    <2> HIDE DEF m2
    <2>3. Sorted(m2) /\ Len(m2.tried) = Len(m.tried) + 1
      BY <2>1, <2>2, <1>5, TriedSorted DEF Going
    <2>4. Len(m2.tried) <= MaxAttempts
      BY <2>3, <1>6, MailAssumption
    <2>5. m2.copies <= m2.unheard + (IF m2.ok THEN 1 ELSE 0)
      BY <2>2, <1>2, <1>5, <1>6
    <2>6. Tallied(m2)
      BY <2>2, <2>4, <2>5, <1>5, <1>6 DEF Tallied, Going
    <2> QED BY <2>1, <2>3, <2>6 DEF KnownMail, m2
  <1> QED BY <1>7, <1>8

\* A mail that ends without success.
LEMMA GivenUpKnown ==
  ASSUME NEW m, KnownMail(m), m.stage = "send",
         IF m.queue # <<>> THEN ~(Len(m.tried) < MaxAttempts /\ m.spent < Budget) ELSE m.left = {},
         NEW m2, m2 = [m EXCEPT !.stage = "done"]
  PROVE  KnownMail(m2)
  <1>1. m \in Mail /\ Sorted(m) /\ Tallied(m)
    BY DEF KnownMail
  <1>2. m2 \in Mail
    BY <1>1 DEF Mail
  <1>3. /\ m2.stage = "done" /\ m2.list = m.list /\ m2.left = m.left /\ m2.spent = m.spent
        /\ m2.copies = m.copies /\ m2.unheard = m.unheard /\ m2.ok = m.ok
        /\ m2.tried = m.tried /\ m2.queue = m.queue
    BY <1>1 DEF Mail
  <1>4. Sorted(m2)
    BY <1>1, <1>3 DEF Sorted, Going
  <1>5. Tallied(m2)
    BY <1>1, <1>3 DEF Tallied, Going
  <1> QED BY <1>2, <1>4, <1>5 DEF KnownMail

LEMMA MailInit_Inv == MailInit => MailInv
  <1> SUFFICES ASSUME MailInit PROVE MailInv
    OBVIOUS
  <1>1. ChannelsRows
    <2>1. NoChannel \in [there : BOOLEAN, on : BOOLEAN, level : Levels]
      BY MailAssumption DEF NoChannel
    <2> QED BY <2>1 DEF MailInit, ChannelsRows
  <1>2. CursorsKnown
    BY MailAssumption DEF MailInit, CursorsKnown
  <1>3. PostsKnown
    BY UnpostedKnown DEF MailInit, PostsKnown
  <1> QED BY <1>1, <1>2, <1>3 DEF MailInit, MailInv, ListedRow, ListKnown

\* A goroutine goes on to m.
LEMMA PostBecomes ==
  ASSUME PostsKnown, NEW p \in Posters, NEW m, KnownMail(m), post' = [post EXCEPT ![p] = m]
  PROVE  /\ PostsKnown'
         /\ \A q \in Posters : post'[q] = IF q = p THEN m ELSE post[q]
  <1>1. \A q \in Posters : post'[q] = IF q = p THEN m ELSE post[q]
    BY DEF PostsKnown
  <1>2. post' = [q \in Posters |-> post'[q]]
    BY DEF PostsKnown
  <1> QED BY <1>1, <1>2 DEF PostsKnown

\* A step that only moves a mail.
LEMMA MailMoves ==
  ASSUME MailInv, NEW p \in Posters, NEW m, KnownMail(m), m.stage # "written", post[p].stage # "written",
         post' = [post EXCEPT ![p] = m], channel' = channel, listed' = listed, CursorsKnown'
  PROVE  MailInv'
  <1>1. PostsKnown' /\ \A q \in Posters : post'[q] = IF q = p THEN m ELSE post[q]
    BY PostBecomes DEF MailInv
  <1>2. ListKnown'
    <2>1. Enabled' = Enabled
      BY DEF Enabled
    <2>2. \A q \in Posters : post[q].stage = "written" => post'[q].stage = "written"
      BY <1>1
    <2> QED BY <2>1, <2>2 DEF MailInv, ListKnown
  <1> QED BY <1>1, <1>2 DEF MailInv, ChannelsRows, ListedRow

\* A step that writes a row.
LEMMA ChannelWritten ==
  ASSUME MailInv, NEW p \in Posters, Written(p), UNCHANGED <<listed, cursor>>, ChannelsRows'
  PROVE  MailInv'
  <1>1. PostsKnown' /\ \A q \in Posters : post'[q] = IF q = p THEN [Unposted EXCEPT !.stage = "written"] ELSE post[q]
    BY WrittenKnown, PostBecomes DEF MailInv, Written
  <1>2. post'[p].stage = "written"
    BY <1>1 DEF Unposted
  <1>3. ListKnown'
    BY <1>2 DEF ListKnown
  <1> QED BY <1>1, <1>3 DEF MailInv, CursorsKnown, ListedRow

LEMMA MailNext_Inv == MailInv /\ [MailNext]_mailVars => MailInv'
  <1> SUFFICES ASSUME MailInv, [MailNext]_mailVars PROVE MailInv'
    OBVIOUS
  <1>inv. ChannelsRows /\ CursorsKnown /\ ListedRow /\ PostsKnown /\ ListKnown
    BY DEF MailInv
  <1>0. CursorsKnown' \/ cursor' # cursor
    BY <1>inv DEF CursorsKnown
  <1>1. ASSUME NEW p \in Posters, BeginMail(p) PROVE MailInv'
    <2>1. KnownMail(Sending(listed.list))
      BY <1>1, <1>inv, SendingKnown DEF BeginMail, ListedRow
    <2>2. Sending(listed.list).stage = "send"
      BY DEF Sending, Unposted
    <2> QED BY <1>1, <1>0, <2>1, <2>2, MailMoves DEF BeginMail
  <1>2. ASSUME NEW p \in Posters, ListChannels(p) PROVE MailInv'
    <2> DEFINE m == [Unposted EXCEPT !.stage = "store", !.list = Enabled]
    <2>1. KnownMail(m) /\ m.stage = "store"
      <3>1. m.stage = "store"
        BY DEF Unposted
      <3> QED BY <3>1, <1>inv, EnabledNamed, StoreKnown
    <2>2. KnownMail(Sending({})) /\ Sending({}).stage = "send"
      <3>1. Named({})
        BY DEF Named
      <3>2. Sending({}).stage = "send"
        BY DEF Sending, Unposted
      <3> QED BY <3>1, <3>2, SendingKnown
    <2>3. CASE post' = [post EXCEPT ![p] = m]
      <3> HIDE DEF m
      <3> QED BY <1>2, <1>0, <2>1, <2>3, MailMoves DEF ListChannels
    <2>4. CASE post' = [post EXCEPT ![p] = Sending({})]
      BY <1>2, <1>0, <2>2, <2>4, MailMoves DEF ListChannels
    <2> QED BY <1>2, <2>3, <2>4 DEF ListChannels
  <1>3. ASSUME NEW p \in Posters, StoreChannels(p) PROVE MailInv'
    <2>1. post[p].stage = "store" /\ post[p].list \in SUBSET Entry /\ Named(post[p].list)
      BY <1>3, <1>inv DEF StoreChannels, PostsKnown, KnownMail, Mail, Sorted
    <2>2. KnownMail(Sending(post[p].list))
      BY <2>1, SendingKnown
    <2>3. PostsKnown'
      BY <1>3, <1>inv, <2>2, PostBecomes DEF StoreChannels
    <2>4. listed'.list = post[p].list /\ listed'.late = (post[p].list # Enabled)
      BY <1>3 DEF StoreChannels
    <2>5. ListedRow'
      BY <2>1, <2>4 DEF ListedRow
    <2>6. Enabled' = Enabled
      BY <1>3 DEF StoreChannels, Enabled
    <2>7. ListKnown'
      BY <2>4, <2>6 DEF ListKnown
    <2> QED BY <1>3, <1>inv, <2>3, <2>5, <2>7 DEF StoreChannels, MailInv, ChannelsRows, CursorsKnown
  <1>4. ASSUME NEW p \in Posters, EnterLevel(p) PROVE MailInv'
    <2> DEFINE top == TopLevel(post[p].left)
               tier == {c \in post[p].left : c.level = top}
               S == {c.id : c \in tier}
               s == Rotated(InOrder(S), cursor[top] % Len(InOrder(S)))
               m == [post[p] EXCEPT !.queue = s, !.left = post[p].left \ tier]
    <2>1. /\ KnownMail(post[p]) /\ post[p].stage = "send" /\ post[p].queue = <<>> /\ post[p].left # {}
          /\ post[p].left \in SUBSET Entry
      BY <1>4, <1>inv DEF EnterLevel, PostsKnown, KnownMail, Mail
    <2>2. top \in Levels
      BY <2>1, TopLevelIs
    <2>3. cursor[top] \in Nat
      <3> HIDE DEF top
      <3>1. cursor[top] \in 0 .. Turns - 1 /\ Turns \in Nat
        BY <2>2, <1>inv, MailAssumption DEF CursorsKnown
      <3> QED BY <3>1
    <2>4. KnownMail(m)
      BY <2>1, <2>3, EnteredKnown
    <2>5. m.stage # "written"
      BY <2>1 DEF KnownMail, Mail
    <2>6. post' = [post EXCEPT ![p] = m]
      BY <1>4 DEF EnterLevel
    <2>7. cursor' = [cursor EXCEPT ![top] = (cursor[top] + 1) % Turns] /\ channel' = channel /\ listed' = listed
      BY <1>4 DEF EnterLevel
    <2> HIDE DEF top, m
    <2>8. CursorsKnown'
      <3>1. (cursor[top] + 1) % Turns \in 0 .. Turns - 1
        BY <2>3, MailAssumption
      <3> QED BY <3>1, <2>7, <1>inv DEF CursorsKnown
    <2> QED BY <2>1, <2>4, <2>5, <2>6, <2>7, <2>8, MailMoves
  <1>5. ASSUME NEW p \in Posters, Try(p) PROVE MailInv'
    <2> DEFINE n == [post[p] EXCEPT !.tried = Append(post[p].tried, Head(post[p].queue)),
                                    !.queue = Tail(post[p].queue)]
               done == [n EXCEPT !.stage = "done", !.copies = n.copies + 1, !.ok = TRUE]
               more(slow, delivered) == [n EXCEPT !.spent = n.spent + slow, !.copies = n.copies + delivered,
                                                  !.unheard = n.unheard + delivered]
    <2>1. /\ KnownMail(post[p]) /\ post[p].stage = "send" /\ post[p].queue # <<>>
          /\ Len(post[p].tried) < MaxAttempts /\ post[p].spent < Budget
      BY <1>5, <1>inv DEF Try, Allowed, PostsKnown
    <2>2. KnownMail(done) /\ \A slow, delivered \in {0, 1} : KnownMail(more(slow, delivered))
      BY <2>1, TriedKnown
    <2>3. done.stage = "done" /\ \A slow, delivered \in {0, 1} : more(slow, delivered).stage = "send"
      BY <2>1 DEF KnownMail, Mail
    <2>4. \/ post' = [post EXCEPT ![p] = done]
          \/ \E slow, delivered \in {0, 1} : post' = [post EXCEPT ![p] = more(slow, delivered)]
      BY <1>5 DEF Try
    <2>5. channel' = channel /\ listed' = listed /\ cursor' = cursor
      BY <1>5 DEF Try
    <2> HIDE DEF n, done, more
    <2>6. CASE post' = [post EXCEPT ![p] = done]
      BY <1>0, <2>1, <2>2, <2>3, <2>5, <2>6, MailMoves
    <2>7. ASSUME NEW slow \in {0, 1}, NEW delivered \in {0, 1},
                 post' = [post EXCEPT ![p] = more(slow, delivered)]
          PROVE  MailInv'
      <3> DEFINE m == more(slow, delivered)
      <3>1. KnownMail(m) /\ m.stage # "written"
        BY <2>2, <2>3
      <3>2. post' = [post EXCEPT ![p] = m]
        BY <2>7
      <3> HIDE DEF m
      <3> QED BY <1>0, <2>1, <2>5, <3>1, <3>2, MailMoves
    <2> QED BY <2>4, <2>6, <2>7
  <1>6. ASSUME NEW p \in Posters, GiveUp(p) PROVE MailInv'
    <2> DEFINE m == [post[p] EXCEPT !.stage = "done"]
    <2>1. KnownMail(post[p]) /\ post[p].stage = "send"
      BY <1>6, <1>inv DEF GiveUp, PostsKnown
    <2>2. KnownMail(m)
      BY <1>6, <2>1, GivenUpKnown DEF GiveUp, Allowed
    <2>3. m.stage # "written"
      BY <2>1 DEF KnownMail, Mail
    <2>4. post' = [post EXCEPT ![p] = m] /\ channel' = channel /\ listed' = listed /\ cursor' = cursor
      BY <1>6 DEF GiveUp
    <2> HIDE DEF m
    <2> QED BY <1>0, <2>1, <2>2, <2>3, <2>4, MailMoves
  <1>7. ASSUME NEW p \in Posters, NEW c \in Channels, NEW on \in BOOLEAN, NEW l \in Levels,
               CreateChannel(p, c, on, l) \/ UpdateChannel(p, c, on, l)
        PROVE  MailInv'
    <2>1. /\ channel' = [channel EXCEPT ![c] = [there |-> TRUE, on |-> on, level |-> l]]
          /\ Written(p) /\ UNCHANGED <<listed, cursor>>
      BY <1>7 DEF CreateChannel, UpdateChannel
    <2>2. ChannelsRows'
      BY <2>1, <1>inv DEF ChannelsRows
    <2> QED BY <2>1, <2>2, ChannelWritten
  <1>8. ASSUME NEW p \in Posters, NEW c \in Channels, DeleteChannel(p, c) PROVE MailInv'
    <2>1. channel' = [channel EXCEPT ![c] = NoChannel] /\ Written(p) /\ UNCHANGED <<listed, cursor>>
      BY <1>8 DEF DeleteChannel
    <2>2. ChannelsRows'
      BY <2>1, <1>inv, MailAssumption DEF ChannelsRows, NoChannel
    <2> QED BY <2>1, <2>2, ChannelWritten
  <1>9. ASSUME NEW p \in Posters, InvalidateChannels(p) PROVE MailInv'
    <2>1. PostsKnown'
      BY <1>9, <1>inv, UnpostedKnown, PostBecomes DEF InvalidateChannels
    <2> QED BY <1>9, <1>inv, <2>1 DEF InvalidateChannels, MailInv, ChannelsRows, CursorsKnown,
               ListedRow, ListKnown
  <1>10. CASE ForgetChannels
    BY <1>10, <1>inv DEF ForgetChannels, MailInv, ChannelsRows, CursorsKnown, ListedRow, ListKnown,
       PostsKnown
  <1>11. CASE UNCHANGED mailVars
    <2>1. Enabled' = Enabled
      BY <1>11 DEF mailVars, Enabled
    <2> QED BY <1>11, <1>inv, <2>1 DEF mailVars, MailInv, ChannelsRows, CursorsKnown, ListedRow,
               ListKnown, PostsKnown
  <1> QED BY <1>1, <1>2, <1>3, <1>4, <1>5, <1>6, <1>7, <1>8, <1>9, <1>10, <1>11 DEF MailNext,
             SendNext, ChannelsNext

LEMMA MailInvariant == MailSpec => []MailInv
  <1> QED BY MailInit_Inv, MailNext_Inv, PTL DEF MailSpec

\* What a known mail has to do with TriesInOrder: the tries are as many channels, in the
\* order of the levels, and all of them when nothing else ended the mail.
LEMMA KnownMailInOrder ==
  ASSUME NEW m, KnownMail(m), NEW tried, tried = {m.tried[i] : i \in 1 .. Len(m.tried)}
  PROVE  /\ Cardinality(tried) = Len(m.tried) /\ Len(m.tried) <= MaxAttempts
         /\ \A c, d \in m.list : c.level < d.level /\ d.id \in tried => c.id \in tried
         /\ m.stage = "done" /\ ~m.ok /\ Len(m.tried) < MaxAttempts /\ m.spent < Budget =>
               tried = {c.id : c \in m.list}
  <1>1. m \in Mail /\ Sorted(m) /\ Tallied(m)
    BY DEF KnownMail
  <1>2. m.tried \in Seq(Ids) /\ m.queue \in Seq(Ids) /\ m.list \in SUBSET Entry
    BY <1>1 DEF Mail
  <1>3. \A x : x \in tried <=> In(x, m.tried)
    BY DEF In
  <1>4. Cardinality(tried) = Len(m.tried)
    <2> DEFINE n == Len(m.tried)
               f == [i \in 1 .. n |-> m.tried[i]]
    <2>1. n \in Nat
      BY <1>2
    <2>2. f \in Bijection(1 .. n, tried)
      <3>1. f \in [1 .. n -> tried]
        OBVIOUS
      <3>2. \A i, j \in 1 .. n : f[i] = f[j] => i = j
        BY <1>1 DEF Sorted, Once
      <3>3. \A x \in tried : \E i \in 1 .. n : f[i] = x
        OBVIOUS
      <3> HIDE DEF f, n
      <3> QED BY <3>1, <3>2, <3>3 DEF Bijection, Injection, Surjection, IsInjective
    <2>3. ExistsBijection(1 .. n, tried)
      BY <2>2 DEF ExistsBijection
    <2> HIDE DEF n
    <2>4. Cardinality(tried) = n
      BY <2>1, <2>3, FS_CountingElements
    <2> QED BY <2>4 DEF n
  <1>5. ~Going(m) => m.tried = <<>>
    BY <1>1 DEF Tallied
  <1>6. \A c \in m.list : c.id \in Ids /\ c.level \in Int
    BY <1>2, MailAssumption DEF Entry
  <1>7. ASSUME NEW c \in m.list, NEW d \in m.list, c.level < d.level, d.id \in tried
        PROVE  c.id \in tried
    <2>1. In(d.id, m.tried)
      BY <1>3, <1>7
    <2>2. Going(m)
      BY <2>1, <1>5 DEF In
    <2>3. d \in m.list \ m.left
      <3>1. PICK e \in m.list \ m.left : e.id = d.id
        BY <2>1, <1>1, <1>6 DEF Sorted
      <3> QED BY <3>1, <1>1 DEF Sorted, Named
    <2>4. c \notin m.left
      <3> SUFFICES ASSUME c \in m.left PROVE FALSE
        OBVIOUS
      <3>1. d.level < c.level
        BY <2>2, <2>3, <1>1 DEF Sorted
      <3> QED BY <3>1, <1>6, <1>7
    <2>5. ~In(c.id, m.queue)
      <3> SUFFICES ASSUME In(c.id, m.queue) PROVE FALSE
        OBVIOUS
      <3>1. d.level <= c.level
        BY <2>3, <2>4, <1>1 DEF Sorted
      <3> QED BY <3>1, <1>6, <1>7
    <2>6. In(c.id, m.tried)
      BY <2>2, <2>4, <2>5, <1>1 DEF Sorted
    <2> QED BY <2>6, <1>3
  <1>8. ASSUME m.stage = "done", ~m.ok, Len(m.tried) < MaxAttempts, m.spent < Budget
        PROVE  tried = {c.id : c \in m.list}
    <2>1. m.queue = <<>> /\ m.left = {} /\ Going(m)
      BY <1>1, <1>8 DEF Tallied, Going
    <2>2. \A x : ~In(x, m.queue)
      BY <2>1 DEF In
    <2>3. \A c \in m.list : In(c.id, m.tried)
      BY <2>1, <2>2, <1>1 DEF Sorted
    <2>4. \A x \in tried : \E c \in m.list : c.id = x
      <3>1. \A x \in tried : x \in Ids
        BY <1>2
      <3> QED BY <3>1, <1>1, <1>3 DEF Sorted
    <2> QED BY <2>3, <2>4, <1>3
  <1> QED BY <1>1, <1>4, <1>7, <1>8 DEF Tallied

LEMMA MailsSound == MailInv => MailTypeOK /\ TriesInOrder /\ CopiesExplained /\ ListKnown
  <1> SUFFICES ASSUME MailInv PROVE MailTypeOK /\ TriesInOrder /\ CopiesExplained /\ ListKnown
    OBVIOUS
  <1>1. \A p \in Posters : KnownMail(post[p])
    BY DEF MailInv, PostsKnown
  <1>2. MailTypeOK
    <2>1. \A p \in Posters : /\ post[p].stage \in {"idle", "store", "send", "done", "written"}
                             /\ post[p].left \subseteq post[p].list /\ post[p].list \subseteq Entry
                             /\ post[p].spent \in 0 .. Budget
      BY <1>1 DEF KnownMail, Mail, Sorted
    <2> QED BY <2>1 DEF MailInv, ChannelsRows, CursorsKnown, ListedRow, MailTypeOK
  <1>3. TriesInOrder
    <2> SUFFICES ASSUME NEW p \in Posters
                 PROVE  LET m == post[p]
                            tried == {m.tried[i] : i \in 1 .. Len(m.tried)} IN
                        /\ Cardinality(tried) = Len(m.tried) /\ Len(m.tried) <= MaxAttempts
                        /\ \A c, d \in m.list : c.level < d.level /\ d.id \in tried => c.id \in tried
                        /\ m.stage = "done" /\ ~m.ok /\ Allowed(p) => tried = {c.id : c \in m.list}
      BY DEF TriesInOrder
    <2> QED BY <1>1, KnownMailInOrder DEF Allowed
  <1>4. CopiesExplained
    BY <1>1 DEF CopiesExplained, KnownMail, Tallied
  <1> QED BY <1>2, <1>3, <1>4 DEF MailInv

\* A mail tries its channels in the order of their levels, none of them twice and all of them
\* unless its tries or its time end, and comes twice only after a try that was reported as
\* failed; the cached list is late, and the page of a user wrong, only for the named reasons:
\* for any channels and levels, any notices and any number of goroutines.
THEOREM MessagesAreSound == MailSpec /\ NoticesSpec => []MessagesSound
  <1>1. MailInv /\ NoticesInv => MessagesSound
    BY MailsSound, NoticesSound DEF MessagesSound
  <1> QED BY <1>1, MailInvariant, NoticesInvariant, PTL

-----------------------------------------------------------------------------
\* RealtimeHub.  HubInv is the inductive invariant: besides the three properties it says
\* that a connection that waits to be registered is not in the hub and has a channel nobody
\* has closed yet, for otherwise registering it would put a closed channel into the hub.

\* A connection that waits to be registered is not in the hub, so that Run, which
\* closes the channels of registered clients only, has not closed its channel.
WaitingIsNew ==
    \A c \in Clients : handler[c] \in {"start", "register"} => c \notin registered /\ ~Closed(c)

HubInv == TypeOK /\ ClosedOnce /\ RegisteredIsOpen /\ ServedOrClosed /\ WaitingIsNew

-----------------------------------------------------------------------------
\* What removeClient does to the channels.
LEMMA RemoveEffect ==
    ASSUME TypeOK, ClosedOnce, RegisteredIsOpen, NEW c \in Clients, RemoveClient(c)
    PROVE  /\ registered' = registered \ {c}
           /\ closes' \in [Clients -> Nat]
           /\ \A d \in Clients : closes'[d] <= 1
           /\ \A d \in Clients \ {c} : closes'[d] = closes[d]
           /\ c \in registered => closes'[c] = 1
           /\ c \notin registered => closes'[c] = closes[c]
  BY DEF TypeOK, ClosedOnce, RegisteredIsOpen, RemoveClient, Closed

\* What is put into a channel fits: a full one takes no more.
LEMMA EnqueueType ==
    ASSUME TypeOK, NEW targets \in SUBSET Clients, Enqueue(targets)
    PROVE  buffer' \in [Clients -> 0..Capacity] /\ drops' \in [Clients -> 0..MaxDrops]
  BY HubAssumption DEF TypeOK, Enqueue, Full

LEMMA OfferType ==
    ASSUME TypeOK, NEW c \in Clients, Offer(c)
    PROVE  buffer' \in [Clients -> 0..Capacity]
  BY HubAssumption DEF TypeOK, Offer, Full

-----------------------------------------------------------------------------
LEMMA InitHub == Init => HubInv
  BY HubAssumption
  DEF Init, HubInv, TypeOK, ClosedOnce, RegisteredIsOpen, ServedOrClosed, WaitingIsNew, Closed, HandlerStages

LEMMA NextHub == HubInv /\ [Next]_vars => HubInv'
  <1> SUFFICES ASSUME HubInv, [Next]_vars PROVE HubInv'
    OBVIOUS
  <1> USE DEF HubInv
  <1>1. ASSUME NEW u \in Users, SendToUser(u) PROVE HubInv'
    <2>1. {c \in registered : UserOf[c] = u} \in SUBSET Clients
      BY DEF TypeOK
    <2>2. buffer' \in [Clients -> 0..Capacity] /\ drops' \in [Clients -> 0..MaxDrops]
      BY <1>1, <2>1, EnqueueType DEF SendToUser
    <2> QED BY <1>1, <2>2
         DEF SendToUser, TypeOK, ClosedOnce, RegisteredIsOpen, ServedOrClosed, WaitingIsNew, Closed
  <1>2. CASE Broadcast
    BY <1>2, HubAssumption
    DEF Broadcast, TypeOK, ClosedOnce, RegisteredIsOpen, ServedOrClosed, WaitingIsNew, Closed
  <1>3. CASE RunBroadcast
    <2>1. registered \in SUBSET Clients
      BY DEF TypeOK
    <2>2. buffer' \in [Clients -> 0..Capacity] /\ drops' \in [Clients -> 0..MaxDrops]
      BY <1>3, <2>1, EnqueueType DEF RunBroadcast
    <2>3. queue' \in 0..QueueSize
      BY <1>3, HubAssumption DEF RunBroadcast, TypeOK
    <2>4. UNCHANGED <<registered, closes, handler, writer, conn>>
      BY <1>3 DEF RunBroadcast
    <2>5. TypeOK'
      BY <2>2, <2>3, <2>4 DEF TypeOK
    <2> QED BY <2>4, <2>5
         DEF ClosedOnce, RegisteredIsOpen, ServedOrClosed, WaitingIsNew, Closed
  <1>4. ASSUME NEW c \in Clients, RunRegister(c) PROVE HubInv'
    BY <1>4
    DEF RunRegister, TypeOK, ClosedOnce, RegisteredIsOpen, ServedOrClosed, WaitingIsNew, Closed, HandlerStages
  <1>5. ASSUME NEW c \in Clients, RunDrop(c) PROVE HubInv'
    <2>1. RemoveClient(c) /\ UNCHANGED <<buffer, queue, handler, writer, conn>>
      BY <1>5 DEF RunDrop
    <2>2. drops' \in [Clients -> 0..MaxDrops]
      BY <1>5, HubAssumption DEF RunDrop, TypeOK
    <2>3. /\ registered' = registered \ {c}
          /\ closes' \in [Clients -> Nat]
          /\ \A d \in Clients : closes'[d] <= 1
          /\ \A d \in Clients \ {c} : closes'[d] = closes[d]
          /\ c \in registered => closes'[c] = 1
          /\ c \notin registered => closes'[c] = closes[c]
      BY <2>1, RemoveEffect
    <2>4. TypeOK' /\ ClosedOnce'
      BY <2>1, <2>2, <2>3 DEF TypeOK, ClosedOnce
    <2>5. RegisteredIsOpen'
      BY <2>3 DEF TypeOK, RegisteredIsOpen, Closed
    <2>6. ServedOrClosed'
      BY <2>1, <2>3 DEF TypeOK, ServedOrClosed, Closed
    <2>7. WaitingIsNew'
      BY <2>1, <2>3 DEF TypeOK, WaitingIsNew, Closed
    <2> QED BY <2>4, <2>5, <2>6, <2>7
  <1>6. ASSUME NEW c \in Clients, RunUnregister(c) PROVE HubInv'
    <2>1. RemoveClient(c) /\ UNCHANGED <<buffer, drops, queue, writer>>
      BY <1>6 DEF RunUnregister
    <2>2. /\ handler' = [handler EXCEPT ![c] = "done"] /\ conn' = [conn EXCEPT ![c] = FALSE]
      BY <1>6 DEF RunUnregister
    <2>3. /\ registered' = registered \ {c}
          /\ closes' \in [Clients -> Nat]
          /\ \A d \in Clients : closes'[d] <= 1
          /\ \A d \in Clients \ {c} : closes'[d] = closes[d]
          /\ c \in registered => closes'[c] = 1
          /\ c \notin registered => closes'[c] = closes[c]
      BY <2>1, RemoveEffect
    <2>4. TypeOK' /\ ClosedOnce'
      BY <2>1, <2>2, <2>3 DEF TypeOK, ClosedOnce, HandlerStages
    <2>5. RegisteredIsOpen'
      BY <2>3 DEF TypeOK, RegisteredIsOpen, Closed
    <2>6. ServedOrClosed'
      BY <2>2, <2>3 DEF TypeOK, ServedOrClosed, Closed
    <2>7. WaitingIsNew'
      BY <2>2, <2>3 DEF TypeOK, WaitingIsNew, Closed
    <2> QED BY <2>4, <2>5, <2>6, <2>7
  <1>7. ASSUME NEW c \in Clients, Connect(c) PROVE HubInv'
    BY <1>7
    DEF Connect, TypeOK, ClosedOnce, RegisteredIsOpen, ServedOrClosed, WaitingIsNew, Closed, HandlerStages
  <1>8. ASSUME NEW c \in Clients, SendReady(c) PROVE HubInv'
    <2>1. buffer' \in [Clients -> 0..Capacity]
      BY <1>8, OfferType DEF SendReady
    <2> QED BY <1>8, <2>1
         DEF SendReady, TypeOK, ClosedOnce, RegisteredIsOpen, ServedOrClosed, WaitingIsNew, Closed, HandlerStages
  <1>9. ASSUME NEW c \in Clients, PanicReady(c) PROVE HubInv'
    BY <1>9
    DEF PanicReady, TypeOK, ClosedOnce, RegisteredIsOpen, ServedOrClosed, WaitingIsNew, Closed, HandlerStages
  <1>10. ASSUME NEW c \in Clients, Ping(c) PROVE HubInv'
    <2>1. buffer' \in [Clients -> 0..Capacity]
      BY <1>10, OfferType DEF Ping, TypeOK
    <2> QED BY <1>10, <2>1
         DEF Ping, TypeOK, ClosedOnce, RegisteredIsOpen, ServedOrClosed, WaitingIsNew, Closed, HandlerStages
  <1>11. ASSUME NEW c \in Clients, ReadError(c) PROVE HubInv'
    BY <1>11
    DEF ReadError, TypeOK, ClosedOnce, RegisteredIsOpen, ServedOrClosed, WaitingIsNew, Closed, HandlerStages
  <1>12. ASSUME NEW c \in Clients, Write(c) \/ WriteError(c) \/ WriteClose(c) PROVE HubInv'
    <2>1. buffer' \in [Clients -> 0..Capacity]
      BY <1>12, HubAssumption DEF Write, WriteError, WriteClose, TypeOK
    <2> QED BY <1>12, <2>1
         DEF Write, WriteError, WriteClose, TypeOK, ClosedOnce, RegisteredIsOpen, ServedOrClosed,
             WaitingIsNew, Closed
  <1>13. CASE UNCHANGED vars
    BY <1>13
    DEF vars, TypeOK, ClosedOnce, RegisteredIsOpen, ServedOrClosed, WaitingIsNew, Closed
  <1> QED
    BY <1>1, <1>2, <1>3, <1>4, <1>5, <1>6, <1>7, <1>8, <1>9, <1>10, <1>11, <1>12, <1>13 DEF Next

\* The inductive invariant holds in every behaviour.
THEOREM HubIsSafe == Spec => []HubInv
  BY InitHub, NextHub, PTL DEF Spec

\* Every variable keeps its type: in particular no channel holds more than its
\* capacity.
THEOREM HubTypes == Spec => []TypeOK
  BY HubIsSafe, PTL DEF HubInv

\* Hub.Run closes every channel at most once and no publisher and no broadcast sends on a
\* closed one: either would panic in the one goroutine nobody recovers.
THEOREM HubKeepsRunning == Spec => []HubSurvives
  BY HubIsSafe, PTL DEF HubInv, HubSurvives

\* The hub never forgets a connection that is served.
THEOREM NobodyForgotten == Spec => []ServedOrClosed
  BY HubIsSafe, PTL DEF HubInv
=============================================================================
