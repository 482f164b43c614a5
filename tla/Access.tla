--------------------------------- MODULE Access ---------------------------------
(***************************************************************************)
(* Who may use the service: sessions and their tokens, the bans that       *)
(* administrators and the system set, and the violations that bring the    *)
(* latter about.                                                           *)
(*                                                                         *)
(* Every request passes an access check that reads the row of its user     *)
(* once.  What happens to that row later is not noticed: the request goes  *)
(* on, a lapsed ban is lifted by an update that asks nothing, a violation  *)
(* adds one to the count its transaction read without a lock, and an       *)
(* administrator saves the whole row as it was read.  Tokens are refused   *)
(* by an entry in Redis, looked up and set in two commands.                *)
(***************************************************************************)
EXTENDS FiniteSets, Integers

CONSTANTS
    Accounts,    \* users
    Sessions,    \* pairs of an access and a refresh token (bound: as many as are given out)
    Callers,     \* request goroutines
    MaxRecorded, \* violations recorded of one user
    AbuseLimit,  \* calls of one kind of abuse that are tolerated in a window
    Absent       \* NULL: no session, no user

ASSUME AccessAssumption ==
    /\ IsFiniteSet(Callers)
    /\ MaxRecorded \in Nat /\ AbuseLimit \in Nat
    /\ Absent \notin Accounts \cup Sessions

VARIABLES
    account,  \* of table users: status with ban_until, ban_source, violation_count
    recorded, \* rows of user_violations
    abuse,    \* the abuse counter of a user in Redis, and whether it has a time to live
    session,  \* tokens: whose, the two blacklist entries, and the pairs the refresh token gave
    caller    \* the request every goroutine is serving

accessVars == <<account, recorded, abuse, session, caller>>

Bans == {"none", "running", "lapsed", "forever"}

Account == [ban : Bans, by : {"none", "system", "admin"}, count : 0 .. MaxRecorded]

Active(n) == [ban |-> "none", by |-> "none", count |-> n]

\* row: what the request knows of its user, from the access check until it reads again.
Caller == [stage : {"idle", "asked", "lift", "in", "read", "write", "save"},
           op : {"none", "work", "login", "refresh", "ban", "unban", "update"},
           user : Accounts \cup {Absent}, session : Sessions \cup {Absent}, row : Account]

Resting == [stage |-> "idle", op |-> "none", user |-> Absent, session |-> Absent, row |-> Active(0)]

AccessInit ==
    /\ account = [u \in Accounts |-> Active(0)]
    /\ recorded = [u \in Accounts |-> 0]
    /\ abuse = [u \in Accounts |-> [hits |-> 0, timed |-> FALSE]]
    /\ session = [s \in Sessions |-> [user |-> Absent, out |-> FALSE, spent |-> FALSE, pairs |-> 0]]
    /\ caller = [c \in Callers |-> Resting]

\* Every return of a request, also the failing ones before its next write.
Return(c) == caller' = [caller EXCEPT ![c] = Resting]

-----------------------------------------------------------------------------
\* The access check

\* A ban of the system ends although its time has not come: BansExplained.
FaultyLapsed(row) == row.ban \in {"running", "lapsed"} /\ row.by = "system"

Lapsed(row) == row.ban = "lapsed" /\ row.by = "system"

\* EnforceUserAccess up to its transaction; a banned user is refused.
Enforce(c, op, u, s) ==
    LET row == account[u] IN
    /\ row.ban = "none" \/ Lapsed(row)
    /\ caller' = [caller EXCEPT ![c] =
                     [stage |-> IF Lapsed(row) THEN "lift" ELSE "in",
                      op |-> op, user |-> u, session |-> s, row |-> row]]
    /\ UNCHANGED <<account, recorded, abuse, session>>

\* The transaction of EnforceUserAccess: four columns of the row, whatever they hold now.
Lift(c) ==
    LET u == caller[c].user IN
    /\ caller[c].stage = "lift"
    /\ account' = [account EXCEPT ![u] = Active(@.count)]
    /\ caller' = [caller EXCEPT ![c].stage = "in", ![c].row = Active(@.count)]
    /\ UNCHANGED <<recorded, abuse, session>>

\* A request with an access token; it was not logged out when it was looked up.
Authenticate(c, s) ==
    /\ caller[c].stage = "idle"
    /\ session[s].user # Absent /\ ~session[s].out
    /\ Enforce(c, "work", session[s].user, s)

FinishWork(c) ==
    /\ caller[c].stage = "in" /\ caller[c].op = "work"
    /\ Return(c)
    /\ UNCHANGED <<account, recorded, abuse, session>>

\* A request that fails before its next write: a wrong password, Redis, PostgreSQL.
Fail(c) ==
    /\ caller[c].stage \notin {"idle", "in"} \/ caller[c].op \in {"login", "refresh"}
    /\ Return(c)
    /\ UNCHANGED <<account, recorded, abuse, session>>

-----------------------------------------------------------------------------
\* Sessions

Login(c, u) ==
    /\ caller[c].stage = "idle"
    /\ Enforce(c, "login", u, Absent)

\* GenerateTokenPair: a session that was not given out before.
Issued(s, u, given) ==
    /\ given[s].user = Absent
    /\ session' = [given EXCEPT ![s].user = u]

FinishLogin(c, s) ==
    /\ caller[c].stage = "in" /\ caller[c].op = "login"
    /\ Issued(s, caller[c].user, session)
    /\ Return(c)
    /\ UNCHANGED <<account, recorded, abuse>>

\* A refresh token is taken without a look at the blacklist: AccessSound.
FaultyRefreshable(s) == session[s].user # Absent

Refreshable(s) == session[s].user # Absent /\ ~session[s].spent

\* Refresh looks the token up in the blacklist.
BeginRefresh(c, s) ==
    /\ caller[c].stage = "idle"
    /\ Refreshable(s)
    /\ caller' = [caller EXCEPT ![c] =
                     [Resting EXCEPT !.stage = "asked", !.op = "refresh", !.user = session[s].user, !.session = s]]
    /\ UNCHANGED <<account, recorded, abuse, session>>

CheckRefresh(c) ==
    /\ caller[c].stage = "asked"
    /\ Enforce(c, "refresh", caller[c].user, caller[c].session)

\* The token goes on the blacklist and the next pair is made from its claims.
FinishRefresh(c, s) ==
    LET old == caller[c].session IN
    /\ caller[c].stage = "in" /\ caller[c].op = "refresh"
    /\ Issued(s, caller[c].user, [session EXCEPT ![old].spent = TRUE, ![old].pairs = @ + 1])
    /\ Return(c)
    /\ UNCHANGED <<account, recorded, abuse>>

\* Logout refuses the access token of the session; its refresh token stays good.
Logout(c) ==
    /\ caller[c].stage = "in" /\ caller[c].op = "work"
    /\ session' = [session EXCEPT ![caller[c].session].out = TRUE]
    /\ Return(c)
    /\ UNCHANGED <<account, recorded, abuse>>

-----------------------------------------------------------------------------
\* Abuse

\* RateLimit: INCR and TTL in one transaction, then EXPIRE of a counter that has no time to
\* live, which may fail and is made up for by the next call.  Counters stop above the limit.
Counted(u) == IF abuse[u].hits > AbuseLimit THEN abuse[u].hits ELSE abuse[u].hits + 1

CountAbuse(c) ==
    LET u == caller[c].user
        n == Counted(u) IN
    /\ caller[c].stage = "in" /\ caller[c].op = "work"
    /\ \/ /\ abuse' = [abuse EXCEPT ![u] = [hits |-> n, timed |-> TRUE]]
          /\ IF n <= AbuseLimit THEN Return(c) ELSE caller' = [caller EXCEPT ![c].stage = "read"]
       \/ /\ ~abuse[u].timed
          /\ abuse' = [abuse EXCEPT ![u].hits = n]
          /\ Return(c)
    /\ UNCHANGED <<account, recorded, session>>

EndWindow(u) ==
    /\ abuse[u].timed
    /\ abuse' = [abuse EXCEPT ![u] = [hits |-> 0, timed |-> FALSE]]
    /\ UNCHANGED <<account, recorded, session, caller>>

\* RecordViolation reads the row in its transaction, without a lock.
ReadViolation(c) ==
    LET u == caller[c].user IN
    /\ caller[c].stage = "read"
    /\ recorded[u] + Cardinality({d \in Callers : caller[d].stage = "write" /\ caller[d].user = u}) < MaxRecorded
    /\ caller' = [caller EXCEPT ![c].stage = "write", ![c].row = account[u]]
    /\ UNCHANGED <<account, recorded, abuse, session>>

\* The second violation is the last: AccessSound.
FaultyPenalty(n) == [ban |-> IF n >= 2 THEN "forever" ELSE "running", by |-> "system", count |-> n]

\* violationBanDuration: a day, a week, for ever.  The mode is "enforce".
Penalty(n) == [ban |-> IF n >= 3 THEN "forever" ELSE "running", by |-> "system", count |-> n]

WriteViolation(c) ==
    LET u == caller[c].user IN
    /\ caller[c].stage = "write"
    /\ recorded' = [recorded EXCEPT ![u] = @ + 1]
    /\ account' = [account EXCEPT ![u] = Penalty(caller[c].row.count + 1)]
    /\ Return(c)
    /\ UNCHANGED <<abuse, session>>

LetBanLapse(u) ==
    /\ account[u].ban = "running"
    /\ account' = [account EXCEPT ![u].ban = "lapsed"]
    /\ UNCHANGED <<recorded, abuse, session, caller>>

-----------------------------------------------------------------------------
\* Administrators

\* withWriteTx: the row is read without a lock and saved as a whole.
BeginChange(c, u, op) ==
    /\ caller[c].stage = "idle"
    /\ caller' = [caller EXCEPT ![c] =
                     [Resting EXCEPT !.stage = "save", !.op = op, !.user = u, !.row = account[u]]]
    /\ UNCHANGED <<account, recorded, abuse, session>>

BanUser(c, u) == account[u].ban = "none" /\ BeginChange(c, u, "ban")

UnbanUser(c, u) == account[u].ban # "none" /\ BeginChange(c, u, "unban")

\* UpdateUser writes an address, a password or a name.
UpdateUser(c, u) == BeginChange(c, u, "update")

ChangedRow(op, row) ==
    CASE op = "ban" -> [row EXCEPT !.ban = "forever", !.by = "admin"]
      [] op = "unban" -> Active(row.count)
      [] op = "update" -> row

SaveUser(c) ==
    /\ caller[c].stage = "save"
    /\ account' = [account EXCEPT ![caller[c].user] = ChangedRow(caller[c].op, caller[c].row)]
    /\ Return(c)
    /\ UNCHANGED <<recorded, abuse, session>>

-----------------------------------------------------------------------------
RequestsNext ==
    \/ \E c \in Callers, s \in Sessions : Authenticate(c, s)
    \/ \E c \in Callers : Lift(c) \/ FinishWork(c) \/ Fail(c)
    \/ \E c \in Callers, u \in Accounts : Login(c, u)
    \/ \E c \in Callers, s \in Sessions : FinishLogin(c, s)

TokensNext ==
    \/ \E c \in Callers, s \in Sessions : BeginRefresh(c, s) \/ FinishRefresh(c, s)
    \/ \E c \in Callers : CheckRefresh(c) \/ Logout(c)

AbuseNext ==
    \/ \E c \in Callers : CountAbuse(c) \/ ReadViolation(c) \/ WriteViolation(c)
    \/ \E u \in Accounts : EndWindow(u) \/ LetBanLapse(u)

UsersNext ==
    \/ \E c \in Callers, u \in Accounts : BanUser(c, u) \/ UnbanUser(c, u) \/ UpdateUser(c, u)
    \/ \E c \in Callers : SaveUser(c)

AccessNext == RequestsNext \/ TokensNext \/ AbuseNext \/ UsersNext

AccessSpec == AccessInit /\ [][AccessNext]_accessVars

-----------------------------------------------------------------------------
\* Properties

AccessTypeOK ==
    /\ account \in [Accounts -> Account]
    /\ recorded \in [Accounts -> 0 .. MaxRecorded]
    /\ abuse \in [Accounts -> [hits : 0 .. AbuseLimit + 1, timed : BOOLEAN]]
    /\ session \in [Sessions -> [user : Accounts \cup {Absent}, out : BOOLEAN, spent : BOOLEAN,
                                 pairs : 0 .. Cardinality(Callers)]]
    /\ caller \in [Callers -> Caller]

\* The system bans nobody for ever who has not three recorded violations, whatever row an
\* administrator saves and however violations overlap.
PenaltyEarned ==
    \A u \in Accounts : account[u].ban = "forever" /\ account[u].by = "system" => recorded[u] >= 3

\* Looking a refresh token up and refusing it are two commands: it gives no more pairs than
\* there were requests at work with it at once.
PairsBounded ==
    \A s \in Sessions :
        session[s].pairs + Cardinality({c \in Callers : caller[c].op = "refresh" /\ caller[c].session = s})
            <= Cardinality(Callers)

\* A ban that holds is taken back or shortened.
Eased(u) ==
    \/ account[u].ban \in {"running", "forever"} /\ account'[u].ban = "none"
    \/ account[u].ban = "forever" /\ account'[u].ban = "running"

\* Somebody at work in this step.
Acting(c, u) == caller[c].user = u /\ caller'[c] # caller[c]

\* Somebody at work in this step who writes a row it read before another wrote it.
Stale(u) == \E c \in Callers : Acting(c, u) /\ caller[c].row # account[u]

\* A ban that holds ends only when an administrator lifts it, and is shortened only by a
\* violation of a request that was let in before; the count of violations is that of their
\* rows.  What breaks either wrote a row it had read before another did.
BansExplained ==
    [][\A u \in Accounts :
          /\ Eased(u) => \/ Stale(u)
                         \/ \E c \in Callers : /\ Acting(c, u)
                                               /\ \/ caller[c].op = "unban"
                                                  \/ caller[c].stage = "write" /\ account'[u].ban # "none"
          /\ account[u].count = recorded[u] => account'[u].count = recorded'[u] \/ Stale(u)]_accessVars
=============================================================================
