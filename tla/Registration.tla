----------------------------- MODULE Registration -----------------------------
(***************************************************************************)
(* AuthService.Register and the invitation codes a registration may use    *)
(* up, from their creation (GetOrCreateActiveInvitation) to the rewards of *)
(* both sides.                                                             *)
(*                                                                         *)
(* A registration is a sequence of commands to Redis and of transactions   *)
(* of their own, with nothing around them: every one is a step here, other *)
(* requests run in between, and a request may end after any of them with   *)
(* what it has done so far left standing.  How an address gets its proof   *)
(* is the module EmailCaptcha; here it may have one at any time.           *)
(*                                                                         *)
(* Operators named Faulty... are plausible bugs in the definition that     *)
(* follows them; they belong to no specification.                          *)
(***************************************************************************)
EXTENDS Integers, FiniteSets

CONSTANTS
    Emails,     \* normalized e-mail addresses
    Inviters,   \* users who invite
    NoInviter,  \* the inviter of an invitation that does not exist
    Codes,      \* rows of table invitations, told by their code
    NoCode,     \* a registration without an invitation
    Nobody,     \* an invitation without an invitee, a request without an address
    Procs       \* request goroutines

ASSUME RegistrationAssumption ==
    /\ IsFiniteSet(Codes)
    /\ NoInviter \notin Inviters /\ NoCode \notin Codes /\ Nobody \notin Emails

VARIABLES
    proof,      \* addresses with a key captcha:verified
    account,    \* how every address got into table users
    invitation, \* the rows of table invitations
    cached,     \* codes with a key in Redis, which names their inviter
    welcomed,   \* rewards of every invitee, told by the address
    paid,       \* rewards of every inviter
    req,        \* the request every goroutine is serving
    joined      \* history: registrations with a code that were answered with success

rewards == <<welcomed, paid, joined>>
vars == <<proof, account, invitation, cached, welcomed, paid, req, joined>>

Invitation == [status : {"none", "pending", "invited"}, inviter : Inviters \cup {NoInviter},
               invitee : Emails \cup {Nobody}]

\* A stage names the next call of the request: those of Register from
\* FindUserByEmail ("lookup") to RewardInviter, some of them only with a code; an
\* invitation that is inserted under the lock of its inviter ("insert"), and its
\* key ("cache").
CodeStages == {"inviter", "fill", "consume", "uncache", "payInvitee", "payInviter"}

NoRequest == [stage |-> "idle", email |-> Nobody, code |-> NoCode, inviter |-> NoInviter]

Request ==
    {NoRequest}
    \cup [stage : {"lookup", "create"}, email : Emails, code : Codes \cup {NoCode}, inviter : {NoInviter}]
    \cup [stage : CodeStages, email : Emails, code : Codes, inviter : {NoInviter}]
    \cup [stage : {"insert"}, email : {Nobody}, code : {NoCode}, inviter : Inviters]
    \cup [stage : {"cache"}, email : {Nobody}, code : Codes, inviter : Inviters \cup {NoInviter}]

Init ==
    /\ proof = {} /\ cached = {} /\ joined = {}
    /\ account = [e \in Emails |-> "none"]
    /\ invitation = [c \in Codes |-> [status |-> "none", inviter |-> NoInviter, invitee |-> Nobody]]
    /\ welcomed = [e \in Emails |-> 0]
    /\ paid = [i \in Inviters |-> 0]
    /\ req = [p \in Procs |-> NoRequest]

GoOn(p, stage) == req' = [req EXCEPT ![p].stage = stage]

Answer(p) == req' = [req EXCEPT ![p] = NoRequest]

-----------------------------------------------------------------------------
\* The addresses

\* A captcha was verified.
Prove(e) ==
    /\ proof' = proof \cup {e}
    /\ UNCHANGED <<account, invitation, cached, rewards, req>>

ExpireProof(e) ==
    /\ e \in proof
    /\ proof' = proof \ {e}
    /\ UNCHANGED <<account, invitation, cached, rewards, req>>

\* AuthService.BindEmail: a user without an address takes one that is free.
BindEmail(e) ==
    /\ account[e] = "none"
    /\ account' = [account EXCEPT ![e] = "bound"]
    /\ UNCHANGED <<proof, invitation, cached, rewards, req>>

\* Two requests of one user had both read his row without an address: the
\* second one takes e and gives up f.
RebindEmail(e, f) ==
    /\ account[e] = "none" /\ account[f] = "bound"
    /\ account' = [account EXCEPT ![e] = "bound", ![f] = "none"]
    /\ UNCHANGED <<proof, invitation, cached, rewards, req>>

-----------------------------------------------------------------------------
\* Register

\* The proof is read and deleted in one command.
ConsumeProof(p, e, c) ==
    /\ req[p].stage = "idle"
    /\ e \in proof
    /\ c # NoCode => invitation[c].status # "none"
    /\ proof' = proof \ {e}
    /\ req' = [req EXCEPT ![p] = [NoRequest EXCEPT !.stage = "lookup", !.email = e, !.code = c]]
    /\ UNCHANGED <<account, invitation, cached, rewards>>

\* An empty code is looked up like any other: RegistrationSound.
FaultyLookup(p) ==
    /\ req[p].stage = "lookup"
    /\ IF account[req[p].email] # "none" THEN Answer(p) ELSE GoOn(p, "inviter")
    /\ UNCHANGED <<proof, account, invitation, cached, rewards>>

\* FindUserByEmail: an address that is taken is refused.
Lookup(p) ==
    /\ req[p].stage = "lookup"
    /\ IF account[req[p].email] # "none" THEN Answer(p)
       ELSE GoOn(p, IF req[p].code = NoCode THEN "create" ELSE "inviter")
    /\ UNCHANGED <<proof, account, invitation, cached, rewards>>

\* FindInviterIDByCode: the key in Redis, or else a pending row.
FindInviter(p) ==
    LET c == req[p].code IN
    /\ req[p].stage = "inviter"
    /\ \/ c \in cached /\ GoOn(p, "create")
       \/ c \notin cached /\ invitation[c].status = "pending" /\ GoOn(p, "fill")
       \/ c \notin cached /\ invitation[c].status # "pending" /\ Answer(p)
    /\ UNCHANGED <<proof, account, invitation, cached, rewards>>

\* An error of this call is ignored, and of the DEL after a code is used up.
FillCache(p) ==
    /\ req[p].stage = "fill"
    /\ cached' \in {cached, cached \cup {req[p].code}}
    /\ GoOn(p, "create")
    /\ UNCHANGED <<proof, account, invitation, rewards>>

\* The unique index refuses an address that was taken in the meantime.
CreateUser(p) ==
    LET e == req[p].email IN
    /\ req[p].stage = "create"
    /\ IF account[e] # "none"
       THEN Answer(p) /\ UNCHANGED account
       ELSE /\ account' = [account EXCEPT ![e] = "registered"]
            /\ IF req[p].code = NoCode THEN Answer(p) ELSE GoOn(p, "consume")
    /\ UNCHANGED <<proof, invitation, cached, rewards>>

\* The UPDATE does not ask for the status again: RewardsEarned.
FaultyConsumeInvitation(p) ==
    LET c == req[p].code IN
    /\ req[p].stage = "consume"
    /\ invitation' = [invitation EXCEPT ![c].status = "invited", ![c].invitee = req[p].email]
    /\ GoOn(p, "uncache")
    /\ UNCHANGED <<proof, account, cached, rewards>>

\* A code that is no longer pending is an error, and the account stays.
ConsumeInvitation(p) ==
    LET c == req[p].code IN
    /\ req[p].stage = "consume"
    /\ IF invitation[c].status = "pending"
       THEN /\ invitation' = [invitation EXCEPT ![c].status = "invited", ![c].invitee = req[p].email]
            /\ GoOn(p, "uncache")
       ELSE Answer(p) /\ UNCHANGED invitation
    /\ UNCHANGED <<proof, account, cached, rewards>>

Uncache(p) ==
    /\ req[p].stage = "uncache"
    /\ cached' \in {cached, cached \ {req[p].code}}
    /\ GoOn(p, "payInvitee")
    /\ UNCHANGED <<proof, account, invitation, rewards>>

\* An error of the reward is logged and the next one given: SuccessIsComplete.
FaultyRewardInvitee(p) ==
    /\ req[p].stage = "payInvitee"
    /\ welcomed' \in {welcomed, [welcomed EXCEPT ![req[p].email] = @ + 1]}
    /\ GoOn(p, "payInviter")
    /\ UNCHANGED <<proof, account, invitation, cached, paid, joined>>

RewardInvitee(p) ==
    /\ req[p].stage = "payInvitee"
    /\ welcomed' = [welcomed EXCEPT ![req[p].email] = @ + 1]
    /\ GoOn(p, "payInviter")
    /\ UNCHANGED <<proof, account, invitation, cached, paid, joined>>

RewardInviter(p) ==
    /\ req[p].stage = "payInviter"
    /\ paid' = [paid EXCEPT ![invitation[req[p].code].inviter] = @ + 1]
    /\ joined' = joined \cup {<<req[p].email, req[p].code>>}
    /\ Answer(p)
    /\ UNCHANGED <<proof, account, invitation, cached, welcomed>>

-----------------------------------------------------------------------------
\* GetOrCreateActiveInvitation

\* The invitations of i that wait for an invitee.
PendingOf(i) == {c \in Codes : invitation[c].inviter = i /\ invitation[c].status = "pending"}

\* Nobody takes the lock: OnePendingInvitation.
FaultyBeginInvite(p, i) ==
    /\ req[p].stage = "idle"
    /\ \/ /\ PendingOf(i) = {}
          /\ req' = [req EXCEPT ![p] = [NoRequest EXCEPT !.stage = "insert", !.inviter = i]]
       \/ \E c \in PendingOf(i) :
            req' = [req EXCEPT ![p] = [NoRequest EXCEPT !.stage = "cache", !.code = c]]
    /\ UNCHANGED <<proof, account, invitation, cached, rewards>>

\* The advisory lock of the inviter is free; it is held until an invitation is
\* inserted, if there is none.
BeginInvite(p, i) ==
    /\ req[p].stage = "idle"
    /\ \A q \in Procs : ~(req[q].stage = "insert" /\ req[q].inviter = i)
    /\ \/ /\ PendingOf(i) = {}
          /\ req' = [req EXCEPT ![p] = [NoRequest EXCEPT !.stage = "insert", !.inviter = i]]
       \/ \E c \in PendingOf(i) :
            req' = [req EXCEPT ![p] = [NoRequest EXCEPT !.stage = "cache", !.code = c]]
    /\ UNCHANGED <<proof, account, invitation, cached, rewards>>

\* The code is one that no invitation has.
InsertInvitation(p, c) ==
    /\ req[p].stage = "insert"
    /\ invitation[c].status = "none"
    /\ invitation' = [invitation EXCEPT ![c] = [status |-> "pending", inviter |-> req[p].inviter, invitee |-> Nobody]]
    /\ req' = [req EXCEPT ![p].stage = "cache", ![p].code = c]
    /\ UNCHANGED <<proof, account, cached, rewards>>

\* After the commit: the code may have been used up by now.
CacheInvitation(p) ==
    /\ req[p].stage = "cache"
    /\ cached' = cached \cup {req[p].code}
    /\ Answer(p)
    /\ UNCHANGED <<proof, account, invitation, rewards>>

-----------------------------------------------------------------------------
\* A call fails or the process ends; what was done stays done.
Fail(p) ==
    /\ req[p].stage # "idle"
    /\ Answer(p)
    /\ UNCHANGED <<proof, account, invitation, cached, rewards>>

Next ==
    \/ \E e \in Emails : Prove(e) \/ ExpireProof(e) \/ BindEmail(e)
    \/ \E e, f \in Emails : RebindEmail(e, f)
    \/ \E p \in Procs, e \in Emails, c \in Codes \cup {NoCode} : ConsumeProof(p, e, c)
    \/ \E p \in Procs, i \in Inviters : BeginInvite(p, i)
    \/ \E p \in Procs, c \in Codes : InsertInvitation(p, c)
    \/ \E p \in Procs :
            \/ Lookup(p) \/ FindInviter(p) \/ FillCache(p) \/ CreateUser(p)
            \/ ConsumeInvitation(p) \/ Uncache(p) \/ RewardInvitee(p) \/ RewardInviter(p)
            \/ CacheInvitation(p)
            \/ Fail(p)

Spec == Init /\ [][Next]_vars

-----------------------------------------------------------------------------
\* Properties

\* Every variable has its type.
TypeOK ==
    /\ proof \subseteq Emails /\ cached \subseteq Codes
    /\ account \in [Emails -> {"none", "registered", "bound"}]
    /\ invitation \in [Codes -> Invitation]
    /\ welcomed \in [Emails -> Nat] /\ paid \in [Inviters -> Nat]
    /\ req \in [Procs -> Request]
    /\ joined \subseteq Emails \X Codes

\* The invitations of i that were used up.
UsedOf(i) == {c \in Codes : invitation[c].inviter = i /\ invitation[c].status = "invited"}

\* Two registrations may race for one code and a request may end between the two
\* rewards, but an inviter is paid at most once for every invitation that was used
\* up, and an invitee at most once, as the invitee of some invitation.
RewardsEarned ==
    /\ \A i \in Inviters : paid[i] <= Cardinality(UsedOf(i))
    /\ \A e \in Emails : welcomed[e] <= Cardinality({c \in Codes : invitation[c].invitee = e})

\* A registration with a code that is answered with success is complete: the
\* account is there, the code is used up by it and its reward was given.
SuccessIsComplete ==
    \A j \in joined :
        /\ account[j[1]] = "registered"
        /\ invitation[j[2]].status = "invited" /\ invitation[j[2]].invitee = j[1]
        /\ welcomed[j[1]] = 1

\* A user who asks for an invitation code in several requests at once has one
\* pending invitation: no code is handed out and then replaced by another.
OnePendingInvitation == \A i \in Inviters : Cardinality(PendingOf(i)) <= 1

=============================================================================
