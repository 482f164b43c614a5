---------------------------- MODULE EmailCaptcha ----------------------------
(***************************************************************************)
(* Captchas sent by mail (AuthService.SendCaptcha), their verification     *)
(* (VerifyCaptcha, alone or as the first half of BindEmail and ForgetPwd)  *)
(* and the proof it leaves for Register.                                   *)
(*                                                                         *)
(* All of this is keys of Redis.  Every command is a step here and other   *)
(* requests run in between; a request may end after any of them, with what *)
(* it has written left standing.  Captchas are numbered in the order they  *)
(* are mailed.                                                             *)
(*                                                                         *)
(* Operators named Faulty... are plausible bugs in the definition that     *)
(* follows them; they belong to no specification.                          *)
(***************************************************************************)
EXTENDS Integers, FiniteSets

CONSTANTS
    Emails,     \* normalized e-mail addresses
    Nobody,     \* the address of a request that has none
    Procs,      \* request goroutines
    MaxMails    \* bound on the captchas that are mailed

ASSUME CaptchaAssumption ==
    /\ IsFiniteSet(Procs)
    /\ Nobody \notin Emails
    /\ MaxMails \in Nat

VARIABLES
    mails,      \* captchas mailed so far
    repeat,     \* addresses with a key captcha:repeat, which lasts 60 seconds
    captcha,    \* the captcha stored for every address, 0 for none
    proof,      \* addresses with a key captcha:verified
    req,        \* the request every goroutine is serving
    recent,     \* history: captchas of an address counted while the 60 seconds last
    uses        \* history: the times a captcha has proved its address and its deletion has not failed

vars == <<mails, repeat, captcha, proof, req, recent, uses>>

Captchas == 1..MaxMails

\* A stage names the next command of the request: the two keys of a captcha that
\* was mailed, the proof of a captcha that was right, the deletion of the captcha.
Stages == {"mailed", "store", "prove", "forget"}

NoRequest == [stage |-> "idle", email |-> Nobody, captcha |-> 0]

Request == {NoRequest} \cup [stage : Stages, email : Emails, captcha : Captchas]

Init ==
    /\ mails = 0 /\ repeat = {} /\ proof = {}
    /\ captcha = [e \in Emails |-> 0]
    /\ req = [p \in Procs |-> NoRequest]
    /\ recent = [e \in Emails |-> 0]
    /\ uses = [n \in Captchas |-> 0]

Start(p, stage, e, n) == req' = [req EXCEPT ![p] = [stage |-> stage, email |-> e, captcha |-> n]]

GoOn(p, stage) == req' = [req EXCEPT ![p].stage = stage]

Answer(p) == req' = [req EXCEPT ![p] = NoRequest]

-----------------------------------------------------------------------------
\* SendCaptcha.  Who may ask for one depends on the purpose: an address that is
\* taken for a password, one that is free for a registration.  Here: everybody.

\* The 60 seconds are not asked about: MailsBounded.
FaultyBeginCaptcha(p, e) ==
    /\ req[p].stage = "idle"
    /\ mails < MaxMails
    /\ mails' = mails + 1
    /\ Start(p, "mailed", e, mails + 1)
    /\ UNCHANGED <<repeat, captcha, proof, recent, uses>>

\* The key of the 60 seconds is not there, and the mail goes out.
BeginCaptcha(p, e) ==
    /\ req[p].stage = "idle"
    /\ e \notin repeat
    /\ mails < MaxMails
    /\ mails' = mails + 1
    /\ Start(p, "mailed", e, mails + 1)
    /\ UNCHANGED <<repeat, captcha, proof, recent, uses>>

SetRepeat(p) ==
    LET e == req[p].email IN
    /\ req[p].stage = "mailed"
    /\ repeat' = repeat \cup {e}
    /\ recent' = [recent EXCEPT ![e] = @ + 1]
    /\ GoOn(p, "store")
    /\ UNCHANGED <<mails, captcha, proof, uses>>

\* The captcha replaces the one before it.
StoreCaptcha(p) ==
    /\ req[p].stage = "store"
    /\ captcha' = [captcha EXCEPT ![req[p].email] = req[p].captcha]
    /\ Answer(p)
    /\ UNCHANGED <<mails, repeat, proof, recent, uses>>

\* The 60 seconds of an address are over.
ExpireRepeat(e) ==
    /\ e \in repeat
    /\ repeat' = repeat \ {e}
    /\ recent' = [recent EXCEPT ![e] = 0]
    /\ UNCHANGED <<mails, captcha, proof, req, uses>>

\* The captcha or the proof of an address expires.
ExpireKey(e) ==
    /\ \/ captcha[e] # 0 /\ captcha' = [captcha EXCEPT ![e] = 0] /\ UNCHANGED proof
       \/ e \in proof /\ proof' = proof \ {e} /\ UNCHANGED captcha
    /\ UNCHANGED <<mails, repeat, req, recent, uses>>

-----------------------------------------------------------------------------
\* VerifyCaptcha

\* A captcha that is missing is taken for an empty one: TypeOK.
FaultyBeginVerify(p, e) ==
    /\ req[p].stage = "idle"
    /\ Start(p, "prove", e, captcha[e])
    /\ UNCHANGED <<mails, repeat, captcha, proof, recent, uses>>

\* The captcha typed in is the one stored.
BeginVerify(p, e) ==
    /\ req[p].stage = "idle"
    /\ captcha[e] # 0
    /\ Start(p, "prove", e, captcha[e])
    /\ UNCHANGED <<mails, repeat, captcha, proof, recent, uses>>

SetProof(p) ==
    LET n == req[p].captcha IN
    /\ req[p].stage = "prove"
    /\ proof' = proof \cup {req[p].email}
    /\ uses' = [uses EXCEPT ![n] = @ + 1]
    /\ GoOn(p, "forget")
    /\ UNCHANGED <<mails, repeat, captcha, recent>>

\* The captcha stays until it expires: CaptchaUsesBounded.
FaultyDeleteCaptcha(p) ==
    /\ req[p].stage = "forget"
    /\ Answer(p)
    /\ UNCHANGED <<mails, repeat, captcha, proof, recent, uses>>

\* Whatever captcha the address has now is deleted.
DeleteCaptcha(p) ==
    /\ req[p].stage = "forget"
    /\ captcha' = [captcha EXCEPT ![req[p].email] = 0]
    /\ Answer(p)
    /\ UNCHANGED <<mails, repeat, proof, recent, uses>>

\* The deletion fails: an error, although the address is proved.
KeepCaptcha(p) ==
    LET n == req[p].captcha IN
    /\ req[p].stage = "forget"
    /\ uses' = [uses EXCEPT ![n] = @ - 1]
    /\ Answer(p)
    /\ UNCHANGED <<mails, repeat, captcha, proof, recent>>

\* Register reads and deletes the proof in one command.
ConsumeProof(e) ==
    /\ e \in proof
    /\ proof' = proof \ {e}
    /\ UNCHANGED <<mails, repeat, captcha, req, recent, uses>>

\* Another command fails or the process ends.
Fail(p) ==
    /\ req[p].stage \in {"mailed", "store", "prove"}
    /\ Answer(p)
    /\ UNCHANGED <<mails, repeat, captcha, proof, recent, uses>>

Next ==
    \/ \E e \in Emails : ExpireRepeat(e) \/ ExpireKey(e) \/ ConsumeProof(e)
    \/ \E p \in Procs, e \in Emails : BeginCaptcha(p, e) \/ BeginVerify(p, e)
    \/ \E p \in Procs : \/ SetRepeat(p) \/ StoreCaptcha(p)
                        \/ SetProof(p) \/ DeleteCaptcha(p) \/ KeepCaptcha(p)
                        \/ Fail(p)

Spec == Init /\ [][Next]_vars

-----------------------------------------------------------------------------
\* Properties

\* Every variable has its type.
TypeOK ==
    /\ mails \in 0..MaxMails
    /\ repeat \subseteq Emails /\ proof \subseteq Emails
    /\ captcha \in [Emails -> 0..MaxMails]
    /\ req \in [Procs -> Request]
    /\ recent \in [Emails -> Nat]
    /\ uses \in [Captchas -> Nat]

\* What the 60 seconds promise: no second captcha is mailed while the key of the
\* first one lasts (src/internal/service/auth_service.go:80, :103).
OneMailPerMinute == \A e \in Emails : recent[e] <= 1

\* The requests that have found no key of the 60 seconds and have not set it yet.
Mailing(e) == {p \in Procs : req[p].stage = "mailed" /\ req[p].email = e}

\* The key is looked up before the mail and set after it, so requests that
\* overlap all mail a captcha: while the key lasts, no more of them than there
\* are goroutines.
MailsBounded == \A e \in Emails : recent[e] + Cardinality(Mailing(e)) <= Cardinality(Procs)

\* The captcha is read and deleted in two commands with the proof in between, so
\* it may prove its address several times: at most once for every goroutine,
\* not counting the times its deletion failed.
CaptchaUsesBounded == \A n \in Captchas : uses[n] <= Cardinality(Procs)

=============================================================================
