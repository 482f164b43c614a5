-------------------------- MODULE Registration_proofs --------------------------
(***************************************************************************)
(* Proofs about Registration and Bindings, for any addresses, inviters,    *)
(* identities and requests and any finite set of invitation codes.         *)
(***************************************************************************)
EXTENDS MCRegistration, FiniteSetTheorems, TLAPS

\* The stages of a registration whose account is made, and of one that has used up its code.
Registered == {"consume", "uncache", "payInvitee", "payInviter"}
Used == {"uncache", "payInvitee", "payInviter"}

\* An address is registered once, by one request, which gives one reward to it.
RegisteredOnce ==
    /\ \A p \in Procs :
        req[p].stage \in Registered =>
            /\ account[req[p].email] = "registered"
            /\ welcomed[req[p].email] = IF req[p].stage = "payInviter" THEN 1 ELSE 0
    /\ \A p, q \in Procs :
        /\ req[p].stage \in Registered /\ req[q].stage \in Registered
        /\ req[p].email = req[q].email
        => p = q

WelcomedOnce ==
    \A e \in Emails :
        /\ welcomed[e] \in {0, 1}
        /\ account[e] # "registered" => welcomed[e] = 0
        /\ welcomed[e] = 1 => \E c \in Codes : invitation[c].invitee = e

\* A code that is there has an inviter, and one that a registration has used up is its own.
CodesUsed ==
    /\ \A c \in Codes :
        /\ invitation[c].status # "none" => invitation[c].inviter \in Inviters
        /\ invitation[c].status # "invited" => invitation[c].invitee = Nobody
    /\ \A p \in Procs :
        req[p].stage \in Used =>
            /\ invitation[req[p].code].status = "invited"
            /\ invitation[req[p].code].invitee = req[p].email

\* The invitations of i that were used up, and whose registration is over.
Settled(i) ==
    {c \in UsedOf(i) : \A p \in Procs : req[p].stage \in Used => req[p].code # c}

PaidOnce == \A i \in Inviters : paid[i] <= Cardinality(Settled(i))

\* The lock of an inviter: one request inserts, and then there is nothing that waits.
OneInserts ==
    /\ \A p \in Procs : req[p].stage = "insert" => PendingOf(req[p].inviter) = {}
    /\ \A p, q \in Procs :
        req[p].stage = "insert" /\ req[q].stage = "insert" /\ req[p].inviter = req[q].inviter => p = q
    /\ \A i \in Inviters : \A c, d \in PendingOf(i) : c = d

RegistrationInv ==
    /\ TypeOK
    /\ RegisteredOnce /\ WelcomedOnce /\ CodesUsed /\ PaidOnce /\ OneInserts /\ SuccessIsComplete

-----------------------------------------------------------------------------
\* Types

\* Only request p changes.
Only(p) == \A q \in Procs \ {p} : req'[q] = req[q]

\* What a request of some stage has.
LEMMA RequestFields ==
    ASSUME TypeOK, NEW p \in Procs
    PROVE  /\ req[p] \in Request
           /\ req[p].stage \in {"lookup", "create"} \cup CodeStages =>
                req[p].email \in Emails /\ req[p].inviter = NoInviter
           /\ req[p].stage \in CodeStages \cup {"cache"} => req[p].code \in Codes
           /\ req[p].stage \in {"lookup", "create"} => req[p].code \in Codes \cup {NoCode}
           /\ req[p].stage = "insert" => req[p].inviter \in Inviters /\ req[p].email = Nobody
           /\ req[p].stage = "idle" => req[p] = NoRequest
  <1>1. req[p] \in Request
    BY DEF TypeOK
  <1>2. CASE req[p] = NoRequest
    BY <1>1, <1>2 DEF NoRequest, CodeStages
  <1>3. CASE req[p] \in [stage : {"lookup", "create"}, email : Emails, code : Codes \cup {NoCode},
                         inviter : {NoInviter}]
    BY <1>1, <1>3 DEF CodeStages
  <1>4. CASE req[p] \in [stage : CodeStages, email : Emails, code : Codes, inviter : {NoInviter}]
    BY <1>1, <1>4 DEF CodeStages
  <1>5. CASE req[p] \in [stage : {"insert"}, email : {Nobody}, code : {NoCode}, inviter : Inviters]
    BY <1>1, <1>5 DEF CodeStages
  <1>6. CASE req[p] \in [stage : {"cache"}, email : {Nobody}, code : Codes,
                         inviter : Inviters \cup {NoInviter}]
    BY <1>1, <1>6 DEF CodeStages
  <1> QED BY <1>1, <1>2, <1>3, <1>4, <1>5, <1>6 DEF Request

\* A registration that goes on keeps what it has.
LEMMA Goes ==
    ASSUME TypeOK, NEW p \in Procs, NEW stage, GoOn(p, stage),
           \/ /\ req[p].stage \in {"lookup", "create"} \cup CodeStages
              /\ stage \in CodeStages /\ req[p].code \in Codes
           \/ req[p].stage = "lookup" /\ stage = "create"
           \/ req[p].stage \in CodeStages /\ stage = "create"
    PROVE  /\ req' \in [Procs -> Request] /\ Only(p)
           /\ req'[p].stage = stage /\ req'[p].email = req[p].email
           /\ req'[p].code = req[p].code
  <1> DEFINE now == [req[p] EXCEPT !.stage = stage]
  <1>1. req[p] \in [stage : {"lookup", "create"} \cup CodeStages, email : Emails,
                    code : Codes \cup {NoCode}, inviter : {NoInviter}]
    BY DEF TypeOK, Request, NoRequest, CodeStages
  <1>2. req[p].stage \in CodeStages => req[p].code \in Codes
    BY RequestFields
  <1>3. now.stage = stage /\ now.email = req[p].email /\ now.code = req[p].code
    BY <1>1
  <1>4. CASE stage \in CodeStages
    <2>1. now \in [stage : CodeStages, email : Emails, code : Codes, inviter : {NoInviter}]
      BY <1>1, <1>2, <1>4 DEF CodeStages
    <2>2. now \in Request
      BY <2>1 DEF Request
    <2> QED BY <1>3, <2>2 DEF GoOn, TypeOK, Only
  <1>5. CASE stage = "create"
    <2>1. now \in [stage : {"lookup", "create"}, email : Emails, code : Codes \cup {NoCode},
                   inviter : {NoInviter}]
      BY <1>1, <1>5
    <2>2. now \in Request
      BY <2>1 DEF Request
    <2> QED BY <1>3, <2>2 DEF GoOn, TypeOK, Only
  <1> QED BY <1>4, <1>5

LEMMA Answers ==
    ASSUME TypeOK, NEW p \in Procs, Answer(p)
    PROVE  /\ req' \in [Procs -> Request] /\ Only(p)
           /\ req'[p] = NoRequest /\ req'[p].stage = "idle"
  BY DEF TypeOK, Answer, Request, NoRequest, Only

LEMMA TypesKept == ASSUME TypeOK, CodesUsed, Next PROVE TypeOK'
  <1> USE DEF rewards
  <1>1. ASSUME NEW e \in Emails, Prove(e) \/ ExpireProof(e) \/ BindEmail(e) PROVE TypeOK'
    BY <1>1 DEF TypeOK, Prove, ExpireProof, BindEmail
  <1>2. ASSUME NEW e \in Emails, NEW f \in Emails, RebindEmail(e, f) PROVE TypeOK'
    BY <1>2 DEF TypeOK, RebindEmail
  <1>3. ASSUME NEW p \in Procs, NEW e \in Emails, NEW c \in Codes \cup {NoCode}, ConsumeProof(p, e, c)
        PROVE  TypeOK'
    <2> DEFINE now == [NoRequest EXCEPT !.stage = "lookup", !.email = e, !.code = c]
    <2>1. now \in [stage : {"lookup", "create"}, email : Emails, code : Codes \cup {NoCode},
                   inviter : {NoInviter}]
      BY DEF NoRequest
    <2>2. now \in Request
      BY <2>1 DEF Request
    <2> QED BY <1>3, <2>2 DEF TypeOK, ConsumeProof
  <1>4. ASSUME NEW p \in Procs, Lookup(p) PROVE TypeOK'
    BY <1>4, Answers, Goes, RequestFields DEF TypeOK, Lookup, CodeStages
  <1>5. ASSUME NEW p \in Procs, FindInviter(p) PROVE TypeOK'
    BY <1>5, Answers, Goes, RequestFields DEF TypeOK, FindInviter, CodeStages
  <1>6. ASSUME NEW p \in Procs, FillCache(p) PROVE TypeOK'
    <2>1. req[p].code \in Codes /\ cached' \subseteq Codes
      BY <1>6, RequestFields DEF TypeOK, FillCache, CodeStages
    <2> QED BY <1>6, <2>1, Goes DEF TypeOK, FillCache, CodeStages
  <1>7. ASSUME NEW p \in Procs, CreateUser(p) PROVE TypeOK'
    <2>1. account' \in [Emails -> {"none", "registered", "bound"}]
      BY <1>7 DEF TypeOK, CreateUser
    <2>2. req' \in [Procs -> Request]
      BY <1>7, Answers, Goes, RequestFields DEF CreateUser, CodeStages
    <2> QED BY <1>7, <2>1, <2>2 DEF TypeOK, CreateUser
  <1>8. ASSUME NEW p \in Procs, ConsumeInvitation(p) PROVE TypeOK'
    <2>1. req[p].code \in Codes /\ req[p].email \in Emails
      BY <1>8, RequestFields DEF ConsumeInvitation, CodeStages
    <2>2. invitation' \in [Codes -> Invitation]
      BY <1>8, <2>1 DEF TypeOK, ConsumeInvitation, Invitation
    <2>3. req' \in [Procs -> Request]
      BY <1>8, <2>1, Answers, Goes DEF ConsumeInvitation, CodeStages
    <2> QED BY <1>8, <2>2, <2>3 DEF TypeOK, ConsumeInvitation
  <1>9. ASSUME NEW p \in Procs, Uncache(p) PROVE TypeOK'
    <2>1. req' \in [Procs -> Request]
      BY <1>9, Goes, RequestFields DEF Uncache, CodeStages
    <2> QED BY <1>9, <2>1 DEF TypeOK, Uncache
  <1>10. ASSUME NEW p \in Procs, RewardInvitee(p) PROVE TypeOK'
    <2>1. req' \in [Procs -> Request]
      BY <1>10, Goes, RequestFields DEF RewardInvitee, CodeStages
    <2>2. req[p].email \in Emails
      BY <1>10, RequestFields DEF RewardInvitee, CodeStages
    <2>3. welcomed' \in [Emails -> Nat]
      BY <1>10, <2>2 DEF TypeOK, RewardInvitee
    <2> QED BY <1>10, <2>1, <2>3 DEF TypeOK, RewardInvitee
  <1>11. ASSUME NEW p \in Procs, RewardInviter(p) PROVE TypeOK'
    <2>1. req[p].code \in Codes /\ req[p].email \in Emails
      BY <1>11, RequestFields DEF RewardInviter, CodeStages
    <2>2. invitation[req[p].code].inviter \in Inviters
      BY <1>11, <2>1 DEF CodesUsed, Used, RewardInviter
    <2>3. paid' \in [Inviters -> Nat]
      BY <1>11, <2>2 DEF TypeOK, RewardInviter
    <2> QED BY <1>11, <2>1, <2>3, Answers DEF TypeOK, RewardInviter
  <1>12. ASSUME NEW p \in Procs, NEW i \in Inviters, BeginInvite(p, i) PROVE TypeOK'
    <2>1. [NoRequest EXCEPT !.stage = "insert", !.inviter = i] \in Request
      BY DEF NoRequest, Request
    <2>2. ASSUME NEW c \in Codes PROVE [NoRequest EXCEPT !.stage = "cache", !.code = c] \in Request
      BY DEF NoRequest, Request
    <2> QED BY <1>12, <2>1, <2>2 DEF TypeOK, BeginInvite, PendingOf
  <1>13. ASSUME NEW p \in Procs, NEW c \in Codes, InsertInvitation(p, c) PROVE TypeOK'
    <2>1. req[p] \in [stage : {"insert"}, email : {Nobody}, code : {NoCode}, inviter : Inviters]
      BY <1>13 DEF TypeOK, InsertInvitation, Request, NoRequest, CodeStages
    <2>2. [req[p] EXCEPT !.stage = "cache", !.code = c] \in
            [stage : {"cache"}, email : {Nobody}, code : Codes, inviter : Inviters \cup {NoInviter}]
      BY <2>1
    <2>3. [req[p] EXCEPT !.stage = "cache", !.code = c] \in Request
      BY <2>2 DEF Request
    <2>4. req' \in [Procs -> Request]
      BY <1>13, <2>3 DEF TypeOK, InsertInvitation
    <2>5. invitation' \in [Codes -> Invitation]
      BY <1>13, <2>1 DEF TypeOK, InsertInvitation, Invitation
    <2> QED BY <1>13, <2>4, <2>5 DEF TypeOK, InsertInvitation
  <1>14. ASSUME NEW p \in Procs, CacheInvitation(p) PROVE TypeOK'
    BY <1>14, Answers, RequestFields DEF TypeOK, CacheInvitation
  <1>15. ASSUME NEW p \in Procs, Fail(p) PROVE TypeOK'
    BY <1>15, Answers DEF TypeOK, Fail
  <1> QED BY <1>1, <1>2, <1>3, <1>4, <1>5, <1>6, <1>7, <1>8, <1>9, <1>10, <1>11, <1>12, <1>13,
             <1>14, <1>15 DEF Next

-----------------------------------------------------------------------------
\* Steps that make no account, reward nobody and change no invitation

Quiet ==
    /\ UNCHANGED <<invitation, rewards>>
    /\ \A e \in Emails : account'[e] = "registered" <=> account[e] = "registered"
    /\ \A p \in Procs :
        \/ req'[p] = req[p]
        \/ req'[p].stage \notin Registered \cup {"insert"}
        \/ /\ req[p].stage = "uncache" /\ req'[p].stage = "payInvitee"
           /\ req'[p].email = req[p].email /\ req'[p].code = req[p].code

LEMMA QuietSteps ==
    ASSUME TypeOK, Next,
           \A p \in Procs : /\ ~CreateUser(p) /\ ~ConsumeInvitation(p)
                            /\ ~RewardInvitee(p) /\ ~RewardInviter(p),
           \A p \in Procs, i \in Inviters : ~BeginInvite(p, i),
           \A p \in Procs, c \in Codes : ~InsertInvitation(p, c)
    PROVE  Quiet
  <1> USE DEF rewards
  <1>1. ASSUME NEW e \in Emails, Prove(e) \/ ExpireProof(e) \/ BindEmail(e) PROVE Quiet
    BY <1>1 DEF TypeOK, Prove, ExpireProof, BindEmail, Quiet
  <1>2. ASSUME NEW e \in Emails, NEW f \in Emails, RebindEmail(e, f) PROVE Quiet
    BY <1>2 DEF TypeOK, RebindEmail, Quiet
  <1>3. ASSUME NEW p \in Procs, NEW e \in Emails, NEW c \in Codes \cup {NoCode}, ConsumeProof(p, e, c)
        PROVE  Quiet
    BY <1>3 DEF TypeOK, ConsumeProof, Quiet, NoRequest, Registered
  <1>4. ASSUME NEW p \in Procs, Lookup(p) PROVE Quiet
    BY <1>4, Answers, Goes, RequestFields DEF Lookup, CodeStages, Quiet, Registered, Only
  <1>5. ASSUME NEW p \in Procs, FindInviter(p) PROVE Quiet
    BY <1>5, Answers, Goes, RequestFields DEF FindInviter, CodeStages, Quiet, Registered, Only
  <1>6. ASSUME NEW p \in Procs, FillCache(p) PROVE Quiet
    BY <1>6, Goes, RequestFields DEF FillCache, CodeStages, Quiet, Registered, Only
  <1>7. ASSUME NEW p \in Procs, Uncache(p) PROVE Quiet
    BY <1>7, Goes, RequestFields DEF Uncache, CodeStages, Quiet, Only
  <1>8. ASSUME NEW p \in Procs, CacheInvitation(p) \/ Fail(p) PROVE Quiet
    BY <1>8, Answers DEF CacheInvitation, Fail, Quiet, Registered, Only
  <1> QED BY <1>1, <1>2, <1>3, <1>4, <1>5, <1>6, <1>7, <1>8 DEF Next

LEMMA SettledFinite ==
    ASSUME NEW i \in Inviters
    PROVE  IsFiniteSet(Settled(i)) /\ Cardinality(Settled(i)) \in Nat
  <1>1. Settled(i) \subseteq Codes
    BY DEF Settled, UsedOf
  <1> QED BY <1>1, RegistrationAssumption, FS_Subset, FS_CardinalityType

LEMMA QuietKeeps ==
    ASSUME RegistrationInv, TypeOK', Quiet
    PROVE  RegistrationInv'
  <1> USE DEF RegistrationInv
  <1>1. UNCHANGED <<invitation, welcomed, paid, joined>>
    BY DEF Quiet, rewards
  <1>2. ASSUME NEW p \in Procs, req'[p].stage \in Registered
        PROVE  /\ req[p].stage \in Registered /\ req[p].email \in Emails
               /\ req'[p].email = req[p].email /\ req'[p].code = req[p].code
               /\ req'[p].stage = "payInviter" <=> req[p].stage = "payInviter"
               /\ req'[p].stage \in Used => req[p].stage \in Used
    BY <1>2, RequestFields DEF Quiet, Registered, Used, CodeStages
  <1>3. RegisteredOnce'
    <2>1. ASSUME NEW p \in Procs, req'[p].stage \in Registered
          PROVE  /\ account'[req'[p].email] = "registered"
                 /\ welcomed'[req'[p].email] = IF req'[p].stage = "payInviter" THEN 1 ELSE 0
      BY <1>1, <1>2, <2>1 DEF Quiet, RegisteredOnce
    <2>2. ASSUME NEW p \in Procs, NEW q \in Procs, req'[p].stage \in Registered,
                 req'[q].stage \in Registered, req'[p].email = req'[q].email
          PROVE  p = q
      BY <1>2, <2>2 DEF RegisteredOnce
    <2> QED BY <2>1, <2>2 DEF RegisteredOnce
  <1>4. WelcomedOnce'
    BY <1>1 DEF Quiet, WelcomedOnce
  <1>5. CodesUsed'
    BY <1>1, <1>2 DEF CodesUsed, Used, Registered
  <1>6. PaidOnce'
    <2> SUFFICES ASSUME NEW i \in Inviters PROVE paid[i] <= Cardinality(Settled(i)')
      BY <1>1 DEF PaidOnce
    <2>1. Settled(i) \subseteq Settled(i)'
      BY <1>1, <1>2 DEF Settled, UsedOf, Used, Registered
    <2>2. Settled(i)' \subseteq Codes
      BY DEF Settled, UsedOf
    <2>3. IsFiniteSet(Settled(i)')
      BY <2>2, RegistrationAssumption, FS_Subset
    <2>4. Cardinality(Settled(i)) <= Cardinality(Settled(i)') /\ Cardinality(Settled(i)') \in Nat
      BY <2>1, <2>3, FS_Subset, FS_CardinalityType
    <2> QED BY <2>4, SettledFinite DEF PaidOnce, TypeOK
  <1>7. OneInserts'
    BY <1>1 DEF Quiet, OneInserts, PendingOf, Registered
  <1>8. SuccessIsComplete'
    BY <1>1 DEF Quiet, SuccessIsComplete, TypeOK
  <1> QED BY <1>3, <1>4, <1>5, <1>6, <1>7, <1>8
-----------------------------------------------------------------------------
\* The other steps

\* The unique index: the account of an address is made once, and nothing was done for it before.
LEMMA CreateKeeps ==
    ASSUME RegistrationInv, TypeOK', NEW p \in Procs, CreateUser(p)
    PROVE  RegistrationInv'
  <1> USE DEF RegistrationInv
  <1>1. PICK e \in Emails : e = req[p].email
    BY RequestFields DEF CreateUser
  <1>2. UNCHANGED <<invitation, welcomed, paid, joined>> /\ req[p].stage = "create"
    BY DEF CreateUser, rewards
  <1>3. CASE account[e] # "none"
    <2>1. Quiet
      BY <1>1, <1>3, Answers DEF CreateUser, Quiet, Registered, Only
    <2> QED BY <2>1, QuietKeeps
  <1>4. CASE account[e] = "none"
    <2>1. account' = [account EXCEPT ![e] = "registered"] /\ welcomed[e] = 0
      BY <1>1, <1>4 DEF CreateUser, WelcomedOnce
    <2>2. /\ Only(p) /\ req'[p].stage \notin Used /\ req'[p].stage # "insert"
          /\ req'[p].stage \in Registered => req'[p].stage = "consume" /\ req'[p].email = e
      BY <1>1, <1>4, Answers, Goes, RequestFields DEF CreateUser, CodeStages, Registered, Used
    <2>3. \A q \in Procs : req[q].stage \in Registered => req[q].email # e
      BY <1>4 DEF RegisteredOnce
    <2>4. RegisteredOnce'
      <3>1. ASSUME NEW q \in Procs, req'[q].stage \in Registered
            PROVE  /\ account'[req'[q].email] = "registered"
                   /\ welcomed'[req'[q].email] = IF req'[q].stage = "payInviter" THEN 1 ELSE 0
        <4>1. CASE q = p
          BY <1>2, <2>1, <2>2, <3>1, <4>1 DEF TypeOK
        <4>2. CASE q # p
          <5>1. req'[q] = req[q] /\ req[q].email \in Emails
            BY <2>2, <3>1, <4>2, RequestFields DEF Only, Registered, CodeStages
          <5> QED BY <1>2, <2>1, <3>1, <5>1 DEF RegisteredOnce, TypeOK
        <4> QED BY <4>1, <4>2
      <3>2. ASSUME NEW q \in Procs, NEW r \in Procs, req'[q].stage \in Registered,
                   req'[r].stage \in Registered, req'[q].email = req'[r].email
            PROVE  q = r
        BY <2>2, <2>3, <3>2 DEF RegisteredOnce, Only
      <3> QED BY <3>1, <3>2 DEF RegisteredOnce
    <2>5. WelcomedOnce' /\ SuccessIsComplete'
      BY <1>2, <1>4, <2>1 DEF WelcomedOnce, SuccessIsComplete, TypeOK
    <2>6. CodesUsed'
      BY <1>2, <2>2 DEF CodesUsed, Only
    <2>7. PaidOnce'
      <3> SUFFICES ASSUME NEW i \in Inviters PROVE Settled(i)' = Settled(i)
        BY <1>2 DEF PaidOnce
      <3> QED BY <1>2, <2>2 DEF Settled, UsedOf, Only, Used
    <2>8. OneInserts'
      BY <1>2, <2>2 DEF OneInserts, PendingOf, Only
    <2> QED BY <2>4, <2>5, <2>6, <2>7, <2>8
  <1> QED BY <1>3, <1>4

\* The UPDATE asks for the status: a code that waits is used up by one registration.
LEMMA ConsumeKeeps ==
    ASSUME RegistrationInv, TypeOK', NEW p \in Procs, ConsumeInvitation(p)
    PROVE  RegistrationInv'
  <1> USE DEF RegistrationInv
  <1>1. PICK e \in Emails : e = req[p].email
    BY RequestFields DEF ConsumeInvitation, CodeStages
  <1>2. PICK c \in Codes : c = req[p].code
    BY RequestFields DEF ConsumeInvitation, CodeStages
  <1>3. UNCHANGED <<account, welcomed, paid, joined>> /\ req[p].stage = "consume"
    BY DEF ConsumeInvitation, rewards
  <1>4. CASE invitation[c].status # "pending"
    <2>1. Quiet
      BY <1>2, <1>3, <1>4, Answers DEF ConsumeInvitation, Quiet, Registered, Only, rewards
    <2> QED BY <2>1, QuietKeeps
  <1>5. CASE invitation[c].status = "pending"
    <2>1. /\ invitation'[c].status = "invited" /\ invitation'[c].invitee = e
          /\ invitation'[c].inviter = invitation[c].inviter
          /\ \A d \in Codes \ {c} : invitation'[d] = invitation[d]
      BY <1>1, <1>2, <1>5 DEF ConsumeInvitation, TypeOK, Invitation
    <2>2. Only(p) /\ req'[p].stage = "uncache" /\ req'[p].email = e /\ req'[p].code = c
      BY <1>1, <1>2, <1>5, Goes DEF ConsumeInvitation, CodeStages
    <2>3. RegisteredOnce'
      <3>1. ASSUME NEW q \in Procs, req'[q].stage \in Registered
            PROVE  /\ req[q].stage \in Registered /\ req[q].email = req'[q].email
                   /\ req'[q].stage = "payInviter" <=> req[q].stage = "payInviter"
        BY <1>1, <1>3, <2>2, <3>1 DEF Only, Registered
      <3> QED BY <1>3, <3>1 DEF RegisteredOnce
    <2>4. WelcomedOnce'
      <3>1. invitation[c].invitee \notin Emails
        BY <1>5, RegistrationAssumption DEF CodesUsed
      <3> QED BY <1>3, <2>1, <3>1 DEF WelcomedOnce
    <2>5. \A q \in Procs : req[q].stage \in Used => req[q].code # c
      BY <1>5 DEF CodesUsed
    <2>6. CodesUsed'
      <3>1. ASSUME NEW q \in Procs, req'[q].stage \in Used
            PROVE  /\ invitation'[req'[q].code].status = "invited"
                   /\ invitation'[req'[q].code].invitee = req'[q].email
        <4>1. CASE q = p
          BY <2>1, <2>2, <4>1
        <4>2. CASE q # p
          <5>1. req'[q] = req[q] /\ req[q].code \in Codes \ {c}
            BY <2>2, <2>5, <3>1, <4>2, RequestFields DEF Only, Used, CodeStages
          <5> QED BY <2>1, <3>1, <5>1 DEF CodesUsed
        <4> QED BY <4>1, <4>2
      <3> QED BY <1>5, <2>1, <3>1 DEF CodesUsed
    <2>7. PaidOnce'
      <3> SUFFICES ASSUME NEW i \in Inviters PROVE Settled(i)' = Settled(i)
        BY <1>3 DEF PaidOnce
      <3>1. ASSUME NEW d \in Codes PROVE d \in Settled(i)' <=> d \in Settled(i)
        <4>1. CASE d = c
          BY <1>5, <2>1, <2>2, <4>1 DEF Settled, UsedOf, Used
        <4>2. CASE d # c
          BY <1>3, <2>1, <2>2, <3>1, <4>2 DEF Settled, UsedOf, Used, Only
        <4> QED BY <4>1, <4>2
      <3> QED BY <3>1 DEF Settled, UsedOf
    <2>8. OneInserts'
      <3>1. \A i \in Inviters : PendingOf(i)' \subseteq PendingOf(i)
        BY <2>1 DEF PendingOf
      <3>2. \A q \in Procs : req'[q].stage = "insert" => req'[q] = req[q] /\ req[q].inviter \in Inviters
        BY <2>2, RequestFields DEF Only
      <3> QED BY <3>1, <3>2 DEF OneInserts
    <2>9. SuccessIsComplete'
      <3> SUFFICES ASSUME NEW j \in joined
                   PROVE  /\ account[j[1]] = "registered" /\ welcomed[j[1]] = 1
                          /\ invitation'[j[2]].status = "invited" /\ invitation'[j[2]].invitee = j[1]
        BY <1>3 DEF SuccessIsComplete
      <3>1. j[2] \in Codes /\ j[2] # c
        BY <1>5 DEF SuccessIsComplete, TypeOK
      <3> QED BY <2>1, <3>1 DEF SuccessIsComplete
    <2> QED BY <2>3, <2>4, <2>6, <2>7, <2>8, <2>9
  <1> QED BY <1>4, <1>5

\* The reward of the invitee, given by the one request that registered the address.
LEMMA WelcomeKeeps ==
    ASSUME RegistrationInv, TypeOK', NEW p \in Procs, RewardInvitee(p)
    PROVE  RegistrationInv'
  <1> USE DEF RegistrationInv
  <1>1. PICK e \in Emails : e = req[p].email
    BY RequestFields DEF RewardInvitee, CodeStages
  <1>2. UNCHANGED <<account, invitation, paid, joined>> /\ req[p].stage = "payInvitee"
    BY DEF RewardInvitee
  <1>3. Only(p) /\ req'[p].stage = "payInviter" /\ req'[p].email = e /\ req'[p].code = req[p].code
    BY <1>1, Goes, RequestFields DEF RewardInvitee, CodeStages
  <1>4. account[e] = "registered" /\ welcomed[e] = 0
    BY <1>1, <1>2 DEF RegisteredOnce, Registered
  <1>5. welcomed'[e] = 1 /\ \A f \in Emails \ {e} : welcomed'[f] = welcomed[f]
    BY <1>1, <1>4 DEF RewardInvitee, TypeOK
  <1>6. \A q \in Procs \ {p} : req[q].stage \in Registered => req[q].email \in Emails \ {e}
    BY <1>1, <1>2, RequestFields DEF RegisteredOnce, Registered, CodeStages
  <1>7. RegisteredOnce'
    <2>1. ASSUME NEW q \in Procs, req'[q].stage \in Registered
          PROVE  /\ account'[req'[q].email] = "registered"
                 /\ welcomed'[req'[q].email] = IF req'[q].stage = "payInviter" THEN 1 ELSE 0
      <3>1. CASE q = p
        BY <1>2, <1>3, <1>4, <1>5, <3>1
      <3>2. CASE q # p
        <4>1. req'[q] = req[q] /\ welcomed'[req[q].email] = welcomed[req[q].email]
          BY <1>3, <1>5, <1>6, <2>1, <3>2 DEF Only
        <4> QED BY <1>2, <2>1, <4>1 DEF RegisteredOnce
      <3> QED BY <3>1, <3>2
    <2>2. ASSUME NEW q \in Procs, NEW r \in Procs, req'[q].stage \in Registered,
                 req'[r].stage \in Registered, req'[q].email = req'[r].email
          PROVE  q = r
      BY <1>3, <1>6, <2>2 DEF RegisteredOnce, Only
    <2> QED BY <2>1, <2>2 DEF RegisteredOnce
  <1>8. WelcomedOnce'
    <2>1. req[p].code \in Codes /\ invitation[req[p].code].invitee = e
      BY <1>1, <1>2, RequestFields DEF CodesUsed, Used, CodeStages
    <2> QED BY <1>2, <1>4, <1>5, <2>1 DEF WelcomedOnce
  <1>9. CodesUsed'
    BY <1>1, <1>2, <1>3 DEF CodesUsed, Only, Used
  <1>10. PaidOnce'
    <2> SUFFICES ASSUME NEW i \in Inviters PROVE Settled(i)' = Settled(i)
      BY <1>2 DEF PaidOnce
    <2> QED BY <1>2, <1>3 DEF Settled, UsedOf, Only, Used
  <1>11. OneInserts'
    BY <1>2, <1>3 DEF OneInserts, PendingOf, Only
  <1>12. SuccessIsComplete'
    BY <1>2, <1>4, <1>5 DEF SuccessIsComplete, TypeOK
  <1> QED BY <1>7, <1>8, <1>9, <1>10, <1>11, <1>12

\* The reward of the inviter: with it the invitation is settled, once.
LEMMA PayKeeps ==
    ASSUME RegistrationInv, TypeOK', NEW p \in Procs, RewardInviter(p)
    PROVE  RegistrationInv'
  <1> USE DEF RegistrationInv
  <1>1. PICK e \in Emails : e = req[p].email
    BY RequestFields DEF RewardInviter, CodeStages
  <1>2. PICK c \in Codes : c = req[p].code
    BY RequestFields DEF RewardInviter, CodeStages
  <1>3. UNCHANGED <<account, invitation, welcomed>> /\ req[p].stage = "payInviter"
    BY DEF RewardInviter
  <1>4. /\ invitation[c].status = "invited" /\ invitation[c].invitee = e
        /\ invitation[c].inviter \in Inviters /\ account[e] = "registered" /\ welcomed[e] = 1
    BY <1>1, <1>2, <1>3 DEF CodesUsed, RegisteredOnce, Used, Registered
  <1>5. Only(p) /\ req'[p].stage = "idle"
    BY Answers DEF RewardInviter
  <1>6. RegisteredOnce'
    <2>1. ASSUME NEW q \in Procs, req'[q].stage \in Registered PROVE req'[q] = req[q]
      BY <1>5, <2>1 DEF Only, Registered
    <2> QED BY <1>3, <2>1 DEF RegisteredOnce
  <1>7. WelcomedOnce'
    BY <1>3 DEF WelcomedOnce
  <1>8. CodesUsed'
    BY <1>3, <1>5 DEF CodesUsed, Only, Used
  <1>9. PaidOnce'
    <2> SUFFICES ASSUME NEW i \in Inviters PROVE paid'[i] <= Cardinality(Settled(i)')
      BY DEF PaidOnce
    <2>1. \A q \in Procs \ {p} : req[q].stage \in Used => req[q].code # c
      BY <1>1, <1>2, <1>3, <1>4 DEF CodesUsed, RegisteredOnce, Registered, Used
    <2>2. paid[i] \in Nat /\ paid[i] <= Cardinality(Settled(i))
      BY DEF PaidOnce, TypeOK
    <2>3. CASE i # invitation[c].inviter
      <3>1. paid'[i] = paid[i]
        BY <1>2, <2>3 DEF RewardInviter, TypeOK
      <3>2. Settled(i)' = Settled(i)
        BY <1>2, <1>3, <1>5, <2>3 DEF Settled, UsedOf, Only, Used
      <3> QED BY <2>2, <3>1, <3>2
    <2>4. CASE i = invitation[c].inviter
      <3>1. paid'[i] = paid[i] + 1
        BY <1>2, <2>4 DEF RewardInviter, TypeOK
      <3>2. c \notin Settled(i) /\ Settled(i)' = Settled(i) \cup {c}
        BY <1>2, <1>3, <1>4, <1>5, <2>1, <2>4 DEF Settled, UsedOf, Only, Used
      <3>3. Cardinality(Settled(i)') = Cardinality(Settled(i)) + 1 /\ Cardinality(Settled(i)) \in Nat
        BY <3>2, SettledFinite, FS_AddElement
      <3> QED BY <2>2, <3>1, <3>3
    <2> QED BY <2>3, <2>4
  <1>10. OneInserts'
    BY <1>3, <1>5 DEF OneInserts, PendingOf, Only
  <1>11. SuccessIsComplete'
    <2>1. joined' = joined \cup {<<e, c>>}
      BY <1>1, <1>2 DEF RewardInviter
    <2> QED BY <1>3, <1>4, <2>1 DEF SuccessIsComplete
  <1> QED BY <1>6, <1>7, <1>8, <1>9, <1>10, <1>11

\* The lock of the inviter is taken only when nobody inserts for him.
LEMMA BeginInviteKeeps ==
    ASSUME RegistrationInv, TypeOK', NEW p \in Procs, NEW i \in Inviters, BeginInvite(p, i)
    PROVE  RegistrationInv'
  <1> USE DEF RegistrationInv
  <1>1. UNCHANGED <<account, invitation, welcomed, paid, joined>> /\ Only(p)
    BY DEF BeginInvite, rewards, Only, TypeOK
  <1>2. CASE req'[p].stage = "cache"
    <2>1. Quiet
      BY <1>1, <1>2 DEF Quiet, Registered, Only, rewards
    <2> QED BY <2>1, QuietKeeps
  <1>3. CASE req'[p].stage # "cache"
    <2>1. PendingOf(i) = {} /\ req'[p].stage = "insert" /\ req'[p].inviter = i
      <3>1. ASSUME NEW c, req' = [req EXCEPT ![p] = [NoRequest EXCEPT !.stage = "cache", !.code = c]]
            PROVE  FALSE
        <4>1. [NoRequest EXCEPT !.stage = "cache", !.code = c].stage = "cache"
          BY DEF NoRequest
        <4> QED BY <1>3, <3>1, <4>1 DEF TypeOK
      <3>2. /\ PendingOf(i) = {}
            /\ req' = [req EXCEPT ![p] = [NoRequest EXCEPT !.stage = "insert", !.inviter = i]]
        BY <3>1 DEF BeginInvite
      <3>3. LET r == [NoRequest EXCEPT !.stage = "insert", !.inviter = i]
            IN  r.stage = "insert" /\ r.inviter = i
        BY DEF NoRequest
      <3> QED BY <3>2, <3>3 DEF TypeOK
    <2>2. ASSUME NEW q \in Procs, req'[q].stage \in Registered PROVE req'[q] = req[q]
      BY <1>1, <2>1, <2>2 DEF Only, Registered
    <2>3. RegisteredOnce' /\ WelcomedOnce' /\ SuccessIsComplete'
      BY <1>1, <2>2 DEF RegisteredOnce, WelcomedOnce, SuccessIsComplete
    <2>4. CodesUsed'
      BY <1>1, <2>2 DEF CodesUsed, Registered, Used
    <2>5. PaidOnce'
      <3> SUFFICES ASSUME NEW j \in Inviters PROVE Settled(j)' = Settled(j)
        BY <1>1 DEF PaidOnce
      <3>1. req[p].stage = "idle"
        BY DEF BeginInvite
      <3> QED BY <1>1, <2>1, <3>1 DEF Settled, UsedOf, Only, Used
    <2>6. OneInserts'
      <3>1. \A j \in Inviters : PendingOf(j)' = PendingOf(j)
        BY <1>1 DEF PendingOf
      <3>2. \A q \in Procs \ {p} : req'[q] = req[q] /\ ~(req[q].stage = "insert" /\ req[q].inviter = i)
        BY <1>1 DEF Only, BeginInvite
      <3>3. \A q \in Procs : req[q].stage = "insert" => req[q].inviter \in Inviters
        BY RequestFields
      <3> QED BY <2>1, <3>1, <3>2, <3>3 DEF OneInserts
    <2> QED BY <2>3, <2>4, <2>5, <2>6
  <1> QED BY <1>2, <1>3

LEMMA InsertKeeps ==
    ASSUME RegistrationInv, TypeOK', NEW p \in Procs, NEW c \in Codes, InsertInvitation(p, c)
    PROVE  RegistrationInv'
  <1> USE DEF RegistrationInv
  <1>1. PICK i \in Inviters : i = req[p].inviter
    BY RequestFields DEF InsertInvitation
  <1>2. /\ UNCHANGED <<account, welcomed, paid, joined>>
        /\ req[p].stage = "insert" /\ invitation[c].status = "none"
    BY DEF InsertInvitation, rewards
  <1>3. /\ invitation'[c] = [status |-> "pending", inviter |-> i, invitee |-> Nobody]
        /\ \A d \in Codes \ {c} : invitation'[d] = invitation[d]
    BY <1>1 DEF InsertInvitation, TypeOK
  <1>4. Only(p) /\ req'[p].stage = "cache"
    BY DEF InsertInvitation, TypeOK, Only, Request, NoRequest, CodeStages
  <1>5. ASSUME NEW q \in Procs, req'[q].stage \in Registered PROVE req'[q] = req[q]
    BY <1>4, <1>5 DEF Only, Registered
  <1>6. RegisteredOnce'
    BY <1>2, <1>5 DEF RegisteredOnce
  <1>7. WelcomedOnce'
    <2>1. invitation[c].invitee \notin Emails
      BY <1>2, RegistrationAssumption DEF CodesUsed
    <2> QED BY <1>2, <1>3, <2>1 DEF WelcomedOnce
  <1>8. \A q \in Procs : req[q].stage \in Used => req[q].code \in Codes \ {c}
    BY <1>2, RequestFields DEF CodesUsed, Used, CodeStages
  <1>9. CodesUsed'
    <2>1. ASSUME NEW q \in Procs, req'[q].stage \in Used
          PROVE  /\ invitation'[req'[q].code].status = "invited"
                 /\ invitation'[req'[q].code].invitee = req'[q].email
      BY <1>3, <1>5, <1>8, <2>1 DEF CodesUsed, Used, Registered
    <2> QED BY <1>3, <2>1 DEF CodesUsed
  <1>10. PaidOnce'
    <2> SUFFICES ASSUME NEW j \in Inviters PROVE Settled(j)' = Settled(j)
      BY <1>2 DEF PaidOnce
    <2>1. UsedOf(j)' = UsedOf(j)
      BY <1>2, <1>3 DEF UsedOf
    <2> QED BY <1>2, <1>4, <2>1 DEF Settled, Only, Used
  <1>11. OneInserts'
    <2>1. PendingOf(i) = {} /\ PendingOf(i)' = {c}
      BY <1>1, <1>2, <1>3 DEF OneInserts, PendingOf
    <2>2. \A j \in Inviters \ {i} : PendingOf(j)' = PendingOf(j)
      BY <1>2, <1>3 DEF PendingOf
    <2>3. \A q \in Procs : req'[q].stage = "insert" =>
                req'[q] = req[q] /\ req[q].inviter \in Inviters \ {i}
      BY <1>1, <1>2, <1>4, RequestFields DEF OneInserts, Only
    <2> QED BY <2>1, <2>2, <2>3 DEF OneInserts
  <1>12. SuccessIsComplete'
    <2> SUFFICES ASSUME NEW j \in joined
                 PROVE  /\ account[j[1]] = "registered" /\ welcomed[j[1]] = 1
                        /\ invitation'[j[2]].status = "invited" /\ invitation'[j[2]].invitee = j[1]
      BY <1>2 DEF SuccessIsComplete
    <2>1. j[2] \in Codes /\ j[2] # c
      BY <1>2 DEF SuccessIsComplete, TypeOK
    <2> QED BY <1>3, <2>1 DEF SuccessIsComplete
  <1> QED BY <1>6, <1>7, <1>9, <1>10, <1>11, <1>12

-----------------------------------------------------------------------------
\* The invariant of registrations

LEMMA InitInv == ASSUME Init PROVE RegistrationInv
  <1> USE RegistrationAssumption
  <1>1. TypeOK
    BY DEF Init, TypeOK, Invitation, Request
  <1>2. RegisteredOnce /\ WelcomedOnce /\ CodesUsed /\ OneInserts
    BY DEF Init, RegisteredOnce, WelcomedOnce, CodesUsed, OneInserts, PendingOf, NoRequest,
       Registered, Used
  <1>3. PaidOnce
    <2> SUFFICES ASSUME NEW i \in Inviters PROVE paid[i] <= Cardinality(Settled(i))
      BY DEF PaidOnce
    <2>1. paid[i] = 0
      BY DEF Init
    <2> QED BY <2>1, SettledFinite
  <1>4. SuccessIsComplete
    BY DEF Init, SuccessIsComplete
  <1> QED BY <1>1, <1>2, <1>3, <1>4 DEF RegistrationInv

LEMMA RegistrationInvariant == Spec => []RegistrationInv
  <1>1. ASSUME RegistrationInv, Next PROVE RegistrationInv'
    <2>1. TypeOK'
      BY <1>1, TypesKept DEF RegistrationInv
    <2>2. CASE /\ \A p \in Procs : /\ ~CreateUser(p) /\ ~ConsumeInvitation(p)
                                   /\ ~RewardInvitee(p) /\ ~RewardInviter(p)
               /\ \A p \in Procs, i \in Inviters : ~BeginInvite(p, i)
               /\ \A p \in Procs, c \in Codes : ~InsertInvitation(p, c)
      BY <1>1, <2>1, <2>2, QuietSteps, QuietKeeps DEF RegistrationInv
    <2> QED BY <1>1, <2>1, <2>2, CreateKeeps, ConsumeKeeps, WelcomeKeeps, PayKeeps,
               BeginInviteKeeps, InsertKeeps
  <1>2. ASSUME RegistrationInv, UNCHANGED vars PROVE RegistrationInv'
    <2>1. Quiet /\ TypeOK'
      BY <1>2 DEF vars, rewards, Quiet, RegistrationInv, TypeOK
    <2> QED BY <1>2, <2>1, QuietKeeps
  <1> QED BY <1>1, <1>2, InitInv, PTL DEF Spec

\* Registrations may race for one code, and end between the two rewards, but every invitation pays
\* its inviter at most once, and an invitee gets one reward, as the invitee of an invitation.
THEOREM EveryRewardIsEarned == Spec => []RewardsEarned
  <1>1. ASSUME RegistrationInv PROVE RewardsEarned
    <2>1. ASSUME NEW i \in Inviters PROVE paid[i] <= Cardinality(UsedOf(i))
      <3>1. UsedOf(i) \subseteq Codes /\ Settled(i) \subseteq UsedOf(i)
        BY DEF UsedOf, Settled
      <3>2. IsFiniteSet(UsedOf(i))
        BY <3>1, RegistrationAssumption, FS_Subset
      <3>3. Cardinality(Settled(i)) <= Cardinality(UsedOf(i)) /\ Cardinality(UsedOf(i)) \in Nat
        BY <3>1, <3>2, FS_Subset, FS_CardinalityType
      <3>4. paid[i] \in Nat /\ paid[i] <= Cardinality(Settled(i))
        BY <1>1 DEF RegistrationInv, PaidOnce, TypeOK
      <3> QED BY <3>3, <3>4, SettledFinite
    <2>2. ASSUME NEW e \in Emails
          PROVE  welcomed[e] <= Cardinality({c \in Codes : invitation[c].invitee = e})
      <3>1. PICK C : C = {c \in Codes : invitation[c].invitee = e}
        OBVIOUS
      <3>2. IsFiniteSet(C) /\ Cardinality(C) \in Nat
        BY <3>1, RegistrationAssumption, FS_Subset, FS_CardinalityType
      <3>3. welcomed[e] \in {0, 1} /\ (welcomed[e] = 1 => C # {})
        BY <1>1, <3>1 DEF RegistrationInv, WelcomedOnce
      <3>4. C # {} => Cardinality(C) # 0
        BY <3>2, FS_EmptySet
      <3>5. welcomed[e] <= Cardinality(C)
        BY <3>2, <3>3, <3>4
      <3> QED BY <3>1, <3>5
    <2> QED BY <2>1, <2>2 DEF RewardsEarned
  <1> QED BY <1>1, RegistrationInvariant, PTL

\* A registration with a code that was answered with success stays complete: its account, its code
\* used up by it, and its one reward.
THEOREM SuccessStaysComplete == Spec => []SuccessIsComplete
  BY RegistrationInvariant, PTL DEF RegistrationInv

\* The advisory lock of GetOrCreateActiveInvitation: an inviter has one invitation that waits.
THEOREM OneInvitationWaits == Spec => []OnePendingInvitation
  <1>1. ASSUME RegistrationInv PROVE OnePendingInvitation
    <2> SUFFICES ASSUME NEW i \in Inviters PROVE Cardinality(PendingOf(i)) <= 1
      BY DEF OnePendingInvitation
    <2>1. CASE PendingOf(i) = {}
      BY <2>1, FS_EmptySet
    <2>2. CASE PendingOf(i) # {}
      <3>1. PICK c \in PendingOf(i) : TRUE
        BY <2>2
      <3>2. PendingOf(i) = {c}
        BY <1>1, <3>1 DEF RegistrationInv, OneInserts
      <3> QED BY <3>2, FS_Singleton
    <2> QED BY <2>1, <2>2
  <1> QED BY <1>1, RegistrationInvariant, PTL

-----------------------------------------------------------------------------
\* Identities of a provider

\* A request at work has an identity, one that enters has found the account of it, and one that
\* binds has an account.
ClientsKnow ==
    \A c \in Clients :
        /\ client[c].stage # "idle" => client[c].who \in Identities
        /\ client[c].stage = "enter" => /\ client[c].user \in Profiles
                                        /\ binding[client[c].who] = client[c].user
        /\ client[c].stage \in {"look", "tie"} => client[c].user \in Profiles

\* The two unique indexes.
OneIdentityEach == \A i, j \in Identities : binding[i] = binding[j] /\ binding[i] # NoOne => i = j

MadeWithIdentity == \A u \in Profiles : profile[u] = "made" => IdentitiesOf(u) # {}

BindingsInv ==
    /\ BindingsTypeOK /\ promised \subseteq Profiles \X Identities
    /\ ClientsKnow /\ OneIdentityEach /\ MadeWithIdentity /\ PromisesKept /\ PicturesOwn

LEMMA GoneType ==
    ASSUME BindingsTypeOK, NEW c \in Clients, Answered(c)
    PROVE  /\ client'[c] = Gone /\ client'[c].stage = "idle"
           /\ \A d \in Clients \ {c} : client'[d] = client[d]
           /\ client' \in [Clients -> [stage : {"idle", "find", "make", "enter", "look", "tie"},
                                       user : Profiles \cup {NoOne}, who : Identities \cup {NoOne},
                                       pictured : BOOLEAN]]
  BY DEF BindingsTypeOK, Answered, Gone

LEMMA Enters ==
    ASSUME BindingsTypeOK, NEW c \in Clients, NEW u \in Profiles,
           client' = [client EXCEPT ![c].stage = "enter", ![c].user = u]
    PROVE  client' \in [Clients -> [stage : {"idle", "find", "make", "enter", "look", "tie"},
                                    user : Profiles \cup {NoOne}, who : Identities \cup {NoOne},
                                    pictured : BOOLEAN]]
  <1> DEFINE T == [stage : {"idle", "find", "make", "enter", "look", "tie"}, user : Profiles \cup {NoOne},
                   who : Identities \cup {NoOne}, pictured : BOOLEAN]
             now == [client[c] EXCEPT !.stage = "enter", !.user = u]
  <1>1. client \in [Clients -> T] /\ now \in T
    BY DEF BindingsTypeOK
  <1>2. client' = [client EXCEPT ![c] = now]
    OBVIOUS
  <1> QED BY <1>1, <1>2

\* Steps that change what a request does and nothing else.
LEMMA OnlyClients ==
    ASSUME BindingsInv, UNCHANGED <<profile, picture, binding>>, BindingsTypeOK', ClientsKnow',
           promised' \subseteq Profiles \X Identities,
           \A answer \in promised' \ promised : binding[answer[2]] = answer[1]
    PROVE  BindingsInv'
  BY DEF BindingsInv, BindingsTypeOK, ClientsKnow, OneIdentityEach, MadeWithIdentity, PromisesKept,
         PicturesOwn, IdentitiesOf

\* Steps that leave the bindings but may take a picture over.
LEMMA BindingsKept == ASSUME BindingsInv, [BindingsNext]_bindingVars PROVE BindingsInv'
  <1> USE BindingsAssumption DEF BindingsInv
  <1>1. ASSUME NEW c \in Clients, NEW who \in Identities, NEW pictured \in BOOLEAN,
               BeginOauthLogin(c, who, pictured)
        PROVE  BindingsInv'
    <2>1. BindingsTypeOK'
      BY <1>1 DEF BeginOauthLogin, Exchange, BindingsTypeOK
    <2>2. ClientsKnow'
      BY <1>1 DEF BeginOauthLogin, Exchange, BindingsTypeOK, ClientsKnow
    <2> QED BY <1>1, <2>1, <2>2, OnlyClients DEF BeginOauthLogin, Exchange
  <1>2. ASSUME NEW c \in Clients, NEW who \in Identities, NEW pictured \in BOOLEAN, NEW u \in Profiles,
               BeginOauthBind(c, u, who, pictured)
        PROVE  BindingsInv'
    <2>1. BindingsTypeOK'
      BY <1>2 DEF BeginOauthBind, Exchange, BindingsTypeOK
    <2>2. ClientsKnow'
      BY <1>2 DEF BeginOauthBind, Exchange, BindingsTypeOK, ClientsKnow
    <2> QED BY <1>2, <2>1, <2>2, OnlyClients DEF BeginOauthBind, Exchange
  <1>3. ASSUME NEW c \in Clients, FindOauthUser(c) PROVE BindingsInv'
    <2>1. PICK who \in Identities : who = client[c].who
      BY <1>3 DEF FindOauthUser, ClientsKnow
    <2>2. PICK u \in Profiles : u = binding[who]
      BY <1>3, <2>1 DEF FindOauthUser, BindingsTypeOK
    <2>3. picture' = picture \/ picture' = [picture EXCEPT ![u] = who]
      BY <1>3, <2>1, <2>2 DEF FindOauthUser, Shown
    <2>4. BindingsTypeOK'
      <3>1. picture' \in [Profiles -> Identities \cup {NoOne}]
        BY <2>3 DEF BindingsTypeOK
      <3>2. client' = [client EXCEPT ![c].stage = "enter", ![c].user = u]
        BY <1>3, <2>1, <2>2 DEF FindOauthUser
      <3> QED BY <1>3, <3>1, <3>2, Enters DEF FindOauthUser, BindingsTypeOK
    <2>5. ClientsKnow'
      BY <1>3, <2>1, <2>2 DEF FindOauthUser, BindingsTypeOK, ClientsKnow
    <2>6. PicturesOwn'
      <3>1. \A v \in Profiles : picture'[v] = picture[v] \/ (v = u /\ picture'[v] = who)
        BY <2>3 DEF BindingsTypeOK
      <3> QED BY <1>3, <2>2, <3>1 DEF FindOauthUser, PicturesOwn
    <2> QED BY <1>3, <2>4, <2>5, <2>6
            DEF FindOauthUser, OneIdentityEach, MadeWithIdentity, PromisesKept, IdentitiesOf
  <1>4. ASSUME NEW c \in Clients, MissOauthUser(c) \/ MissBound(c) PROVE BindingsInv'
    <2>1. BindingsTypeOK'
      BY <1>4 DEF MissOauthUser, MissBound, BindingsTypeOK
    <2>2. ClientsKnow'
      BY <1>4 DEF MissOauthUser, MissBound, BindingsTypeOK, ClientsKnow
    <2> QED BY <1>4, <2>1, <2>2, OnlyClients DEF MissOauthUser, MissBound
  <1>5. ASSUME NEW c \in Clients, EnterByOauth(c) \/ FindBound(c) \/ FailOauth(c) PROVE BindingsInv'
    <2>1. Answered(c) /\ UNCHANGED <<profile, picture, binding>>
      BY <1>5 DEF EnterByOauth, FindBound, FailOauth
    <2>2. BindingsTypeOK' /\ ClientsKnow'
      BY <2>1, GoneType DEF BindingsTypeOK, ClientsKnow
    <2>3. promised' = promised \/ /\ promised' = promised \cup {<<client[c].user, client[c].who>>}
                                  /\ client[c].user \in Profiles /\ client[c].who \in Identities
                                  /\ binding[client[c].who] = client[c].user
      BY <1>5 DEF EnterByOauth, FindBound, FailOauth, ClientsKnow
    <2> QED BY <2>1, <2>2, <2>3, OnlyClients
  <1>6. ASSUME NEW c \in Clients, NEW who \in Identities, NEW u \in Profiles, who = client[c].who, Free(who, u),
               binding' = [binding EXCEPT ![who] = u], picture' = Shown(c, u, who),
               profile' = profile \/ profile' = [profile EXCEPT ![u] = "made"],
               promised' = promised \/ promised' = promised \cup {<<u, who>>},
               BindingsTypeOK', ClientsKnow'
        PROVE  BindingsInv'
    <2>1. binding'[who] = u /\ \A i \in Identities \ {who} : binding'[i] = binding[i] /\ binding[i] # u
      BY <1>6 DEF BindingsTypeOK, Free, IdentitiesOf
    <2>2. OneIdentityEach'
      BY <2>1 DEF OneIdentityEach
    <2>3. MadeWithIdentity'
      BY <1>6, <2>1 DEF MadeWithIdentity, IdentitiesOf, Free, BindingsTypeOK
    <2>4. PromisesKept' /\ promised' \subseteq Profiles \X Identities
      BY <1>6, <2>1 DEF PromisesKept, Free
    <2>5. PicturesOwn'
      BY <1>6, <2>1 DEF PicturesOwn, Shown, BindingsTypeOK, Free
    <2> QED BY <1>6, <2>2, <2>3, <2>4, <2>5
  <1>7. ASSUME NEW c \in Clients, NEW u \in Profiles, CreateOauthUser(c, u) PROVE BindingsInv'
    <2>1. PICK who \in Identities : who = client[c].who
      BY <1>7 DEF CreateOauthUser, ClientsKnow
    <2>2. BindingsTypeOK'
      <3>1. picture' \in [Profiles -> Identities \cup {NoOne}]
        BY <1>7, <2>1 DEF CreateOauthUser, BindingsTypeOK, Shown
      <3>2. profile' \in [Profiles -> {"none", "own", "made"}]
        BY <1>7 DEF CreateOauthUser, BindingsTypeOK
      <3>3. binding' \in [Identities -> Profiles \cup {NoOne}]
        BY <1>7 DEF CreateOauthUser, BindingsTypeOK
      <3> QED BY <1>7, <3>1, <3>2, <3>3, Enters DEF CreateOauthUser, BindingsTypeOK
    <2>3. ClientsKnow'
      BY <1>7, <2>1 DEF CreateOauthUser, BindingsTypeOK, ClientsKnow, Free
    <2> QED BY <1>6, <1>7, <2>1, <2>2, <2>3 DEF CreateOauthUser
  <1>8. ASSUME NEW c \in Clients, CreateUserOauthBinding(c) PROVE BindingsInv'
    <2>1. PICK who \in Identities : who = client[c].who
      BY <1>8 DEF CreateUserOauthBinding, ClientsKnow
    <2>2. PICK u \in Profiles : u = client[c].user
      BY <1>8 DEF CreateUserOauthBinding, ClientsKnow
    <2>3. BindingsTypeOK'
      BY <1>8, <2>1, <2>2, GoneType DEF CreateUserOauthBinding, BindingsTypeOK, Shown
    <2>4. ClientsKnow'
      BY <1>8, <2>1, <2>2, GoneType DEF CreateUserOauthBinding, BindingsTypeOK, ClientsKnow, Free
    <2> QED BY <1>6, <1>8, <2>1, <2>2, <2>3, <2>4 DEF CreateUserOauthBinding
  <1>9. ASSUME UNCHANGED bindingVars PROVE BindingsInv'
    BY <1>9 DEF bindingVars, BindingsTypeOK, ClientsKnow, OneIdentityEach, MadeWithIdentity,
       PromisesKept,
                PicturesOwn, IdentitiesOf
  <1> QED BY <1>1, <1>2, <1>3, <1>4, <1>5, <1>7, <1>8, <1>9 DEF BindingsNext

LEMMA BindingsInvariant == BindingsSpec => []BindingsInv
  <1>1. ASSUME BindingsInit PROVE BindingsInv
    BY <1>1, BindingsAssumption DEF BindingsInit, BindingsInv, BindingsTypeOK, ClientsKnow,
       OneIdentityEach, MadeWithIdentity,
       PromisesKept, PicturesOwn, Gone
  <1> QED BY <1>1, BindingsKept, PTL DEF BindingsSpec

\* Every variable of both modules keeps its type; an identity that was bound or logged in with
\* leads to its account for good, an account has at most one, a login that lost leaves no account
\* that nobody can enter, and a row shows a picture of its own.
THEOREM RegistrationIsSound == Spec /\ BindingsSpec => []RegistrationSound
  <1>1. ASSUME BindingsInv PROVE BindingsSound
    <2>1. NobodyLockedOut
      <3> SUFFICES ASSUME NEW u \in Profiles PROVE Cardinality(IdentitiesOf(u)) <= 1
        BY <1>1 DEF BindingsInv, MadeWithIdentity, NobodyLockedOut
      <3>1. CASE IdentitiesOf(u) = {}
        BY <3>1, FS_EmptySet
      <3>2. CASE IdentitiesOf(u) # {}
        <4>1. PICK i \in IdentitiesOf(u) : TRUE
          BY <3>2
        <4>2. IdentitiesOf(u) = {i}
          BY <1>1, <4>1, BindingsAssumption DEF BindingsInv, OneIdentityEach, IdentitiesOf
        <4> QED BY <4>2, FS_Singleton
      <3> QED BY <3>1, <3>2
    <2> QED BY <1>1, <2>1 DEF BindingsInv, BindingsSound
  <1> QED BY <1>1, RegistrationInvariant, BindingsInvariant, PTL DEF RegistrationInv,
             RegistrationSound
=============================================================================
