------------------------- MODULE EmailCaptcha_proofs -------------------------
(***************************************************************************)
(* Proofs about EmailCaptcha, for any addresses, any finite set of         *)
(* requests and any bound on the mails.                                    *)
(***************************************************************************)
EXTENDS EmailCaptcha, FiniteSetTheorems, TLAPS

\* The requests of R at a stage with captcha n, and their number.
At(R, s, n) == {p \in Procs : R[p].stage = s /\ R[p].captcha = n}

Num(R, s, n) == Cardinality(At(R, s, n))

\* What one request contributes to that number.
One(x, s, n) == IF x.stage = s /\ x.captcha = n THEN 1 ELSE 0

\* Captcha n is stored for some address.
Stored(c, n) == \E e \in Emails : c[e] = n

\* A captcha that is not mailed yet is nowhere.
Numbered ==
    /\ \A p \in Procs : req[p].captcha <= mails
    /\ \A e \in Emails : captcha[e] <= mails
    /\ \A n \in Captchas : n > mails => uses[n] = 0

\* A captcha belongs to one address.
Owned ==
    /\ \A p \in Procs, e \in Emails : req[p].captcha = captcha[e] /\ captcha[e] # 0 => req[p].email = e
    /\ \A e, f \in Emails : captcha[e] = captcha[f] /\ captcha[e] # 0 => e = f
    /\ \A p, q \in Procs : req[p].captcha = req[q].captcha /\ req[p].captcha # 0 => req[p].email = req[q].email

\* Before it is stored only the request that mails it has it.
Fresh ==
    \A p \in Procs : req[p].stage \in {"mailed", "store"} =>
        /\ uses[req[p].captcha] = 0
        /\ ~Stored(captcha, req[p].captcha)
        /\ \A q \in Procs \ {p} : req[q].captcha # req[p].captcha

\* While a captcha is stored it has proved its address once for every request
\* that is about to delete it; afterwards no further request can read it.
Balanced(used, proving, forgetting, stored) ==
    /\ forgetting <= used
    /\ stored => used = forgetting
    /\ ~stored => used + proving <= Cardinality(Procs)

Counted ==
    \A n \in Captchas :
        Balanced(uses[n], Num(req, "prove", n), Num(req, "forget", n), Stored(captcha, n))

CaptchaInv == TypeOK /\ Numbered /\ Owned /\ Fresh /\ Counted

-----------------------------------------------------------------------------
\* Counting requests

\* Requests at different stages are together no more than all.
LEMMA NumBounds ==
    ASSUME NEW R, NEW n
    PROVE  /\ Num(R, "prove", n) \in Nat /\ Num(R, "forget", n) \in Nat /\ Cardinality(Procs) \in Nat
           /\ Num(R, "prove", n) + Num(R, "forget", n) <= Cardinality(Procs)
  <1> DEFINE S == At(R, "prove", n)
             T == At(R, "forget", n)
  <1>1. S \subseteq Procs /\ T \subseteq Procs /\ S \cap T = {}
    BY DEF At
  <1>2. IsFiniteSet(Procs) /\ IsFiniteSet(S) /\ IsFiniteSet(T)
    BY <1>1, CaptchaAssumption, FS_Subset
  <1> HIDE DEF S, T
  <1>3. Cardinality(S \cup T) = Cardinality(S) + Cardinality(T) - Cardinality(S \cap T)
    BY <1>2, FS_Union
  <1>4. Cardinality(S \cap T) = 0
    BY <1>1, FS_EmptySet
  <1>5. S \cup T \subseteq Procs
    BY <1>1
  <1>6. Cardinality(S \cup T) <= Cardinality(Procs)
    BY <1>2, <1>5, FS_Subset
  <1>7. Cardinality(S) \in Nat /\ Cardinality(T) \in Nat /\ Cardinality(Procs) \in Nat
    BY <1>2, FS_CardinalityType
  <1>8. Cardinality(S) + Cardinality(T) <= Cardinality(Procs)
    BY <1>3, <1>4, <1>6, <1>7
  <1> QED BY <1>7, <1>8 DEF Num, S, T

\* What the step of one request does to the number of requests at a stage.
LEMMA NumStep ==
    ASSUME TypeOK, NEW p \in Procs, \A q \in Procs \ {p} : req'[q] = req[q], NEW s, NEW n
    PROVE  /\ Num(req, s, n) \in Nat
           /\ Num(req', s, n) = Num(req, s, n) + One(req'[p], s, n) - One(req[p], s, n)
  <1> DEFINE S == At(req, s, n)
             T == At(req', s, n)
             before == req[p].stage = s /\ req[p].captcha = n
             after == req'[p].stage = s /\ req'[p].captcha = n
  <1>1. S \subseteq Procs
    BY DEF At
  <1>2. IsFiniteSet(S) /\ Cardinality(S) \in Nat
    BY <1>1, CaptchaAssumption, FS_Subset, FS_CardinalityType
  <1>3. p \in S <=> before
    BY DEF At
  <1>4. (before <=> after) => T = S
    BY DEF At
  <1>5. ~before /\ after => T = S \cup {p}
    BY DEF At
  <1>6. before /\ ~after => T = S \ {p}
    BY DEF At
  <1>7. Num(req, s, n) = Cardinality(S) /\ Num(req', s, n) = Cardinality(T)
    BY DEF Num
  <1>8. One(req'[p], s, n) = (IF after THEN 1 ELSE 0) /\ One(req[p], s, n) = (IF before THEN 1 ELSE 0)
    BY DEF One
  <1> HIDE DEF S, T, before, after
  <1>9. CASE before <=> after
    BY <1>9, <1>2, <1>4, <1>7, <1>8
  <1>10. CASE ~before /\ after
    <2>1. Cardinality(T) = Cardinality(S \cup {p})
      BY <1>5, <1>10
    <2>2. Cardinality(S \cup {p}) = Cardinality(S) + 1
      BY <1>2, <1>3, <1>10, FS_AddElement
    <2> QED BY <1>2, <1>7, <1>8, <1>10, <2>1, <2>2
  <1>11. CASE before /\ ~after
    <2>1. Cardinality(T) = Cardinality(S \ {p})
      BY <1>6, <1>11
    <2>2. Cardinality(S \ {p}) = Cardinality(S) - 1
      BY <1>2, <1>3, <1>11, FS_RemoveElement
    <2> QED BY <1>2, <1>7, <1>8, <1>11, <2>1, <2>2
  <1> QED BY <1>9, <1>10, <1>11

\* No request at a stage that none has reached.
LEMMA NumZero ==
    ASSUME NEW R, NEW s, NEW n, \A q \in Procs : ~(R[q].stage = s /\ R[q].captcha = n)
    PROVE  Num(R, s, n) = 0
  <1>1. At(R, s, n) = {}
    BY DEF At
  <1> QED BY <1>1, FS_EmptySet DEF Num

-----------------------------------------------------------------------------
\* Types

LEMMA NoRequestFacts ==
    /\ NoRequest \in Request
    /\ NoRequest.stage = "idle" /\ NoRequest.captcha = 0
  BY DEF NoRequest, Request

LEMMA Types ==
    ASSUME TypeOK
    PROVE  /\ MaxMails \in Nat /\ mails \in Nat
           /\ \A p \in Procs : /\ req[p] \in Request
                               /\ req[p].captcha \in Nat
                               /\ req[p].stage = "idle" => req[p].captcha = 0
                               /\ req[p].stage # "idle" =>
                                    /\ req[p] \in [stage : Stages, email : Emails, captcha : Captchas]
                                    /\ req[p].captcha # 0
           /\ \A e \in Emails : captcha[e] \in Nat /\ captcha[e] <= MaxMails
           /\ \A e \in Emails : captcha[e] # 0 => captcha[e] \in Captchas
           /\ \A n \in Captchas : uses[n] \in Nat /\ n \in Nat /\ n # 0
  BY CaptchaAssumption DEF TypeOK, Request, NoRequest, Captchas, Stages

\* A request that goes on keeps its address and its captcha.
LEMMA Goes ==
    ASSUME TypeOK, NEW p \in Procs, req[p].stage # "idle", NEW s \in Stages, GoOn(p, s)
    PROVE  \E r \in [stage : Stages, email : Emails, captcha : Captchas] :
              /\ r.stage = s /\ r.email = req[p].email /\ r.captcha = req[p].captcha
              /\ req' = [req EXCEPT ![p] = r]
              /\ req' \in [Procs -> Request]
  <1> DEFINE r == [req[p] EXCEPT !.stage = s]
  <1>1. req[p] \in [stage : Stages, email : Emails, captcha : Captchas]
    BY Types
  <1>2. /\ r \in [stage : Stages, email : Emails, captcha : Captchas]
        /\ r.stage = s /\ r.email = req[p].email /\ r.captcha = req[p].captcha
    BY <1>1
  <1>3. req' = [req EXCEPT ![p] = r]
    BY DEF GoOn
  <1> HIDE DEF r
  <1>4. req' \in [Procs -> Request]
    BY <1>2, <1>3 DEF TypeOK, Request
  <1> QED BY <1>2, <1>3, <1>4

\* Only request p changes.
Only(p) == \A q \in Procs \ {p} : req'[q] = req[q]

\* What the step of p does to the numbers of requests that prove and that forget n.
Moves(p, n) ==
    /\ Num(req', "prove", n) \in Nat /\ Num(req', "forget", n) \in Nat
    /\ Num(req', "prove", n) = Num(req, "prove", n) + One(req'[p], "prove", n) - One(req[p], "prove", n)
    /\ Num(req', "forget", n) = Num(req, "forget", n) + One(req'[p], "forget", n) - One(req[p], "forget", n)

LEMMA NumMoves ==
    ASSUME TypeOK, NEW p \in Procs, Only(p), NEW n
    PROVE  Moves(p, n)
  <1>1. Num(req', "prove", n) = Num(req, "prove", n) + One(req'[p], "prove", n) - One(req[p], "prove", n)
    BY NumStep, Zenon DEF Only
  <1>2. Num(req', "forget", n) = Num(req, "forget", n) + One(req'[p], "forget", n) - One(req[p], "forget", n)
    BY NumStep, Zenon DEF Only
  <1> QED BY <1>1, <1>2, NumBounds DEF Moves

-----------------------------------------------------------------------------
\* Steps that only change the history, the proofs, or take captchas away

LEMMA TakenAway ==
    ASSUME CaptchaInv, TypeOK', UNCHANGED <<mails, req, uses>>,
           \A e \in Emails : captcha'[e] = captcha[e] \/ captcha'[e] = 0
    PROVE  CaptchaInv'
  <1> USE DEF CaptchaInv
  <1>1. Numbered'
    BY Types DEF Numbered
  <1>2. Owned'
    BY DEF Owned
  <1>3. \A n \in Captchas : Stored(captcha', n) => Stored(captcha, n)
    BY Types DEF Stored
  <1>4. Fresh'
    BY Types, <1>3 DEF Fresh
  <1>5. Counted'
    <2> SUFFICES ASSUME NEW n \in Captchas
                 PROVE  Balanced(uses[n], Num(req, "prove", n), Num(req, "forget", n), Stored(captcha', n))
      BY DEF Counted
    <2>1. Balanced(uses[n], Num(req, "prove", n), Num(req, "forget", n), Stored(captcha, n))
      BY DEF Counted
    <2> QED BY <2>1, <1>3, NumBounds, Types DEF Balanced
  <1> QED BY <1>1, <1>2, <1>4, <1>5

LEMMA ExpireRepeatStep ==
    ASSUME CaptchaInv, NEW e \in Emails, ExpireRepeat(e)
    PROVE  CaptchaInv'
  <1>1. TypeOK'
    BY DEF ExpireRepeat, CaptchaInv, TypeOK
  <1> QED BY <1>1, TakenAway DEF ExpireRepeat

LEMMA ExpireKeyStep ==
    ASSUME CaptchaInv, NEW e \in Emails, ExpireKey(e)
    PROVE  CaptchaInv'
  <1>1. TypeOK'
    BY CaptchaAssumption DEF ExpireKey, CaptchaInv, TypeOK
  <1>2. \A f \in Emails : captcha'[f] = captcha[f] \/ captcha'[f] = 0
    BY DEF ExpireKey, CaptchaInv, TypeOK
  <1> QED BY <1>1, <1>2, TakenAway DEF ExpireKey

LEMMA ConsumeProofStep ==
    ASSUME CaptchaInv, NEW e \in Emails, ConsumeProof(e)
    PROVE  CaptchaInv'
  <1>1. TypeOK'
    BY DEF ConsumeProof, CaptchaInv, TypeOK
  <1> QED BY <1>1, TakenAway DEF ConsumeProof

-----------------------------------------------------------------------------
\* Sending a captcha

LEMMA BeginCaptchaStep ==
    ASSUME CaptchaInv, NEW p \in Procs, NEW e \in Emails, BeginCaptcha(p, e)
    PROVE  CaptchaInv'
  <1> USE DEF CaptchaInv
  <1> DEFINE n == mails + 1
             r == [stage |-> "mailed", email |-> e, captcha |-> n]
  <1>1. /\ req[p].stage = "idle" /\ req[p].captcha = 0
        /\ mails' = n /\ req' = [req EXCEPT ![p] = r]
        /\ UNCHANGED <<repeat, captcha, proof, recent, uses>>
    BY Types DEF BeginCaptcha, Start
  <1>2. n \in Captchas /\ mails' \in 0..MaxMails
    BY CaptchaAssumption DEF BeginCaptcha, TypeOK, Captchas
  <1>3. r \in Request /\ r.stage = "mailed" /\ r.email = e /\ r.captcha = n
    BY <1>2 DEF Request, Stages
  <1> HIDE DEF r
  <1>4. TypeOK'
    BY <1>1, <1>2, <1>3 DEF TypeOK
  <1>5. req \in [Procs -> Request] /\ uses[n] = 0
        /\ (\A q \in Procs : req[q].captcha # n) /\ (\A f \in Emails : captcha[f] # n)
    BY <1>2, Types DEF Numbered, TypeOK
  <1>6. Numbered'
    BY <1>1, <1>2, <1>3, <1>5, Types DEF Numbered
  <1>7. Owned'
    BY <1>1, <1>3, <1>5 DEF Owned
  <1>8. Fresh'
    BY <1>1, <1>3, <1>5 DEF Fresh, Stored
  <1>9. Counted'
    <2> SUFFICES ASSUME NEW m \in Captchas
                 PROVE  Balanced(uses[m], Num(req', "prove", m), Num(req', "forget", m), Stored(captcha, m))
      BY <1>1 DEF Counted
    <2>1. Num(req', "prove", m) = Num(req, "prove", m) /\ Num(req', "forget", m) = Num(req, "forget", m)
      <3>1. Only(p)
        BY <1>1 DEF Only, TypeOK
      <3>2. Moves(p, m)
        BY <3>1, NumMoves
      <3> QED BY <1>1, <1>3, <3>2, NumBounds DEF Moves, One, TypeOK
    <2> QED BY <2>1 DEF Counted
  <1> QED BY <1>4, <1>6, <1>7, <1>8, <1>9

LEMMA SetRepeatStep ==
    ASSUME CaptchaInv, NEW p \in Procs, SetRepeat(p)
    PROVE  CaptchaInv'
  <1> USE DEF CaptchaInv
  <1>1. req[p].stage = "mailed" /\ GoOn(p, "store") /\ UNCHANGED <<mails, captcha, proof, uses>>
    BY DEF SetRepeat
  <1>2. PICK r \in [stage : Stages, email : Emails, captcha : Captchas] :
              /\ r.stage = "store" /\ r.email = req[p].email /\ r.captcha = req[p].captcha
              /\ req' = [req EXCEPT ![p] = r]
              /\ req' \in [Procs -> Request]
    BY <1>1, Goes DEF Stages
  <1>3. TypeOK'
    BY <1>1, <1>2 DEF SetRepeat, TypeOK
  <1>4. req \in [Procs -> Request]
    BY DEF TypeOK
  <1>5. Numbered'
    BY <1>1, <1>2, <1>4 DEF Numbered
  <1>6. Owned'
    BY <1>1, <1>2, <1>4 DEF Owned
  <1>7. Fresh'
    BY <1>1, <1>2, <1>4 DEF Fresh
  <1>8. Counted'
    <2> SUFFICES ASSUME NEW m \in Captchas
                 PROVE  Balanced(uses[m], Num(req', "prove", m), Num(req', "forget", m), Stored(captcha, m))
      BY <1>1 DEF Counted
    <2>1. Num(req', "prove", m) = Num(req, "prove", m) /\ Num(req', "forget", m) = Num(req, "forget", m)
      <3>1. Only(p)
        BY <1>1, <1>2 DEF Only, TypeOK
      <3>2. Moves(p, m)
        BY <3>1, NumMoves
      <3> QED BY <1>1, <1>2, <3>2, NumBounds DEF Moves, One, TypeOK
    <2> QED BY <2>1 DEF Counted
  <1> QED BY <1>3, <1>5, <1>6, <1>7, <1>8

LEMMA StoreCaptchaStep ==
    ASSUME CaptchaInv, NEW p \in Procs, StoreCaptcha(p)
    PROVE  CaptchaInv'
  <1> USE DEF CaptchaInv
  <1> DEFINE n == req[p].captcha
             e == req[p].email
  <1>1. /\ req[p].stage = "store" /\ req' = [req EXCEPT ![p] = NoRequest]
        /\ captcha' = [captcha EXCEPT ![e] = n]
        /\ UNCHANGED <<mails, repeat, proof, recent, uses>>
    BY DEF StoreCaptcha, Answer
  <1>2. n \in Captchas /\ e \in Emails /\ n # 0 /\ n \in 0..MaxMails
    BY <1>1, Types, CaptchaAssumption DEF Captchas
  <1>3. TypeOK'
    BY <1>1, <1>2, NoRequestFacts DEF TypeOK
  <1>4. req \in [Procs -> Request] /\ captcha \in [Emails -> 0..MaxMails]
    BY DEF TypeOK
  <1>5. uses[n] = 0 /\ ~Stored(captcha, n) /\ \A q \in Procs \ {p} : req[q].captcha # n
    BY <1>1 DEF Fresh
  <1> HIDE DEF n, e
  <1>6. n <= mails /\ 0 <= mails
    BY Types DEF Numbered, n
  <1>7. Numbered'
    BY <1>1, <1>2, <1>4, <1>6, NoRequestFacts DEF Numbered
  <1>8. Owned'
    <2>1. \A q \in Procs : req'[q] = (IF q = p THEN NoRequest ELSE req[q])
      BY <1>1, <1>4
    <2>2. \A f \in Emails : captcha'[f] = (IF f = e THEN n ELSE captcha[f])
      BY <1>1, <1>4
    <2>3. \A f \in Emails : captcha[f] # n
      BY <1>5 DEF Stored
    <2> QED BY <2>1, <2>2, <2>3, <1>5, NoRequestFacts DEF Owned
  <1>9. \A m \in Captchas : m # n => (Stored(captcha', m) => Stored(captcha, m))
    BY <1>1, <1>4 DEF Stored
  <1>10. Fresh'
    BY <1>1, <1>4, <1>5, <1>9, NoRequestFacts, Types DEF Fresh
  <1>11. Counted'
    <2> SUFFICES ASSUME NEW m \in Captchas
                 PROVE  Balanced(uses[m], Num(req', "prove", m), Num(req', "forget", m), Stored(captcha', m))
      BY <1>1 DEF Counted
    <2>1. /\ Num(req', "prove", m) = Num(req, "prove", m)
          /\ Num(req', "forget", m) = Num(req, "forget", m)
      <3>1. Only(p)
        BY <1>1 DEF Only, TypeOK
      <3>2. Moves(p, m)
        BY <3>1, NumMoves
      <3> QED BY <1>1, NoRequestFacts, <3>2, NumBounds DEF Moves, One, TypeOK
    <2>2. Balanced(uses[m], Num(req, "prove", m), Num(req, "forget", m), Stored(captcha, m))
      BY DEF Counted
    <2>3. CASE m # n
      BY <2>1, <2>2, <2>3, <1>9, NumBounds, Types DEF Balanced
    <2>4. CASE m = n
      <3>1. Num(req, "forget", m) = 0 /\ Num(req, "prove", m) = 0
        BY <2>4, <1>1, <1>5, NumZero
      <3> QED BY <2>1, <2>4, <3>1, <1>5, NumBounds DEF Balanced
    <2> QED BY <2>3, <2>4
  <1> QED BY <1>3, <1>7, <1>8, <1>10, <1>11

-----------------------------------------------------------------------------
\* Verifying a captcha

LEMMA BeginVerifyStep ==
    ASSUME CaptchaInv, NEW p \in Procs, NEW e \in Emails, BeginVerify(p, e)
    PROVE  CaptchaInv'
  <1> USE DEF CaptchaInv
  <1> DEFINE n == captcha[e]
             r == [stage |-> "prove", email |-> e, captcha |-> n]
  <1>1. /\ req[p].stage = "idle" /\ n # 0 /\ req' = [req EXCEPT ![p] = r]
        /\ UNCHANGED <<mails, repeat, captcha, proof, recent, uses>>
    BY DEF BeginVerify, Start
  <1>2. n \in Captchas /\ n <= mails
    BY <1>1, Types DEF Numbered
  <1>3. r \in Request /\ r.stage = "prove" /\ r.email = e /\ r.captcha = n
    BY <1>2 DEF Request, Stages
  <1> HIDE DEF r
  <1>4. TypeOK' /\ req \in [Procs -> Request]
    BY <1>1, <1>3 DEF TypeOK
  <1>5. Numbered'
    BY <1>1, <1>2, <1>3, <1>4 DEF Numbered
  <1>6. Owned'
    BY <1>1, <1>3, <1>4 DEF Owned
  <1>7. Fresh'
    BY <1>1, <1>3, <1>4 DEF Fresh, Stored
  <1>8. Counted'
    <2> SUFFICES ASSUME NEW m \in Captchas
                 PROVE  Balanced(uses[m], Num(req', "prove", m), Num(req', "forget", m), Stored(captcha, m))
      BY <1>1 DEF Counted
    <2>1. Balanced(uses[m], Num(req, "prove", m), Num(req, "forget", m), Stored(captcha, m))
      BY DEF Counted
    <2>2. Only(p)
      BY <1>1 DEF Only, TypeOK
    <2>3. Moves(p, m)
      BY <2>2, NumMoves
    <2>4. Num(req', "forget", m) = Num(req, "forget", m)
      BY <1>1, <1>3, <1>4, <2>3, NumBounds DEF Moves, One
    <2>5. m = n => Stored(captcha, m)
      BY DEF Stored
    <2>6. m # n => Num(req', "prove", m) = Num(req, "prove", m)
      BY <1>1, <1>3, <1>4, <2>3, NumBounds DEF Moves, One
    <2> QED BY <2>1, <2>4, <2>5, <2>6 DEF Balanced
  <1> QED BY <1>4, <1>5, <1>6, <1>7, <1>8

LEMMA SetProofStep ==
    ASSUME CaptchaInv, NEW p \in Procs, SetProof(p)
    PROVE  CaptchaInv'
  <1> USE DEF CaptchaInv
  <1> DEFINE n == req[p].captcha
  <1>1. /\ req[p].stage = "prove" /\ GoOn(p, "forget") /\ uses' = [uses EXCEPT ![n] = @ + 1]
        /\ proof' = proof \cup {req[p].email} /\ UNCHANGED <<mails, repeat, captcha, recent>>
    BY DEF SetProof
  <1>2. PICK r \in [stage : Stages, email : Emails, captcha : Captchas] :
              /\ r.stage = "forget" /\ r.email = req[p].email /\ r.captcha = req[p].captcha
              /\ req' = [req EXCEPT ![p] = r]
              /\ req' \in [Procs -> Request]
    BY <1>1, Goes DEF Stages
  <1>3. n \in Captchas /\ req[p].email \in Emails /\ uses[n] \in Nat
    BY <1>1, Types
  <1>4. TypeOK' /\ req \in [Procs -> Request] /\ uses \in [Captchas -> Nat]
    BY <1>1, <1>2, <1>3 DEF TypeOK
  <1>5. Numbered'
    BY <1>1, <1>2, <1>3, <1>4, Types DEF Numbered
  <1>6. Owned'
    BY <1>1, <1>2, <1>4 DEF Owned
  <1>7. Fresh'
    <2>1. \A q \in Procs : req[q].stage \in {"mailed", "store"} => q # p /\ req[q].captcha # n
      BY <1>1 DEF Fresh
    <2>2. \A m : m # n => uses'[m] = uses[m]
      BY <1>1, <1>4
    <2> QED BY <1>1, <1>2, <1>4, <2>1, <2>2 DEF Fresh
  <1>8. Counted'
    <2> SUFFICES ASSUME NEW m \in Captchas
                 PROVE  Balanced(uses'[m], Num(req', "prove", m), Num(req', "forget", m), Stored(captcha, m))
      BY <1>1 DEF Counted
    <2>1. Balanced(uses[m], Num(req, "prove", m), Num(req, "forget", m), Stored(captcha, m))
      BY DEF Counted
    <2>2. Only(p)
      BY <1>2 DEF Only, TypeOK
    <2>3. Moves(p, m)
      BY <2>2, NumMoves
    <2>4. CASE m = n
      <3>1. /\ Num(req', "prove", m) = Num(req, "prove", m) - 1
            /\ Num(req', "forget", m) = Num(req, "forget", m) + 1
        BY <1>1, <1>2, <1>4, <2>3, <2>4, NumBounds DEF Moves, One
      <3>2. uses'[m] = uses[m] + 1
        BY <1>1, <1>4, <2>4
      <3> QED BY <2>1, <2>4, <3>1, <3>2, <1>3, NumBounds DEF Balanced
    <2>5. CASE m # n
      <3>1. Num(req', "prove", m) = Num(req, "prove", m) /\ Num(req', "forget", m) = Num(req, "forget", m)
        BY <1>1, <1>2, <1>4, <2>3, <2>5, NumBounds DEF Moves, One
      <3>2. uses'[m] = uses[m]
        BY <1>1, <1>4, <2>5
      <3> QED BY <2>1, <3>1, <3>2
    <2> QED BY <2>4, <2>5
  <1> QED BY <1>4, <1>5, <1>6, <1>7, <1>8

\* Every request that ends leaves the rest of the invariant as it is.
LEMMA Ends ==
    ASSUME CaptchaInv, NEW p \in Procs, Answer(p), mails' = mails,
           \A e \in Emails : captcha'[e] = captcha[e] \/ captcha'[e] = 0,
           \A m \in Captchas : uses'[m] = uses[m] \/ (uses'[m] = uses[m] - 1 /\ uses[m] > 0)
    PROVE  /\ req' = [req EXCEPT ![p] = NoRequest] /\ req' \in [Procs -> Request]
           /\ Numbered' /\ Owned' /\ Only(p)
           /\ (\A m \in Captchas : uses[m] = 0 => uses'[m] = 0) => Fresh'
  <1> USE DEF CaptchaInv
  <1>1. req' = [req EXCEPT ![p] = NoRequest] /\ req' \in [Procs -> Request] /\ req \in [Procs -> Request]
    BY NoRequestFacts DEF Answer, TypeOK
  <1>2. \A q \in Procs : req'[q] = (IF q = p THEN NoRequest ELSE req[q])
    BY <1>1
  <1>3. Numbered'
    BY <1>2, NoRequestFacts, Types DEF Numbered
  <1>4. Owned'
    BY <1>2, NoRequestFacts DEF Owned
  <1>5. \A m \in Captchas : Stored(captcha', m) => Stored(captcha, m)
    BY Types DEF Stored
  <1>6. (\A m \in Captchas : uses[m] = 0 => uses'[m] = 0) => Fresh'
    BY <1>2, <1>5, NoRequestFacts, Types DEF Fresh
  <1> QED BY <1>1, <1>2, <1>3, <1>4, <1>6 DEF Only

LEMMA DeleteCaptchaStep ==
    ASSUME CaptchaInv, NEW p \in Procs, DeleteCaptcha(p)
    PROVE  CaptchaInv'
  <1> USE DEF CaptchaInv
  <1> DEFINE n == req[p].captcha
             e == req[p].email
  <1>1. /\ req[p].stage = "forget" /\ Answer(p) /\ captcha' = [captcha EXCEPT ![e] = 0]
        /\ UNCHANGED <<mails, repeat, proof, recent, uses>>
    BY DEF DeleteCaptcha
  <1>2. e \in Emails /\ n \in Captchas /\ n # 0 /\ captcha \in [Emails -> 0..MaxMails]
    BY <1>1, Types DEF TypeOK
  <1>3. \A f \in Emails : captcha'[f] = (IF f = e THEN 0 ELSE captcha[f])
    BY <1>1, <1>2
  <1>4. /\ req' = [req EXCEPT ![p] = NoRequest] /\ req' \in [Procs -> Request]
        /\ Numbered' /\ Owned' /\ Fresh' /\ Only(p)
    BY <1>1, <1>3, Ends
  <1>5. TypeOK'
    BY <1>1, <1>2, <1>4, CaptchaAssumption DEF TypeOK
  <1>6. Counted'
    <2> SUFFICES ASSUME NEW m \in Captchas
                 PROVE  Balanced(uses[m], Num(req', "prove", m), Num(req', "forget", m), Stored(captcha', m))
      BY <1>1 DEF Counted
    <2>1. Balanced(uses[m], Num(req, "prove", m), Num(req, "forget", m), Stored(captcha, m))
      BY DEF Counted
    <2>2. Moves(p, m)
      BY <1>4, NumMoves
    <2>3. Num(req', "prove", m) = Num(req, "prove", m)
      BY <1>1, <1>4, <2>2, NoRequestFacts, NumBounds DEF Moves, One, TypeOK
    <2>4. Stored(captcha', m) => Stored(captcha, m) /\ m # n
      <3> SUFFICES ASSUME NEW f \in Emails, captcha'[f] = m PROVE Stored(captcha, m) /\ m # n
        BY DEF Stored
      <3>1. f # e /\ captcha[f] = m /\ m # 0
        BY <1>3, Types
      <3> QED BY <3>1 DEF Stored, Owned
    <2>5. CASE m = n
      <3>1. Num(req', "forget", m) = Num(req, "forget", m) - 1
        BY <1>1, <1>4, <2>2, <2>5, NoRequestFacts, NumBounds DEF Moves, One, TypeOK
      <3> QED BY <2>1, <2>3, <2>4, <2>5, <3>1, NumBounds, Types DEF Balanced
    <2>6. CASE m # n
      <3>1. Num(req', "forget", m) = Num(req, "forget", m)
        BY <1>1, <1>2, <1>4, <2>2, <2>6, NoRequestFacts, NumBounds, Types DEF Moves, One, TypeOK
      <3> QED BY <2>1, <2>3, <2>4, <3>1, NumBounds, Types DEF Balanced
    <2> QED BY <2>5, <2>6
  <1> QED BY <1>4, <1>5, <1>6

LEMMA KeepCaptchaStep ==
    ASSUME CaptchaInv, NEW p \in Procs, KeepCaptcha(p)
    PROVE  CaptchaInv'
  <1> USE DEF CaptchaInv
  <1> DEFINE n == req[p].captcha
  <1>1. /\ req[p].stage = "forget" /\ Answer(p) /\ uses' = [uses EXCEPT ![n] = @ - 1]
        /\ UNCHANGED <<mails, repeat, captcha, proof, recent>>
    BY DEF KeepCaptcha
  <1>2. n \in Captchas /\ n # 0 /\ uses \in [Captchas -> Nat] /\ req \in [Procs -> Request]
    BY <1>1, Types DEF TypeOK
  <1>3. Balanced(uses[n], Num(req, "prove", n), Num(req, "forget", n), Stored(captcha, n))
    BY <1>2 DEF Counted
  <1>4. Only(p)
    BY <1>1 DEF Only, Answer, TypeOK
  <1>5. req'[p] = NoRequest
    BY <1>1, <1>2 DEF Answer
  <1>6. Num(req', "forget", n) = Num(req, "forget", n) - 1 /\ Num(req', "forget", n) \in Nat
    <2>1. Moves(p, n)
      BY <1>4, NumMoves
    <2> QED BY <2>1, <1>1, <1>2, <1>5, NoRequestFacts, NumBounds DEF Moves, One
  <1>7. uses[n] > 0
    BY <1>2, <1>3, <1>6, NumBounds DEF Balanced
  <1>8. \A m \in Captchas : uses'[m] = (IF m = n THEN uses[n] - 1 ELSE uses[m])
    BY <1>1, <1>2
  <1>9. /\ req' = [req EXCEPT ![p] = NoRequest] /\ req' \in [Procs -> Request]
        /\ Numbered' /\ Owned'
        /\ (\A m \in Captchas : uses[m] = 0 => uses'[m] = 0) => Fresh'
    <2>1. \A m \in Captchas : uses'[m] = uses[m] \/ (uses'[m] = uses[m] - 1 /\ uses[m] > 0)
      BY <1>7, <1>8
    <2> QED BY <1>1, <2>1, Ends
  <1>10. Fresh'
    BY <1>7, <1>8, <1>9
  <1>11. TypeOK'
    BY <1>1, <1>2, <1>7, <1>9 DEF TypeOK
  <1>12. Counted'
    <2> SUFFICES ASSUME NEW m \in Captchas
                 PROVE  Balanced(uses'[m], Num(req', "prove", m), Num(req', "forget", m), Stored(captcha, m))
      BY <1>1 DEF Counted
    <2>1. Balanced(uses[m], Num(req, "prove", m), Num(req, "forget", m), Stored(captcha, m))
      BY DEF Counted
    <2>2. Moves(p, m)
      BY <1>4, NumMoves
    <2>3. Num(req', "prove", m) = Num(req, "prove", m)
      BY <1>1, <1>5, <2>2, NoRequestFacts, NumBounds DEF Moves, One
    <2>4. CASE m = n
      BY <1>3, <1>6, <1>7, <1>8, <2>3, <2>4, NumBounds, Types DEF Balanced
    <2>5. CASE m # n
      <3>1. Num(req', "forget", m) = Num(req, "forget", m)
        BY <1>1, <1>5, <2>2, <2>5, NoRequestFacts, NumBounds, Types DEF Moves, One
      <3> QED BY <1>8, <2>1, <2>3, <2>5, <3>1
    <2> QED BY <2>4, <2>5
  <1> QED BY <1>9, <1>10, <1>11, <1>12

LEMMA FailStep ==
    ASSUME CaptchaInv, NEW p \in Procs, Fail(p)
    PROVE  CaptchaInv'
  <1> USE DEF CaptchaInv
  <1>1. /\ req[p].stage \in {"mailed", "store", "prove"} /\ Answer(p)
        /\ UNCHANGED <<mails, repeat, captcha, proof, recent, uses>>
    BY DEF Fail
  <1>2. /\ req' = [req EXCEPT ![p] = NoRequest] /\ req' \in [Procs -> Request]
        /\ Numbered' /\ Owned' /\ Fresh' /\ Only(p)
    BY <1>1, Ends
  <1>3. TypeOK'
    BY <1>1, <1>2 DEF TypeOK
  <1>4. Counted'
    <2> SUFFICES ASSUME NEW m \in Captchas
                 PROVE  Balanced(uses[m], Num(req', "prove", m), Num(req', "forget", m), Stored(captcha, m))
      BY <1>1 DEF Counted
    <2>1. Balanced(uses[m], Num(req, "prove", m), Num(req, "forget", m), Stored(captcha, m))
      BY DEF Counted
    <2>2. Moves(p, m)
      BY <1>2, NumMoves
    <2>3. /\ Num(req', "forget", m) = Num(req, "forget", m)
          /\ Num(req', "prove", m) <= Num(req, "prove", m) /\ Num(req', "prove", m) \in Nat
      BY <1>1, <1>2, <2>2, NoRequestFacts, NumBounds DEF Moves, One, TypeOK
    <2> QED BY <2>1, <2>3, NumBounds, Types DEF Balanced
  <1> QED BY <1>2, <1>3, <1>4

-----------------------------------------------------------------------------
\* The invariant

LEMMA CaptchaInvInit == Init => CaptchaInv
  <1> SUFFICES ASSUME Init PROVE CaptchaInv
    OBVIOUS
  <1>1. /\ mails = 0 /\ repeat = {} /\ proof = {}
        /\ captcha = [e \in Emails |-> 0] /\ req = [p \in Procs |-> NoRequest]
        /\ recent = [e \in Emails |-> 0] /\ uses = [n \in Captchas |-> 0]
    BY DEF Init
  <1>2. TypeOK
    BY <1>1, NoRequestFacts, CaptchaAssumption DEF TypeOK
  <1>3. Numbered
    BY <1>1, NoRequestFacts DEF Numbered
  <1>4. Owned
    BY <1>1, NoRequestFacts DEF Owned
  <1>5. Fresh
    BY <1>1, NoRequestFacts DEF Fresh
  <1>6. ASSUME NEW n \in Captchas
        PROVE  Balanced(uses[n], Num(req, "prove", n), Num(req, "forget", n), Stored(captcha, n))
    <2>1. \A q \in Procs : req[q].stage = "idle"
      BY <1>1, NoRequestFacts
    <2>2. Num(req, "forget", n) = 0 /\ Num(req, "prove", n) = 0
      BY <2>1, NumZero
    <2>3. uses[n] = 0
      BY <1>1
    <2> QED BY <2>2, <2>3, NumBounds DEF Balanced
  <1> QED BY <1>2, <1>3, <1>4, <1>5, <1>6 DEF CaptchaInv, Counted

LEMMA CaptchaInvNext == CaptchaInv /\ [Next]_vars => CaptchaInv'
  <1> SUFFICES ASSUME CaptchaInv, [Next]_vars PROVE CaptchaInv'
    OBVIOUS
  <1>1. CASE UNCHANGED vars
    <2>1. TypeOK'
      BY <1>1 DEF vars, CaptchaInv, TypeOK
    <2> QED BY <1>1, <2>1, TakenAway DEF vars
  <1>2. CASE \E e \in Emails : ExpireRepeat(e) \/ ExpireKey(e) \/ ConsumeProof(e)
    BY <1>2, ExpireRepeatStep, ExpireKeyStep, ConsumeProofStep
  <1>3. CASE \E p \in Procs, e \in Emails : BeginCaptcha(p, e) \/ BeginVerify(p, e)
    BY <1>3, BeginCaptchaStep, BeginVerifyStep
  <1>4. CASE \E p \in Procs : SetRepeat(p) \/ StoreCaptcha(p)
    BY <1>4, SetRepeatStep, StoreCaptchaStep
  <1>5. CASE \E p \in Procs : SetProof(p) \/ DeleteCaptcha(p) \/ KeepCaptcha(p) \/ Fail(p)
    BY <1>5, SetProofStep, DeleteCaptchaStep, KeepCaptchaStep, FailStep
  <1> QED BY <1>1, <1>2, <1>3, <1>4, <1>5 DEF Next

LEMMA CaptchaInvAlways == Spec => []CaptchaInv
  BY CaptchaInvInit, CaptchaInvNext, PTL DEF Spec

\* Every reachable state of the captchas in Redis and of the requests that use
\* them has its type: a request that proves an address carries a captcha.
THEOREM CaptchaTypes == Spec => []TypeOK
  <1>1. CaptchaInv => TypeOK
    BY DEF CaptchaInv
  <1> QED BY <1>1, CaptchaInvAlways, PTL

\* A captcha proves its address at most once for every goroutine, because only
\* requests that read it before the first deletion can prove with it
\* (AuthService.VerifyCaptcha).
THEOREM CaptchaUses == Spec => []CaptchaUsesBounded
  <1>1. CaptchaInv => CaptchaUsesBounded
    <2> SUFFICES ASSUME CaptchaInv, NEW n \in Captchas PROVE uses[n] <= Cardinality(Procs)
      BY DEF CaptchaUsesBounded
    <2>1. Balanced(uses[n], Num(req, "prove", n), Num(req, "forget", n), Stored(captcha, n))
      BY DEF CaptchaInv, Counted
    <2> QED BY <2>1, NumBounds, Types DEF Balanced, CaptchaInv
  <1> QED BY <1>1, CaptchaInvAlways, PTL

-----------------------------------------------------------------------------
\* Mails within the 60 seconds

\* Mails are counted only while the key of the 60 seconds lasts.
CountedWhileKept == \A e \in Emails : recent[e] > 0 => e \in repeat

MailInv == CountedWhileKept /\ MailsBounded

\* The requests of R that have mailed a captcha to e and not set the key.
MailingIn(R, e) == {p \in Procs : R[p].stage = "mailed" /\ R[p].email = e}

LEMMA MailingCount ==
    ASSUME NEW R, NEW e
    PROVE  /\ IsFiniteSet(MailingIn(R, e)) /\ Cardinality(MailingIn(R, e)) \in Nat
           /\ Cardinality(Procs) \in Nat
           /\ Cardinality(MailingIn(R, e)) <= Cardinality(Procs)
  <1>1. MailingIn(R, e) \subseteq Procs
    BY DEF MailingIn
  <1> QED BY <1>1, CaptchaAssumption, FS_Subset, FS_CardinalityType

\* A step that sends no mail and counts none.
LEMMA NoMail ==
    ASSUME TypeOK, MailInv, \A e \in Emails : MailingIn(req', e) \subseteq MailingIn(req, e),
           \/ UNCHANGED <<recent, repeat>>
           \/ \E e \in Emails : ExpireRepeat(e)
    PROVE  MailInv'
  <1>1. \A e \in Emails : recent[e] \in Nat /\ recent'[e] \in Nat /\ recent'[e] <= recent[e]
    BY DEF ExpireRepeat, TypeOK
  <1>2. CountedWhileKept'
    BY DEF MailInv, CountedWhileKept, ExpireRepeat, TypeOK
  <1>3. ASSUME NEW e \in Emails
        PROVE  recent'[e] + Cardinality(MailingIn(req', e)) <= Cardinality(Procs)
    <2>1. recent[e] + Cardinality(MailingIn(req, e)) <= Cardinality(Procs)
      BY DEF MailInv, MailsBounded, Mailing, MailingIn
    <2>2. Cardinality(MailingIn(req', e)) <= Cardinality(MailingIn(req, e))
      BY MailingCount, FS_Subset
    <2> QED BY <1>1, <2>1, <2>2, MailingCount
  <1>4. MailsBounded'
    BY <1>3 DEF MailsBounded, Mailing, MailingIn
  <1> QED BY <1>2, <1>4 DEF MailInv

LEMMA BeginCaptchaMails ==
    ASSUME TypeOK, MailInv, NEW p \in Procs, NEW e \in Emails, BeginCaptcha(p, e)
    PROVE  MailInv'
  <1>1. e \notin repeat /\ UNCHANGED <<repeat, recent>>
    BY DEF BeginCaptcha
  <1>2. recent[e] = 0
    BY <1>1 DEF MailInv, CountedWhileKept, TypeOK
  <1>3. \A f \in Emails : f # e => MailingIn(req', f) = MailingIn(req, f)
    BY DEF BeginCaptcha, Start, MailingIn, TypeOK
  <1>4. ASSUME NEW f \in Emails
        PROVE  recent[f] + Cardinality(MailingIn(req', f)) <= Cardinality(Procs)
    <2>1. CASE f = e
      BY <1>2, <2>1, MailingCount
    <2>2. CASE f # e
      BY <1>3, <2>2 DEF MailInv, MailsBounded, Mailing, MailingIn
    <2> QED BY <2>1, <2>2
  <1>5. MailsBounded'
    BY <1>1, <1>4 DEF MailsBounded, Mailing, MailingIn
  <1> QED BY <1>1, <1>5 DEF MailInv, CountedWhileKept

LEMMA SetRepeatMails ==
    ASSUME TypeOK, MailInv, NEW p \in Procs, SetRepeat(p)
    PROVE  MailInv'
  <1> DEFINE e == req[p].email
  <1>1. /\ req[p].stage = "mailed" /\ GoOn(p, "store")
        /\ repeat' = repeat \cup {e} /\ recent' = [recent EXCEPT ![e] = @ + 1]
    BY DEF SetRepeat
  <1>2. e \in Emails /\ recent \in [Emails -> Nat]
    BY <1>1, Types DEF TypeOK
  <1>3. CountedWhileKept'
    BY <1>1, <1>2 DEF MailInv, CountedWhileKept
  <1>4. ASSUME NEW f \in Emails
        PROVE  recent'[f] + Cardinality(MailingIn(req', f)) <= Cardinality(Procs)
    <2>1. recent[f] + Cardinality(MailingIn(req, f)) <= Cardinality(Procs)
      BY DEF MailInv, MailsBounded, Mailing, MailingIn
    <2>2. CASE f = e
      <3>1. MailingIn(req', f) = MailingIn(req, f) \ {p} /\ p \in MailingIn(req, f)
        BY <1>1, <2>2 DEF MailingIn, GoOn, TypeOK
      <3>2. Cardinality(MailingIn(req, f) \ {p}) = Cardinality(MailingIn(req, f)) - 1
        BY <3>1, MailingCount, FS_RemoveElement
      <3>3. recent'[f] = recent[f] + 1
        BY <1>1, <1>2, <2>2
      <3> QED BY <2>1, <3>1, <3>2, <3>3, <1>2, MailingCount
    <2>3. CASE f # e
      <3>1. MailingIn(req', f) = MailingIn(req, f)
        BY <1>1, <2>3 DEF MailingIn, GoOn, TypeOK
      <3>2. recent'[f] = recent[f]
        BY <1>1, <1>2, <2>3
      <3> QED BY <2>1, <3>1, <3>2
    <2> QED BY <2>2, <2>3
  <1>5. MailsBounded'
    BY <1>4 DEF MailsBounded, Mailing, MailingIn
  <1> QED BY <1>3, <1>5 DEF MailInv

LEMMA MailInvNext == TypeOK /\ MailInv /\ [Next]_vars => MailInv'
  <1> SUFFICES ASSUME TypeOK, MailInv, [Next]_vars PROVE MailInv'
    OBVIOUS
  <1>1. CASE UNCHANGED vars
    BY <1>1, NoMail DEF vars
  <1>2. CASE \E e \in Emails : ExpireRepeat(e) \/ ExpireKey(e) \/ ConsumeProof(e)
    BY <1>2, NoMail DEF ExpireRepeat, ExpireKey, ConsumeProof
  <1>3. ASSUME NEW p \in Procs, NEW e \in Emails, BeginVerify(p, e) PROVE MailInv'
    <2>1. \A f \in Emails : MailingIn(req', f) \subseteq MailingIn(req, f)
      BY <1>3 DEF BeginVerify, Start, MailingIn, TypeOK
    <2> QED BY <1>3, <2>1, NoMail DEF BeginVerify
  <1>4. ASSUME NEW p \in Procs,
               StoreCaptcha(p) \/ SetProof(p) \/ DeleteCaptcha(p) \/ KeepCaptcha(p) \/ Fail(p)
        PROVE  MailInv'
    <2>1. UNCHANGED <<recent, repeat>>
      BY <1>4 DEF StoreCaptcha, SetProof, DeleteCaptcha, KeepCaptcha, Fail
    <2>2. Answer(p) \/ GoOn(p, "forget")
      BY <1>4 DEF StoreCaptcha, SetProof, DeleteCaptcha, KeepCaptcha, Fail
    <2>3. req'[p].stage # "mailed" /\ \A q \in Procs \ {p} : req'[q] = req[q]
      <3>1. CASE Answer(p)
        BY <3>1, NoRequestFacts DEF Answer, TypeOK
      <3>2. CASE GoOn(p, "forget")
        <4>1. req[p].stage # "idle"
          BY <1>4, <3>2, NoRequestFacts DEF StoreCaptcha, SetProof, DeleteCaptcha, KeepCaptcha, Fail
        <4> QED BY <4>1, <3>2, Goes DEF TypeOK, Stages
      <3> QED BY <2>2, <3>1, <3>2
    <2>4. \A f \in Emails : MailingIn(req', f) \subseteq MailingIn(req, f)
      BY <2>3 DEF MailingIn
    <2> QED BY <2>1, <2>4, NoMail
  <1> QED BY <1>1, <1>2, <1>3, <1>4, BeginCaptchaMails, SetRepeatMails DEF Next

\* While the 60 second key of an address lasts, no more captchas are mailed to
\* it than there are goroutines: those that had found no key before it was set
\* (AuthService.SendCaptcha).
THEOREM MailsAreBounded == Spec => []MailsBounded
  <1>1. Init => MailInv
    <2> SUFFICES ASSUME Init PROVE MailInv
      OBVIOUS
    <2>1. CountedWhileKept
      BY DEF Init, CountedWhileKept
    <2>2. ASSUME NEW e \in Emails PROVE recent[e] + Cardinality(MailingIn(req, e)) <= Cardinality(Procs)
      <3>1. recent[e] = 0
        BY DEF Init
      <3> QED BY <3>1, MailingCount
    <2> QED BY <2>1, <2>2 DEF MailInv, MailsBounded, Mailing, MailingIn
  <1>2. MailInv => MailsBounded
    BY DEF MailInv
  <1> QED BY <1>1, <1>2, MailInvNext, CaptchaTypes, PTL DEF Spec

=============================================================================
