--------------------------- MODULE Evaluations_proofs ---------------------------
(***************************************************************************)
(* Proofs about EvaluationReplies, Rankings and Evaluations, for any sets  *)
(* of users, rows and requests, any scores and any length of a ranking.    *)
(***************************************************************************)
EXTENDS MCEvaluations, FiniteSetTheorems, SequenceTheorems, WellFoundedInduction, TLAPS

-----------------------------------------------------------------------------
\* EvaluationReplies

\* What a reply answers is a reply of the same evaluation that is there or, for one that
\* is not inserted yet, was there.
GoodReply(w) ==
    /\ w.state = "kept"
    /\ w.thread \in Threads /\ w.user \in People /\ w.toUser \in People
    /\ w.toReply # Nobody => reply[w.toReply].state # "free"
    /\ w.toReply \in KeptReplies => reply[w.toReply].thread = w.thread

RepliesGood ==
    /\ \A r \in Replies : reply[r].state # "kept" => reply[r].toReply = Nobody /\ reply[r].thread = Nobody
    /\ \A r \in KeptReplies : GoodReply(reply[r]) /\ reply[r].toReply \in KeptReplies \cup {Nobody}
    /\ \A p \in Writers : write[p] = NoReply \/ GoodReply(write[p])

ReplyInv == ReplyTypeOK /\ RepliesGood

LEMMA NoReplyTyped == NoReply \in Reply /\ [NoReply EXCEPT !.state = "gone"] \in Reply
  BY DEF NoReply, Reply

LEMMA RepliesInit == ReplyInit => ReplyInv
  <1> SUFFICES ASSUME ReplyInit PROVE ReplyInv
    OBVIOUS
  <1>1. ReplyTypeOK
    <2>1. (CHOOSE u \in People : TRUE) \in People
      BY ReplyAssumption
    <2> QED BY <2>1, NoReplyTyped DEF ReplyInit, ReplyTypeOK
  <1>2. RepliesGood
    BY DEF ReplyInit, RepliesGood, KeptReplies, NoReply
  <1> QED BY <1>1, <1>2 DEF ReplyInv

\* Replies that were there stay used, and those that stay keep what they say but for the
\* answered reply and the anonymity: what is known of a request that waits remains true.
LEMMA GoodStays ==
    ASSUME NEW w, GoodReply(w), w.toReply \in Replies \cup {Nobody},
           \A r \in Replies : /\ reply[r].state # "free" => reply'[r].state # "free"
                              /\ reply[r].state # "free" /\ reply'[r].state = "kept" =>
                                    reply[r].state = "kept" /\ reply'[r].thread = reply[r].thread
    PROVE  /\ w.toReply # Nobody => reply'[w.toReply].state # "free"
           /\ w.toReply \in KeptReplies' => reply'[w.toReply].thread = w.thread
  BY ReplyAssumption DEF GoodReply, KeptReplies

\* A step that keeps every row there is, and leaves requests as they are or resets them.
LEMMA WritesStay ==
    ASSUME ReplyInv,
           \A p \in Writers : write'[p] = write[p] \/ write'[p] = NoReply,
           \A r \in Replies : /\ reply[r].state # "free" => reply'[r].state # "free"
                              /\ reply[r].state # "free" /\ reply'[r].state = "kept" =>
                                    reply[r].state = "kept" /\ reply'[r].thread = reply[r].thread
    PROVE  \A p \in Writers : write'[p] = NoReply \/ GoodReply(write[p])' 
  <1> SUFFICES ASSUME NEW p \in Writers, write'[p] # NoReply PROVE GoodReply(write[p])'
    OBVIOUS
  <1>1. write'[p] = write[p] /\ GoodReply(write[p]) /\ write[p].toReply \in Replies \cup {Nobody}
    BY DEF ReplyInv, RepliesGood, ReplyTypeOK, Reply
  <1>2. /\ write[p].toReply # Nobody => reply'[write[p].toReply].state # "free"
        /\ write[p].toReply \in KeptReplies' => reply'[write[p].toReply].thread = write[p].thread
    BY <1>1, GoodStays
  <1> QED BY <1>1, <1>2 DEF GoodReply

LEMMA BeginReplyKeeps ==
    ASSUME ReplyInv, NEW p \in Writers, NEW u \in People, NEW t \in Threads, NEW target \in Replies \cup {Nobody},
           NEW named \in People \cup {Nobody}, NEW a \in BOOLEAN, BeginReply(p, u, t, target, named, a)
    PROVE  ReplyInv'
  <1> DEFINE w == [state |-> "kept", thread |-> t, user |-> u, anonymous |-> a,
                   toReply |-> target, toUser |-> Addressee(t, target, named)]
  <1>1. write' = [write EXCEPT ![p] = w] /\ UNCHANGED <<thread, reply, notices>>
    BY DEF BeginReply
  <1>2. target # Nobody => target \in KeptReplies /\ reply[target].thread = t /\ GoodReply(reply[target])
    BY DEF BeginReply, ReplyInv, RepliesGood
  <1>3. Addressee(t, target, named) \in People
    BY <1>2 DEF Addressee, GoodReply, ReplyInv, ReplyTypeOK
  <1>4. w \in Reply /\ GoodReply(w)
    <2>1. w \in Reply
      BY <1>3 DEF Reply
    <2>2. PICK g : g = w
      OBVIOUS
    <2>3. /\ g.state = "kept" /\ g.thread = t /\ g.user = u /\ g.toReply = target
          /\ g.toUser = Addressee(t, target, named)
      BY <2>2
    <2>4. target \in KeptReplies => target # Nobody /\ reply[target].state = "kept"
      BY ReplyAssumption DEF KeptReplies
    <2>5. GoodReply(g)
      BY <2>3, <2>4, <1>2, <1>3 DEF GoodReply
    <2> QED BY <2>1, <2>2, <2>5
  <1>5. ReplyTypeOK'
    BY <1>1, <1>4 DEF ReplyInv, ReplyTypeOK
  <1>6. \A q \in Writers : write'[q] = NoReply \/ GoodReply(write'[q])
    BY <1>1, <1>4 DEF ReplyInv, RepliesGood, ReplyTypeOK
  <1>7. RepliesGood'
    BY <1>1, <1>6 DEF ReplyInv, RepliesGood, GoodReply, KeptReplies
  <1> QED BY <1>5, <1>7 DEF ReplyInv

LEMMA InsertReplyKeeps ==
    ASSUME ReplyInv, NEW p \in Writers, NEW r \in Replies, InsertReply(p, r)
    PROVE  ReplyInv'
  <1> DEFINE w == write[p]
  <1>1. /\ w # NoReply /\ w \in Reply /\ GoodReply(w)
        /\ reply[r].state = "free" /\ write' = [write EXCEPT ![p] = NoReply] /\ UNCHANGED thread
    BY DEF InsertReply, ReplyInv, RepliesGood, ReplyTypeOK
  <1>2. CASE UNCHANGED <<reply, notices>>
    <2>1. ReplyTypeOK'
      BY <1>1, <1>2, NoReplyTyped DEF ReplyInv, ReplyTypeOK
    <2>2. \A q \in Writers : write'[q] = write[q] \/ write'[q] = NoReply
      BY <1>1 DEF ReplyInv, ReplyTypeOK
    <2>3. \A q \in Writers : write'[q] = NoReply \/ GoodReply(write[q])'
      BY <1>2, <2>2, WritesStay
    <2> QED BY <2>1, <2>3, <1>2 DEF ReplyInv, RepliesGood, GoodReply, KeptReplies
  <1>3. CASE /\ thread[w.thread].kept /\ (w.toReply = Nobody \/ w.toReply \in KeptReplies)
             /\ reply' = [reply EXCEPT ![r] = w]
             /\ notices' = IF w.toUser = w.user THEN notices ELSE notices \cup {<<w.toUser, r>>}
    <2>1. ReplyTypeOK'
      BY <1>1, <1>3, NoReplyTyped DEF ReplyInv, ReplyTypeOK, GoodReply
    <2>2. \A q \in Writers : write'[q] = write[q] \/ write'[q] = NoReply
      BY <1>1 DEF ReplyInv, ReplyTypeOK
    <2>3. reply'[r] = w /\ \A s \in Replies \ {r} : reply'[s] = reply[s]
      BY <1>3 DEF ReplyInv, ReplyTypeOK
    <2>4. \A q \in Writers : write'[q] = NoReply \/ GoodReply(write[q])'
      BY <1>1, <2>2, <2>3, WritesStay
    <2>5. KeptReplies' = KeptReplies \cup {r}
      BY <1>1, <2>3 DEF KeptReplies, GoodReply
    <2>6. ASSUME NEW s \in KeptReplies'
          PROVE  GoodReply(reply[s])' /\ reply'[s].toReply \in KeptReplies' \cup {Nobody}
      <3>1. PICK g : g = reply'[s]
        OBVIOUS
      <3>2. GoodReply(g) /\ g.toReply \in KeptReplies \cup {Nobody}
        BY <1>1, <1>3, <2>3, <2>5, <3>1 DEF ReplyInv, RepliesGood
      <3>3. r \notin KeptReplies
        BY <1>1 DEF KeptReplies
      <3>4. g.toReply # Nobody => reply'[g.toReply] = reply[g.toReply] /\ g.toReply \in Replies
        BY <3>2, <3>3, <2>3 DEF KeptReplies
      <3>5. g.toReply \in Replies => g.toReply # Nobody
        BY ReplyAssumption
      <3> QED BY <3>1, <3>2, <3>4, <3>5, <2>5 DEF GoodReply, KeptReplies
    <2>7. \A s \in Replies : reply'[s].state # "kept" => reply'[s].toReply = Nobody /\ reply'[s].thread = Nobody
      BY <1>1, <2>3 DEF ReplyInv, RepliesGood, GoodReply
    <2> QED BY <2>1, <2>4, <2>6, <2>7 DEF ReplyInv, RepliesGood
  <1> QED BY <1>2, <1>3 DEF InsertReply
LEMMA UpdateReplyKeeps ==
    ASSUME ReplyInv, NEW r \in Replies, NEW a \in BOOLEAN, UpdateReply(r, a)
    PROVE  ReplyInv'
  <1>1. r \in KeptReplies /\ reply' = [reply EXCEPT ![r].anonymous = a] /\ UNCHANGED <<thread, write, notices>>
    BY DEF UpdateReply
  <1>2. ReplyTypeOK'
    BY <1>1 DEF ReplyInv, ReplyTypeOK, Reply
  <1>3. \A s \in Replies : /\ reply'[s].state = reply[s].state /\ reply'[s].thread = reply[s].thread
                           /\ reply'[s].toReply = reply[s].toReply /\ reply'[s].toUser = reply[s].toUser
                           /\ reply'[s].user = reply[s].user
    BY <1>1 DEF ReplyInv, ReplyTypeOK, Reply
  <1>4. KeptReplies' = KeptReplies
    BY <1>3 DEF KeptReplies
  <1>5. \A q \in Writers : write'[q] = NoReply \/ GoodReply(write[q])'
    BY <1>1, <1>3, WritesStay
  <1>6. \A s \in KeptReplies' : GoodReply(reply[s])' /\ reply'[s].toReply \in KeptReplies' \cup {Nobody}
    <2> SUFFICES ASSUME NEW s \in KeptReplies
                 PROVE  GoodReply(reply[s])' /\ reply'[s].toReply \in KeptReplies \cup {Nobody}
      BY <1>4
    <2>1. GoodReply(reply[s]) /\ reply[s].toReply \in KeptReplies \cup {Nobody} /\ s \in Replies
      BY DEF ReplyInv, RepliesGood, KeptReplies
    <2>2. reply[s].toReply \in KeptReplies => reply[s].toReply \in Replies
      BY DEF KeptReplies
    <2> QED BY <2>1, <2>2, <1>3, <1>4 DEF GoodReply
  <1>7. \A s \in Replies : reply'[s].state # "kept" => reply'[s].toReply = Nobody /\ reply'[s].thread = Nobody
    BY <1>3 DEF ReplyInv, RepliesGood
  <1> QED BY <1>2, <1>5, <1>6, <1>7, <1>1 DEF ReplyInv, RepliesGood

\* What a deletion leaves of a row.
LEMMA WithoutRow ==
    ASSUME ReplyInv, NEW gone \in SUBSET Replies, reply' = Without(gone), NEW s \in Replies
    PROVE  /\ reply'[s] \in Reply
           /\ s \in gone => reply'[s] = [NoReply EXCEPT !.state = "gone"]
           /\ s \notin gone =>
                /\ reply'[s].state = reply[s].state /\ reply'[s].thread = reply[s].thread
                /\ reply'[s].user = reply[s].user /\ reply'[s].toUser = reply[s].toUser
                /\ reply'[s].anonymous = reply[s].anonymous
                /\ reply'[s].toReply = IF reply[s].toReply \in gone THEN Nobody ELSE reply[s].toReply
  <1>1. reply[s] \in Reply
    BY DEF ReplyInv, ReplyTypeOK
  <1>2. reply'[s] = IF s \in gone THEN [NoReply EXCEPT !.state = "gone"]
                    ELSE IF reply[s].toReply \in gone THEN [reply[s] EXCEPT !.toReply = Nobody] ELSE reply[s]
    BY DEF Without
  <1> QED BY <1>1, <1>2, NoReplyTyped DEF Reply

LEMMA WithoutKeeps ==
    ASSUME ReplyInv, NEW gone \in SUBSET Replies, gone \subseteq KeptReplies, reply' = Without(gone),
           thread' \in [Threads -> [author : People, kept : BOOLEAN, anonymous : BOOLEAN]],
           UNCHANGED <<write, notices>>
    PROVE  ReplyInv'
  <1>1. ReplyTypeOK'
    <2>1. reply' \in [Replies -> Reply]
      BY WithoutRow DEF Without
    <2> QED BY <2>1 DEF ReplyInv, ReplyTypeOK
  <1>2. KeptReplies' = KeptReplies \ gone
    BY WithoutRow DEF KeptReplies, NoReply
  <1>3. \A q \in Writers : write'[q] = NoReply \/ GoodReply(write[q])'
    <2>1. \A s \in Replies : /\ reply[s].state # "free" => reply'[s].state # "free"
                             /\ reply[s].state # "free" /\ reply'[s].state = "kept" =>
                                   reply[s].state = "kept" /\ reply'[s].thread = reply[s].thread
      BY WithoutRow DEF NoReply
    <2> QED BY <2>1, WritesStay
  <1>4. \A s \in KeptReplies' : GoodReply(reply[s])' /\ reply'[s].toReply \in KeptReplies' \cup {Nobody}
    <2> SUFFICES ASSUME NEW s \in KeptReplies, s \notin gone
                 PROVE  GoodReply(reply[s])' /\ reply'[s].toReply \in KeptReplies' \cup {Nobody}
      BY <1>2
    <2>1. GoodReply(reply[s]) /\ reply[s].toReply \in KeptReplies \cup {Nobody} /\ s \in Replies
      BY DEF ReplyInv, RepliesGood, KeptReplies
    <2>2. PICK o : o = reply'[s].toReply
      OBVIOUS
    <2>3. o = IF reply[s].toReply \in gone THEN Nobody ELSE reply[s].toReply
      BY <2>1, <2>2, WithoutRow
    <2>4. o \in (KeptReplies \ gone) \cup {Nobody} /\ (o \in KeptReplies => o \in Replies /\ o # Nobody)
      BY <2>1, <2>3, ReplyAssumption DEF KeptReplies
    <2>5. o \in KeptReplies \ gone => reply'[o].state = "kept" /\ reply'[o].thread = reply[o].thread
                                      /\ reply[o].thread = reply[s].thread
      <3> SUFFICES ASSUME o \in KeptReplies \ gone
                   PROVE  reply'[o].state = "kept" /\ reply'[o].thread = reply[o].thread
                          /\ reply[o].thread = reply[s].thread
        OBVIOUS
      <3>1. o \in Replies /\ reply[o].state = "kept" /\ o = reply[s].toReply
        BY <2>3, <2>4 DEF KeptReplies
      <3> QED BY <3>1, <2>1, WithoutRow DEF GoodReply
    <2>6. /\ reply'[s].state = reply[s].state /\ reply'[s].thread = reply[s].thread
          /\ reply'[s].user = reply[s].user /\ reply'[s].toUser = reply[s].toUser
      BY <2>1, WithoutRow
    <2> QED BY <2>1, <2>2, <2>4, <2>5, <2>6, <1>2 DEF GoodReply
  <1>5. \A s \in Replies : reply'[s].state # "kept" => reply'[s].toReply = Nobody /\ reply'[s].thread = Nobody
    <2> SUFFICES ASSUME NEW s \in Replies, reply'[s].state # "kept"
                 PROVE  reply'[s].toReply = Nobody /\ reply'[s].thread = Nobody
      OBVIOUS
    <2>1. CASE s \in gone
      BY <2>1, WithoutRow DEF NoReply
    <2>2. CASE s \notin gone
      <3>1. /\ reply'[s].state = reply[s].state /\ reply'[s].thread = reply[s].thread
            /\ reply'[s].toReply = IF reply[s].toReply \in gone THEN Nobody ELSE reply[s].toReply
        BY <2>2, WithoutRow
      <3> QED BY <3>1 DEF ReplyInv, RepliesGood
    <2> QED BY <2>1, <2>2
  <1> QED BY <1>1, <1>3, <1>4, <1>5 DEF ReplyInv, RepliesGood

LEMMA RepliesNext == ReplyInv /\ [ReplyNext]_replyVars => ReplyInv'
  <1> SUFFICES ASSUME ReplyInv, [ReplyNext]_replyVars PROVE ReplyInv'
    OBVIOUS
  <1>1. ASSUME NEW r \in Replies, DeleteReply(r) PROVE ReplyInv'
    <2>1. /\ {r} \in SUBSET Replies /\ {r} \subseteq KeptReplies /\ reply' = Without({r})
          /\ UNCHANGED <<thread, write, notices>>
      BY <1>1 DEF DeleteReply
    <2>2. thread' \in [Threads -> [author : People, kept : BOOLEAN, anonymous : BOOLEAN]]
      BY <2>1 DEF ReplyInv, ReplyTypeOK
    <2> QED BY <2>1, <2>2, WithoutKeeps
  <1>2. ASSUME NEW t \in Threads, DeleteThread(t) PROVE ReplyInv'
    <2> DEFINE gone == {r \in Replies : reply[r].thread = t}
    <2>1. gone \subseteq KeptReplies /\ gone \in SUBSET Replies
      BY ReplyAssumption DEF KeptReplies, ReplyInv, RepliesGood
    <2>2. /\ reply' = Without(gone) /\ UNCHANGED <<write, notices>>
          /\ thread' = [thread EXCEPT ![t].kept = FALSE]
      BY <1>2 DEF DeleteThread
    <2>3. thread' \in [Threads -> [author : People, kept : BOOLEAN, anonymous : BOOLEAN]]
      BY <2>2 DEF ReplyInv, ReplyTypeOK
    <2> HIDE DEF gone
    <2> QED BY <2>1, <2>2, <2>3, WithoutKeeps
  <1>3. ASSUME NEW t \in Threads, NEW a \in BOOLEAN, UpdateThread(t, a) PROVE ReplyInv'
    <2>1. UNCHANGED <<reply, write, notices>> /\ thread' = [thread EXCEPT ![t].anonymous = a]
      BY <1>3 DEF UpdateThread
    <2>2. ReplyTypeOK'
      BY <2>1 DEF ReplyInv, ReplyTypeOK
    <2> QED BY <2>1, <2>2 DEF ReplyInv, RepliesGood, GoodReply, KeptReplies
  <1>4. CASE UNCHANGED replyVars
    BY <1>4 DEF replyVars, ReplyInv, ReplyTypeOK, RepliesGood, GoodReply, KeptReplies
  <1> QED BY <1>1, <1>2, <1>3, <1>4, BeginReplyKeeps, InsertReplyKeeps, UpdateReplyKeeps DEF ReplyNext

\* Every step that shows a name which was hidden is one of those three.
LEMMA NamesStep ==
    ASSUME ReplyInv, [ReplyNext]_replyVars, NEW way \in Ways, NEW r \in KeptReplies, reply'[r].state = "kept",
           ShownAddressee(way, r) = Nobody, reply[r].toUser # Nobody, ShownAddressee(way, r)' # Nobody
    PROVE  IF reply[r].toReply = Nobody
           THEN UpdateThread(reply[r].thread, FALSE)
           ELSE UpdateReply(reply[r].toReply, FALSE) \/ DeleteReply(reply[r].toReply)
  <1> DEFINE o == reply[r].toReply
             t == reply[r].thread
  <1>1. /\ r \in Replies /\ t \in Threads /\ o \in Replies \cup {Nobody}
        /\ o # Nobody => o \in KeptReplies /\ reply[o].thread = t
    BY DEF ReplyInv, RepliesGood, GoodReply, KeptReplies
  <1>2. /\ o = Nobody => thread[t].anonymous
        /\ o # Nobody => reply[o].anonymous
    BY DEF ShownAddressee
  <1>3. ~ /\ reply'[r].toReply = o /\ reply'[r].thread = t /\ thread'[t].anonymous = thread[t].anonymous
          /\ o # Nobody => reply'[o].anonymous = reply[o].anonymous
    BY <1>2 DEF ShownAddressee
  <1>4. ASSUME NEW p \in Writers, NEW s \in Replies, InsertReply(p, s) PROVE FALSE
    <2>1. UNCHANGED thread /\ reply[s].state = "free" /\ \A x \in Replies \ {s} : reply'[x] = reply[x]
      BY <1>4 DEF InsertReply, ReplyInv, ReplyTypeOK
    <2>2. r # s /\ o # s
      BY <2>1, <1>1, ReplyAssumption DEF KeptReplies
    <2> QED BY <2>1, <2>2, <1>1, <1>3
  <1>5. ASSUME NEW s \in Replies, NEW a \in BOOLEAN, UpdateReply(s, a)
        PROVE  o # Nobody /\ UpdateReply(o, FALSE)
    <2>1. /\ UNCHANGED thread /\ \A x \in Replies \ {s} : reply'[x] = reply[x]
          /\ reply'[s].anonymous = a /\ reply'[s].toReply = reply[s].toReply /\ reply'[s].thread = reply[s].thread
      BY <1>5 DEF UpdateReply, ReplyInv, ReplyTypeOK, Reply
    <2>2. reply'[r].toReply = o /\ reply'[r].thread = t
      BY <2>1, <1>1
    <2>3. o = s /\ a # reply[o].anonymous /\ o # Nobody
      BY <2>1, <2>2, <1>1, <1>3
    <2>4. a = FALSE
      BY <2>3, <1>2
    <2> QED BY <1>5, <2>3, <2>4
  <1>6. ASSUME NEW gone \in SUBSET Replies, reply' = Without(gone), UNCHANGED thread \/ (\E x \in Threads : DeleteThread(x))
        PROVE  o \in gone
    <2>1. r \notin gone
      BY <1>6, WithoutRow, <1>1 DEF NoReply
    <2>2. \A x \in Threads : thread'[x].anonymous = thread[x].anonymous
      BY <1>6 DEF DeleteThread, ReplyInv, ReplyTypeOK
    <2>3. SUFFICES ASSUME o \notin gone PROVE FALSE
      OBVIOUS
    <2>4. reply'[r].toReply = o /\ reply'[r].thread = t
      BY <2>1, <2>3, <1>1, <1>6, WithoutRow
    <2>5. o # Nobody => reply'[o].anonymous = reply[o].anonymous
      BY <2>3, <1>1, <1>6, WithoutRow
    <2> QED BY <2>2, <2>4, <2>5, <1>1, <1>3
  <1>7. ASSUME NEW s \in Replies, DeleteReply(s) PROVE o # Nobody /\ DeleteReply(o)
    <2>1. o \in {s}
      BY <1>6, <1>7 DEF DeleteReply
    <2> QED BY <1>7, <2>1, ReplyAssumption
  <1>8. ASSUME NEW x \in Threads, DeleteThread(x) PROVE FALSE
    <2> DEFINE gone == {s \in Replies : reply[s].thread = x}
    <2>1. reply' = Without(gone) /\ gone \in SUBSET Replies
      BY <1>8 DEF DeleteThread
    <2>2. o \in gone
      BY <1>6, <1>8, <2>1
    <2>3. r \in gone
      BY <2>2, <1>1, ReplyAssumption
    <2> QED BY <2>1, <2>3, WithoutRow, <1>1 DEF NoReply
  <1>9. ASSUME NEW x \in Threads, NEW a \in BOOLEAN, UpdateThread(x, a)
        PROVE  o = Nobody /\ UpdateThread(t, FALSE)
    <2>1. UNCHANGED reply /\ thread'[x].anonymous = a /\ \A y \in Threads \ {x} : thread'[y] = thread[y]
      BY <1>9 DEF UpdateThread, ReplyInv, ReplyTypeOK
    <2>2. o = Nobody
      BY <2>1, <1>2 DEF ShownAddressee
    <2>3. x = t /\ a # thread[t].anonymous
      BY <2>1, <1>1, <1>3, <2>2
    <2>4. a = FALSE
      BY <2>2, <2>3, <1>2
    <2> QED BY <1>9, <2>2, <2>3, <2>4
  <1>10. ~UNCHANGED <<thread, reply>>
    BY <1>3
  <1>11. PICK s \in Replies, x \in Threads, a \in BOOLEAN :
            UpdateReply(s, a) \/ DeleteReply(s) \/ UpdateThread(x, a)
    <2>1. ReplyNext
      BY <1>10 DEF replyVars
    <2>2. ASSUME NEW p \in Writers, NEW u \in People, NEW x \in Threads, NEW target \in Replies \cup {Nobody},
                 NEW named \in People \cup {Nobody}, NEW a \in BOOLEAN, BeginReply(p, u, x, target, named, a)
          PROVE  FALSE
      BY <2>2, <1>10 DEF BeginReply
    <2>3. ASSUME NEW s \in Replies, NEW a \in BOOLEAN, UpdateReply(s, a)
          PROVE  \E y \in Replies, x \in Threads, b \in BOOLEAN :
                    UpdateReply(y, b) \/ DeleteReply(y) \/ UpdateThread(x, b)
      BY <2>3, <1>1
    <2>4. ASSUME NEW s \in Replies, DeleteReply(s)
          PROVE  \E y \in Replies, x \in Threads, b \in BOOLEAN :
                    UpdateReply(y, b) \/ DeleteReply(y) \/ UpdateThread(x, b)
      BY <2>4, <1>1
    <2>5. ASSUME NEW x \in Threads, NEW a \in BOOLEAN, UpdateThread(x, a)
          PROVE  \E y \in Replies, z \in Threads, b \in BOOLEAN :
                    UpdateReply(y, b) \/ DeleteReply(y) \/ UpdateThread(z, b)
      BY <2>5, <1>1
    <2> QED BY <2>1, <2>2, <2>3, <2>4, <2>5, <1>4, <1>8 DEF ReplyNext
  <1> QED BY <1>5, <1>7, <1>9, <1>11

LEMMA AuthorStep ==
    ASSUME ReplyInv, [ReplyNext]_replyVars, NEW way \in Ways, NEW r \in KeptReplies, reply'[r].state = "kept",
           ShownAuthor(way, r) = Nobody, ShownAuthor(way, r)' # Nobody
    PROVE  UpdateReply(r, FALSE)
  <1>1. r \in Replies /\ reply[r].user # Nobody
    BY ReplyAssumption DEF ReplyInv, RepliesGood, GoodReply, KeptReplies
  <1>2. reply[r].anonymous /\ way \notin NamingAuthor
    BY <1>1 DEF ShownAuthor
  <1>3. reply'[r].anonymous # reply[r].anonymous
    BY <1>2 DEF ShownAuthor
  <1>4. ASSUME NEW p \in Writers, NEW s \in Replies, InsertReply(p, s) PROVE FALSE
    <2>1. reply[s].state = "free" /\ \A x \in Replies \ {s} : reply'[x] = reply[x]
      BY <1>4 DEF InsertReply, ReplyInv, ReplyTypeOK
    <2> QED BY <2>1, <1>1, <1>3 DEF KeptReplies
  <1>5. ASSUME NEW s \in Replies, NEW a \in BOOLEAN, UpdateReply(s, a) PROVE UpdateReply(r, FALSE)
    <2>1. reply'[s].anonymous = a /\ \A x \in Replies \ {s} : reply'[x] = reply[x]
      BY <1>5 DEF UpdateReply, ReplyInv, ReplyTypeOK, Reply
    <2>2. s = r
      BY <2>1, <1>1, <1>3
    <2>3. a = FALSE
      BY <2>1, <2>2, <1>2, <1>3
    <2> QED BY <1>5, <2>2, <2>3
  <1>6. ASSUME NEW gone \in SUBSET Replies, reply' = Without(gone) PROVE FALSE
    <2>1. r \notin gone
      BY <1>6, WithoutRow, <1>1 DEF NoReply
    <2>2. reply'[r].anonymous = reply[r].anonymous
      BY <2>1, <1>1, <1>6, WithoutRow
    <2> QED BY <2>2, <1>3
  <1>7. ASSUME NEW s \in Replies, DeleteReply(s) PROVE FALSE
    BY <1>6, <1>7 DEF DeleteReply
  <1>8. ASSUME NEW x \in Threads, DeleteThread(x) PROVE FALSE
    <2>1. {s \in Replies : reply[s].thread = x} \in SUBSET Replies
      OBVIOUS
    <2> QED BY <1>6, <1>8, <2>1 DEF DeleteThread
  <1>9. ~UNCHANGED reply
    BY <1>3
  <1>10. ReplyNext
    BY <1>9 DEF replyVars
  <1>11. ~\E p \in Writers, u \in People, t \in Threads, target \in Replies \cup {Nobody},
            named \in People \cup {Nobody}, a \in BOOLEAN : BeginReply(p, u, t, target, named, a)
    BY <1>9 DEF BeginReply
  <1>12. ASSUME NEW x \in Threads, NEW a \in BOOLEAN, UpdateThread(x, a) PROVE FALSE
    BY <1>12, <1>9 DEF UpdateThread
  <1>13. PICK s \in Replies, a \in BOOLEAN : UpdateReply(s, a)
    BY <1>4, <1>7, <1>8, <1>10, <1>11, <1>12 DEF ReplyNext
  <1> QED BY <1>5, <1>13

\* A name that a list or a single reply hides is shown there again only because its
\* author, or the author of the evaluation, gives up the anonymity of the reply or of
\* what it answers, or the answered reply is deleted: no insertion, deletion of others
\* or change of another row shows it.  The page of one evaluation hides no name.
THEOREM HiddenNamesStay == ReplySpec => NamesExplained
  <1>1. ReplyInv /\ [ReplyNext]_replyVars =>
            [\A way \in Ways, r \in KeptReplies :
                LET target == reply[r].toReply IN
                reply'[r].state = "kept" =>
                /\ /\ reply[r].toUser # Nobody
                   /\ ShownAddressee(way, r) = Nobody
                   /\ ShownAddressee(way, r)' # Nobody
                   => IF target = Nobody
                      THEN UpdateThread(reply[r].thread, FALSE)
                      ELSE UpdateReply(target, FALSE) \/ DeleteReply(target)
                /\ ShownAuthor(way, r) = Nobody /\ ShownAuthor(way, r)' # Nobody
                   => UpdateReply(r, FALSE)]_replyVars
    BY NamesStep, AuthorStep
  <1> QED BY <1>1, RepliesInit, RepliesNext, PTL DEF ReplySpec, NamesExplained

-----------------------------------------------------------------------------
\* Rankings: the list of random courses

\* All items of the list are of one draw: of the current one while it is being filled.
OneDraw ==
    /\ drawn \in Seq({0, 1}) /\ draw.mark \in {0, 1}
    /\ draw = [stage |-> draw.stage, mark |-> draw.mark, left |-> draw.left]
    /\ \A i, j \in DOMAIN drawn : drawn[i] = drawn[j]
    /\ draw.stage = "push" => \A i \in DOMAIN drawn : drawn[i] = draw.mark

-----------------------------------------------------------------------------
\* Rankings: the refresh

RankTypes ==
    /\ RankingsTypeOK
    /\ kind \in {"courses", "teachers", "resources"}
    /\ task = [stage |-> task.stage, saw |-> task.saw, was |-> task.was]
    /\ viewer \in [Viewers -> [stage : {"idle", "range", "look", "count", "rows", "all", "done"}, up : BOOLEAN,
                               total : Nat, ids : Partial, shown : SUBSET (Ranked \X Scores), moved : BOOLEAN]]

\* Only the rankings with a sorted set get as far as writing it.
KindsApart ==
    /\ life = "ended" => board = Empty
    /\ kind = "teachers" => task.stage \in {"idle", "rank"} /\ life = "ended"
    /\ kind = "resources" => task.stage # "rank"

\* The sorted set, command by command: what was there when it was listed, then what is new
\* above it, then the new alone; or nothing, once the key has ended.
BoardWritten ==
    /\ task.stage = "add" => DOMAIN board \subseteq DOMAIN task.was
    /\ task.stage = "drop" /\ life # "ended" =>
            /\ DOMAIN task.saw \subseteq DOMAIN board /\ DOMAIN board \subseteq DOMAIN task.saw \cup DOMAIN task.was
            /\ \A x \in DOMAIN task.saw : board[x] = task.saw[x]
    /\ task.stage = "time" /\ life # "ended" => board = task.saw

\* A refresh that nothing has disturbed so far has read what is to be ranked.
SoFarRight ==
    /\ repaired = "so far" =>
            /\ task.stage = "rank" => task.saw = ScoresOf(Ranked)
            /\ task.stage \in {"copy", "list", "add", "drop", "time"} /\ kind # "resources" => rows = Computed
            /\ task.stage \in {"list", "add", "drop", "time"} => task.saw = Computed
    /\ repaired = "yes" => task.stage = "idle"

-----------------------------------------------------------------------------
\* Rankings: readers

\* Reader v was shown f, and told how much that is.
Answered(v, f) ==
    /\ viewer[v].shown = {<<x, f[x]>> : x \in DOMAIN f \cap Listed}
    /\ viewer[v].total = Cardinality(DOMAIN f)

\* What a reader under which nothing has changed knows of where it reads.
ViewRight(v) ==
    LET now == viewer[v]
        onBoard == Pick(board, now.up)
        inRows == Pick(rows, now.up)
        listed == Pick(ScoresOf(Listed), now.up) IN
    /\ now.stage = "idle" => ~now.moved
    /\ ~now.moved =>
        /\ now.stage = "range" => DOMAIN onBoard # {} /\ now.total = Cardinality(DOMAIN onBoard)
        /\ now.stage = "look" => DOMAIN onBoard # {} /\ now.total = Cardinality(DOMAIN onBoard) /\ now.ids = onBoard
        /\ now.stage = "rows" => InTable(v) /\ now.total = Cardinality(DOMAIN inRows)
        /\ now.stage = "all" => ~InTable(v) /\ now.total = Cardinality(DOMAIN listed)
        /\ now.stage = "done" =>
               \/ DOMAIN onBoard # {} /\ Answered(v, onBoard)
               \/ InTable(v) /\ Answered(v, inRows)
               \/ ~InTable(v) /\ Answered(v, listed)

ViewsRight == \A v \in Viewers : ViewRight(v)

RankInv == RankTypes /\ KindsApart /\ BoardWritten /\ SoFarRight /\ RefreshRepairs /\ ViewsRight

RankTask == RankTypes /\ KindsApart /\ BoardWritten /\ SoFarRight /\ RefreshRepairs

-----------------------------------------------------------------------------
\* Rankings: draws

LEMMA DrawsInit == RankingsInit => OneDraw
  BY DEF RankingsInit, OneDraw, NoDraw

LEMMA DrawsNext == OneDraw /\ [DrawNext]_drawVars => OneDraw'
  <1> SUFFICES ASSUME OneDraw, [DrawNext]_drawVars PROVE OneDraw'
    OBVIOUS
  <1>1. ASSUME NEW n \in 0 .. DrawSize, BeginDraw(n) PROVE OneDraw'
    BY <1>1 DEF BeginDraw, OneDraw
  <1>2. CASE DeleteDrawn
    <2>1. drawn' = <<>> /\ draw'.mark = draw.mark /\ draw' = [stage |-> draw'.stage, mark |-> draw.mark, left |-> draw'.left]
      BY <1>2 DEF DeleteDrawn, Cleared, OneDraw
    <2> QED BY <2>1 DEF OneDraw
  <1>3. CASE PushItem
    <2>1. /\ drawn' = Append(drawn, draw.mark) /\ draw.stage = "push"
          /\ draw'.mark = draw.mark /\ draw' = [stage |-> draw'.stage, mark |-> draw.mark, left |-> draw'.left]
      BY <1>3 DEF PushItem, OneDraw
    <2>2. \A i \in DOMAIN drawn' : drawn'[i] = draw.mark
      BY <2>1 DEF OneDraw
    <2> QED BY <2>1, <2>2 DEF OneDraw
  <1>4. CASE BreakDraw
    BY <1>4 DEF BreakDraw, OneDraw
  <1>5. CASE EndDrawn
    BY <1>5 DEF EndDrawn, OneDraw
  <1>6. CASE UNCHANGED drawVars
    BY <1>6 DEF drawVars, OneDraw
  <1> QED BY <1>1, <1>2, <1>3, <1>4, <1>5, <1>6 DEF DrawNext

LEMMA WholeDraws == OneDraw => DrawsWhole
  <1> SUFFICES ASSUME OneDraw, Usable, NEW i \in DOMAIN drawn PROVE drawn[i] = drawn[1]
    BY DEF DrawsWhole
  <1>1. 1 \in DOMAIN drawn
    BY DEF OneDraw
  <1> QED BY <1>1 DEF OneDraw

-----------------------------------------------------------------------------
\* Rankings: scores

LEMMA PartialIs ==
    ASSUME NEW f
    PROVE  /\ f \in Partial => DOMAIN f \in SUBSET Ranked /\ f = [x \in DOMAIN f |-> f[x]]
                               /\ \A x \in DOMAIN f : f[x] \in Scores
           /\ DOMAIN f \in SUBSET Ranked /\ f = [x \in DOMAIN f |-> f[x]] /\ (\A x \in DOMAIN f : f[x] \in Scores)
              => f \in Partial
  BY DEF Partial

LEMMA EmptyPartial == Empty \in Partial /\ DOMAIN Empty = {}
  BY PartialIs DEF Empty

LEMMA ScoresPartial ==
    ASSUME RankTypes, NEW S \in SUBSET Ranked
    PROVE  ScoresOf(S) \in Partial /\ DOMAIN ScoresOf(S) = S /\ \A x \in S : ScoresOf(S)[x] = standing[x].score
  BY PartialIs DEF RankTypes, RankingsTypeOK, ScoresOf

\* Who is shown in ascending or in descending order.
InOrder(f, up) == {y \in DOMAIN f : up => f[y] > 0}

LEMMA PickIs ==
    ASSUME NEW f, NEW up \in BOOLEAN
    PROVE  /\ DOMAIN Pick(f, up) = InOrder(f, up)
           /\ f = [x \in DOMAIN f |-> f[x]] => Pick(f, up) = [x \in InOrder(f, up) |-> f[x]]
  BY DEF Pick, RestrictValues, Restrict, InOrder

LEMMA BestIs ==
    ASSUME NEW f
    PROVE  DOMAIN Best(f) \subseteq DOMAIN f /\ Best(f) = [x \in DOMAIN Best(f) |-> f[x]]
  BY DEF Best, Restrict

LEMMA PickPartial ==
    ASSUME NEW f \in Partial, NEW up \in BOOLEAN
    PROVE  Pick(f, up) \in Partial /\ IsFiniteSet(DOMAIN Pick(f, up))
           /\ Cardinality(DOMAIN Pick(f, up)) \in 0 .. Cardinality(Ranked)
  <1>1. DOMAIN f \in SUBSET Ranked /\ f = [x \in DOMAIN f |-> f[x]] /\ \A x \in DOMAIN f : f[x] \in Scores
    BY PartialIs
  <1>2. Pick(f, up) = [x \in InOrder(f, up) |-> f[x]] /\ InOrder(f, up) \subseteq DOMAIN f
    BY <1>1, PickIs DEF InOrder
  <1>3. Pick(f, up) \in Partial /\ DOMAIN Pick(f, up) \subseteq Ranked
    BY <1>1, <1>2, PartialIs
  <1> QED BY <1>3, RankingsAssumption, FS_Subset, FS_CardinalityType

LEMMA BestPartial ==
    ASSUME NEW f \in Partial
    PROVE  Best(f) \in Partial
  <1>1. DOMAIN f \in SUBSET Ranked /\ \A x \in DOMAIN f : f[x] \in Scores
    BY PartialIs
  <1> QED BY <1>1, BestIs, PartialIs

LEMMA ComputedPartial == RankTypes => Computed \in Partial
  BY ScoresPartial, BestPartial DEF Computed

\* x is ranked before y.
Ahead(f, x) == {y \in DOMAIN f : f[y] > f[x] \/ (f[y] = f[x] /\ y < x)}

\* One has nobody ahead: whoever is ahead of the one with the fewest ahead has fewer.
LEMMA SomeoneFirst ==
    ASSUME NEW f \in Partial, DOMAIN f # {}
    PROVE  \E x \in DOMAIN f : Ahead(f, x) = {}
  <1> DEFINE sizes == {Cardinality(Ahead(f, x)) : x \in DOMAIN f}
  <1>1. /\ IsFiniteSet(DOMAIN f) /\ DOMAIN f \subseteq Nat
        /\ \A x \in DOMAIN f : f[x] \in Nat
    BY PartialIs, RankingsAssumption, FS_Subset
  <1>2. \A x \in DOMAIN f : IsFiniteSet(Ahead(f, x)) /\ Cardinality(Ahead(f, x)) \in Nat
    <2> SUFFICES ASSUME NEW x \in DOMAIN f PROVE IsFiniteSet(Ahead(f, x)) /\ Cardinality(Ahead(f, x)) \in Nat
      OBVIOUS
    <2>1. Ahead(f, x) \subseteq DOMAIN f
      BY DEF Ahead
    <2> QED BY <2>1, <1>1, FS_Subset, FS_CardinalityType
  <1>3. PICK x \in DOMAIN f : \A y \in DOMAIN f : ~(Cardinality(Ahead(f, y)) < Cardinality(Ahead(f, x)))
    <2>1. sizes \subseteq Nat /\ sizes # {}
      BY <1>2
    <2>2. PICK n \in sizes : \A m \in sizes : <<m, n>> \notin OpToRel(<, Nat)
      BY <2>1, NatLessThanWellFounded, WFMin
    <2>3. \A m \in sizes : ~(m < n)
      BY <2>1, <2>2 DEF OpToRel
    <2> QED BY <2>3
  <1>4. SUFFICES ASSUME NEW y \in Ahead(f, x) PROVE FALSE
    BY <1>3
  <1>5. y \in DOMAIN f /\ Ahead(f, y) \subseteq Ahead(f, x) /\ y \notin Ahead(f, y)
    BY <1>1 DEF Ahead
  <1>6. Cardinality(Ahead(f, y)) < Cardinality(Ahead(f, x))
    BY <1>2, <1>5, FS_Subset
  <1> QED BY <1>3, <1>5, <1>6

\* If nobody of the best is shown then nobody is.
LEMMA BestFirst ==
    ASSUME NEW f \in Partial, NEW up \in BOOLEAN, DOMAIN Pick(Best(f), up) = {}
    PROVE  \A x \in DOMAIN f : up /\ f[x] = 0
  <1> SUFFICES ASSUME NEW x \in DOMAIN f PROVE up /\ f[x] = 0
    OBVIOUS
  <1>1. PICK top \in DOMAIN f : Ahead(f, top) = {}
    BY SomeoneFirst
  <1>2. top \in DOMAIN Best(f)
    <2>1. Cardinality(Ahead(f, top)) < TopN
      BY <1>1, RankingsAssumption, FS_EmptySet
    <2> QED BY <2>1 DEF Best, Restrict, Ahead
  <1>3. Best(f)[top] = f[top]
    BY <1>2, BestIs
  <1>4. up /\ ~(f[top] > 0)
    <2>1. top \notin InOrder(Best(f), up)
      BY PickIs
    <2> QED BY <2>1, <1>2, <1>3 DEF InOrder
  <1>5. f[top] \in Nat /\ f[x] \in Nat
    BY PartialIs, RankingsAssumption
  <1>6. ~(f[x] > f[top])
    BY <1>1 DEF Ahead
  <1> QED BY <1>4, <1>5, <1>6

-----------------------------------------------------------------------------
\* Rankings: one step of a refresh

ViewerType ==
    viewer \in [Viewers -> [stage : {"idle", "range", "look", "count", "rows", "all", "done"}, up : BOOLEAN,
                            total : Nat, ids : Partial, shown : SUBSET (Ranked \X Scores), moved : BOOLEAN]]

\* The record of a reader stays one of its type when only the flag "moved" is set.
LEMMA FlagSet ==
    ASSUME NEW Stage, NEW Shown, NEW b \in BOOLEAN,
           NEW r \in [stage : Stage, up : BOOLEAN, total : Nat, ids : Partial, shown : Shown, moved : BOOLEAN]
    PROVE  [r EXCEPT !.moved = b]
               \in [stage : Stage, up : BOOLEAN, total : Nat, ids : Partial, shown : Shown, moved : BOOLEAN]
  OBVIOUS

ViewerFits == \A v \in Viewers : viewer[v].total \in 0 .. Cardinality(Ranked) /\ viewer[v].ids \in Partial

LEMMA RankTypesSplit ==
    RankTypes <=> /\ standing \in [Ranked -> [listed : BOOLEAN, score : Scores]]
                  /\ rows \in Partial /\ board \in Partial
                  /\ task.saw \in Partial /\ task.was \in Partial /\ task.stage \in Stages
                  /\ task = [stage |-> task.stage, saw |-> task.saw, was |-> task.was]
                  /\ life \in {"ended", "for ever", "timed"} /\ repaired \in {"no", "so far", "yes"}
                  /\ kind \in {"courses", "teachers", "resources"}
                  /\ ViewerType /\ ViewerFits
  BY DEF RankTypes, RankingsTypeOK, ViewerType, ViewerFits

LEMMA ViewersMoved ==
    ASSUME ViewerType, ViewerFits, Moved
    PROVE  /\ ViewerType' /\ ViewerFits'
           /\ \A v \in Viewers : viewer'[v].stage = viewer[v].stage /\ viewer'[v].moved = (viewer[v].stage # "idle")
  <1>1. viewer' = [v \in Viewers |-> [viewer[v] EXCEPT !.moved = viewer[v].stage # "idle"]]
    BY DEF Moved
  <1>2. \A v \in Viewers : viewer'[v] = [viewer[v] EXCEPT !.moved = viewer[v].stage # "idle"]
    BY <1>1
  <1>3. \A v \in Viewers : /\ viewer'[v].stage = viewer[v].stage /\ viewer'[v].moved = (viewer[v].stage # "idle")
                           /\ viewer'[v].total = viewer[v].total /\ viewer'[v].ids = viewer[v].ids
    <2> SUFFICES ASSUME NEW v \in Viewers
                 PROVE  /\ viewer'[v].stage = viewer[v].stage /\ viewer'[v].moved = (viewer[v].stage # "idle")
                        /\ viewer'[v].total = viewer[v].total /\ viewer'[v].ids = viewer[v].ids
      OBVIOUS
    <2>1. PICK b : b = (viewer[v].stage # "idle")
      OBVIOUS
    <2>2. viewer'[v] = [viewer[v] EXCEPT !.moved = b]
      BY <1>2, <2>1
    <2> QED BY <2>1, <2>2 DEF ViewerType
  <1>4. ViewerType'
    <2> DEFINE Stage == {"idle", "range", "look", "count", "rows", "all", "done"}
               Shown == SUBSET (Ranked \X Scores)
               Reader == [stage : Stage, up : BOOLEAN, total : Nat, ids : Partial, shown : Shown, moved : BOOLEAN]
    <2>1. ASSUME NEW v \in Viewers PROVE viewer'[v] \in Reader
      <3>1. viewer[v] \in Reader
        BY DEF ViewerType
      <3>2. (viewer[v].stage # "idle") \in BOOLEAN
        OBVIOUS
      <3> HIDE DEF Stage, Shown
      <3>3. [viewer[v] EXCEPT !.moved = viewer[v].stage # "idle"] \in Reader
        BY <3>1, <3>2, FlagSet
      <3> QED BY <1>2, <3>3
    <2> HIDE DEF Reader
    <2>2. viewer' \in [Viewers -> Reader]
      BY <1>1, <2>1
    <2> QED BY <2>2 DEF ViewerType, Reader
  <1>5. ViewerFits'
    BY <1>3 DEF ViewerFits
  <1> QED BY <1>3, <1>4, <1>5

\* What a step of the scheduler, or a change of what is ranked, means for readers.
LEMMA ViewsMoved ==
    ASSUME RankInv, Moved
    PROVE  ViewsRight'
  <1>1. \A v \in Viewers : viewer'[v].stage = viewer[v].stage /\ viewer'[v].moved = (viewer[v].stage # "idle")
    BY ViewersMoved, RankTypesSplit DEF RankInv
  <1> QED BY <1>1 DEF ViewsRight, ViewRight

LEMMA ViewsStay ==
    ASSUME RankInv, UNCHANGED <<viewer, board, rows, standing, kind>>
    PROVE  ViewsRight'
  <1>1. Listed' = Listed
    BY DEF Listed
  <1>2. ScoresOf(Listed)' = ScoresOf(Listed)
    BY <1>1 DEF ScoresOf
  <1>4. ASSUME NEW v \in Viewers PROVE InTable(v)' = InTable(v)
    BY DEF InTable
  <1>5. ASSUME NEW v \in Viewers, ViewRight(v) PROVE ViewRight(v)'
    BY <1>1, <1>2, <1>4, <1>5 DEF ViewRight, Answered
  <1> QED BY <1>5 DEF RankInv, ViewsRight

LEMMA ChangeKeeps ==
    ASSUME RankInv, NEW x \in Ranked, NEW listed \in BOOLEAN, NEW n \in Scores, Change(x, listed, n)
    PROVE  RankTask' /\ ViewsRight'
  <1>1. /\ standing' = [standing EXCEPT ![x] = [listed |-> listed, score |-> n]]
        /\ repaired' = "no" /\ Moved /\ UNCHANGED <<kind, rows, board, life, task>>
    BY DEF Change
  <1>2. standing' \in [Ranked -> [listed : BOOLEAN, score : Scores]]
    BY <1>1, RankTypesSplit DEF RankInv
  <1>3. RankTypes'
    BY <1>1, <1>2, ViewersMoved, RankTypesSplit DEF RankInv, RankTypes, RankingsTypeOK, ViewerType, ViewerFits
  <1>4. KindsApart' /\ BoardWritten' /\ SoFarRight' /\ RefreshRepairs'
    BY <1>1 DEF RankInv, KindsApart, BoardWritten, SoFarRight, RefreshRepairs
  <1> QED BY <1>1, <1>3, <1>4, ViewsMoved DEF RankTask

\* What a task is when it goes on.
LEMMA GoingIs ==
    ASSUME RankTypes, NEW stage \in Stages, NEW saw \in Partial, NEW was \in Partial, Going(stage, saw, was)
    PROVE  /\ task' = [stage |-> task'.stage, saw |-> task'.saw, was |-> task'.was]
           /\ task'.stage = stage /\ task'.saw = saw /\ task'.was = was
  BY DEF Going

LEMMA NoTaskIs ==
    ASSUME task' = NoTask
    PROVE  /\ task' = [stage |-> task'.stage, saw |-> task'.saw, was |-> task'.was]
           /\ task'.stage = "idle" /\ task'.saw = Empty /\ task'.was = Empty
  BY DEF NoTask

\* A step that changes the task and what is known of the refresh alone.
LEMMA TaskTypes ==
    ASSUME RankTypes, UNCHANGED <<kind, standing, viewer>>, rows' \in Partial, board' \in Partial,
           life' \in {"ended", "for ever", "timed"}, repaired' \in {"no", "so far", "yes"},
           task' = [stage |-> task'.stage, saw |-> task'.saw, was |-> task'.was],
           task'.saw \in Partial, task'.was \in Partial, task'.stage \in Stages
    PROVE  RankTypes'
  <1>1. ViewerType' /\ ViewerFits'
    BY RankTypesSplit DEF ViewerType, ViewerFits
  <1> QED BY <1>1 DEF RankTypes, RankingsTypeOK, ViewerType, ViewerFits

LEMMA TaskTypesMoved ==
    ASSUME RankTypes, UNCHANGED <<kind, standing>>, Moved, rows' \in Partial, board' \in Partial,
           life' \in {"ended", "for ever", "timed"}, repaired' \in {"no", "so far", "yes"},
           task' = [stage |-> task'.stage, saw |-> task'.saw, was |-> task'.was],
           task'.saw \in Partial, task'.was \in Partial, task'.stage \in Stages
    PROVE  RankTypes'
  <1>1. ViewerType' /\ ViewerFits'
    BY RankTypesSplit, ViewersMoved
  <1> QED BY <1>1 DEF RankTypes, RankingsTypeOK, ViewerType, ViewerFits

LEMMA ScoresStay == UNCHANGED standing => \A S : ScoresOf(S)' = ScoresOf(S)
  BY DEF ScoresOf

LEMMA ComputedStays == UNCHANGED <<standing, kind>> => Computed' = Computed /\ ScoresOf(Ranked)' = ScoresOf(Ranked)
  BY DEF ScoresOf, Computed

LEMMA BeginRankingKeeps ==
    ASSUME RankInv, BeginRanking
    PROVE  RankTask' /\ ViewsRight'
  <1>0. UNCHANGED <<kind, standing, rows, board, life, viewer>> /\ repaired' = "so far" /\ task.stage = "idle"
    BY DEF BeginRanking
  <1>1. ScoresOf(Ranked) \in Partial /\ RankTypes
    BY ScoresPartial DEF RankInv
  <1>2. PICK stage : /\ stage = IF kind = "resources" THEN "copy" ELSE "rank"
                     /\ Going(stage, ScoresOf(Ranked), Empty) /\ stage \in Stages
    BY DEF BeginRanking, Stages
  <1>3. /\ task' = [stage |-> task'.stage, saw |-> task'.saw, was |-> task'.was]
        /\ task'.stage = stage /\ task'.saw = ScoresOf(Ranked) /\ task'.was = Empty
    BY <1>1, <1>2, EmptyPartial, GoingIs
  <1>4. RankTypes'
    BY <1>0, <1>1, <1>2, <1>3, EmptyPartial, TaskTypes, RankTypesSplit
  <1>5. KindsApart' /\ BoardWritten' /\ SoFarRight' /\ RefreshRepairs'
    BY <1>0, <1>2, <1>3, ComputedStays DEF RankInv, KindsApart, BoardWritten, SoFarRight, RefreshRepairs
  <1> QED BY <1>0, <1>4, <1>5, ViewsStay DEF RankTask

LEMMA ReplaceRowsKeeps ==
    ASSUME RankInv, ReplaceRows
    PROVE  RankTask' /\ ViewsRight'
  <1>0. /\ UNCHANGED <<kind, standing, board, life>> /\ Moved /\ task.stage = "rank" /\ rows' = Best(task.saw)
        /\ kind # "resources" /\ RankTypes /\ task.saw \in Partial
    BY RankTypesSplit DEF ReplaceRows, Replaced, RankInv, KindsApart
  <1>1. rows' \in Partial
    BY <1>0, BestPartial
  <1>2. repaired = "so far" => rows' = Computed
    BY <1>0 DEF RankInv, SoFarRight, Computed
  <1>3. CASE kind = "teachers"
    <2>1. task' = NoTask /\ repaired' = IF repaired = "so far" THEN "yes" ELSE repaired
      BY <1>3 DEF ReplaceRows, Finished
    <2>2. repaired # "yes"
      BY <1>0 DEF RankInv, SoFarRight
    <2>3. RankTypes'
      BY <1>0, <1>1, <2>1, NoTaskIs, EmptyPartial, TaskTypesMoved, RankTypesSplit DEF Stages
    <2>4. KindsApart' /\ BoardWritten' /\ SoFarRight'
      BY <1>0, <2>1, <2>2, NoTaskIs DEF RankInv, KindsApart, BoardWritten, SoFarRight
    <2>5. RefreshRepairs'
      BY <1>0, <1>2, <1>3, <2>1, <2>2, ComputedStays DEF RankInv, RefreshRepairs, KindsApart
    <2> QED BY <1>0, <2>3, <2>4, <2>5, ViewsMoved DEF RankTask
  <1>4. CASE kind # "teachers"
    <2>1. Going("copy", Empty, Empty) /\ UNCHANGED repaired /\ "copy" \in Stages
      BY <1>4 DEF ReplaceRows, Stages
    <2>2. /\ task' = [stage |-> task'.stage, saw |-> task'.saw, was |-> task'.was]
          /\ task'.stage = "copy" /\ task'.saw = Empty /\ task'.was = Empty
      BY <1>0, <2>1, EmptyPartial, GoingIs
    <2>3. RankTypes'
      BY <1>0, <1>1, <2>1, <2>2, EmptyPartial, TaskTypesMoved, RankTypesSplit
    <2>4. KindsApart' /\ BoardWritten'
      BY <1>0, <1>4, <2>2 DEF RankInv, KindsApart, BoardWritten
    <2>5. SoFarRight' /\ RefreshRepairs'
      BY <1>0, <1>2, <2>1, <2>2, ComputedStays DEF RankInv, SoFarRight, RefreshRepairs
    <2> QED BY <1>0, <2>3, <2>4, <2>5, ViewsMoved DEF RankTask
  <1> QED BY <1>3, <1>4

LEMMA ReadRankingKeeps ==
    ASSUME RankInv, ReadRanking
    PROVE  RankTask' /\ ViewsRight'
  <1>0. /\ UNCHANGED <<kind, standing, rows, board, life, repaired, viewer>> /\ task.stage = "copy"
        /\ kind # "teachers" /\ RankTypes
    BY DEF ReadRanking, RankInv, KindsApart
  <1>1. PICK saw : /\ saw = IF kind = "resources" THEN ScoresOf(Ranked) ELSE rows
                   /\ IF saw = Empty THEN task' = NoTask ELSE Going("list", saw, Empty)
    BY DEF ReadRanking
  <1>2. saw \in Partial /\ (repaired = "so far" => saw = Computed)
    BY <1>0, <1>1, RankTypesSplit, ScoresPartial DEF RankInv, SoFarRight, Computed
  <1>3. CASE task' = NoTask
    <2>1. RankTypes'
      BY <1>0, <1>3, NoTaskIs, EmptyPartial, TaskTypes, RankTypesSplit DEF Stages
    <2>2. KindsApart' /\ BoardWritten' /\ SoFarRight' /\ RefreshRepairs'
      BY <1>0, <1>3, NoTaskIs, ComputedStays DEF RankInv, KindsApart, BoardWritten, SoFarRight, RefreshRepairs
    <2> QED BY <1>0, <2>1, <2>2, ViewsStay DEF RankTask
  <1>4. CASE Going("list", saw, Empty)
    <2>1. /\ task' = [stage |-> task'.stage, saw |-> task'.saw, was |-> task'.was]
          /\ task'.stage = "list" /\ task'.saw = saw /\ task'.was = Empty
      BY <1>0, <1>2, <1>4, EmptyPartial, GoingIs DEF Stages
    <2>2. RankTypes'
      BY <1>0, <1>2, <2>1, EmptyPartial, TaskTypes, RankTypesSplit DEF Stages
    <2>3. KindsApart' /\ BoardWritten' /\ SoFarRight' /\ RefreshRepairs'
      BY <1>0, <1>2, <2>1, ComputedStays DEF RankInv, KindsApart, BoardWritten, SoFarRight, RefreshRepairs
    <2> QED BY <1>0, <2>2, <2>3, ViewsStay DEF RankTask
  <1> QED BY <1>1, <1>3, <1>4

LEMMA ListMembersKeeps ==
    ASSUME RankInv, ListMembers
    PROVE  RankTask' /\ ViewsRight'
  <1>0. /\ UNCHANGED <<kind, standing, rows, board, life, repaired, viewer>> /\ task.stage = "list"
        /\ RankTypes /\ task.saw \in Partial /\ board \in Partial /\ Going("add", task.saw, board)
    BY RankTypesSplit DEF ListMembers, RankInv
  <1>1. /\ task' = [stage |-> task'.stage, saw |-> task'.saw, was |-> task'.was]
        /\ task'.stage = "add" /\ task'.saw = task.saw /\ task'.was = board
    BY <1>0, GoingIs DEF Stages
  <1>2. RankTypes'
    BY <1>0, <1>1, TaskTypes, RankTypesSplit DEF Stages
  <1>3. KindsApart' /\ BoardWritten' /\ SoFarRight' /\ RefreshRepairs'
    BY <1>0, <1>1, ComputedStays DEF RankInv, KindsApart, BoardWritten, SoFarRight, RefreshRepairs
  <1> QED BY <1>0, <1>2, <1>3, ViewsStay DEF RankTask

LEMMA AddMembersKeeps ==
    ASSUME RankInv, AddMembers
    PROVE  RankTask' /\ ViewsRight'
  <1>0. /\ UNCHANGED <<kind, standing, rows, repaired>> /\ Moved /\ task.stage = "add" /\ kind # "teachers"
        /\ RankTypes /\ task.saw \in Partial /\ task.was \in Partial /\ board \in Partial
        /\ Going("drop", task.saw, task.was) /\ board' = Over(task.saw, board)
        /\ life' = IF life = "ended" THEN "for ever" ELSE life
    BY RankTypesSplit DEF AddMembers, RankInv, KindsApart
  <1>1. /\ task' = [stage |-> task'.stage, saw |-> task'.saw, was |-> task'.was]
        /\ task'.stage = "drop" /\ task'.saw = task.saw /\ task'.was = task.was
    BY <1>0, GoingIs DEF Stages
  <1>2. board' = [x \in DOMAIN task.saw \cup DOMAIN board |-> IF x \in DOMAIN task.saw THEN task.saw[x] ELSE board[x]]
    BY <1>0 DEF Over
  <1>3. /\ DOMAIN board' = DOMAIN task.saw \cup DOMAIN board
        /\ \A x \in DOMAIN board' : board'[x] = IF x \in DOMAIN task.saw THEN task.saw[x] ELSE board[x]
    BY <1>2
  <1>4. board' \in Partial
    BY <1>0, <1>2, <1>3, PartialIs
  <1>5. RankTypes'
    BY <1>0, <1>1, <1>4, TaskTypesMoved, RankTypesSplit DEF Stages
  <1>6. life' # "ended"
    BY <1>0
  <1>7. KindsApart' /\ BoardWritten'
    BY <1>0, <1>1, <1>3, <1>6 DEF RankInv, KindsApart, BoardWritten
  <1>8. SoFarRight' /\ RefreshRepairs'
    BY <1>0, <1>1, ComputedStays DEF RankInv, SoFarRight, RefreshRepairs
  <1> QED BY <1>0, <1>5, <1>7, <1>8, ViewsMoved DEF RankTask

LEMMA DropMembersKeeps ==
    ASSUME RankInv, DropMembers
    PROVE  RankTask' /\ ViewsRight'
  <1>0. /\ UNCHANGED <<kind, standing, rows, life, repaired>> /\ Moved /\ task.stage = "drop" /\ kind # "teachers"
        /\ RankTypes /\ task.saw \in Partial /\ task.was \in Partial /\ board \in Partial
        /\ Going("time", task.saw, task.was)
    BY RankTypesSplit DEF DropMembers, RankInv, KindsApart
  <1>1. /\ task' = [stage |-> task'.stage, saw |-> task'.saw, was |-> task'.was]
        /\ task'.stage = "time" /\ task'.saw = task.saw /\ task'.was = task.was
    BY <1>0, GoingIs DEF Stages
  <1>2. board' = [x \in DOMAIN board \ (DOMAIN task.was \ DOMAIN task.saw) |-> board[x]]
    BY DEF DropMembers, Stale, Restrict
  <1>3. board' \in Partial
    <2>1. DOMAIN board \in SUBSET Ranked /\ \A x \in DOMAIN board : board[x] \in Scores
      BY <1>0, PartialIs
    <2> QED BY <1>2, <2>1, PartialIs
  <1>4. life = "ended" => board' = Empty
    BY <1>2, EmptyPartial DEF RankInv, KindsApart, Empty
  <1>5. life # "ended" => board' = task.saw
    <2>1. life # "ended" => DOMAIN board \ (DOMAIN task.was \ DOMAIN task.saw) = DOMAIN task.saw
      BY <1>0 DEF RankInv, BoardWritten
    <2>2. life # "ended" => \A x \in DOMAIN task.saw : board[x] = task.saw[x]
      BY <1>0 DEF RankInv, BoardWritten
    <2>3. task.saw = [x \in DOMAIN task.saw |-> task.saw[x]]
      BY <1>0, PartialIs
    <2> QED BY <1>2, <2>1, <2>2, <2>3
  <1>6. RankTypes'
    BY <1>0, <1>1, <1>3, TaskTypesMoved, RankTypesSplit DEF Stages
  <1>7. KindsApart' /\ BoardWritten'
    BY <1>0, <1>1, <1>4, <1>5 DEF RankInv, KindsApart, BoardWritten
  <1>8. SoFarRight' /\ RefreshRepairs'
    BY <1>0, <1>1, ComputedStays DEF RankInv, SoFarRight, RefreshRepairs
  <1> QED BY <1>0, <1>6, <1>7, <1>8, ViewsMoved DEF RankTask

LEMMA SetTimeKeeps ==
    ASSUME RankInv, SetTime
    PROVE  RankTask' /\ ViewsRight'
  <1>0. /\ UNCHANGED <<kind, standing, rows, board, viewer>> /\ task.stage = "time" /\ kind # "teachers"
        /\ RankTypes /\ task' = NoTask /\ life' = (IF life = "ended" THEN life ELSE "timed")
        /\ repaired' = (IF repaired = "so far" THEN "yes" ELSE repaired) /\ repaired # "yes"
    BY DEF SetTime, Finished, RankInv, KindsApart, SoFarRight
  <1>1. RankTypes'
    BY <1>0, NoTaskIs, EmptyPartial, TaskTypes, RankTypesSplit DEF Stages
  <1>2. KindsApart' /\ BoardWritten' /\ SoFarRight'
    BY <1>0, NoTaskIs DEF RankInv, KindsApart, BoardWritten, SoFarRight
  <1>3. repaired = "so far" => task.saw = Computed /\ (kind # "resources" => rows = Computed)
    BY <1>0 DEF RankInv, SoFarRight
  <1>4. life # "ended" => board = task.saw
    BY <1>0 DEF RankInv, BoardWritten
  <1>5. RefreshRepairs'
    BY <1>0, <1>3, <1>4, ComputedStays DEF RefreshRepairs
  <1> QED BY <1>0, <1>1, <1>2, <1>5, ViewsStay DEF RankTask

LEMMA FailRefreshKeeps ==
    ASSUME RankInv, FailRefresh
    PROVE  RankTask' /\ ViewsRight'
  <1>0. UNCHANGED <<kind, standing, rows, board, life, viewer>> /\ repaired' = "no" /\ RankTypes
    BY DEF FailRefresh, RankInv
  <1>1. /\ task' = [stage |-> task'.stage, saw |-> task'.saw, was |-> task'.was]
        /\ task'.saw = Empty /\ task'.was = Empty
        /\ task'.stage = "idle" \/ (task'.stage = "copy" /\ kind = "courses")
    BY <1>0, EmptyPartial, NoTaskIs, GoingIs DEF FailRefresh, Stages
  <1>2. RankTypes'
    BY <1>0, <1>1, EmptyPartial, TaskTypes, RankTypesSplit DEF Stages
  <1>3. KindsApart' /\ BoardWritten' /\ SoFarRight' /\ RefreshRepairs'
    BY <1>0, <1>1 DEF RankInv, KindsApart, BoardWritten, SoFarRight, RefreshRepairs
  <1> QED BY <1>0, <1>2, <1>3, ViewsStay DEF RankTask

LEMMA EndBoardKeeps ==
    ASSUME RankInv, EndBoard
    PROVE  RankTask' /\ ViewsRight'
  <1>0. /\ UNCHANGED <<kind, standing, rows, task, repaired>> /\ Moved /\ board' = Empty /\ life' = "ended"
        /\ life = "timed" /\ RankTypes
    BY DEF EndBoard, RankInv
  <1>1. RankTypes'
    BY <1>0, EmptyPartial, TaskTypesMoved, RankTypesSplit
  <1>2. kind # "teachers"
    BY <1>0 DEF RankInv, KindsApart
  <1>3. KindsApart' /\ BoardWritten'
    BY <1>0, <1>2, EmptyPartial DEF RankInv, KindsApart, BoardWritten
  <1>4. SoFarRight' /\ RefreshRepairs'
    BY <1>0, <1>2, ComputedStays DEF RankInv, SoFarRight, RefreshRepairs
  <1> QED BY <1>0, <1>1, <1>3, <1>4, ViewsMoved DEF RankTask

LEMMA RefreshKeeps == RankInv /\ RefreshNext => RankInv'
  BY ChangeKeeps, BeginRankingKeeps, ReplaceRowsKeeps, ReadRankingKeeps, ListMembersKeeps, AddMembersKeeps,
     DropMembersKeeps, SetTimeKeeps, FailRefreshKeeps, EndBoardKeeps
     DEF RefreshNext, RankInv, RankTask

-----------------------------------------------------------------------------
\* Rankings: one step of a reader

LEMMA ListedScores ==
    ASSUME RankTypes
    PROVE  ScoresOf(Listed) \in Partial /\ DOMAIN ScoresOf(Listed) = Listed
  <1>1. Listed \in SUBSET Ranked
    BY DEF Listed
  <1> QED BY <1>1, ScoresPartial

\* A step of reader v: what the others know stays true.
LEMMA ViewStep ==
    ASSUME RankInv, NEW v \in Viewers, NEW now, Viewing(v, now), UNCHANGED Sources,
           now \in [stage : {"idle", "range", "look", "count", "rows", "all", "done"}, up : BOOLEAN,
                    total : 0 .. Cardinality(Ranked), ids : Partial, shown : SUBSET (Ranked \X Scores),
                    moved : BOOLEAN],
           ViewRight(v)'
    PROVE  RankInv'
  <1>0. UNCHANGED <<kind, standing, rows, board, life, task, repaired>> /\ viewer' = [viewer EXCEPT ![v] = now]
    BY DEF Viewing, Sources
  <1>1. ViewerType /\ ViewerFits /\ RankTypes
    BY RankTypesSplit DEF RankInv
  <1>2. viewer'[v] = now /\ \A w \in Viewers \ {v} : viewer'[w] = viewer[w]
    BY <1>0, <1>1 DEF ViewerType
  <1>3. ViewerType' /\ ViewerFits'
    <2>1. now.total \in Nat /\ now.total \in 0 .. Cardinality(Ranked) /\ now.ids \in Partial
      BY RankingsAssumption, FS_CardinalityType
    <2>2. ViewerFits'
      BY <1>1, <1>2, <2>1 DEF ViewerFits
    <2>3. ViewerType'
      BY <1>0, <1>1, <2>1 DEF ViewerType
    <2> QED BY <2>2, <2>3
  <1>4. RankTypes'
    BY <1>0, <1>1, <1>3, RankTypesSplit DEF RankTypes, RankingsTypeOK, ViewerType, ViewerFits
  <1>5. KindsApart' /\ BoardWritten' /\ RefreshRepairs' /\ SoFarRight'
    BY <1>0, ComputedStays DEF RankInv, KindsApart, BoardWritten, RefreshRepairs, SoFarRight
  <1>6. ViewsRight'
    <2> SUFFICES ASSUME NEW w \in Viewers \ {v} PROVE ViewRight(w)'
      BY DEF ViewsRight
    <2>1. Listed' = Listed
      BY <1>0 DEF Listed
    <2>2. ScoresOf(Listed)' = ScoresOf(Listed)
      BY <1>0, <2>1 DEF ScoresOf
    <2>3. InTable(w)' = InTable(w) /\ viewer'[w] = viewer[w]
      BY <1>0, <1>2 DEF InTable
    <2>4. ViewRight(w)
      BY DEF RankInv, ViewsRight
    <2> QED BY <1>0, <2>1, <2>2, <2>3, <2>4 DEF ViewRight, Answered
  <1> QED BY <1>4, <1>5, <1>6 DEF RankInv

LEMMA NoViewerTyped ==
    /\ NoViewer.stage = "idle" /\ NoViewer.moved = FALSE
    /\ NoViewer \in [stage : {"idle", "range", "look", "count", "rows", "all", "done"}, up : BOOLEAN,
                     total : 0 .. Cardinality(Ranked), ids : Partial, shown : SUBSET (Ranked \X Scores),
                     moved : BOOLEAN]
  BY EmptyPartial, RankingsAssumption, FS_CardinalityType DEF NoViewer

LEMMA BeginViewKeeps ==
    ASSUME RankInv, NEW v \in Viewers, NEW up \in BOOLEAN, BeginView(v, up)
    PROVE  RankInv'
  <1>0. RankTypes /\ board \in Partial
    BY RankTypesSplit DEF RankInv
  <1>1. PICK n : n = Cardinality(DOMAIN Pick(board, up))
    OBVIOUS
  <1>2. n \in 0 .. Cardinality(Ranked) /\ (n > 0 => DOMAIN Pick(board, up) # {})
    BY <1>0, <1>1, PickPartial, FS_EmptySet
  <1>3. PICK now : now = [NoViewer EXCEPT !.stage = IF n > 0 THEN "range" ELSE "count", !.up = up, !.total = n]
    OBVIOUS
  <1>4. Viewing(v, now) /\ UNCHANGED Sources
    BY <1>1, <1>3 DEF BeginView
  <1>5. now \in [stage : {"idle", "range", "look", "count", "rows", "all", "done"}, up : BOOLEAN,
                 total : 0 .. Cardinality(Ranked), ids : Partial, shown : SUBSET (Ranked \X Scores),
                 moved : BOOLEAN]
    BY <1>2, <1>3, NoViewerTyped
  <1>6. now.up = up /\ now.total = n /\ now.stage = IF n > 0 THEN "range" ELSE "count"
    BY <1>3 DEF NoViewer
  <1>7. viewer'[v] = now /\ board' = board
    BY <1>0, <1>4, RankTypesSplit DEF Viewing, Sources, ViewerType
  <1>8. ViewRight(v)'
    BY <1>1, <1>2, <1>6, <1>7 DEF ViewRight
  <1> QED BY <1>4, <1>5, <1>8, ViewStep

LEMMA TakeRangeKeeps ==
    ASSUME RankInv, NEW v \in Viewers, TakeRange(v)
    PROVE  RankInv'
  <1>0. RankTypes /\ board \in Partial /\ ViewerType /\ ViewerFits
    BY RankTypesSplit DEF RankInv
  <1>1. PICK old : old = viewer[v]
    OBVIOUS
  <1>2. /\ old \in [stage : {"idle", "range", "look", "count", "rows", "all", "done"}, up : BOOLEAN,
                    total : Nat, ids : Partial, shown : SUBSET (Ranked \X Scores), moved : BOOLEAN]
        /\ old.total \in 0 .. Cardinality(Ranked)
    BY <1>0, <1>1 DEF ViewerType, ViewerFits
  <1>3. PICK ids : ids = Pick(board, old.up)
    OBVIOUS
  <1>4. ids \in Partial
    BY <1>0, <1>2, <1>3, PickPartial
  <1>5. PICK now : now = [old EXCEPT !.stage = "look", !.ids = ids]
    OBVIOUS
  <1>6. Viewing(v, now) /\ UNCHANGED Sources /\ old.stage = "range"
    BY <1>1, <1>3, <1>5 DEF TakeRange
  <1>7. /\ now.up = old.up /\ now.total = old.total /\ now.stage = "look" /\ now.ids = ids /\ now.moved = old.moved
        /\ now \in [stage : {"idle", "range", "look", "count", "rows", "all", "done"}, up : BOOLEAN,
                    total : 0 .. Cardinality(Ranked), ids : Partial, shown : SUBSET (Ranked \X Scores),
                    moved : BOOLEAN]
    BY <1>2, <1>4, <1>5
  <1>8. viewer'[v] = now /\ board' = board
    BY <1>0, <1>6 DEF Viewing, Sources, ViewerType
  <1>9. ~old.moved => DOMAIN ids # {} /\ old.total = Cardinality(DOMAIN ids)
    BY <1>1, <1>3, <1>6 DEF RankInv, ViewsRight, ViewRight
  <1>10. ViewRight(v)'
    BY <1>3, <1>7, <1>8, <1>9 DEF ViewRight
  <1> QED BY <1>6, <1>7, <1>10, ViewStep

\* An answer that is drawn from f.
LEMMA AnswerKeeps ==
    ASSUME RankInv, NEW v \in Viewers, viewer[v].stage # "idle", NEW f \in Partial, Answer(v, f, viewer[v].total),
           UNCHANGED Sources,
           ~viewer[v].moved =>
                /\ viewer[v].total = Cardinality(DOMAIN f)
                /\ \/ DOMAIN f # {} /\ f = Pick(board, viewer[v].up)
                   \/ InTable(v) /\ f = Pick(rows, viewer[v].up)
                   \/ ~InTable(v) /\ f = Pick(ScoresOf(Listed), viewer[v].up)
    PROVE  RankInv'
  <1>0. RankTypes /\ ViewerType /\ ViewerFits
    BY RankTypesSplit DEF RankInv
  <1>1. PICK old : old = viewer[v]
    OBVIOUS
  <1>2. /\ old \in [stage : {"idle", "range", "look", "count", "rows", "all", "done"}, up : BOOLEAN,
                    total : Nat, ids : Partial, shown : SUBSET (Ranked \X Scores), moved : BOOLEAN]
        /\ old.total \in 0 .. Cardinality(Ranked)
    BY <1>0, <1>1 DEF ViewerType, ViewerFits
  <1>3. PICK shown : shown = {<<x, f[x]>> : x \in DOMAIN f \cap Listed}
    OBVIOUS
  <1>4. shown \in SUBSET (Ranked \X Scores)
    <2>1. DOMAIN f \in SUBSET Ranked /\ \A x \in DOMAIN f : f[x] \in Scores
      BY PartialIs
    <2> QED BY <1>3, <2>1
  <1>5. PICK now : now = [old EXCEPT !.stage = "done", !.ids = Empty, !.total = old.total, !.shown = shown]
    OBVIOUS
  <1>6. Viewing(v, now)
    BY <1>1, <1>3, <1>5 DEF Answer
  <1>7. /\ now.up = old.up /\ now.total = old.total /\ now.stage = "done" /\ now.shown = shown /\ now.moved = old.moved
        /\ now \in [stage : {"idle", "range", "look", "count", "rows", "all", "done"}, up : BOOLEAN,
                    total : 0 .. Cardinality(Ranked), ids : Partial, shown : SUBSET (Ranked \X Scores),
                    moved : BOOLEAN]
    BY <1>2, <1>4, <1>5, EmptyPartial
  <1>8. viewer'[v] = now /\ UNCHANGED <<kind, standing, rows, board>>
    BY <1>0, <1>6 DEF Viewing, Sources, ViewerType
  <1>9. Listed' = Listed /\ ScoresOf(Listed)' = ScoresOf(Listed) /\ InTable(v)' = InTable(v)
    <2>1. Listed' = Listed
      BY <1>8 DEF Listed
    <2> QED BY <1>1, <1>7, <1>8, <2>1 DEF ScoresOf, InTable
  <1>10. ASSUME ~old.moved
         PROVE  /\ shown = {<<x, f[x]>> : x \in DOMAIN f \cap Listed'} /\ old.total = Cardinality(DOMAIN f)
                /\ \/ DOMAIN f # {} /\ f = Pick(board, old.up)'
                   \/ InTable(v)' /\ f = Pick(rows, old.up)'
                   \/ ~InTable(v)' /\ f = Pick(ScoresOf(Listed)', old.up)
    BY <1>1, <1>3, <1>8, <1>9, <1>10
  <1>11. ViewRight(v)'
    BY <1>7, <1>8, <1>10 DEF ViewRight, Answered
  <1> QED BY <1>6, <1>7, <1>11, ViewStep

LEMMA LookKeeps ==
    ASSUME RankInv, NEW v \in Viewers, Look(v)
    PROVE  RankInv'
  <1>1. viewer[v].ids \in Partial /\ viewer[v].stage = "look" /\ UNCHANGED Sources
    BY RankTypesSplit DEF RankInv, ViewerFits, Look
  <1>2. Answer(v, viewer[v].ids, viewer[v].total)
    BY DEF Look
  <1>3. ~viewer[v].moved =>
            /\ viewer[v].ids = Pick(board, viewer[v].up) /\ DOMAIN viewer[v].ids # {}
            /\ viewer[v].total = Cardinality(DOMAIN viewer[v].ids)
    BY <1>1 DEF RankInv, ViewsRight, ViewRight
  <1> QED BY <1>1, <1>2, <1>3, AnswerKeeps

LEMMA ListRankingKeeps ==
    ASSUME RankInv, NEW v \in Viewers, ListRanking(v)
    PROVE  RankInv'
  <1>0. /\ RankTypes /\ rows \in Partial /\ ScoresOf(Listed) \in Partial /\ viewer[v].up \in BOOLEAN
        /\ viewer[v].stage \in {"rows", "all"} /\ UNCHANGED Sources
    BY RankTypesSplit, ListedScores DEF RankInv, ViewerType, ListRanking
  <1>1. PICK f : f = Pick(IF viewer[v].stage = "rows" THEN rows ELSE ScoresOf(Listed), viewer[v].up)
    OBVIOUS
  <1>2. f \in Partial
    BY <1>0, <1>1, PickPartial
  <1>3. Answer(v, f, viewer[v].total)
    BY <1>1 DEF ListRanking
  <1>4. ~viewer[v].moved =>
            /\ viewer[v].total = Cardinality(DOMAIN f)
            /\ \/ InTable(v) /\ f = Pick(rows, viewer[v].up)
               \/ ~InTable(v) /\ f = Pick(ScoresOf(Listed), viewer[v].up)
    BY <1>0, <1>1 DEF RankInv, ViewsRight, ViewRight
  <1> QED BY <1>0, <1>2, <1>3, <1>4, AnswerKeeps

LEMMA FallBackKeeps ==
    ASSUME RankInv, NEW v \in Viewers, FallBack(v)
    PROVE  RankInv'
  <1>0. RankTypes /\ ViewerType /\ ViewerFits
    BY RankTypesSplit DEF RankInv
  <1>1. PICK old : old = viewer[v]
    OBVIOUS
  <1>2. /\ old \in [stage : {"idle", "range", "look", "count", "rows", "all", "done"}, up : BOOLEAN,
                    total : Nat, ids : Partial, shown : SUBSET (Ranked \X Scores), moved : BOOLEAN]
        /\ old.total \in 0 .. Cardinality(Ranked)
    BY <1>0, <1>1 DEF ViewerType, ViewerFits
  <1>5. PICK now : now = [old EXCEPT !.stage = "count", !.ids = Empty]
    OBVIOUS
  <1>6. Viewing(v, now) /\ UNCHANGED Sources
    BY <1>1, <1>5 DEF FallBack
  <1>7. /\ now.stage = "count"
        /\ now \in [stage : {"idle", "range", "look", "count", "rows", "all", "done"}, up : BOOLEAN,
                    total : 0 .. Cardinality(Ranked), ids : Partial, shown : SUBSET (Ranked \X Scores),
                    moved : BOOLEAN]
    BY <1>2, <1>5, EmptyPartial
  <1>8. viewer'[v] = now
    BY <1>0, <1>6 DEF Viewing, ViewerType
  <1>9. ViewRight(v)'
    BY <1>7, <1>8 DEF ViewRight
  <1> QED BY <1>6, <1>7, <1>9, ViewStep

LEMMA CountRankingKeeps ==
    ASSUME RankInv, NEW v \in Viewers, CountRanking(v)
    PROVE  RankInv'
  <1>0. RankTypes /\ rows \in Partial /\ ScoresOf(Listed) \in Partial /\ ViewerType /\ ViewerFits
    BY RankTypesSplit, ListedScores DEF RankInv
  <1>1. PICK old : old = viewer[v]
    OBVIOUS
  <1>2. /\ old \in [stage : {"idle", "range", "look", "count", "rows", "all", "done"}, up : BOOLEAN,
                    total : Nat, ids : Partial, shown : SUBSET (Ranked \X Scores), moved : BOOLEAN]
    BY <1>0, <1>1 DEF ViewerType
  <1>3. PICK table \in BOOLEAN : table = InTable(v)
    BY DEF InTable
  <1>4. PICK n : n = Cardinality(DOMAIN Pick(IF table THEN rows ELSE ScoresOf(Listed), old.up))
    OBVIOUS
  <1>5. n \in 0 .. Cardinality(Ranked)
    BY <1>0, <1>2, <1>4, PickPartial
  <1>6. PICK now : now = [old EXCEPT !.stage = IF table THEN "rows" ELSE "all", !.total = n]
    OBVIOUS
  <1>7. Viewing(v, now) /\ UNCHANGED Sources
    <2>1. CASE table
      BY <1>1, <1>3, <1>4, <1>6, <2>1 DEF CountRanking
    <2>2. CASE ~table
      BY <1>1, <1>3, <1>4, <1>6, <2>2 DEF CountRanking
    <2> QED BY <2>1, <2>2
  <1>8. /\ now.stage = (IF table THEN "rows" ELSE "all") /\ now.total = n /\ now.up = old.up
        /\ now \in [stage : {"idle", "range", "look", "count", "rows", "all", "done"}, up : BOOLEAN,
                    total : 0 .. Cardinality(Ranked), ids : Partial, shown : SUBSET (Ranked \X Scores),
                    moved : BOOLEAN]
    BY <1>2, <1>5, <1>6
  <1>9. viewer'[v] = now /\ UNCHANGED <<kind, standing, rows, board>>
    BY <1>0, <1>7 DEF Viewing, Sources, ViewerType
  <1>10. ScoresOf(Listed)' = ScoresOf(Listed) /\ InTable(v)' = table
    <2>1. Listed' = Listed
      BY <1>9 DEF Listed
    <2> QED BY <1>1, <1>3, <1>8, <1>9, <2>1 DEF ScoresOf, InTable
  <1>11. ViewRight(v)'
    <2>1. CASE table
      BY <1>4, <1>8, <1>9, <1>10, <2>1 DEF ViewRight
    <2>2. CASE ~table
      BY <1>4, <1>8, <1>9, <1>10, <2>2 DEF ViewRight
    <2> QED BY <2>1, <2>2
  <1> QED BY <1>7, <1>8, <1>11, ViewStep

LEMMA EndViewKeeps ==
    ASSUME RankInv, NEW v \in Viewers, EndView(v)
    PROVE  RankInv'
  <1>1. Viewing(v, NoViewer) /\ UNCHANGED Sources
    BY DEF EndView
  <1>2. viewer'[v] = NoViewer
    BY <1>1, RankTypesSplit DEF RankInv, Viewing, ViewerType
  <1>3. ViewRight(v)'
    BY <1>2, NoViewerTyped DEF ViewRight
  <1> QED BY <1>1, <1>3, NoViewerTyped, ViewStep

LEMMA ViewKeeps == RankInv /\ ViewNext => RankInv'
  BY BeginViewKeeps, TakeRangeKeeps, LookKeeps, FallBackKeeps, CountRankingKeeps, ListRankingKeeps, EndViewKeeps
     DEF ViewNext

LEMMA RankInit == RankingsInit => RankInv
  <1> SUFFICES ASSUME RankingsInit PROVE RankInv
    OBVIOUS
  <1>1. PICK least \in Scores : standing = [x \in Ranked |-> [listed |-> TRUE, score |-> least]]
    BY DEF RankingsInit
  <1>2. /\ rows = Empty /\ board = Empty /\ life = "ended" /\ task = NoTask /\ repaired = "no"
        /\ viewer = [v \in Viewers |-> NoViewer] /\ kind \in {"courses", "teachers", "resources"}
    BY DEF RankingsInit
  <1>3. ViewerType /\ ViewerFits
    <2>1. NoViewer.total \in 0 .. Cardinality(Ranked) /\ NoViewer.total \in Nat /\ NoViewer.ids \in Partial
      BY EmptyPartial, RankingsAssumption, FS_CardinalityType DEF NoViewer
    <2> QED BY <1>2, <2>1, NoViewerTyped DEF ViewerType, ViewerFits
  <1>4. RankTypes
    BY <1>1, <1>2, <1>3, EmptyPartial, RankTypesSplit DEF NoTask, Stages
  <1>5. KindsApart /\ BoardWritten /\ SoFarRight /\ RefreshRepairs
    BY <1>2 DEF NoTask, KindsApart, BoardWritten, SoFarRight, RefreshRepairs
  <1>6. ViewsRight
    BY <1>2, NoViewerTyped DEF ViewsRight, ViewRight
  <1> QED BY <1>4, <1>5, <1>6 DEF RankInv

LEMMA RankIdle == RankInv /\ UNCHANGED rankVars => RankInv'
  <1> SUFFICES ASSUME RankInv, UNCHANGED rankVars PROVE RankInv'
    OBVIOUS
  <1>0. UNCHANGED <<kind, standing, rows, board, life, task, repaired, viewer>>
    BY DEF rankVars
  <1>1. RankTypes'
    BY <1>0, TaskTypes, RankTypesSplit DEF RankInv
  <1>2. KindsApart' /\ BoardWritten' /\ SoFarRight' /\ RefreshRepairs'
    BY <1>0, ComputedStays DEF RankInv, KindsApart, BoardWritten, SoFarRight, RefreshRepairs
  <1> QED BY <1>0, <1>1, <1>2, ViewsStay DEF RankInv

\* While a sorted set is written, what is in both lists is on it.
LEMMA BoardHasBoth == RankInv => BoardComplete
  BY DEF RankInv, BoardWritten, BoardComplete

\* What a reader is shown cannot be more than it was told there is.
LEMMA ShownFew ==
    ASSUME NEW f \in Partial, NEW S
    PROVE  Cardinality(DOMAIN f) >= Cardinality({<<x, f[x]>> : x \in DOMAIN f \cap S})
  <1> DEFINE D == DOMAIN f \cap S
             shown == {<<x, f[x]>> : x \in D}
             image == [x \in D |-> <<x, f[x]>>]
  <1>1. IsFiniteSet(DOMAIN f)
    BY PartialIs, RankingsAssumption, FS_Subset
  <1>2. IsFiniteSet(D) /\ Cardinality(D) <= Cardinality(DOMAIN f)
    BY <1>1, FS_Subset
  <1>3. image \in Surjection(D, shown)
    BY DEF Surjection
  <1>4. IsFiniteSet(shown) /\ Cardinality(shown) <= Cardinality(D)
    <2> HIDE DEF image, shown, D
    <2> QED BY <1>2, <1>3, FS_Surjection
  <1>5. Cardinality(shown) \in Nat /\ Cardinality(D) \in Nat /\ Cardinality(DOMAIN f) \in Nat
    BY <1>1, <1>2, <1>4, FS_CardinalityType
  <1> QED BY <1>2, <1>4, <1>5

\* A reader that nothing disturbed is shown the best, from wherever it read.
LEMMA AnswersRight == RankInv => AnswersAgree
  <1> SUFFICES ASSUME RankInv, NEW v \in Viewers, repaired = "yes", viewer[v].stage = "done", ~viewer[v].moved
               PROVE  LET best == Pick(Computed, viewer[v].up) IN
                      /\ viewer[v].shown = {<<x, best[x]>> : x \in DOMAIN best \cap Listed}
                      /\ viewer[v].total >= Cardinality(viewer[v].shown)
    BY DEF AnswersAgree
  <1>1. PICK up \in BOOLEAN : up = viewer[v].up
    BY RankTypesSplit DEF RankInv, ViewerType
  <1>2. PICK best : best = Pick(Computed, up)
    OBVIOUS
  <1>3. RankTypes /\ board \in Partial /\ rows \in Partial /\ ScoresOf(Listed) \in Partial
        /\ DOMAIN ScoresOf(Listed) = Listed
    BY RankTypesSplit, ListedScores DEF RankInv
  <1>4. /\ kind # "resources" => rows = Computed
        /\ IF kind = "teachers" THEN board = Empty ELSE life = "ended" \/ (life = "timed" /\ board = Computed)
    BY DEF RankInv, RefreshRepairs
  <1>5. best \in Partial
    BY <1>2, <1>3, ComputedPartial, PickPartial
  <1>6. ASSUME NEW f \in Partial, Answered(v, f)
        PROVE  /\ viewer[v].shown = {<<x, f[x]>> : x \in DOMAIN f \cap Listed}
               /\ viewer[v].total >= Cardinality(viewer[v].shown)
    BY <1>6, ShownFew DEF Answered
  <1>7. CASE DOMAIN Pick(board, up) # {} /\ Answered(v, Pick(board, up))
    <2>1. board # Empty
      <3>1. DOMAIN Pick(Empty, up) = {}
        BY PickIs, EmptyPartial DEF InOrder
      <3> QED BY <1>7, <3>1
    <2>2. board = Computed
      BY <1>4, <2>1 DEF RankInv, KindsApart
    <2> QED BY <1>1, <1>2, <1>5, <1>6, <1>7, <2>2
  <1>8. CASE InTable(v) /\ Answered(v, Pick(rows, up))
    <2>1. rows = Computed
      BY <1>4, <1>8 DEF InTable
    <2> QED BY <1>1, <1>2, <1>5, <1>6, <1>8, <2>1
  <1>9. CASE ~InTable(v) /\ Answered(v, Pick(ScoresOf(Listed), up))
    <2>1. PICK f : f = Pick(ScoresOf(Listed), up)
      OBVIOUS
    <2>2. f \in Partial /\ DOMAIN f = InOrder(ScoresOf(Listed), up) /\ f = [x \in DOMAIN f |-> ScoresOf(Listed)[x]]
      <3>1. ScoresOf(Listed) = [x \in DOMAIN ScoresOf(Listed) |-> ScoresOf(Listed)[x]]
        BY <1>3, PartialIs
      <3> QED BY <1>3, <2>1, <3>1, PickPartial, PickIs
    <2>3. /\ viewer[v].shown = {<<x, f[x]>> : x \in DOMAIN f \cap Listed}
          /\ viewer[v].total >= Cardinality(viewer[v].shown)
      BY <1>6, <1>9, <2>1, <2>2
    <2>4. Listed \subseteq Ranked /\ (\A x \in Listed : ScoresOf(Listed)[x] = ScoresOf(Ranked)[x])
      BY <1>3, ScoresPartial DEF Listed
    <2>5. DOMAIN ScoresOf(Ranked) = Ranked /\ ScoresOf(Ranked) \in Partial
      BY <1>3, ScoresPartial
    <2>6. DOMAIN f \subseteq Listed
      BY <1>3, <2>2 DEF InOrder
    <2>7. CASE kind = "resources"
      <3>1. best = Pick(ScoresOf(Ranked), up)
        BY <1>2, <2>7 DEF Computed
      <3>2. DOMAIN best = InOrder(ScoresOf(Ranked), up) /\ best = [x \in DOMAIN best |-> ScoresOf(Ranked)[x]]
        <4>1. ScoresOf(Ranked) = [x \in DOMAIN ScoresOf(Ranked) |-> ScoresOf(Ranked)[x]]
          BY <2>5, PartialIs
        <4> QED BY <3>1, <4>1, PickIs
      <3>3. DOMAIN best \cap Listed = DOMAIN f \cap Listed
        BY <1>3, <2>2, <2>4, <2>5, <3>2 DEF InOrder
      <3>4. \A x \in DOMAIN f \cap Listed : best[x] = f[x]
        BY <2>2, <2>4, <3>2, <3>3
      <3>5. {<<x, f[x]>> : x \in DOMAIN f \cap Listed} = {<<x, best[x]>> : x \in DOMAIN best \cap Listed}
        BY <3>3, <3>4
      <3> QED BY <1>1, <1>2, <2>3, <3>5
    <2>8. CASE kind # "resources"
      <3>1. best = Pick(Best(ScoresOf(Ranked)), up) /\ rows = Computed
        BY <1>2, <1>4, <2>8 DEF Computed
      <3>2. DOMAIN best = {}
        BY <1>1, <1>2, <1>9, <2>8, <3>1 DEF InTable
      <3>3. \A x \in Ranked : up /\ ScoresOf(Ranked)[x] = 0
        BY <2>5, <3>1, <3>2, BestFirst
      <3>4. DOMAIN f = {}
        BY <1>3, <2>2, <2>4, <3>3 DEF InOrder
      <3> QED BY <1>1, <1>2, <2>3, <3>2, <3>4
    <2> QED BY <2>7, <2>8
  <1>10. ViewRight(v)
    BY DEF RankInv, ViewsRight
  <1> QED BY <1>1, <1>7, <1>8, <1>9, <1>10 DEF ViewRight

RankingsInv == RankInv /\ OneDraw

LEMMA RankingsHold == RankingsInv => RankingsKnown
  BY BoardHasBoth, AnswersRight, WholeDraws DEF RankingsInv, RankingsKnown, RankInv, RankTypes

LEMMA RankingsStart == RankingsInit => RankingsInv
  BY RankInit, DrawsInit DEF RankingsInv

LEMMA RankingsStep ==
    ASSUME RankingsInv,
           \/ RankNext /\ UNCHANGED drawVars
           \/ DrawNext /\ UNCHANGED rankVars
           \/ UNCHANGED <<rankVars, drawVars>>
    PROVE  RankingsInv'
  <1>1. RankInv'
    BY RefreshKeeps, ViewKeeps, RankIdle DEF RankNext, RankingsInv
  <1>2. OneDraw'
    BY DrawsNext DEF RankingsInv
  <1> QED BY <1>1, <1>2 DEF RankingsInv

\* A refresh that nothing disturbs puts the table and the sorted set of a ranking right,
\* whatever failed ones left there; while the set is written command by command it never
\* lacks what both lists have; a reader under which nothing changes is shown the best,
\* wherever it read them; and a list of random courses that is used is one draw.
THEOREM RankingsAreKnown == RankingsSpec => []RankingsKnown
  <1>1. RankingsInv /\ [(RankNext /\ UNCHANGED drawVars) \/ (DrawNext /\ UNCHANGED rankVars)]_<<rankVars, drawVars>>
            => RankingsInv'
    BY RankingsStep
  <1> QED BY <1>1, RankingsStart, RankingsHold, PTL DEF RankingsSpec
-----------------------------------------------------------------------------
\* Evaluations: rows and requests

\* The two tables, seen from the row i of either.
SubjectsOf(i) == IF i \in CourseRows THEN Courses ELSE Teachers

OthersOf(i) == IF i \in CourseRows THEN Teachers ELSE Courses

MirrorsOf(i) == IF i \in CourseRows THEN TeacherRows ELSE CourseRows

RowOf(i) == [state : {"free", "kept", "gone"}, user : Users \cup {None}, subject : SubjectsOf(i) \cup {None},
             other : OthersOf(i) \cup {None}, mirror : MirrorsOf(i) \cup {None}, content : Contents \cup {None}]

\* What row i may hold: what is kept is about something, and what is not has no mirror.
GoodRow(i, r) ==
    /\ r \in RowOf(i)
    /\ r.state = "kept" => r.subject # None
    /\ r.state # "kept" => r.mirror = None

\* The mirror of a row is an id that is, or once was, a row: no new row will get it.
Used(i) == i # None => row[i].state # "free"

RowsGood ==
    /\ row = [i \in Ids |-> row[i]]
    /\ \A i \in Ids : GoodRow(i, row[i]) /\ Used(row[i].mirror)

\* What a request is about, until it writes.
AimCreate(q) ==
    /\ q.id = None /\ q.link = NoLink
    /\ q.read.user \in Users \cup {None} /\ q.read.subject \in Courses
    /\ q.other \in Teachers \cup {None} /\ q.content \in Contents

\* It is about an evaluation that was kept when it was read.
AimChange(q) ==
    /\ q.id \in Ids /\ q.link = NoLink
    /\ GoodRow(q.id, q.read) /\ q.read.state = "kept" /\ Used(q.id) /\ Used(q.read.mirror)
    /\ q.other \in OthersOf(q.id) \cup {None} /\ q.content \in Contents \cup {None}

AimRelate(q) == q.id = None /\ q.link.pair \in Courses \X Teachers

\* Rows w that may be written: each fits its table, takes the place of a row that is not
\* gone, and has a mirror that is written with it or is no longer free.
Fits(w, M, i) ==
    /\ i \in Ids /\ row[i].state # "gone"
    /\ GoodRow(i, w[i]) /\ w[i].state # "free"
    /\ w[i].mirror \in M \/ Used(w[i].mirror)

Fitting(w, M) == \A i \in DOMAIN w : Fits(w, M, i)

\* Evaluation r, the row i, has just the mirror it should have among the rows w.
WellPaired(w, i) ==
    \/ w[i].other = None /\ w[i].mirror = None
    \/ /\ w[i].other # None /\ w[i].mirror # None /\ w[i].mirror \in DOMAIN w
       /\ w[w[i].mirror] = Kept(w[i].user, w[i].other, w[i].subject, i, w[i].content)

\* Row i that is written takes its mirror along, is paired, and all it concerns is among C.
Sound(w, C, i) ==
    /\ row[i].state = "kept" => (row[i].mirror \in DOMAIN w \/ row[i].mirror = None) /\ row[i].subject \in C
    /\ w[i].state = "kept" => w[i].subject \in C /\ WellPaired(w, i)

AllSound(w, C) == \A i \in DOMAIN w : Sound(w, C, i)

\* Evaluation i was changed or deleted since it was read, or is no longer one of a pair,
\* and no other transaction can change that: the rows it is about are gone or are written.
Lost(i, read, w) ==
    /\ i \in Ids
    /\ \/ row[i].state = "gone"
       \/ /\ i \in DOMAIN w
          /\ \/ row[i] # read
             \/ /\ ~Paired(i)
                /\ \/ row[i].mirror \in DOMAIN w \/ row[i].mirror = None
                   \/ row[row[i].mirror].state = "gone"

Links(q) ==
    q.link.pair # None => /\ q.link.pair \in Courses \X Teachers
                          /\ q.link.pair[1] \in DOMAIN q.counts /\ q.link.pair[2] \in DOMAIN q.counts

\* A transaction that only has to commit.
Written(q) ==
    /\ q.counts \in [DOMAIN q.counts -> Nat]
    /\ Fitting(q.writes, DOMAIN q.writes)
    /\ AllSound(q.writes, DOMAIN q.counts) \/ Lost(q.id, q.read, q.writes)
    /\ q.id # None => q.read.state = "kept"
    /\ Links(q)

Fields(q) ==
    q = [stage |-> q.stage, id |-> q.id, read |-> q.read, other |-> q.other, content |-> q.content,
         writes |-> q.writes, link |-> q.link, counts |-> q.counts]

GoodRequest(q) ==
    /\ Fields(q)
    /\ q.stage # "written" => q.writes = <<>>
    /\ \/ q.stage = "idle"
       \/ q.stage = "create" /\ AimCreate(q)
       \/ q.stage \in {"update", "delete"} /\ AimChange(q) /\ (q.stage = "delete" => q.other = None)
       \/ q.stage = "relate" /\ AimRelate(q)
       \/ q.stage = "written" /\ Written(q)

RequestsGood ==
    /\ req = [p \in Procs |-> req[p]]
    /\ \A p \in Procs : GoodRequest(req[p])

\* Two transactions never have the same row.
RowsApart == \A p, q \in Procs : p # q => DOMAIN req[p].writes \cap DOMAIN req[q].writes = {}

EvalInv ==
    /\ RowsGood /\ RequestsGood /\ RowsApart
    /\ related \subseteq Courses \X Teachers /\ count \in [Subjects -> Nat] /\ requests \in 0 .. MaxRequests

-----------------------------------------------------------------------------
\* Evaluations: what is written

LEMMA Sides ==
    ASSUME NEW i \in Ids, NEW m \in MirrorsOf(i)
    PROVE  /\ m \in Ids /\ m # i /\ m # None /\ i # None /\ i \in MirrorsOf(m)
           /\ SubjectsOf(m) = OthersOf(i) /\ OthersOf(m) = SubjectsOf(i)
  BY EvaluationAssumption DEF Ids, MirrorsOf, SubjectsOf, OthersOf

LEMMA NoneApart ==
    ASSUME NEW i \in Ids
    PROVE  None \notin SubjectsOf(i) /\ None \notin OthersOf(i) /\ None \notin MirrorsOf(i) /\ i # None
  BY EvaluationAssumption DEF Ids, MirrorsOf, SubjectsOf, OthersOf

LEMMA MirrorTable == \A i \in Ids : \A s \in SubjectsOf(i) : MirrorIds(s) = MirrorsOf(i)
  BY EvaluationAssumption DEF Ids, SubjectsOf, MirrorIds, MirrorsOf

LEMMA KeptHas ==
    ASSUME NEW u, NEW s, NEW o, NEW m, NEW c
    PROVE  /\ Kept(u, s, o, m, c).state = "kept" /\ Kept(u, s, o, m, c).user = u /\ Kept(u, s, o, m, c).subject = s
           /\ Kept(u, s, o, m, c).other = o /\ Kept(u, s, o, m, c).mirror = m /\ Kept(u, s, o, m, c).content = c
  BY DEF Kept

LEMMA KeptGood ==
    ASSUME NEW i \in Ids, NEW u \in Users \cup {None}, NEW s \in SubjectsOf(i), NEW o \in OthersOf(i) \cup {None},
           NEW m \in MirrorsOf(i) \cup {None}, NEW c \in Contents \cup {None}
    PROVE  GoodRow(i, Kept(u, s, o, m, c))
  <1>1. s # None
    BY NoneApart
  <1> QED BY <1>1 DEF Kept, GoodRow, RowOf

\* A row that is kept is what Kept makes of its columns.
LEMMA KeptColumns ==
    ASSUME NEW i \in Ids, NEW r, GoodRow(i, r), r.state = "kept"
    PROVE  /\ r = Kept(r.user, r.subject, r.other, r.mirror, r.content)
           /\ r.user \in Users \cup {None} /\ r.subject \in SubjectsOf(i) /\ r.other \in OthersOf(i) \cup {None}
           /\ r.mirror \in MirrorsOf(i) \cup {None} /\ r.content \in Contents \cup {None}
  BY DEF GoodRow, RowOf, Kept

LEMMA GoneHas == GoneRow.state = "gone" /\ GoneRow.mirror = None
  BY DEF GoneRow, NoRow

LEMMA GoneGood ==
    ASSUME NEW i
    PROVE  GoodRow(i, GoneRow) /\ GoodRow(i, NoRow)
  BY DEF GoodRow, RowOf, NoRow, GoneRow

LEMMA PutIs == ASSUME NEW i, NEW r PROVE (\A j : j \in DOMAIN Put(i, r) <=> j = i) /\ Put(i, r)[i] = r
  BY DEF Put

LEMMA BothIs ==
    ASSUME NEW f, NEW g
    PROVE  /\ \A i : i \in DOMAIN Both(f, g) <=> i \in DOMAIN f \/ i \in DOMAIN g
           /\ \A i \in DOMAIN f : Both(f, g)[i] = f[i]
           /\ \A i \in DOMAIN g : i \in DOMAIN f \/ Both(f, g)[i] = g[i]
  BY DEF Both

LEMMA NothingIs == \A j : j \notin DOMAIN <<>>
  OBVIOUS

LEMMA ChangedIs ==
    ASSUME NEW i, NEW r
    PROVE  /\ i # None /\ row[i].state = "kept" => i \in DOMAIN Changed(i, r)
           /\ \A j \in DOMAIN Changed(i, r) : j = i /\ i # None /\ row[i].state = "kept" /\ Changed(i, r)[j] = r
  <1>1. CASE i # None /\ row[i].state = "kept"
    <2>1. Changed(i, r) = Put(i, r)
      BY <1>1 DEF Changed
    <2> QED BY <1>1, <2>1, PutIs
  <1>2. CASE ~(i # None /\ row[i].state = "kept")
    <2>1. Changed(i, r) = <<>>
      BY <1>2 DEF Changed
    <2> QED BY <1>2, <2>1, NothingIs
  <1> QED BY <1>1, <1>2

LEMMA DroppedIs ==
    ASSUME NEW i
    PROVE  /\ i # None /\ row[i].state = "kept" => i \in DOMAIN Dropped(i)
           /\ \A j \in DOMAIN Dropped(i) : j = i /\ i # None /\ row[i].state = "kept" /\ Dropped(i)[j] = GoneRow
  <1>1. CASE i = None
    <2>1. Dropped(i) = <<>>
      BY <1>1 DEF Dropped
    <2> QED BY <1>1, <2>1, NothingIs
  <1>2. CASE i # None
    <2>1. Dropped(i) = Changed(i, GoneRow)
      BY <1>2 DEF Dropped
    <2> QED BY <1>2, <2>1, ChangedIs
  <1> QED BY <1>1, <1>2

LEMMA EditedIs ==
    ASSUME NEW i, NEW s, NEW o, NEW m, NEW c
    PROVE  /\ i # None /\ row[i].state = "kept" => i \in DOMAIN Edited(i, s, o, m, c)
           /\ \A j \in DOMAIN Edited(i, s, o, m, c) :
                j = i /\ i # None /\ row[i].state = "kept" /\ Edited(i, s, o, m, c)[j] = Kept(row[i].user, s, o, m, c)
  BY ChangedIs DEF Edited

\* What may be written fits.
LEMMA FittingBoth ==
    ASSUME NEW f, NEW g, NEW M, Fitting(f, M), Fitting(g, M)
    PROVE  Fitting(Both(f, g), M)
  <1>1. /\ \A i : i \in DOMAIN Both(f, g) <=> i \in DOMAIN f \/ i \in DOMAIN g
        /\ \A i \in DOMAIN f : Both(f, g)[i] = f[i]
        /\ \A i \in DOMAIN g : i \in DOMAIN f \/ Both(f, g)[i] = g[i]
    BY BothIs
  <1>2. ASSUME NEW i \in DOMAIN f PROVE Fits(Both(f, g), M, i)
    BY <1>1 DEF Fitting, Fits
  <1>3. ASSUME NEW i \in DOMAIN g, i \notin DOMAIN f PROVE Fits(Both(f, g), M, i)
    BY <1>1, <1>3 DEF Fitting, Fits
  <1> QED BY <1>1, <1>2, <1>3 DEF Fitting

LEMMA FittingPut ==
    ASSUME NEW i \in Ids, NEW r, NEW M, row[i].state # "gone", GoodRow(i, r), r.state # "free",
           r.mirror \in M \/ Used(r.mirror)
    PROVE  Fitting(Put(i, r), M)
  <1>1. Put(i, r)[i] = r /\ (\A j : j \in DOMAIN Put(i, r) <=> j = i)
    BY PutIs
  <1>2. Fits(Put(i, r), M, i)
    BY <1>1 DEF Fits
  <1> QED BY <1>1, <1>2 DEF Fitting

LEMMA FittingEdited ==
    ASSUME RowsGood, NEW i \in Ids, NEW s \in SubjectsOf(i), NEW o \in OthersOf(i) \cup {None},
           NEW m \in MirrorsOf(i) \cup {None}, NEW c \in Contents \cup {None}, NEW M,
           m \in M \/ Used(m)
    PROVE  Fitting(Edited(i, s, o, m, c), M)
  <1> SUFFICES ASSUME NEW j \in DOMAIN Edited(i, s, o, m, c)
               PROVE  Fits(Edited(i, s, o, m, c), M, j)
    BY DEF Fitting
  <1>1. j = i /\ row[i].state = "kept" /\ Edited(i, s, o, m, c)[j] = Kept(row[i].user, s, o, m, c)
    BY EditedIs
  <1>2. row[i].user \in Users \cup {None}
    BY <1>1, KeptColumns DEF RowsGood
  <1>3. GoodRow(i, Kept(row[i].user, s, o, m, c))
    BY <1>2, KeptGood
  <1>4. Kept(row[i].user, s, o, m, c).state = "kept" /\ Kept(row[i].user, s, o, m, c).mirror = m
    BY KeptHas
  <1> QED BY <1>1, <1>3, <1>4 DEF Fits

LEMMA FittingDropped ==
    ASSUME NEW i \in Ids \cup {None}, NEW M
    PROVE  Fitting(Dropped(i), M)
  <1> SUFFICES ASSUME NEW j \in DOMAIN Dropped(i)
               PROVE  Fits(Dropped(i), M, j)
    BY DEF Fitting
  <1>1. j = i /\ i # None /\ row[i].state = "kept" /\ Dropped(i)[j] = GoneRow
    BY DroppedIs
  <1> QED BY <1>1, GoneGood, GoneHas DEF Fits, Used

\* A new evaluation.
LEMMA CreateWrites ==
    ASSUME RowsGood, NEW q, AimCreate(q), NEW i \in CourseRows, row[i].state = "free", NEW m,
           q.other # None => m \in TeacherRows /\ row[m].state = "free",
           NEW C, q.read.subject \in C, q.other # None => q.other \in C,
           NEW w, w = Inserted(q, i, m)
    PROVE  Fitting(w, DOMAIN w) /\ AllSound(w, C)
  <1>1. /\ i \in Ids /\ SubjectsOf(i) = Courses /\ OthersOf(i) = Teachers /\ MirrorsOf(i) = TeacherRows
        /\ q.read.user \in Users \cup {None} /\ q.read.subject \in Courses
        /\ q.other \in Teachers \cup {None} /\ q.content \in Contents
    BY DEF AimCreate, Ids, SubjectsOf, OthersOf, MirrorsOf
  <1>2. CASE q.other = None
    <2>1. PICK r : r = Kept(q.read.user, q.read.subject, None, None, q.content)
      OBVIOUS
    <2>2. w = Put(i, r)
      BY <1>2, <2>1 DEF Inserted
    <2>3. GoodRow(i, r)
      BY <1>1, <2>1, KeptGood
    <2>4. r.state = "kept" /\ r.subject = q.read.subject /\ r.other = None /\ r.mirror = None
      BY <2>1, KeptHas
    <2>5. Fitting(w, DOMAIN w)
      BY <1>1, <2>2, <2>3, <2>4, FittingPut DEF Used
    <2>6. w[i] = r /\ (\A j \in DOMAIN w : j = i)
      BY <2>2, PutIs
    <2>7. Sound(w, C, i)
      BY <2>4, <2>6 DEF Sound, WellPaired
    <2> QED BY <2>5, <2>6, <2>7 DEF AllSound
  <1>3. CASE q.other # None
    <2>1. PICK r : r = Kept(q.read.user, q.read.subject, q.other, m, q.content)
      OBVIOUS
    <2>2. PICK n : n = Kept(q.read.user, q.other, q.read.subject, i, q.content)
      OBVIOUS
    <2>3. w = Both(Put(i, r), Put(m, n))
      BY <1>3, <2>1, <2>2 DEF Inserted
    <2>4. m \in MirrorsOf(i) /\ m \in Ids /\ SubjectsOf(m) = Teachers /\ OthersOf(m) = Courses /\ i \in MirrorsOf(m)
          /\ m # i /\ m # None /\ i # None
      BY <1>1, <1>3, Sides
    <2>5. i \in DOMAIN w /\ m \in DOMAIN w /\ w[i] = r /\ w[m] = n /\ (\A j \in DOMAIN w : j \in {i, m})
      BY <2>3, <2>4, BothIs, PutIs
    <2>6. GoodRow(i, r)
      BY <1>1, <2>1, <2>4, KeptGood
    <2>7. GoodRow(m, n)
      BY <1>1, <1>3, <2>2, <2>4, KeptGood
    <2>8. /\ r.state = "kept" /\ r.user = q.read.user /\ r.subject = q.read.subject /\ r.other = q.other
          /\ r.mirror = m /\ r.content = q.content
          /\ n.state = "kept" /\ n.user = q.read.user /\ n.subject = q.other /\ n.other = q.read.subject
          /\ n.mirror = i /\ n.content = q.content
      BY <2>1, <2>2, KeptHas
    <2>9. Fitting(w, DOMAIN w)
      <3>1. Fits(w, DOMAIN w, i)
        BY <1>1, <2>5, <2>6, <2>8 DEF Fits
      <3>2. Fits(w, DOMAIN w, m)
        BY <1>3, <2>4, <2>5, <2>7, <2>8 DEF Fits
      <3> QED BY <2>5, <3>1, <3>2 DEF Fitting
    <2>10. q.read.subject # None
      BY <1>1, EvaluationAssumption
    <2>11. WellPaired(w, i)
      BY <1>3, <2>2, <2>4, <2>5, <2>8 DEF WellPaired
    <2>12. WellPaired(w, m)
      BY <1>3, <2>1, <2>4, <2>5, <2>8, <2>10 DEF WellPaired
    <2>13. Sound(w, C, i)
      BY <2>5, <2>8, <2>11 DEF Sound
    <2>14. Sound(w, C, m)
      BY <1>3, <2>5, <2>8, <2>12 DEF Sound
    <2> QED BY <2>5, <2>9, <2>13, <2>14 DEF AllSound
  <1> QED BY <1>2, <1>3

\* What a request about an evaluation knows.
LEMMA ChangeKnows ==
    ASSUME RowsGood, NEW q, AimChange(q)
    PROVE  /\ q.id \in Ids /\ q.read.mirror \in MirrorsOf(q.id) \cup {None} /\ q.read.user \in Users \cup {None}
           /\ q.read.subject \in SubjectsOf(q.id) /\ q.read.other \in OthersOf(q.id) \cup {None}
           /\ Used(q.id) /\ Used(q.read.mirror) /\ q.read.mirror \in Ids \cup {None}
           /\ q.other \in OthersOf(q.id) \cup {None} /\ q.content \in Contents \cup {None}
           /\ GoodRow(q.id, row[q.id]) /\ Used(row[q.id].mirror) /\ q.id # None /\ q.read.subject # None
           /\ row[q.id].state \in {"kept", "gone"}
           /\ row[q.id].state = "kept" => row[q.id].subject \in SubjectsOf(q.id)
           /\ row[q.id].mirror \in MirrorsOf(q.id) \cup {None}
  <1>1. GoodRow(q.id, q.read) /\ q.read.state = "kept" /\ q.id \in Ids
    BY DEF AimChange
  <1>2. /\ q.read.mirror \in MirrorsOf(q.id) \cup {None} /\ q.read.user \in Users \cup {None}
        /\ q.read.subject \in SubjectsOf(q.id) /\ q.read.other \in OthersOf(q.id) \cup {None}
    BY <1>1, KeptColumns
  <1>3. q.read.mirror \in Ids \cup {None} /\ q.id # None /\ q.read.subject # None
    BY <1>1, <1>2, Sides, NoneApart
  <1>4. GoodRow(q.id, row[q.id]) /\ Used(row[q.id].mirror)
    BY <1>1 DEF RowsGood
  <1>5. row[q.id].state \in {"free", "kept", "gone"} /\ row[q.id].mirror \in MirrorsOf(q.id) \cup {None}
    BY <1>4 DEF GoodRow, RowOf
  <1>6. row[q.id].state = "kept" => row[q.id].subject \in SubjectsOf(q.id)
    BY <1>1, <1>4, KeptColumns
  <1> QED BY <1>1, <1>2, <1>3, <1>4, <1>5, <1>6 DEF AimChange, Used

LEMMA ChangeFits ==
    ASSUME RowsGood, NEW q, AimChange(q), NEW m,
           q.read.mirror = None /\ q.other # None => m \in MirrorsOf(q.id) /\ row[m].state = "free",
           NEW w, w = Updated(q, m) \/ w = Deleted(q)
    PROVE  Fitting(w, DOMAIN w)
  <1>1. /\ q.id \in Ids /\ q.read.mirror \in MirrorsOf(q.id) \cup {None} /\ q.read.user \in Users \cup {None}
        /\ q.read.subject \in SubjectsOf(q.id)
        /\ Used(q.id) /\ Used(q.read.mirror) /\ q.read.mirror \in Ids \cup {None}
        /\ q.other \in OthersOf(q.id) \cup {None} /\ q.content \in Contents \cup {None}
        /\ GoodRow(q.id, row[q.id]) /\ Used(row[q.id].mirror) /\ q.id # None
        /\ row[q.id].mirror \in MirrorsOf(q.id) \cup {None}
    BY ChangeKnows
  <1>2. ASSUME NEW o \in OthersOf(q.id) \cup {None}, NEW x \in MirrorsOf(q.id) \cup {None}, x \in DOMAIN w \/ Used(x)
        PROVE  Fitting(Edited(q.id, row[q.id].subject, o, x, q.content), DOMAIN w)
    <2>1. CASE row[q.id].state = "kept"
      <3>1. row[q.id].subject \in SubjectsOf(q.id)
        BY <1>1, <2>1, KeptColumns
      <3> QED BY <1>1, <1>2, <3>1, FittingEdited
    <2>2. CASE row[q.id].state # "kept"
      BY <2>2, EditedIs DEF Fitting
    <2> QED BY <2>1, <2>2
  <1>3. Fitting(StaySingle(q), DOMAIN w)
    BY <1>2 DEF StaySingle, Used
  <1>4. CASE w = StaySingle(q)
    BY <1>3, <1>4
  <1>5. CASE q.read.mirror = None /\ q.other # None /\ w = Link(q, m)
    <2>1. PICK n : n = Kept(q.read.user, q.other, q.read.subject, q.id, q.content)
      OBVIOUS
    <2>2. PICK e : e = Edited(q.id, row[q.id].subject, q.other, m, q.content)
      OBVIOUS
    <2>3. w = Both(e, Put(m, n))
      BY <1>5, <2>1, <2>2 DEF Link
    <2>4. m \in DOMAIN w
      BY <2>3, BothIs, PutIs
    <2>5. m \in Ids /\ SubjectsOf(m) = OthersOf(q.id) /\ OthersOf(m) = SubjectsOf(q.id) /\ q.id \in MirrorsOf(m)
      BY <1>1, <1>5, Sides
    <2>6. GoodRow(m, n)
      BY <1>1, <1>5, <2>1, <2>5, KeptGood
    <2>7. n.state = "kept" /\ n.mirror = q.id
      BY <2>1, KeptHas
    <2>8. Fitting(e, DOMAIN w)
      BY <1>1, <1>2, <1>5, <2>2, <2>4
    <2>9. Fitting(Put(m, n), DOMAIN w)
      BY <1>1, <1>5, <2>5, <2>6, <2>7, FittingPut
    <2> QED BY <2>3, <2>8, <2>9, FittingBoth
  <1>6. CASE w = Unlink(q)
    <2>1. Fitting(Dropped(q.read.mirror), DOMAIN w)
      BY <1>1, FittingDropped
    <2> QED BY <1>3, <1>6, <2>1, FittingBoth DEF Unlink
  <1>7. CASE q.read.mirror # None /\ q.other # None /\ w = StayLinked(q)
    <2>1. PICK e : e = Edited(q.id, row[q.id].subject, q.other, row[q.id].mirror, q.content)
      OBVIOUS
    <2>2. PICK n : n = Edited(q.read.mirror, q.other, q.read.subject, q.id, q.content)
      OBVIOUS
    <2>3. w = Both(e, n)
      BY <1>7, <2>1, <2>2 DEF StayLinked
    <2>4. /\ q.read.mirror \in Ids /\ SubjectsOf(q.read.mirror) = OthersOf(q.id)
          /\ OthersOf(q.read.mirror) = SubjectsOf(q.id) /\ q.id \in MirrorsOf(q.read.mirror)
      BY <1>1, <1>7, Sides
    <2>5. Fitting(e, DOMAIN w)
      BY <1>1, <1>2, <2>1
    <2>6. Fitting(n, DOMAIN w)
      BY <1>1, <1>7, <2>2, <2>4, FittingEdited
    <2> QED BY <2>3, <2>5, <2>6, FittingBoth
  <1>8. CASE w = Deleted(q)
    <2>1. Fitting(Dropped(q.read.mirror), DOMAIN w) /\ Fitting(Dropped(q.id), DOMAIN w)
      BY <1>1, FittingDropped
    <2> QED BY <1>8, <2>1, FittingBoth DEF Deleted
  <1> QED BY <1>4, <1>5, <1>6, <1>7, <1>8 DEF Updated

LEMMA PairedMeans ==
    ASSUME NEW i, Paired(i), row[i].state = "kept"
    PROVE  /\ (row[i].other = None) <=> (row[i].mirror = None)
           /\ row[i].mirror # None => row[row[i].mirror] =
                Kept(row[i].user, row[i].other, row[i].subject, i, row[i].content)
  BY DEF Paired

\* An evaluation as it was read, and its mirror.
LEMMA ChangeSound ==
    ASSUME RowsGood, NEW q, AimChange(q), NEW m,
           q.read.mirror = None /\ q.other # None => m \in MirrorsOf(q.id) /\ row[m].state = "free",
           NEW C, q.read.subject \in C, q.read.other # None => q.read.other \in C, q.other # None => q.other \in C,
           NEW w, w = Updated(q, m) \/ w = Deleted(q),
           row[q.id] = q.read, Paired(q.id)
    PROVE  AllSound(w, C)
  <1>1. /\ q.id \in Ids /\ q.read.mirror \in MirrorsOf(q.id) \cup {None}
        /\ q.id # None /\ q.read.subject # None /\ q.read.state = "kept" /\ row[q.id].state = "kept"
    BY ChangeKnows DEF AimChange
  <1> DEFINE d == q.id
             n == q.read.mirror
  <1>2. /\ row[d].user = q.read.user /\ row[d].subject = q.read.subject /\ row[d].other = q.read.other
        /\ row[d].mirror = n
    OBVIOUS
  <1>3. /\ (q.read.other = None) <=> (n = None)
        /\ n # None => row[n] = Kept(q.read.user, q.read.other, q.read.subject, d, q.read.content)
    BY <1>1, PairedMeans
  <1>4. n # None => /\ row[n].state = "kept" /\ row[n].user = q.read.user /\ row[n].subject = q.read.other
                    /\ row[n].other = q.read.subject /\ row[n].mirror = d
    BY <1>3, KeptHas
  <1>5. n # None => n # d
    BY <1>1, Sides
  <1> HIDE DEF d, n
  <1>6. ASSUME NEW x \in DOMAIN w, x = d \/ (x = n /\ n # None), d \in DOMAIN w, n # None => n \in DOMAIN w
        PROVE  row[x].state = "kept" => (row[x].mirror \in DOMAIN w \/ row[x].mirror = None) /\ row[x].subject \in C
    <2>1. CASE x = d
      BY <1>2, <1>6, <2>1
    <2>2. CASE x = n /\ n # None
      BY <1>3, <1>4, <1>6, <2>2
    <2> QED BY <1>6, <2>1, <2>2
  <1>7. CASE n = None /\ q.other = None /\ w = StaySingle(q)
    <2>1. PICK e : e = Kept(row[d].user, row[d].subject, None, None, q.content)
      OBVIOUS
    <2>2. (\A x \in DOMAIN w : x = d /\ w[x] = e) /\ d \in DOMAIN w
      BY <1>1, <1>7, <2>1, EditedIs DEF StaySingle, d
    <2>3. e.subject = row[d].subject /\ e.other = None /\ e.mirror = None
      BY <2>1, KeptHas
    <2>4. WellPaired(w, d)
      BY <2>2, <2>3 DEF WellPaired
    <2>5. Sound(w, C, d)
      BY <1>2, <1>6, <1>7, <2>2, <2>3, <2>4 DEF Sound
    <2> QED BY <2>2, <2>5 DEF AllSound
  <1>8. CASE n = None /\ q.other # None /\ w = Link(q, m)
    <2>1. PICK e : e = Kept(row[d].user, row[d].subject, q.other, m, q.content)
      OBVIOUS
    <2>2. PICK r : r = Kept(q.read.user, q.other, q.read.subject, d, q.content)
      OBVIOUS
    <2>3. m \in MirrorsOf(d) /\ row[m].state = "free" /\ m # d /\ m # None
      BY <1>1, <1>8, Sides DEF d, n
    <2>4. PICK f : f = Edited(d, row[d].subject, q.other, m, q.content)
      OBVIOUS
    <2>5. w = Both(f, Put(m, r))
      BY <1>8, <2>2, <2>4 DEF Link, d
    <2>6. d \in DOMAIN f /\ (\A x \in DOMAIN f : x = d /\ f[x] = e)
      BY <1>1, <2>1, <2>4, EditedIs DEF d
    <2>7. (\A x \in DOMAIN w : x = d \/ x = m) /\ d \in DOMAIN w /\ m \in DOMAIN w /\ w[d] = e /\ w[m] = r
      BY <2>3, <2>5, <2>6, BothIs, PutIs
    <2>8. /\ e.state = "kept" /\ e.user = row[d].user /\ e.subject = row[d].subject /\ e.other = q.other
          /\ e.mirror = m /\ e.content = q.content
          /\ r.state = "kept" /\ r.user = q.read.user /\ r.subject = q.other /\ r.other = q.read.subject
          /\ r.mirror = d /\ r.content = q.content
      BY <2>1, <2>2, KeptHas
    <2>9. WellPaired(w, d)
      BY <1>2, <1>8, <2>2, <2>3, <2>7, <2>8 DEF WellPaired
    <2>10. WellPaired(w, m)
      BY <1>1, <1>2, <1>8, <2>1, <2>3, <2>7, <2>8 DEF WellPaired, d
    <2>11. Sound(w, C, d)
      BY <1>2, <1>6, <1>8, <2>7, <2>8, <2>9 DEF Sound
    <2>12. Sound(w, C, m)
      BY <1>8, <2>3, <2>7, <2>8, <2>10 DEF Sound
    <2> QED BY <2>7, <2>11, <2>12 DEF AllSound
  <1>9. CASE n # None /\ q.other = None /\ w = Unlink(q)
    <2>1. PICK e : e = Kept(row[d].user, row[d].subject, None, None, q.content)
      OBVIOUS
    <2>2. w = Both(Dropped(n), StaySingle(q))
      BY <1>9 DEF Unlink, n
    <2>3. d \in DOMAIN StaySingle(q) /\ (\A x \in DOMAIN StaySingle(q) : x = d /\ StaySingle(q)[x] = e)
      BY <1>1, <2>1, EditedIs DEF d, StaySingle
    <2>4. n \in DOMAIN Dropped(n) /\ (\A x \in DOMAIN Dropped(n) : x = n /\ Dropped(n)[x] = GoneRow)
      BY <1>4, <1>9, DroppedIs
    <2>5. /\ d \in DOMAIN w /\ n \in DOMAIN w /\ w[d] = e /\ w[n] = GoneRow
          /\ \A x \in DOMAIN w : x = d \/ x = n
      BY <1>5, <1>9, <2>2, <2>3, <2>4, BothIs
    <2>6. e.subject = row[d].subject /\ e.other = None /\ e.mirror = None
      BY <2>1, KeptHas
    <2>7. Sound(w, C, d)
      BY <1>2, <1>6, <2>5, <2>6 DEF Sound, WellPaired
    <2>8. Sound(w, C, n)
      BY <1>6, <1>9, <2>5, GoneHas DEF Sound
    <2> QED BY <2>5, <2>7, <2>8 DEF AllSound
  <1>10. CASE n # None /\ q.other # None /\ w = StayLinked(q)
    <2>1. PICK e : e = Kept(row[d].user, row[d].subject, q.other, n, q.content)
      OBVIOUS
    <2>2. PICK r : r = Kept(row[n].user, q.other, q.read.subject, d, q.content)
      OBVIOUS
    <2>3. PICK f, g : f = Edited(d, row[d].subject, q.other, n, q.content)
                      /\ g = Edited(n, q.other, q.read.subject, d, q.content)
      OBVIOUS
    <2>4. w = Both(f, g)
      BY <1>2, <1>10, <2>3 DEF StayLinked, d, n
    <2>5. d \in DOMAIN f /\ (\A x \in DOMAIN f : x = d /\ f[x] = e)
      BY <1>1, <2>1, <2>3, EditedIs DEF d
    <2>6. n \in DOMAIN g /\ (\A x \in DOMAIN g : x = n /\ g[x] = r)
      BY <1>4, <1>10, <2>2, <2>3, EditedIs
    <2>7. d \in DOMAIN w /\ n \in DOMAIN w /\ w[d] = e /\ w[n] = r /\ (\A x \in DOMAIN w : x = d \/ x = n)
      BY <1>5, <1>10, <2>4, <2>5, <2>6, BothIs
    <2>8. /\ e.state = "kept" /\ e.user = row[d].user /\ e.subject = row[d].subject /\ e.other = q.other
          /\ e.mirror = n /\ e.content = q.content
          /\ r.state = "kept" /\ r.user = row[n].user /\ r.subject = q.other /\ r.other = q.read.subject
          /\ r.mirror = d /\ r.content = q.content
      BY <2>1, <2>2, KeptHas
    <2>9. WellPaired(w, d)
      BY <1>2, <1>4, <1>10, <2>2, <2>7, <2>8 DEF WellPaired
    <2>10. WellPaired(w, n)
      BY <1>1, <1>2, <1>4, <1>10, <2>1, <2>7, <2>8 DEF WellPaired, d
    <2>11. Sound(w, C, d)
      BY <1>2, <1>6, <1>10, <2>7, <2>8, <2>9 DEF Sound
    <2>12. Sound(w, C, n)
      BY <1>6, <1>10, <2>7, <2>8, <2>10 DEF Sound
    <2> QED BY <2>7, <2>11, <2>12 DEF AllSound
  <1>11. CASE w = Deleted(q)
    <2>1. PICK f, g : w = Both(f, g) /\ f = Dropped(n) /\ g = Dropped(d)
      BY <1>11 DEF Deleted, n, d
    <2>2. d \in DOMAIN g /\ (\A x \in DOMAIN g : x = d /\ g[x] = GoneRow)
      BY <1>1, <2>1, DroppedIs DEF d
    <2>3. /\ n # None => n \in DOMAIN f
          /\ \A x \in DOMAIN f : x = n /\ n # None /\ f[x] = GoneRow
      BY <1>4, <2>1, DroppedIs
    <2>4. /\ d \in DOMAIN w /\ (n # None => n \in DOMAIN w)
          /\ \A x \in DOMAIN w : (x = d \/ (x = n /\ n # None)) /\ w[x] = GoneRow
      BY <2>1, <2>2, <2>3, BothIs
    <2>5. ASSUME NEW x \in DOMAIN w PROVE Sound(w, C, x)
      BY <1>6, <2>4, GoneHas DEF Sound
    <2> QED BY <2>5 DEF AllSound
  <1> QED BY <1>7, <1>8, <1>9, <1>10, <1>11 DEF Updated, n

\* Every other evaluation is lost.
LEMMA ChangeLost ==
    ASSUME RowsGood, NEW q, AimChange(q), NEW m, NEW w, w = Updated(q, m) \/ w = Deleted(q),
           row[q.id] # q.read \/ ~Paired(q.id)
    PROVE  Lost(q.id, q.read, w)
  <1>1. /\ q.id \in Ids /\ q.read.mirror \in MirrorsOf(q.id) \cup {None} /\ Used(q.read.mirror) /\ q.id # None
        /\ row[q.id].state \in {"kept", "gone"} /\ q.read.mirror \in Ids \cup {None}
    BY ChangeKnows
  <1>2. CASE row[q.id].state = "gone"
    BY <1>1, <1>2 DEF Lost
  <1>3. CASE row[q.id].state = "kept"
    <2>1. /\ q.id \in DOMAIN StaySingle(q) /\ q.id \in DOMAIN Dropped(q.id)
          /\ \A s, o, x, c : q.id \in DOMAIN Edited(q.id, s, o, x, c)
      BY <1>1, <1>3, EditedIs, DroppedIs DEF StaySingle
    <2>2. q.id \in DOMAIN w
      BY <2>1, BothIs DEF Updated, Link, Unlink, StayLinked, Deleted
    <2>3. ASSUME q.read.mirror # None, row[q.read.mirror].state # "gone"
          PROVE  q.read.mirror \in DOMAIN w
      <3>1. row[q.read.mirror].state = "kept"
        <4>1. q.read.mirror \in Ids /\ row[q.read.mirror].state # "free"
          BY <1>1, <2>3 DEF Used
        <4>2. row[q.read.mirror].state \in {"free", "kept", "gone"}
          BY <4>1 DEF RowsGood, GoodRow, RowOf
        <4> QED BY <2>3, <4>1, <4>2
      <3>2. /\ q.read.mirror \in DOMAIN Dropped(q.read.mirror)
            /\ \A s, o, x, c : q.read.mirror \in DOMAIN Edited(q.read.mirror, s, o, x, c)
        BY <2>3, <3>1, EditedIs, DroppedIs
      <3> QED BY <2>3, <3>2, BothIs DEF Updated, Unlink, StayLinked, Deleted
    <2>4. CASE row[q.id] # q.read
      BY <1>1, <2>2, <2>4 DEF Lost
    <2>5. CASE row[q.id] = q.read
      <3>1. row[q.id].mirror = q.read.mirror
        BY <2>5
      <3> QED BY <1>1, <2>2, <2>3, <2>5, <3>1 DEF Lost
    <2> QED BY <2>4, <2>5
  <1> QED BY <1>1, <1>2, <1>3

-----------------------------------------------------------------------------
\* Evaluations: what other steps leave of a request

\* No row becomes free, none that is gone comes back, and a request keeps its rows.
Later(w) ==
    /\ \A i \in Ids : (row[i].state # "free" => row'[i].state # "free") /\ (row[i].state = "gone" => row'[i].state = "gone")
    /\ \A i \in DOMAIN w : row'[i] = row[i]

LEMMA UsedStays ==
    ASSUME NEW w, Later(w), NEW i \in Ids \cup {None}, Used(i)
    PROVE  Used(i)'
  BY DEF Used, Later

LEMMA GoodRowMirror == \A i \in Ids : \A r : GoodRow(i, r) => r.mirror \in Ids \cup {None}
  BY Sides DEF GoodRow, RowOf

LEMMA FittingStays ==
    ASSUME NEW w, Later(w), Fitting(w, DOMAIN w)
    PROVE  Fitting(w, DOMAIN w)'
  <1> SUFFICES ASSUME NEW i \in DOMAIN w PROVE Fits(w, DOMAIN w, i)'
    BY DEF Fitting
  <1>1. Fits(w, DOMAIN w, i) /\ row'[i] = row[i]
    BY DEF Fitting, Later
  <1>2. w[i].mirror \in Ids \cup {None}
    BY <1>1, GoodRowMirror DEF Fits
  <1>3. Used(w[i].mirror) => Used(w[i].mirror)'
    BY <1>2, UsedStays
  <1> QED BY <1>1, <1>3 DEF Fits

LEMMA SoundStays ==
    ASSUME NEW w, NEW C, Later(w), AllSound(w, C)
    PROVE  AllSound(w, C)'
  BY DEF AllSound, Sound, Later, WellPaired

LEMMA LostStays ==
    ASSUME RowsGood, NEW i, NEW read, NEW w, Later(w), read.state = "kept", Lost(i, read, w)
    PROVE  Lost(i, read, w)'
  <1>1. i \in Ids /\ row[i].mirror \in Ids \cup {None}
    BY GoodRowMirror DEF Lost, RowsGood
  <1>2. CASE row[i].state = "gone"
    BY <1>1, <1>2 DEF Lost, Later
  <1>3. CASE i \in DOMAIN w /\ row[i] # read
    BY <1>1, <1>3 DEF Lost, Later
  <1>4. CASE i \in DOMAIN w /\ ~Paired(i) /\ row[i].mirror = None
    <2>1. row'[i] = row[i]
      BY <1>4 DEF Later
    <2>2. ~Paired(i)'
      BY <1>4, <2>1 DEF Paired
    <2> QED BY <1>1, <1>4, <2>1, <2>2 DEF Lost
  <1>5. CASE i \in DOMAIN w /\ ~Paired(i) /\ row[i].mirror \in DOMAIN w
    <2>1. row'[i] = row[i] /\ row'[row[i].mirror] = row[row[i].mirror]
      BY <1>5 DEF Later
    <2>2. ~Paired(i)'
      BY <1>5, <2>1 DEF Paired
    <2> QED BY <1>1, <1>5, <2>1, <2>2 DEF Lost
  <1>6. CASE i \in DOMAIN w /\ ~Paired(i) /\ row[i].mirror # None /\ row[row[i].mirror].state = "gone"
    <2>1. row'[i] = row[i] /\ row'[row[i].mirror].state = "gone"
      BY <1>1, <1>6 DEF Later
    <2>2. \A u, s, o, m, c : row'[row[i].mirror] # Kept(u, s, o, m, c)
      BY <2>1, KeptHas
    <2>3. ~Paired(i)'
      BY <1>6, <2>1, <2>2 DEF Paired
    <2> QED BY <1>1, <1>6, <2>1, <2>3 DEF Lost
  <1> QED BY <1>2, <1>3, <1>4, <1>5, <1>6 DEF Lost

LEMMA RequestStays ==
    ASSUME RowsGood, NEW q, Later(q.writes), GoodRequest(q)
    PROVE  GoodRequest(q)'
  <1>1. CASE q.stage = "create" /\ AimCreate(q)
    BY <1>1 DEF GoodRequest, Fields, AimCreate
  <1>2. CASE q.stage \in {"update", "delete"} /\ AimChange(q)
    <2>1. Used(q.id)' /\ Used(q.read.mirror)'
      BY <1>2, UsedStays, GoodRowMirror DEF AimChange
    <2>2. AimChange(q)'
      BY <1>2, <2>1 DEF AimChange
    <2> QED BY <1>2, <2>2 DEF GoodRequest, Fields
  <1>3. CASE q.stage = "relate" /\ AimRelate(q)
    BY <1>3 DEF GoodRequest, Fields, AimRelate
  <1>4. CASE q.stage = "written" /\ Written(q)
    <2>1. Fitting(q.writes, DOMAIN q.writes)'
      BY <1>4, FittingStays DEF Written
    <2>2. AllSound(q.writes, DOMAIN q.counts) => AllSound(q.writes, DOMAIN q.counts)'
      BY SoundStays
    <2>3. Lost(q.id, q.read, q.writes) => Lost(q.id, q.read, q.writes)'
      <3> SUFFICES ASSUME Lost(q.id, q.read, q.writes) PROVE Lost(q.id, q.read, q.writes)'
        OBVIOUS
      <3>1. q.read.state = "kept"
        BY <1>4, NoneApart DEF Written, Lost
      <3> QED BY <3>1, LostStays
    <2>4. Written(q)'
      BY <1>4, <2>1, <2>2, <2>3 DEF Written, Links
    <2> QED BY <1>4, <2>4 DEF GoodRequest, Fields
  <1>5. CASE q.stage = "idle"
    BY <1>5 DEF GoodRequest, Fields
  <1> QED BY <1>1, <1>2, <1>3, <1>4, <1>5 DEF GoodRequest

LEMMA IdleIsGood == GoodRequest(NoRequest) /\ NoRequest.stage = "idle" /\ NoRequest.writes = <<>>
  BY DEF GoodRequest, NoRequest, Fields

-----------------------------------------------------------------------------
\* Evaluations: commits

\* What the commit of p leaves in the tables.
LEMMA CommitRows ==
    ASSUME RowsGood, RequestsGood, NEW p \in Procs, Commit(p)
    PROVE  /\ Written(req[p]) /\ req[p].stage = "written"
           /\ \A i \in DOMAIN req[p].writes : row'[i] = req[p].writes[i] /\ Fits(req[p].writes, DOMAIN req[p].writes, i)
           /\ \A i \in Ids : i \in DOMAIN req[p].writes \/ row'[i] = row[i]
           /\ row' = [i \in Ids |-> row'[i]]
           /\ \A i \in Ids : /\ row[i].state # "free" => row'[i].state # "free"
                             /\ row[i].state = "gone" => row'[i].state = "gone"
  <1>1. PICK q : q = req[p]
    OBVIOUS
  <1>2. q.stage = "written" /\ Written(q)
    BY <1>1 DEF Commit, RequestsGood, GoodRequest
  <1>3. \A i \in DOMAIN q.writes : Fits(q.writes, DOMAIN q.writes, i)
    BY <1>2 DEF Written, Fitting
  <1>4. row' = [i \in Ids |-> IF i \in DOMAIN q.writes THEN q.writes[i] ELSE row[i]]
    BY <1>1 DEF Commit
  <1>5. \A i \in DOMAIN q.writes : row'[i] = q.writes[i]
    BY <1>3, <1>4 DEF Fits
  <1>6. \A i \in Ids : i \in DOMAIN q.writes \/ row'[i] = row[i]
    BY <1>4
  <1>7. ASSUME NEW i \in Ids
        PROVE  /\ row[i].state # "free" => row'[i].state # "free"
               /\ row[i].state = "gone" => row'[i].state = "gone"
    <2>1. CASE i \in DOMAIN q.writes
      BY <1>3, <1>5, <2>1 DEF Fits
    <2>2. CASE i \notin DOMAIN q.writes
      BY <1>6, <2>2
    <2> QED BY <2>1, <2>2
  <1>8. row' = [i \in Ids |-> row'[i]]
    BY <1>4
  <1> QED BY <1>1, <1>2, <1>3, <1>5, <1>6, <1>7, <1>8

LEMMA CommitKeepsRows ==
    ASSUME RowsGood, RequestsGood, NEW p \in Procs, Commit(p)
    PROVE  RowsGood'
  <1>1. PICK w : w = req[p].writes
    OBVIOUS
  <1>2. /\ \A i \in DOMAIN w : row'[i] = w[i] /\ Fits(w, DOMAIN w, i)
        /\ \A i \in Ids : i \in DOMAIN w \/ row'[i] = row[i]
        /\ row' = [i \in Ids |-> row'[i]]
        /\ \A i \in Ids : row[i].state # "free" => row'[i].state # "free"
    BY <1>1, CommitRows
  <1>3. ASSUME NEW i \in Ids
        PROVE  GoodRow(i, row'[i]) /\ (row'[i].mirror # None => row'[row'[i].mirror].state # "free")
    <2>1. CASE i \in DOMAIN w
      <3>1. GoodRow(i, w[i]) /\ row'[i] = w[i]
        BY <1>2, <2>1 DEF Fits
      <3>2. w[i].mirror \in Ids \cup {None}
        BY <3>1, GoodRowMirror
      <3>3. CASE w[i].mirror \in DOMAIN w
        <4>1. row'[w[i].mirror] = w[w[i].mirror] /\ w[w[i].mirror].state # "free"
          BY <1>2, <3>3 DEF Fits
        <4> QED BY <3>1, <4>1
      <3>4. CASE Used(w[i].mirror)
        <4>1. w[i].mirror # None => row'[w[i].mirror].state # "free"
          BY <1>2, <3>2, <3>4 DEF Used
        <4> QED BY <3>1, <4>1
      <3> QED BY <1>2, <2>1, <3>3, <3>4 DEF Fits
    <2>2. CASE i \notin DOMAIN w
      <3>1. row'[i] = row[i] /\ GoodRow(i, row[i]) /\ Used(row[i].mirror)
        BY <1>2, <2>2 DEF RowsGood
      <3>2. row[i].mirror # None => row'[row[i].mirror].state # "free"
        BY <1>2, <3>1, GoodRowMirror DEF Used
      <3> QED BY <3>1, <3>2
    <2> QED BY <2>1, <2>2
  <1>4. \A i \in Ids : GoodRow(i, row'[i]) /\ Used(row[i].mirror)'
    BY <1>3 DEF Used
  <1> QED BY <1>2, <1>4 DEF RowsGood

\* Only request p changes, and it has no row of another.
OnlyRequest(p) ==
    /\ req' = [q \in Procs |-> req'[q]]
    /\ \A q \in Procs : q = p \/ req'[q] = req[q]

LEMMA OneRequest ==
    ASSUME RowsGood, RequestsGood, RowsApart, NEW p \in Procs, OnlyRequest(p),
           NEW r, req'[p] = r, GoodRequest(r)', \A q \in Procs : q = p \/ Later(req[q].writes),
           \A i \in DOMAIN r.writes : \A q \in Procs : q = p \/ i \notin DOMAIN req[q].writes
    PROVE  RequestsGood' /\ RowsApart'
  <1>1. ASSUME NEW x \in Procs PROVE GoodRequest(req[x])'
    <2>1. CASE x = p
      <3>1. PICK s : s = req'[x]
        OBVIOUS
      <3>2. GoodRequest(s)'
        BY <2>1, <3>1
      <3> QED BY <3>1, <3>2 DEF GoodRequest, Fields, AimCreate, AimChange, AimRelate, Written, Links
    <2>2. CASE x # p
      <3>1. PICK s : s = req[x]
        OBVIOUS
      <3>2. GoodRequest(s) /\ Later(s.writes)
        BY <2>2, <3>1 DEF RequestsGood
      <3>3. GoodRequest(s)'
        BY <3>2, RequestStays
      <3>4. req'[x] = s
        BY <2>2, <3>1 DEF OnlyRequest
      <3> QED BY <3>3, <3>4
    <2> QED BY <2>1, <2>2
  <1>2. ASSUME NEW x \in Procs, NEW y \in Procs, x # y, NEW i
        PROVE  ~(i \in DOMAIN req'[x].writes /\ i \in DOMAIN req'[y].writes)
    <2>1. CASE x = p
      BY <1>2, <2>1 DEF OnlyRequest
    <2>2. CASE y = p
      BY <1>2, <2>2 DEF OnlyRequest
    <2>3. CASE x # p /\ y # p
      BY <1>2, <2>3 DEF OnlyRequest, RowsApart
    <2> QED BY <2>1, <2>2, <2>3
  <1>3. RowsApart'
    BY <1>2 DEF RowsApart
  <1> QED BY <1>1, <1>3 DEF RequestsGood, OnlyRequest

LEMMA RowsSame ==
    ASSUME row' = row, NEW w
    PROVE  Later(w)
  BY DEF Later

LEMMA CountIsNumber ==
    ASSUME NEW table, NEW relations, NEW s
    PROVE  CountOf(table, relations, s) \in Nat
  <1>1. ASSUME NEW S, S \subseteq CourseRows \/ S \subseteq TeacherRows
        PROVE  Cardinality(S) \in Nat
    BY <1>1, FS_Subset, FS_CardinalityType, EvaluationAssumption
  <1>2. ListCourseEvaluations(table, relations, s) \subseteq CourseRows
    BY DEF ListCourseEvaluations
  <1>3. ListTeacherEvaluations(table, relations, s) \subseteq TeacherRows
    BY DEF ListTeacherEvaluations
  <1>4. CASE s \in Courses
    BY <1>1, <1>2, <1>4 DEF CountOf
  <1>5. CASE s \notin Courses
    BY <1>1, <1>3, <1>5 DEF CountOf
  <1> QED BY <1>4, <1>5

LEMMA CommitKeeps ==
    ASSUME EvalInv, NEW p \in Procs, Commit(p)
    PROVE  EvalInv'
  <1> USE DEF EvalInv
  <1>1. RowsGood'
    BY CommitKeepsRows
  <1>2. PICK q : q = req[p]
    OBVIOUS
  <1>3. /\ Written(q)
        /\ \A i \in Ids : i \in DOMAIN q.writes \/ row'[i] = row[i]
        /\ \A i \in Ids : /\ row[i].state # "free" => row'[i].state # "free"
                          /\ row[i].state = "gone" => row'[i].state = "gone"
    BY <1>2, CommitRows
  <1>4. OnlyRequest(p) /\ req'[p] = NoRequest
    BY DEF OnlyRequest, Commit, RequestsGood
  <1>5. ASSUME NEW x \in Procs, x # p PROVE Later(req[x].writes)
    <2>1. GoodRequest(req[x])
      BY DEF RequestsGood
    <2>2. ASSUME NEW i \in DOMAIN req[x].writes PROVE row'[i] = row[i]
      <3>1. i \in Ids
        BY <2>1, <2>2, NothingIs DEF GoodRequest, Written, Fitting, Fits
      <3>2. i \notin DOMAIN q.writes
        BY <1>2, <1>5, <2>2 DEF RowsApart
      <3> QED BY <1>3, <3>1, <3>2
    <2> QED BY <1>3, <2>2 DEF Later
  <1>6. GoodRequest(NoRequest)'
    BY DEF GoodRequest, NoRequest, Fields
  <1>7. \A i : i \notin DOMAIN NoRequest.writes
    BY IdleIsGood, NothingIs
  <1>8. RequestsGood' /\ RowsApart'
    BY <1>4, <1>5, <1>6, <1>7, OneRequest
  <1>9. related' \subseteq Courses \X Teachers
    BY <1>2, <1>3 DEF Commit, RelatedWith, Written, Links
  <1>10. count' \in [Subjects -> Nat]
    <2>1. \A s \in DOMAIN q.counts : q.counts[s] \in Nat
      BY <1>3 DEF Written
    <2>2. count' = [s \in Subjects |-> IF s \in DOMAIN q.counts THEN q.counts[s] ELSE count[s]]
      BY <1>2 DEF Commit
    <2> QED BY <2>1, <2>2
  <1>11. requests' \in 0 .. MaxRequests
    BY DEF Commit
  <1> QED BY <1>1, <1>8, <1>9, <1>10, <1>11

LEMMA RollbackKeeps ==
    ASSUME EvalInv, NEW p \in Procs, Rollback(p)
    PROVE  EvalInv'
  <1> USE DEF EvalInv
  <1>1. row' = row /\ related' = related /\ count' = count /\ requests' = requests
    BY DEF Rollback
  <1>2. OnlyRequest(p) /\ req'[p] = NoRequest
    BY DEF OnlyRequest, Rollback, RequestsGood
  <1>3. GoodRequest(NoRequest)'
    BY DEF GoodRequest, NoRequest, Fields
  <1>4. \A i : i \notin DOMAIN NoRequest.writes
    BY IdleIsGood, NothingIs
  <1>5. RequestsGood' /\ RowsApart'
    BY <1>1, <1>2, <1>3, <1>4, OneRequest, RowsSame
  <1>6. RowsGood'
    BY <1>1 DEF RowsGood, Used
  <1> QED BY <1>1, <1>5, <1>6

LEMMA BeginKeeps ==
    ASSUME EvalInv, NEW p \in Procs, NEW r, Begin(p, r), GoodRequest(r), r.writes = <<>>
    PROVE  EvalInv'
  <1> USE DEF EvalInv
  <1>1. row' = row /\ related' = related /\ count' = count
    BY DEF Begin
  <1>2. OnlyRequest(p) /\ req'[p] = r
    BY DEF OnlyRequest, Begin, RequestsGood
  <1>3. GoodRequest(r)'
    BY <1>1, RequestStays, RowsSame
  <1>4. \A i : i \notin DOMAIN r.writes
    BY NothingIs
  <1>5. RequestsGood' /\ RowsApart'
    BY <1>1, <1>2, <1>3, <1>4, OneRequest, RowsSame
  <1>6. RowsGood'
    BY <1>1 DEF RowsGood, Used
  <1>7. requests' \in 0 .. MaxRequests
    BY EvaluationAssumption DEF Begin
  <1> QED BY <1>1, <1>5, <1>6, <1>7

LEMMA WroteKeeps ==
    ASSUME EvalInv, NEW p \in Procs, NEW w, Wrote(p, w), Fitting(w, DOMAIN w),
           req[p].stage # "idle", req[p].id # None => req[p].read.state = "kept",
           AllSound(w, Concerned(req[p])) \/ Lost(req[p].id, req[p].read, w),
           req[p].link.pair # None => /\ req[p].link.pair \in Courses \X Teachers
                                      /\ req[p].link.pair[1] \in Concerned(req[p])
                                      /\ req[p].link.pair[2] \in Concerned(req[p])
    PROVE  EvalInv'
  <1> USE DEF EvalInv
  <1>1. row' = row /\ related' = related /\ count' = count /\ requests' = requests
    BY DEF Wrote
  <1>2. PICK q : q = req[p]
    OBVIOUS
  <1>3. Fields(q)
    BY <1>2 DEF RequestsGood, GoodRequest
  <1>4. PICK c : /\ req' = [req EXCEPT ![p].stage = "written", ![p].writes = w, ![p].counts = c]
                 /\ c = [s \in Concerned(q) |-> CountOf([i \in Ids |-> IF i \in DOMAIN w THEN w[i] ELSE row[i]],
                                                        RelatedWith(q.link), s)]
    BY <1>2 DEF Wrote
  <1>5. c \in [DOMAIN c -> Nat] /\ DOMAIN c = Concerned(q)
    BY <1>4, CountIsNumber
  <1> HIDE DEF EvalInv
  <1>6. OnlyRequest(p)
    BY <1>4 DEF OnlyRequest, EvalInv, RequestsGood
  <1>7. PICK r : r = req'[p]
    OBVIOUS
  <1>8. r = [stage |-> "written", id |-> q.id, read |-> q.read, other |-> q.other, content |-> q.content,
             writes |-> w, link |-> q.link, counts |-> c]
    BY <1>2, <1>3, <1>4, <1>7 DEF EvalInv, RequestsGood, Fields
  <1>9. Fields(r) /\ r.stage = "written" /\ r.id = q.id /\ r.read = q.read /\ r.writes = w /\ r.counts = c /\ r.link = q.link
    BY <1>8 DEF Fields
  <1>10. Written(r)
    BY <1>2, <1>5, <1>9 DEF Written, Links
  <1>11. GoodRequest(r)
    BY <1>9, <1>10 DEF GoodRequest
  <1>12. GoodRequest(r)'
    BY <1>1, <1>11, RequestStays, RowsSame DEF EvalInv
  <1>13. \A i \in DOMAIN r.writes : \A x \in Procs : x = p \/ i \notin DOMAIN req[x].writes
    BY <1>9 DEF Wrote, Locked
  <1>14. RequestsGood' /\ RowsApart'
    BY <1>1, <1>6, <1>7, <1>12, <1>13, OneRequest, RowsSame DEF EvalInv
  <1>15. RowsGood'
    BY <1>1 DEF RowsGood, Used, EvalInv
  <1> QED BY <1>1, <1>14, <1>15 DEF EvalInv

-----------------------------------------------------------------------------
\* Evaluations: every step

LEMMA CreateBegun ==
    ASSUME EvalInv, NEW p \in Procs, NEW u \in Users, NEW s \in Courses, NEW o \in Teachers \cup {None},
           NEW v \in Contents, BeginCreate(p, u, s, o, v)
    PROVE  EvalInv'
  <1>1. PICK r : r = [NoRequest EXCEPT !.stage = "create", !.other = o, !.content = v,
                                       !.read = [NoRow EXCEPT !.user = u, !.subject = s]]
    OBVIOUS
  <1>2. /\ Fields(r) /\ r.stage = "create" /\ r.writes = <<>> /\ r.id = None /\ r.link = NoLink
        /\ r.read.user = u /\ r.read.subject = s /\ r.other = o /\ r.content = v
    BY <1>1 DEF NoRequest, NoRow, Fields
  <1>3. GoodRequest(r)
    BY <1>2 DEF GoodRequest, AimCreate
  <1>4. Begin(p, r)
    BY <1>1 DEF BeginCreate
  <1> QED BY <1>2, <1>3, <1>4, BeginKeeps

LEMMA UpdateBegun ==
    ASSUME EvalInv, NEW p \in Procs, NEW i \in Ids, NEW o \in OthersOf(i) \cup {None},
           NEW v \in Contents, BeginUpdate(p, i, o, v)
    PROVE  EvalInv'
  <1>1. PICK r : r = [NoRequest EXCEPT !.stage = "update", !.id = i, !.read = row[i], !.other = o, !.content = v]
    OBVIOUS
  <1>2. /\ Fields(r) /\ r.stage = "update" /\ r.writes = <<>> /\ r.id = i /\ r.link = NoLink
        /\ r.read = row[i] /\ r.other = o /\ r.content = v
    BY <1>1 DEF NoRequest, Fields
  <1>3. GoodRow(i, row[i]) /\ Used(row[i].mirror) /\ row[i].state = "kept"
    BY DEF EvalInv, RowsGood, BeginUpdate
  <1>4. GoodRequest(r)
    BY <1>2, <1>3 DEF GoodRequest, AimChange, Used
  <1>5. Begin(p, r)
    BY <1>1 DEF BeginUpdate
  <1> QED BY <1>2, <1>4, <1>5, BeginKeeps

LEMMA DeleteBegun ==
    ASSUME EvalInv, NEW p \in Procs, NEW i \in Ids, BeginDelete(p, i)
    PROVE  EvalInv'
  <1>1. PICK r : r = [NoRequest EXCEPT !.stage = "delete", !.id = i, !.read = row[i]]
    OBVIOUS
  <1>2. /\ Fields(r) /\ r.stage = "delete" /\ r.writes = <<>> /\ r.id = i /\ r.link = NoLink
        /\ r.read = row[i] /\ r.other = None /\ r.content = None
    BY <1>1 DEF NoRequest, Fields
  <1>3. GoodRow(i, row[i]) /\ Used(row[i].mirror) /\ row[i].state = "kept"
    BY DEF EvalInv, RowsGood, BeginDelete
  <1>4. GoodRequest(r)
    BY <1>2, <1>3 DEF GoodRequest, AimChange, Used
  <1>5. Begin(p, r)
    BY <1>1 DEF BeginDelete
  <1> QED BY <1>2, <1>4, <1>5, BeginKeeps

LEMMA RelationBegun ==
    ASSUME EvalInv, NEW p \in Procs, NEW c \in Courses, NEW t \in Teachers, BeginRelation(p, c, t)
    PROVE  EvalInv'
  <1>1. PICK l : l = [pair |-> <<c, t>>, active |-> <<c, t>> \notin related]
    OBVIOUS
  <1>2. PICK r : r = [NoRequest EXCEPT !.stage = "relate", !.link = l]
    OBVIOUS
  <1>3. Fields(r) /\ r.stage = "relate" /\ r.writes = <<>> /\ r.id = None /\ r.link = l
    BY <1>2 DEF NoRequest, Fields
  <1>4. l.pair \in Courses \X Teachers
    BY <1>1
  <1>5. GoodRequest(r)
    BY <1>3, <1>4 DEF GoodRequest, AimRelate
  <1>6. Begin(p, r)
    BY <1>1, <1>2 DEF BeginRelation
  <1> QED BY <1>3, <1>5, <1>6, BeginKeeps

LEMMA RefreshBegun ==
    ASSUME EvalInv, NEW p \in Procs, NEW S, BeginRefresh(p, S)
    PROVE  EvalInv'
  <1>1. PICK c : c = [s \in S |-> CountOf(row, related, s)]
    OBVIOUS
  <1>2. PICK r : r = [NoRequest EXCEPT !.stage = "written", !.counts = c]
    OBVIOUS
  <1>3. /\ Fields(r) /\ r.stage = "written" /\ r.writes = <<>> /\ r.id = None /\ r.link = NoLink
        /\ r.counts = c
    BY <1>2 DEF NoRequest, Fields
  <1>4. c \in [DOMAIN c -> Nat]
    BY <1>1, CountIsNumber
  <1>5. Written(r)
    BY <1>3, <1>4, NothingIs DEF Written, Fitting, AllSound, Links, NoLink
  <1>6. GoodRequest(r)
    BY <1>3, <1>5 DEF GoodRequest
  <1>7. Begin(p, r)
    BY <1>1, <1>2 DEF BeginRefresh
  <1> QED BY <1>3, <1>6, <1>7, BeginKeeps

LEMMA CreateWritten ==
    ASSUME EvalInv, NEW p \in Procs, WriteCreate(p)
    PROVE  EvalInv'
  <1>1. PICK q : q = req[p]
    OBVIOUS
  <1>2. q.stage = "create" /\ AimCreate(q) /\ RowsGood
    BY <1>1 DEF WriteCreate, EvalInv, RequestsGood, GoodRequest
  <1>3. q.read.subject # None /\ (q.read.subject \in Concerned(q)) /\ (q.other # None => q.other \in Concerned(q))
    BY <1>2, EvaluationAssumption DEF AimCreate, Concerned
  <1>4. \E i \in CourseRows : \E m : /\ row[i].state = "free" /\ Wrote(p, Inserted(q, i, m))
                                     /\ q.other # None => m \in TeacherRows /\ row[m].state = "free"
    <2>1. CASE q.other = None
      BY <1>1, <2>1 DEF WriteCreate, Fresh
    <2>2. CASE q.other # None
      <3>1. MirrorIds(q.read.subject) = TeacherRows
        BY <1>2 DEF AimCreate, MirrorIds
      <3> QED BY <1>1, <2>2, <3>1 DEF WriteCreate, Fresh
    <2> QED BY <2>1, <2>2
  <1> PICK i \in CourseRows : \E m : /\ row[i].state = "free" /\ Wrote(p, Inserted(q, i, m))
                                     /\ q.other # None => m \in TeacherRows /\ row[m].state = "free"
    BY <1>4
  <1>5. PICK m : /\ row[i].state = "free" /\ Wrote(p, Inserted(q, i, m))
                 /\ q.other # None => m \in TeacherRows /\ row[m].state = "free"
    OBVIOUS
  <1>6. PICK w : w = Inserted(q, i, m)
    OBVIOUS
  <1>7. Fitting(w, DOMAIN w) /\ AllSound(w, Concerned(q))
    BY <1>2, <1>3, <1>5, <1>6, CreateWrites
  <1>8. q.id = None /\ q.link.pair = None
    BY <1>2 DEF AimCreate, NoLink
  <1> QED BY <1>1, <1>2, <1>5, <1>6, <1>7, <1>8, WroteKeeps

LEMMA ChangeWritten ==
    ASSUME EvalInv, NEW p \in Procs, req[p].stage \in {"update", "delete"}, NEW m,
           req[p].read.mirror = None /\ req[p].other # None => m \in MirrorsOf(req[p].id) /\ row[m].state = "free",
           NEW w, w = Updated(req[p], m) \/ w = Deleted(req[p]), Wrote(p, w)
    PROVE  EvalInv'
  <1>1. PICK q : q = req[p]
    OBVIOUS
  <1>2. q.stage \in {"update", "delete"} /\ AimChange(q) /\ RowsGood
    BY <1>1 DEF EvalInv, RequestsGood, GoodRequest
  <1>3. q.read.subject # None
    BY <1>2, ChangeKnows
  <1>4. /\ q.read.subject \in Concerned(q)
        /\ q.read.other # None => q.read.other \in Concerned(q)
        /\ q.other # None => q.other \in Concerned(q)
    BY <1>2, <1>3 DEF Concerned
  <1>5. Fitting(w, DOMAIN w)
    BY <1>1, <1>2, ChangeFits
  <1>6. AllSound(w, Concerned(q)) \/ Lost(q.id, q.read, w)
    <2>1. CASE row[q.id] = q.read /\ Paired(q.id)
      BY <1>1, <1>2, <1>4, <2>1, ChangeSound
    <2>2. CASE row[q.id] # q.read \/ ~Paired(q.id)
      BY <1>1, <1>2, <2>2, ChangeLost
    <2> QED BY <2>1, <2>2
  <1>7. q.read.state = "kept" /\ q.link.pair = None
    BY <1>2 DEF AimChange, NoLink
  <1> QED BY <1>1, <1>2, <1>5, <1>6, <1>7, WroteKeeps

LEMMA UpdateWritten ==
    ASSUME EvalInv, NEW p \in Procs, WriteUpdate(p)
    PROVE  EvalInv'
  <1>1. AimChange(req[p]) /\ RowsGood /\ req[p].stage = "update"
    BY DEF WriteUpdate, EvalInv, RequestsGood, GoodRequest
  <1>2. MirrorIds(req[p].read.subject) = MirrorsOf(req[p].id)
    BY <1>1, ChangeKnows, MirrorTable
  <1>3. PICK m : /\ Wrote(p, Updated(req[p], m))
                 /\ req[p].read.mirror = None /\ req[p].other # None => m \in MirrorsOf(req[p].id) /\ row[m].state = "free"
    <2>1. CASE req[p].read.mirror = None /\ req[p].other # None
      BY <1>2, <2>1 DEF WriteUpdate, Fresh
    <2>2. CASE ~(req[p].read.mirror = None /\ req[p].other # None)
      BY <2>2 DEF WriteUpdate
    <2> QED BY <2>1, <2>2
  <1> QED BY <1>1, <1>3, ChangeWritten

LEMMA DeleteWritten ==
    ASSUME EvalInv, NEW p \in Procs, WriteDelete(p)
    PROVE  EvalInv'
  <1>1. req[p].other = None /\ req[p].stage = "delete"
    BY DEF WriteDelete, EvalInv, RequestsGood, GoodRequest
  <1>2. PICK w : w = Deleted(req[p])
    OBVIOUS
  <1>3. Wrote(p, w)
    BY <1>2 DEF WriteDelete
  <1> QED BY <1>1, <1>2, <1>3, ChangeWritten

LEMMA RelationWritten ==
    ASSUME EvalInv, NEW p \in Procs, WriteRelation(p)
    PROVE  EvalInv'
  <1>1. AimRelate(req[p]) /\ req[p].stage = "relate" /\ Wrote(p, <<>>)
    BY DEF WriteRelation, EvalInv, RequestsGood, GoodRequest
  <1>2. PICK w : w = <<>>
    OBVIOUS
  <1>3. Fitting(w, DOMAIN w) /\ AllSound(w, Concerned(req[p]))
    BY <1>2, NothingIs DEF Fitting, AllSound
  <1>4. req[p].link.pair[1] \in Concerned(req[p]) /\ req[p].link.pair[2] \in Concerned(req[p])
    BY <1>1 DEF Concerned
  <1> QED BY <1>1, <1>2, <1>3, <1>4, WroteKeeps DEF AimRelate

LEMMA EvalInit == Init => EvalInv
  <1> SUFFICES ASSUME Init PROVE EvalInv
    OBVIOUS
  <1>1. RowsGood
    BY GoneGood DEF Init, RowsGood, Used, NoRow
  <1>2. RequestsGood
    BY IdleIsGood DEF Init, RequestsGood
  <1>3. RowsApart
    BY IdleIsGood, NothingIs DEF Init, RowsApart
  <1>4. related \subseteq Courses \X Teachers /\ count \in [Subjects -> Nat] /\ requests \in 0 .. MaxRequests
    BY EvaluationAssumption DEF Init
  <1> QED BY <1>1, <1>2, <1>3, <1>4 DEF EvalInv

LEMMA EvalNext == EvalInv /\ [Next]_vars => EvalInv'
  <1> SUFFICES ASSUME EvalInv, [Next]_vars PROVE EvalInv'
    OBVIOUS
  <1>1. CASE UNCHANGED vars
    <2>1. row' = row /\ related' = related /\ count' = count /\ req' = req /\ requests' = requests
      BY <1>1 DEF vars
    <2>2. RowsGood'
      BY <2>1 DEF EvalInv, RowsGood, Used
    <2>3. RequestsGood'
      <3>1. ASSUME NEW x \in Procs PROVE GoodRequest(req[x])'
        <4>1. PICK s : s = req[x]
          OBVIOUS
        <4>2. GoodRequest(s)'
          BY <2>1, <4>1, RequestStays, RowsSame DEF EvalInv, RequestsGood
        <4> QED BY <2>1, <4>1, <4>2
      <3> QED BY <2>1, <3>1 DEF EvalInv, RequestsGood
    <2>4. RowsApart'
      BY <2>1 DEF EvalInv, RowsApart
    <2> QED BY <2>1, <2>2, <2>3, <2>4 DEF EvalInv
  <1>2. CASE Next
    <2> PICK p \in Procs :
            \/ \E u \in Users, s \in Courses, o \in Teachers \cup {None}, v \in Contents : BeginCreate(p, u, s, o, v)
            \/ \E i \in CourseRows, o \in Teachers \cup {None}, v \in Contents : BeginUpdateCourse(p, i, o, v)
            \/ \E i \in TeacherRows, o \in Courses \cup {None}, v \in Contents : BeginUpdateTeacher(p, i, o, v)
            \/ \E i \in CourseRows : BeginDeleteCourse(p, i)
            \/ \E i \in TeacherRows : BeginDeleteTeacher(p, i)
            \/ \E c \in Courses, t \in Teachers : BeginRelation(p, c, t)
            \/ BeginRefresh(p, Courses) \/ BeginRefresh(p, Teachers)
            \/ WriteCreate(p) \/ WriteUpdate(p) \/ WriteDelete(p) \/ WriteRelation(p)
            \/ Commit(p)
            \/ Rollback(p)
      BY <1>2 DEF Next
    <2>1. CASE \E u \in Users, s \in Courses, o \in Teachers \cup {None}, v \in Contents : BeginCreate(p, u, s, o, v)
      BY <2>1, CreateBegun
    <2>2. CASE \E i \in CourseRows, o \in Teachers \cup {None}, v \in Contents : BeginUpdateCourse(p, i, o, v)
      BY <2>2, UpdateBegun DEF BeginUpdateCourse, Ids, OthersOf
    <2>3. CASE \E i \in TeacherRows, o \in Courses \cup {None}, v \in Contents : BeginUpdateTeacher(p, i, o, v)
      <3>1. \A i \in TeacherRows : i \in Ids /\ OthersOf(i) = Courses
        BY EvaluationAssumption DEF Ids, OthersOf
      <3> QED BY <2>3, <3>1, UpdateBegun DEF BeginUpdateTeacher
    <2>4. CASE \E i \in CourseRows : BeginDeleteCourse(p, i)
      BY <2>4, DeleteBegun DEF BeginDeleteCourse, Ids
    <2>5. CASE \E i \in TeacherRows : BeginDeleteTeacher(p, i)
      BY <2>5, DeleteBegun DEF BeginDeleteTeacher, Ids
    <2>6. CASE \E c \in Courses, t \in Teachers : BeginRelation(p, c, t)
      BY <2>6, RelationBegun
    <2>7. CASE BeginRefresh(p, Courses) \/ BeginRefresh(p, Teachers)
      BY <2>7, RefreshBegun
    <2>8. CASE WriteCreate(p)
      BY <2>8, CreateWritten
    <2>9. CASE WriteUpdate(p)
      BY <2>9, UpdateWritten
    <2>10. CASE WriteDelete(p)
      BY <2>10, DeleteWritten
    <2>11. CASE WriteRelation(p)
      BY <2>11, RelationWritten
    <2>12. CASE Commit(p)
      BY <2>12, CommitKeeps
    <2>13. CASE Rollback(p)
      BY <2>13, RollbackKeeps
    <2> QED BY <2>1, <2>2, <2>3, <2>4, <2>5, <2>6, <2>7, <2>8, <2>9, <2>10, <2>11, <2>12, <2>13
  <1> QED BY <1>1, <1>2

LEMMA EvalTypes == EvalInv => TypeOK
  <1> SUFFICES ASSUME EvalInv PROVE TypeOK
    OBVIOUS
  <1>1. ASSUME NEW i \in CourseRows PROVE row[i] \in CourseRow
    BY DEF EvalInv, RowsGood, GoodRow, RowOf, CourseRow, Ids, SubjectsOf, OthersOf, MirrorsOf
  <1>2. ASSUME NEW i \in TeacherRows PROVE row[i] \in TeacherRow
    <2>1. i \in Ids /\ SubjectsOf(i) = Teachers /\ OthersOf(i) = Courses /\ MirrorsOf(i) = CourseRows
      BY EvaluationAssumption DEF Ids, SubjectsOf, OthersOf, MirrorsOf
    <2> QED BY <2>1 DEF EvalInv, RowsGood, GoodRow, RowOf, TeacherRow
  <1> QED BY <1>1, <1>2 DEF TypeOK, EvalInv

-----------------------------------------------------------------------------
\* Evaluations: pairs and counts

LEMMA OnlyCommits ==
    ASSUME [Next]_vars
    PROVE  (\E p \in Procs : Commit(p)) \/ (row' = row /\ related' = related /\ count' = count)
  <1> DEFINE Quiet == row' = row /\ related' = related /\ count' = count
  <1>1. ASSUME NEW p, NEW r, Begin(p, r) PROVE Quiet
    BY <1>1 DEF Begin
  <1>2. ASSUME NEW p, NEW w, Wrote(p, w) PROVE Quiet
    BY <1>2 DEF Wrote
  <1>3. ASSUME NEW p, Rollback(p) PROVE Quiet
    BY <1>3 DEF Rollback
  <1>4. ASSUME UNCHANGED vars PROVE Quiet
    BY <1>4 DEF vars
  <1> HIDE DEF Quiet
  <1>5. ASSUME NEW p, NEW i, NEW o, NEW v, BeginUpdate(p, i, o, v) \/ BeginDelete(p, i) PROVE Quiet
    BY <1>1, <1>5 DEF BeginUpdate, BeginDelete
  <1>6. ASSUME NEW p, WriteCreate(p) \/ WriteUpdate(p) \/ WriteDelete(p) \/ WriteRelation(p) PROVE Quiet
    BY <1>2, <1>6 DEF WriteCreate, WriteUpdate, WriteDelete, WriteRelation
  <1>7. ASSUME NEW p, NEW S, BeginRefresh(p, S) PROVE Quiet
    BY <1>1, <1>7 DEF BeginRefresh
  <1>8. ASSUME NEW p, NEW c, NEW t, BeginRelation(p, c, t) PROVE Quiet
    BY <1>1, <1>8 DEF BeginRelation
  <1>9. ASSUME NEW p, NEW u, NEW s, NEW o, NEW v, BeginCreate(p, u, s, o, v) PROVE Quiet
    BY <1>1, <1>9 DEF BeginCreate
  <1>10. Next => Quiet \/ \E p \in Procs : Commit(p)
    BY <1>3, <1>5, <1>6, <1>7, <1>8, <1>9
       DEF Next, BeginUpdateCourse, BeginUpdateTeacher, BeginDeleteCourse, BeginDeleteTeacher
  <1> QED BY <1>4, <1>10 DEF Quiet

\* A transaction whose evaluation is as it read it writes what is sound.
LEMMA StraightIsSound ==
    ASSUME EvalInv, NEW p \in Procs, Commit(p), ~Astray(p)
    PROVE  AllSound(req[p].writes, DOMAIN req[p].counts)
  <1>1. Written(req[p])
    BY CommitRows DEF EvalInv
  <1>2. ~Lost(req[p].id, req[p].read, req[p].writes)
    BY <1>1, NoneApart DEF Lost, Astray, Written
  <1> QED BY <1>1, <1>2 DEF Written

LEMMA CommitPairs ==
    ASSUME EvalInv, NEW p \in Procs, Commit(p), NEW i \in Ids, Paired(i), ~Astray(p) \/ ~Touches(p, i)
    PROVE  Paired(i)'
  <1>1. PICK w : w = req[p].writes
    OBVIOUS
  <1>2. /\ \A j \in DOMAIN w : row'[j] = w[j]
        /\ \A j \in Ids : j \in DOMAIN w \/ row'[j] = row[j]
    BY <1>1, CommitRows DEF EvalInv
  <1>3. row[i].mirror \in Ids \cup {None}
    BY GoodRowMirror DEF EvalInv, RowsGood
  <1>4. ASSUME i \notin DOMAIN w, row[i].mirror = None \/ row[i].mirror \notin DOMAIN w PROVE Paired(i)'
    <2>1. row'[i] = row[i] /\ (row[i].mirror # None => row'[row[i].mirror] = row[row[i].mirror])
      BY <1>2, <1>3, <1>4
    <2> QED BY <2>1 DEF Paired
  <1>5. CASE ~Touches(p, i)
    BY <1>1, <1>4, <1>5 DEF Touches
  <1>6. CASE ~Astray(p)
    <2>1. PICK C : AllSound(w, C)
      BY <1>1, <1>6, StraightIsSound
    <2>2. CASE i \in DOMAIN w
      <3>1. row'[i] = w[i] /\ (w[i].state = "kept" => WellPaired(w, i))
        BY <1>2, <2>1, <2>2 DEF AllSound, Sound
      <3>2. CASE w[i].state # "kept"
        BY <3>1, <3>2 DEF Paired
      <3>3. CASE w[i].other = None /\ w[i].mirror = None
        BY <3>1, <3>3 DEF Paired
      <3>4. CASE /\ w[i].other # None /\ w[i].mirror # None /\ w[i].mirror \in DOMAIN w
                 /\ w[w[i].mirror] = Kept(w[i].user, w[i].other, w[i].subject, i, w[i].content)
        <4>1. row'[w[i].mirror] = w[w[i].mirror]
          BY <1>2, <3>4
        <4> QED BY <3>1, <3>4, <4>1 DEF Paired
      <3> QED BY <3>1, <3>2, <3>3, <3>4 DEF WellPaired
    <2>3. CASE i \notin DOMAIN w
      <3>1. row'[i] = row[i]
        BY <1>2, <2>3
      <3>2. CASE row[i].state # "kept"
        BY <3>1, <3>2 DEF Paired
      <3>3. CASE row[i].state = "kept" /\ row[i].mirror # None
        <4>1. PICK m : m = row[i].mirror
          OBVIOUS
        <4>2. row[m] = Kept(row[i].user, row[i].other, row[i].subject, i, row[i].content)
          BY <3>3, <4>1, PairedMeans
        <4>3. row[m].state = "kept" /\ row[m].mirror = i
          BY <4>2, KeptHas
        <4>4. m \notin DOMAIN w
          BY <2>1, <2>3, <4>3, NoneApart DEF AllSound, Sound
        <4> QED BY <1>4, <2>3, <4>1, <4>4
      <3> QED BY <1>4, <2>3, <3>2, <3>3
    <2> QED BY <2>2, <2>3
  <1> QED BY <1>5, <1>6

LEMMA PairsStep ==
    ASSUME EvalInv, [Next]_vars
    PROVE  \A i \in Ids : Paired(i) => Paired(i)' \/ \E p \in Procs : Commit(p) /\ Astray(p) /\ Touches(p, i)
  <1>1. CASE row' = row
    BY <1>1 DEF Paired
  <1>2. CASE \E p \in Procs : Commit(p)
    BY <1>2, CommitPairs
  <1> QED BY <1>1, <1>2, OnlyCommits

\* The counts of whom a transaction does not recalculate stay right.
LEMMA VisibleApart ==
    ASSUME NEW s \in Subjects, NEW r, r.subject = s, NEW rel, NEW pair \in Courses \X Teachers,
           pair[1] # s, pair[2] # s
    PROVE  /\ Visible(r, rel) <=> Visible(r, rel \cup {pair})
           /\ Visible(r, rel) <=> Visible(r, rel \ {pair})
  BY DEF Visible, Relation

LEMMA CommitCounts ==
    ASSUME EvalInv, NEW p \in Procs, Commit(p), ~Astray(p), NEW s \in Subjects, s \notin DOMAIN req[p].counts
    PROVE  CountOf(row', related', s) = CountOf(row, related, s)
  <1>1. PICK q : q = req[p]
    OBVIOUS
  <1>2. /\ \A j \in DOMAIN q.writes : row'[j] = q.writes[j]
        /\ \A j \in Ids : j \in DOMAIN q.writes \/ row'[j] = row[j]
        /\ Written(q)
    BY <1>1, CommitRows DEF EvalInv
  <1>3. AllSound(q.writes, DOMAIN q.counts)
    BY <1>1, StraightIsSound
  <1>4. ASSUME NEW j \in Ids
        PROVE  row'[j].subject = s /\ row'[j].state = "kept" <=> row[j].subject = s /\ row[j].state = "kept"
    <2>1. CASE j \in DOMAIN q.writes
      BY <1>1, <1>2, <1>3, <2>1 DEF AllSound, Sound
    <2>2. CASE j \notin DOMAIN q.writes
      BY <1>2, <2>2
    <2> QED BY <2>1, <2>2
  <1>5. ASSUME NEW j \in Ids, row[j].subject = s, row[j].state = "kept" PROVE row'[j] = row[j]
    BY <1>1, <1>2, <1>3, <1>5 DEF AllSound, Sound
  <1>6. ASSUME NEW r, r.subject = s
        PROVE  Visible(r, related') <=> Visible(r, related)
    <2>1. CASE q.link.pair = None
      <3>1. related' = related
        BY <1>1, <2>1 DEF Commit, RelatedWith
      <3> QED BY <3>1
    <2>2. CASE q.link.pair # None
      <3>1. PICK pair : pair = q.link.pair
        OBVIOUS
      <3>2. related' = related \cup {pair} \/ related' = related \ {pair}
        BY <1>1, <2>2, <3>1 DEF Commit, RelatedWith
      <3>3. pair \in Courses \X Teachers /\ pair[1] # s /\ pair[2] # s
        BY <1>1, <1>2, <2>2, <3>1 DEF Written, Links
      <3> QED BY <1>6, <3>2, <3>3, VisibleApart
    <2> QED BY <2>1, <2>2
  <1>7. ASSUME NEW j \in Ids
        PROVE  row'[j].subject = s /\ Visible(row'[j], related') <=> row[j].subject = s /\ Visible(row[j], related)
    <2>1. CASE row[j].subject = s /\ row[j].state = "kept"
      BY <1>5, <1>6, <2>1
    <2>2. CASE ~(row[j].subject = s /\ row[j].state = "kept")
      BY <1>4, <2>2 DEF Visible
    <2> QED BY <2>1, <2>2
  <1>8. ListCourseEvaluations(row', related', s) = ListCourseEvaluations(row, related, s)
    BY <1>7 DEF ListCourseEvaluations, Ids
  <1>9. ListTeacherEvaluations(row', related', s) = ListTeacherEvaluations(row, related, s)
    BY <1>7 DEF ListTeacherEvaluations, Ids
  <1> QED BY <1>8, <1>9 DEF CountOf

LEMMA CountsStep ==
    ASSUME EvalInv, [Next]_vars
    PROVE  \A s \in Subjects : Counted(s) =>
                \/ Counted(s)'
                \/ \E p \in Procs :
                        /\ Commit(p)
                        /\ \/ Astray(p)
                           \/ s \in DOMAIN req[p].counts /\ req[p].counts[s] # CountOf(row', related', s)
  <1> SUFFICES ASSUME NEW s \in Subjects, Counted(s),
                      \A p \in Procs : Commit(p) =>
                            /\ ~Astray(p)
                            /\ s \in DOMAIN req[p].counts => req[p].counts[s] = CountOf(row', related', s)
               PROVE  Counted(s)'
    OBVIOUS
  <1>1. CASE row' = row /\ related' = related /\ count' = count
    BY <1>1 DEF Counted
  <1>2. ASSUME NEW p \in Procs, Commit(p) PROVE Counted(s)'
    <2>1. CASE s \in DOMAIN req[p].counts
      <3>1. count'[s] = req[p].counts[s]
        BY <1>2, <2>1 DEF Commit
      <3> QED BY <1>2, <2>1, <3>1 DEF Counted
    <2>2. CASE s \notin DOMAIN req[p].counts
      <3>1. count'[s] = count[s]
        BY <1>2, <2>2 DEF Commit
      <3>2. CountOf(row', related', s) = CountOf(row, related, s)
        BY <1>2, <2>2, CommitCounts
      <3> QED BY <3>1, <3>2 DEF Counted
    <2> QED BY <2>1, <2>2
  <1> QED BY <1>1, <1>2, OnlyCommits

\* A linked evaluation and its mirror stay each other's mirror with the same content, and a
\* single one has none, unless a transaction commits that touches them and read its evaluation
\* before another one changed or deleted it.
THEOREM PairsBreakByOverlap == Spec => PairsExplained
  <1>1. EvalInv /\ [Next]_vars =>
            [\A i \in Ids : Paired(i) =>
                Paired(i)' \/ \E p \in Procs : Commit(p) /\ Astray(p) /\ Touches(p, i)]_vars
    BY PairsStep
  <1> QED BY <1>1, EvalInit, EvalNext, PTL DEF Spec, PairsExplained

\* The number of evaluations of a course or a teacher stays that of its visible rows, unless
\* a transaction commits whose evaluation or snapshot another one has overtaken.
THEOREM CountsErrByOverlap == Spec => CountsExplained
  <1>1. EvalInv /\ [Next]_vars =>
            [\A s \in Subjects : Counted(s) =>
                \/ Counted(s)'
                \/ \E p \in Procs :
                        /\ Commit(p)
                        /\ \/ Astray(p)
                           \/ s \in DOMAIN req[p].counts /\ req[p].counts[s] # CountOf(row', related', s)]_vars
    BY CountsStep
  <1> QED BY <1>1, EvalInit, EvalNext, PTL DEF Spec, CountsExplained

-----------------------------------------------------------------------------
\* The three modules together

\* Of the module that takes a step, whatever the other two are at.
AllInv == EvalInv /\ ReplyInv /\ RankingsInv

LEMMA AllStep == AllInv /\ [MCNext]_<<vars, replyVars, rankVars, drawVars, part>> => AllInv'
  <1> SUFFICES ASSUME AllInv, [MCNext]_<<vars, replyVars, rankVars, drawVars, part>> PROVE AllInv'
    OBVIOUS
  <1>1. [Next]_vars
    BY DEF MCNext
  <1>2. [ReplyNext]_replyVars
    BY DEF MCNext
  <1>3. \/ RankNext /\ UNCHANGED drawVars
        \/ DrawNext /\ UNCHANGED rankVars
        \/ UNCHANGED <<rankVars, drawVars>>
    BY DEF MCNext, RankingPart
  <1> QED BY <1>1, <1>2, <1>3, EvalNext, RepliesNext, RankingsStep DEF AllInv

LEMMA AllStart == MCInit => AllInv
  BY EvalInit, RepliesInit, RankingsStart DEF MCInit, AllInv

\* A refresh that nothing disturbs repairs a ranking, readers are shown the same wherever it
\* comes from, a list of random courses is one draw; and every variable of the three modules
\* has its type.
THEOREM RankingsAreSound == MCSpec => []RankingsSound
  <1>1. AllInv => RankingsSound
    BY EvalTypes, RankingsHold DEF AllInv, ReplyInv, RankingsSound
  <1> QED BY <1>1, AllStart, AllStep, PTL DEF MCSpec
=============================================================================
