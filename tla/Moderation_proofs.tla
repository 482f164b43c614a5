--------------------------- MODULE Moderation_proofs ---------------------------
(***************************************************************************)
(* Proofs about Review, the promise of handling a case; about Comments and *)
(* Moderation, and Catalogue, which implement it; and about LockOrders.    *)
(*                                                                         *)
(* The properties are those of the run Moderation, for any sets of users,  *)
(* comments, reports, entries, petitions, rows and requests.               *)
(***************************************************************************)
EXTENDS MCModeration, Review, FiniteSetTheorems, SequenceTheorems, TLAPS

-----------------------------------------------------------------------------
\* Review


\* A case is pending for, or decided by, whoever holds it: nobody reviews what was not filed.
ReviewType ==
    /\ verdict \in [Cases -> Verdicts \cup {"none", "pending"}]
    /\ messages \in [Cases -> SUBSET Verdicts]
    /\ reviewing \in [Reviewers -> Cases \cup {Nothing}]

Reviewable == \A r \in Reviewers : reviewing[r] # Nothing => verdict[reviewing[r]] # "none"

ReviewInv == ReviewType /\ Told /\ Reviewable

LEMMA FileKeeps == ASSUME ReviewInv, NEW c \in Cases, File(c) PROVE ReviewInv'
<1>1. ReviewType'
  BY DEF ReviewInv, ReviewType, File
<1>2. Told'
  BY DEF ReviewInv, ReviewType, Told, File, Verdicts
<1>3. Reviewable'
  BY DEF ReviewInv, ReviewType, Reviewable, File
<1>4. QED
  BY <1>1, <1>2, <1>3 DEF ReviewInv

LEMMA OpenKeeps == ASSUME ReviewInv, NEW r \in Reviewers, NEW c \in Cases, Open(r, c) PROVE ReviewInv'
<1>1. ReviewType'
  BY DEF ReviewInv, ReviewType, Open
<1>2. Told'
  BY DEF ReviewInv, ReviewType, Told, Open
<1>3. Reviewable'
  BY DEF ReviewInv, ReviewType, Reviewable, Open
<1>4. QED
  BY <1>1, <1>2, <1>3 DEF ReviewInv

LEMMA DecideKeeps == ASSUME ReviewInv, NEW r \in Reviewers, NEW v \in Verdicts, Decide(r, v) PROVE ReviewInv'
<1>0. /\ reviewing[r] \in Cases
      /\ verdict' = [verdict EXCEPT ![reviewing[r]] = v]
      /\ messages' = [messages EXCEPT ![reviewing[r]] = @ \cup {v}]
      /\ reviewing' = [reviewing EXCEPT ![r] = Nothing]
  BY DEF ReviewInv, ReviewType, Decide
<1>1. ReviewType'
  BY <1>0 DEF ReviewInv, ReviewType
<1>2. Told'
  BY <1>0 DEF ReviewInv, ReviewType, Told
<1>3. Reviewable'
  BY <1>0 DEF ReviewInv, ReviewType, Reviewable, Verdicts
<1>4. QED
  BY <1>1, <1>2, <1>3 DEF ReviewInv

LEMMA AbandonKeeps == ASSUME ReviewInv, NEW r \in Reviewers, Abandon(r) PROVE ReviewInv'
<1>1. ReviewType'
  BY DEF ReviewInv, ReviewType, Abandon
<1>2. Told'
  BY DEF ReviewInv, ReviewType, Told, Abandon
<1>3. Reviewable'
  BY DEF ReviewInv, ReviewType, Reviewable, Abandon
<1>4. QED
  BY <1>1, <1>2, <1>3 DEF ReviewInv

\* Every step keeps the invariant.
LEMMA ReviewStep == ReviewInv /\ [Next]_reviewVars => ReviewInv'
<1> SUFFICES ASSUME ReviewInv, [Next]_reviewVars PROVE ReviewInv'
  OBVIOUS
<1>1. CASE UNCHANGED reviewVars
  BY <1>1 DEF ReviewInv, ReviewType, Told, Reviewable, reviewVars
<1>2. CASE Next
  BY <1>2, FileKeeps, OpenKeeps, DecideKeeps, AbandonKeeps DEF Next
<1>3. QED
  BY <1>1, <1>2

LEMMA ReviewAlways == Spec => []ReviewInv
<1>1. Init => ReviewInv
  BY DEF Init, ReviewInv, ReviewType, Told, Reviewable, Verdicts
<1>2. QED
  BY <1>1, ReviewStep, PTL DEF Spec

\* The verdict that stands is among those the user was told: a decision and its notice are
\* one transaction.
THEOREM VerdictIsTold == Spec => []Told
<1>1. ReviewInv => Told
  BY DEF ReviewInv
<1>2. QED
  BY <1>1, ReviewAlways, PTL

\* A decision is replaced only by a reviewer who saw the case before it was decided, and
\* whom nothing made look again.
THEOREM DecisionsAreFinal == Spec => Final
<1>1. ReviewInv /\ [Next]_reviewVars =>
        [\A c \in Cases :
            verdict[c] \in Verdicts /\ verdict'[c] # verdict[c] =>
                \E r \in Reviewers : reviewing[r] = c]_reviewVars
  <2> SUFFICES ASSUME ReviewInv, Next, NEW c \in Cases,
                      verdict[c] \in Verdicts, verdict'[c] # verdict[c]
               PROVE  \E r \in Reviewers : reviewing[r] = c
    OBVIOUS
  <2>1. ASSUME NEW d \in Cases, File(d) PROVE FALSE
    BY <2>1 DEF ReviewInv, ReviewType, File, Verdicts
  <2>2. ASSUME NEW r \in Reviewers, NEW v \in Verdicts, Decide(r, v) PROVE reviewing[r] = c
    BY <2>2 DEF ReviewInv, ReviewType, Decide
  <2>3. QED
    BY <2>1, <2>2 DEF Next, Open, Abandon
<1>2. QED
  BY <1>1, ReviewAlways, PTL DEF Spec, Final


-----------------------------------------------------------------------------
\* Comments

\* The ids that are taken: a count is never more than those.
Taken == {c \in Comments : comment[c].state # "free"}

Count == 0 .. Cardinality(Taken)

\* A reply is written under a comment of the first level, of the same page, that is there.
Placed(row) ==
    /\ row.on \in Targets
    /\ row.parent # Absent =>
          /\ row.parent \in Comments /\ comment[row.parent].state # "free"
          /\ comment[row.parent].parent = Absent /\ comment[row.parent].on = row.on

CommentTables ==
    /\ target \in [Targets -> [open : BOOLEAN, count : Count, owner : Authors]]
    /\ comment \in [Comments -> Comment]
    /\ worker \in [Workers -> Request]
    /\ counted \in {Absent} \cup [Resources -> Count]

CommentsInv ==
    /\ CommentTables
    /\ \A c \in Taken : Placed(comment[c])
    /\ \A p \in Workers :
          worker[p].op = "create" =>
             worker[p].row \in Comment /\ worker[p].row.state = "active" /\ Placed(worker[p].row)

\* What readers are listed and what is hidden from them.
Seen(t) == Cardinality(ListedOn(t)) + Cardinality(HiddenOn(t))

LEMMA FewTaken ==
    /\ IsFiniteSet(Taken) /\ Cardinality(Taken) \in Nat /\ Cardinality(Taken) <= Cardinality(Comments)
    /\ IsFiniteSet(Taken') /\ Cardinality(Taken') \in Nat /\ Cardinality(Taken') <= Cardinality(Comments)
    /\ Cardinality(Comments) \in Nat
  <1>1. Taken \subseteq Comments /\ Taken' \subseteq Comments
    BY DEF Taken
  <1> QED BY <1>1, CommentsAssumption, FS_Subset, FS_CardinalityType

LEMMA FewActive ==
    ASSUME NEW t
    PROVE  /\ IsFiniteSet(ActiveOn(t)) /\ Cardinality(ActiveOn(t)) \in Nat
           /\ IsFiniteSet(ActiveOn(t)') /\ Cardinality(ActiveOn(t)') \in Nat
           /\ Cardinality(ActiveOn(t)) <= Cardinality(Taken)
  <1>1. ActiveOn(t) \subseteq Taken /\ ActiveOn(t) \subseteq Comments /\ ActiveOn(t)' \subseteq Comments
    BY DEF ActiveOn, Taken
  <1> QED BY <1>1, FewTaken, CommentsAssumption, FS_Subset, FS_CardinalityType

\* A set that is divided in two is counted by its parts.
LEMMA Divided ==
    ASSUME NEW A, IsFiniteSet(A), NEW L, NEW H, L \cup H = A, L \cap H = {}
    PROVE  Cardinality(L) + Cardinality(H) = Cardinality(A)
  <1>1. L \subseteq A /\ H \subseteq A
    OBVIOUS
  <1>2. IsFiniteSet(L) /\ IsFiniteSet(H)
    BY <1>1, FS_Subset
  <1>3. Cardinality(L) \in Nat /\ Cardinality(H) \in Nat /\ Cardinality(L \cap H) = 0
    BY <1>2, FS_CardinalityType, FS_EmptySet
  <1>4. Cardinality(L \cup H) = Cardinality(L) + Cardinality(H) - Cardinality(L \cap H)
    BY <1>2, FS_Union
  <1>5. Cardinality(L \cup H) = Cardinality(A)
    BY Zenon
  <1> QED BY <1>3, <1>4, <1>5

\* Every active comment is either listed or a reply that is hidden.
LEMMA SeenAreActive ==
    ASSUME CommentsInv, NEW t
    PROVE  Seen(t) = Cardinality(ActiveOn(t))
  <1>1. ASSUME NEW c \in ActiveOn(t), comment[c].parent # Absent
        PROVE  /\ comment[c].parent \in Comments
               /\ comment[comment[c].parent].state \in {"active", "deleted"}
               /\ comment[comment[c].parent].parent = Absent
               /\ comment[comment[c].parent].on = t
    <2>1. c \in Taken /\ c \in Comments /\ comment[c].on = t
      BY DEF ActiveOn, Taken
    <2>2. Placed(comment[c])
      BY <2>1 DEF CommentsInv
    <2>3. comment[c].parent \in Comments /\ comment[comment[c].parent] \in Comment
      BY <1>1, <2>2 DEF Placed, CommentsInv, CommentTables
    <2> QED BY <1>1, <2>1, <2>2, <2>3 DEF Placed, Comment
  <1>2. ListedOn(t) \cup HiddenOn(t) = ActiveOn(t)
    BY <1>1 DEF ListedOn, HiddenOn, ActiveOn
  <1>3. ListedOn(t) \cap HiddenOn(t) = {}
    BY DEF ListedOn, HiddenOn, ActiveOn
  <1> QED BY <1>2, <1>3, FewActive, Divided DEF Seen

LEMMA SeenAreActiveThen ==
    ASSUME CommentsInv', NEW t
    PROVE  Seen(t)' = Cardinality(ActiveOn(t)')
  <1>1. ASSUME NEW c \in ActiveOn(t)', comment'[c].parent # Absent
        PROVE  /\ comment'[c].parent \in Comments
               /\ comment'[comment'[c].parent].state \in {"active", "deleted"}
               /\ comment'[comment'[c].parent].parent = Absent
               /\ comment'[comment'[c].parent].on = t
    <2>1. c \in Taken' /\ c \in Comments /\ comment'[c].on = t
      BY DEF ActiveOn, Taken
    <2>2. Placed(comment[c])'
      BY <2>1 DEF CommentsInv
    <2>3. comment'[c].parent \in Comments /\ comment'[comment'[c].parent] \in Comment
      BY <1>1, <2>2 DEF Placed, CommentsInv, CommentTables
    <2> QED BY <1>1, <2>1, <2>2, <2>3 DEF Placed, Comment
  <1>2. ListedOn(t)' \cup HiddenOn(t)' = ActiveOn(t)'
    BY <1>1 DEF ListedOn, HiddenOn, ActiveOn
  <1>3. ListedOn(t)' \cap HiddenOn(t)' = {}
    BY DEF ListedOn, HiddenOn, ActiveOn
  <1> QED BY <1>2, <1>3, FewActive, Divided DEF Seen

-----------------------------------------------------------------------------
\* Steps of comments, whoever makes them

Rows3 == [open : BOOLEAN, count : Nat, owner : Authors]

LEMMA TargetsKnown == CommentsInv => target \in [Targets -> Rows3]
  BY FewTaken DEF CommentsInv, CommentTables, Count, Rows3

\* A count that one is added to, or taken from.
LEMMA CountingIs ==
    ASSUME CommentsInv, NEW t \in Targets, NEW d \in {-1, 1}
    PROVE  /\ Counting(t, d) \in [Targets -> Rows3]
           /\ \A r \in Targets :
                 /\ Counting(t, d)[r].open = target[r].open /\ Counting(t, d)[r].owner = target[r].owner
                 /\ Counting(t, d)[r].count =
                       IF r # t \/ t \notin Resources THEN target[r].count
                       ELSE IF target[r].count + d < 0 THEN 0 ELSE target[r].count + d
  <1>1. PICK row \in Rows3 : row = target[t]
    BY TargetsKnown
  <1>2. target \in [Targets -> Rows3]
    BY TargetsKnown
  <1>3. PICK n \in Nat : n = IF row.count + d < 0 THEN 0 ELSE row.count + d
    <2>1. row.count \in Nat /\ d \in Int
      BY DEF Rows3
    <2> QED BY <2>1
  <1>4. CASE t \in Resources
    <2>1. PICK new : new = [row EXCEPT !.count = n]
      OBVIOUS
    <2>2. new \in Rows3 /\ new.count = n /\ new.open = row.open /\ new.owner = row.owner
      BY <2>1 DEF Rows3
    <2>3. Counting(t, d) = [target EXCEPT ![t] = new]
      BY <1>1, <1>2, <1>3, <1>4, <2>1 DEF Counting
    <2> QED BY <1>1, <1>2, <1>3, <1>4, <2>2, <2>3
  <1>5. CASE t \notin Resources
    BY <1>2, <1>5 DEF Counting
  <1> QED BY <1>4, <1>5

\* Counts below the number of ids that are taken fit below it when more are.
LEMMA CountsFit ==
    ASSUME target' \in [Targets -> Rows3], NEW n \in Nat, n <= Cardinality(Taken'),
           \A t \in Targets : target'[t].count <= n
    PROVE  target' \in [Targets -> [open : BOOLEAN, count : Count', owner : Authors]]
  <1>1. ASSUME NEW t \in Targets
        PROVE  target'[t] \in [open : BOOLEAN, count : Count', owner : Authors]
    <2>1. PICK row \in Rows3 : row = target'[t]
      OBVIOUS
    <2>2. row.count \in Count'
      <3>1. row.count \in Nat /\ row.count <= n /\ Cardinality(Taken') \in Nat
        BY <2>1, FewTaken DEF Rows3
      <3> QED BY <3>1 DEF Count
    <2> QED BY <2>1, <2>2 DEF Rows3
  <1> QED BY <1>1

\* What comes under a comment stays under it.
LEMMA RowsStay ==
    ASSUME \A c \in Taken : c \in Taken' /\ comment'[c].on = comment[c].on /\ comment'[c].parent = comment[c].parent,
           NEW row, Placed(row)
    PROVE  Placed(row)'
  BY DEF Placed, Taken

\* A step that leaves the comments and the snapshot of the refresh alone.
LEMMA CommentsRemain ==
    ASSUME CommentsInv, UNCHANGED <<comment, counted>>, worker' \in [Workers -> Request],
           target' \in [Targets -> Rows3], \A t \in Targets : target'[t].count = target[t].count,
           \A p \in Workers : worker'[p].op = "create" =>
              \/ worker'[p] = worker[p]
              \/ worker'[p].row \in Comment /\ worker'[p].row.state = "active" /\ Placed(worker'[p].row)
    PROVE  CommentsInv'
  <1>1. Taken' = Taken /\ Count' = Count
    BY DEF Taken, Count
  <1>2. \A t \in Targets : target'[t].count <= Cardinality(Taken)
    BY FewTaken DEF CommentsInv, CommentTables, Count
  <1>3. CommentTables'
    BY <1>1, <1>2, FewTaken, CountsFit DEF CommentsInv, CommentTables
  <1>4. \A row : Placed(row) => Placed(row)'
    BY DEF Placed
  <1>5. \A c \in Taken' : Placed(comment[c])'
    BY <1>1, <1>4 DEF CommentsInv, Placed
  <1>6. ASSUME NEW p \in Workers, worker'[p].op = "create"
        PROVE  worker'[p].row \in Comment /\ worker'[p].row.state = "active" /\ Placed(worker[p].row)'
    BY <1>6 DEF CommentsInv, Placed
  <1> QED BY <1>3, <1>5, <1>6 DEF CommentsInv

\* A comment is deleted, and its page counts one less.
LEMMA DeletionKeeps ==
    ASSUME CommentsInv, NEW c \in Comments, SoftDeletable(c),
           comment' = Deleted(c), target' = Counting(comment[c].on, -1),
           worker' \in [Workers -> Request], UNCHANGED counted,
           \A p \in Workers : worker'[p].op = "create" => worker'[p] = worker[p]
    PROVE  CommentsInv'
  <1>1. PICK row \in Comment : row = comment[c]
    BY DEF CommentsInv, CommentTables
  <1>2. PICK new : new = [row EXCEPT !.state = "deleted"]
    OBVIOUS
  <1>3. /\ new \in Comment /\ new.state = "deleted" /\ new.on = row.on /\ new.parent = row.parent
    BY <1>2 DEF Comment
  <1>4. comment' = [comment EXCEPT ![c] = new] /\ comment \in [Comments -> Comment]
    BY <1>1, <1>2 DEF Deleted, CommentsInv, CommentTables
  <1>5. c \in Taken /\ row.on \in Targets
    BY <1>1 DEF SoftDeletable, Taken, CommentsInv, Placed
  <1>6. Taken' = Taken /\ Count' = Count
    <2>1. Taken' = Taken
      BY <1>1, <1>3, <1>4, <1>5 DEF Taken
    <2> QED BY <2>1 DEF Count
  <1>7. \A k \in Taken : k \in Taken' /\ comment'[k].on = comment[k].on /\ comment'[k].parent = comment[k].parent
    BY <1>1, <1>3, <1>4, <1>6 DEF Taken
  <1>8. /\ target' \in [Targets -> Rows3]
        /\ \A t \in Targets : target'[t].count <= Cardinality(Taken)
    <2>1. target' \in [Targets -> Rows3]
      BY <1>1, <1>5, CountingIs
    <2>2. ASSUME NEW t \in Targets PROVE target'[t].count <= Cardinality(Taken)
      <3>1. target[t].count \in Nat /\ target[t].count <= Cardinality(Taken) /\ Cardinality(Taken) \in Nat
        BY FewTaken DEF CommentsInv, CommentTables, Count
      <3>2. target'[t].count \in {target[t].count, 0, target[t].count - 1}
        BY <1>1, <1>5, <3>1, CountingIs
      <3> QED BY <3>1, <3>2
    <2> QED BY <2>1, <2>2
  <1>9. CommentTables'
    BY <1>3, <1>4, <1>6, <1>8, FewTaken, CountsFit DEF CommentsInv, CommentTables
  <1>10. ASSUME NEW k \in Taken' PROVE Placed(comment[k])'
    <2>1. k \in Taken /\ Placed(comment[k])
      BY <1>6 DEF CommentsInv
    <2>2. PICK old : old = comment[k]
      OBVIOUS
    <2>3. Placed(old)'
      BY <1>7, <2>1, <2>2, RowsStay
    <2> QED BY <1>7, <2>1, <2>2, <2>3 DEF Placed
  <1>11. ASSUME NEW p \in Workers, worker'[p].op = "create"
         PROVE  worker'[p].row \in Comment /\ worker'[p].row.state = "active" /\ Placed(worker[p].row)'
    <2>1. PICK old : old = worker[p].row
      OBVIOUS
    <2>2. worker'[p].row = old /\ old \in Comment /\ old.state = "active" /\ Placed(old)
      BY <1>11, <2>1 DEF CommentsInv
    <2>3. Placed(old)'
      BY <1>7, <2>2, RowsStay
    <2> QED BY <2>2, <2>3 DEF Placed
  <1> QED BY <1>9, <1>10, <1>11 DEF CommentsInv

\* A comment is inserted, and its page counts one more.
LEMMA InsertKeeps ==
    ASSUME CommentsInv, NEW p \in Workers, NEW c \in Comments, InsertComment(p, c)
    PROVE  /\ CommentsInv'
           /\ \A r \in Resources : target[r].count = Cardinality(ActiveOn(r)) => target'[r].count = Cardinality(ActiveOn(r)')
  <1>0. worker[p].op = "create" /\ comment[c].state = "free" /\ counted' = counted
    BY DEF InsertComment
  <1>1. PICK row \in Comment : row = worker[p].row /\ row.state = "active" /\ Placed(row)
    BY <1>0 DEF CommentsInv
  <1>2. PICK u \in Authors \cup {Absent} : comment' = [comment EXCEPT ![c] = [row EXCEPT !.told = u]]
    <2>1. PICK u \in Recipients(row) : comment' = [comment EXCEPT ![c] = [row EXCEPT !.told = u]]
      BY <1>1 DEF InsertComment
    <2>2. row.replyTo \in Comments \cup {Absent} /\ row.on \in Targets
      BY <1>1 DEF Comment, Placed
    <2>3. \A k \in Comments : comment[k].by \in Authors \cup {Absent}
      BY DEF CommentsInv, CommentTables, Comment
    <2>4. \A t \in Targets : target[t].owner \in Authors
      BY DEF CommentsInv, CommentTables
    <2>5. Recipients(row) \subseteq Authors \cup {Absent}
      BY <2>2, <2>3, <2>4 DEF Recipients
    <2> QED BY <2>1, <2>5
  <1>3. PICK new : new = [row EXCEPT !.told = u]
    OBVIOUS
  <1>4. new \in Comment /\ new.state = "active" /\ new.on = row.on /\ new.parent = row.parent
    BY <1>1, <1>3 DEF Comment
  <1>5. comment' = [comment EXCEPT ![c] = new] /\ comment \in [Comments -> Comment]
    BY <1>2, <1>3 DEF CommentsInv, CommentTables
  <1>6. /\ comment' \in [Comments -> Comment] /\ comment'[c] = new
        /\ \A k \in Comments \ {c} : comment'[k] = comment[k]
    BY <1>4, <1>5
  <1>7. /\ Taken' = Taken \cup {c} /\ c \notin Taken
        /\ Cardinality(Taken') = Cardinality(Taken) + 1
        /\ Cardinality(Taken) \in Nat /\ Cardinality(Taken') \in Nat
    <2>1. Taken' = Taken \cup {c} /\ c \notin Taken
      BY <1>0, <1>4, <1>6 DEF Taken
    <2>2. PICK T : T = Taken
      OBVIOUS
    <2>3. Cardinality(T \cup {c}) = Cardinality(T) + 1
      BY <2>1, <2>2, FewTaken, FS_AddElement
    <2> QED BY <2>1, <2>2, <2>3, FewTaken
  <1>8. \A k \in Taken : k \in Taken' /\ comment'[k].on = comment[k].on /\ comment'[k].parent = comment[k].parent
    <2>1. Taken \subseteq Comments \ {c}
      BY <1>7 DEF Taken
    <2> QED BY <1>6, <1>7, <2>1
  <1>9. row.on \in Targets /\ target' = Counting(row.on, 1)
    BY <1>1 DEF InsertComment, Placed
  <1>10. /\ target' \in [Targets -> Rows3]
         /\ \A t \in Targets : target'[t].count <= Cardinality(Taken')
    <2>1. target' \in [Targets -> Rows3]
      BY <1>9, CountingIs
    <2>2. ASSUME NEW t \in Targets PROVE target'[t].count <= Cardinality(Taken')
      <3>1. target[t].count \in Nat /\ target[t].count <= Cardinality(Taken)
        BY <1>7 DEF CommentsInv, CommentTables, Count
      <3>2. target'[t].count \in {target[t].count, target[t].count + 1}
        BY <1>9, <3>1, CountingIs
      <3> QED BY <1>7, <3>1, <3>2
    <2> QED BY <2>1, <2>2
  <1>11. Count \subseteq Count'
    <2>1. \A n \in Count : n \in Nat /\ n <= Cardinality(Taken)
      BY <1>7 DEF Count
    <2>2. \A n \in Count : n <= Cardinality(Taken')
      BY <1>7, <2>1
    <2> QED BY <1>7, <2>1, <2>2 DEF Count
  <1>12. /\ worker' \in [Workers -> Request] /\ worker'[p] = Idle
         /\ \A q \in Workers \ {p} : worker'[q] = worker[q]
    <2>1. Idle \in Request
      BY CommentsAssumption DEF Idle, NoComment, Request, Comment
    <2> QED BY <2>1 DEF InsertComment, CommentsInv, CommentTables
  <1>13. CommentTables'
    <2>1. counted' \in {Absent} \cup [Resources -> Count']
      BY <1>0, <1>11 DEF CommentsInv, CommentTables
    <2>2. target' \in [Targets -> [open : BOOLEAN, count : Count', owner : Authors]]
      <3>1. PICK n \in Nat : n = Cardinality(Taken')
        BY <1>7
      <3>2. n <= Cardinality(Taken') /\ \A t \in Targets : target'[t].count <= n
        BY <1>10, <3>1
      <3> QED BY <1>10, <3>2, CountsFit
    <2> QED BY <1>6, <1>12, <2>1, <2>2 DEF CommentTables
  <1>14. ASSUME NEW k \in Taken' PROVE Placed(comment[k])'
    <2>1. CASE k = c
      <3>1. Placed(row)'
        BY <1>1, <1>8, RowsStay
      <3> QED BY <1>4, <1>6, <2>1, <3>1 DEF Placed
    <2>2. CASE k # c
      <3>1. PICK old : old = comment[k]
        OBVIOUS
      <3>2. Placed(old) /\ comment'[k] = old
        BY <1>6, <1>7, <2>2, <3>1 DEF CommentsInv, Taken
      <3>3. Placed(old)'
        BY <1>8, <3>2, RowsStay
      <3> QED BY <3>2, <3>3 DEF Placed
    <2> QED BY <2>1, <2>2
  <1>15. ASSUME NEW q \in Workers, worker'[q].op = "create"
         PROVE  worker'[q].row \in Comment /\ worker'[q].row.state = "active" /\ Placed(worker[q].row)'
    <2>1. q # p
      BY <1>12, <1>15 DEF Idle
    <2>2. PICK old : old = worker[q].row
      OBVIOUS
    <2>3. worker'[q].row = old /\ old \in Comment /\ old.state = "active" /\ Placed(old)
      BY <1>12, <1>15, <2>1, <2>2 DEF CommentsInv
    <2>4. Placed(old)'
      BY <1>8, <2>3, RowsStay
    <2> QED BY <2>3, <2>4 DEF Placed
  <1>16. ASSUME NEW r \in Resources, target[r].count = Cardinality(ActiveOn(r))
         PROVE  target'[r].count = Cardinality(ActiveOn(r)')
    <2>0. r \in Targets
      BY DEF Targets
    <2>1. CASE r = row.on
      <3>1. ActiveOn(r)' = ActiveOn(r) \cup {c} /\ c \notin ActiveOn(r)
        BY <1>0, <1>4, <1>6, <2>1 DEF ActiveOn
      <3>2. PICK A : A = ActiveOn(r)
        OBVIOUS
      <3>3. Cardinality(A \cup {c}) = Cardinality(A) + 1 /\ Cardinality(A) \in Nat
        BY <3>1, <3>2, FewActive, FS_AddElement
      <3>4. target'[r].count = Cardinality(A) + 1
        BY <1>9, <1>16, <2>0, <2>1, <3>2, <3>3, CountingIs
      <3> QED BY <3>1, <3>2, <3>3, <3>4
    <2>2. CASE r # row.on
      <3>1. ActiveOn(r)' = ActiveOn(r)
        BY <1>0, <1>4, <1>6, <2>2 DEF ActiveOn
      <3>2. target'[r].count = target[r].count
        BY <1>9, <2>0, <2>2, CountingIs
      <3> QED BY <1>16, <3>1, <3>2
    <2> QED BY <2>1, <2>2
  <1> QED BY <1>13, <1>14, <1>15, <1>16 DEF CommentsInv

\* A right count stays right when a comment goes.
LEMMA DeletionCounts ==
    ASSUME CommentsInv, NEW c \in Comments, SoftDeletable(c),
           comment' = Deleted(c), target' = Counting(comment[c].on, -1),
           NEW r \in Resources, target[r].count = Cardinality(ActiveOn(r))
    PROVE  target'[r].count = Cardinality(ActiveOn(r)')
  <1>0. r \in Targets
    BY DEF Targets
  <1>1. PICK t \in Targets : t = comment[c].on
    BY DEF SoftDeletable, Taken, CommentsInv, Placed
  <1>2. /\ comment'[c].state = "deleted"
        /\ \A k \in Comments \ {c} : comment'[k] = comment[k]
    BY DEF Deleted, CommentsInv, CommentTables, Comment
  <1>3. CASE r = t
    <2>1. ActiveOn(r)' = ActiveOn(r) \ {c} /\ c \in ActiveOn(r)
      <3>1. c \in ActiveOn(r) /\ c \notin ActiveOn(r)'
        BY <1>1, <1>2, <1>3 DEF ActiveOn, SoftDeletable
      <3>2. \A k \in Comments \ {c} : k \in ActiveOn(r)' <=> k \in ActiveOn(r)
        BY <1>2 DEF ActiveOn
      <3>3. ActiveOn(r) \subseteq Comments /\ ActiveOn(r)' \subseteq Comments
        BY DEF ActiveOn
      <3> QED BY <3>1, <3>2, <3>3
    <2>2. PICK A : A = ActiveOn(r)
      OBVIOUS
    <2>3. Cardinality(A \ {c}) = Cardinality(A) - 1 /\ Cardinality(A) \in Nat /\ Cardinality(A \ {c}) \in Nat
      <3>1. IsFiniteSet(A) /\ c \in A
        BY <2>1, <2>2, FewActive
      <3>2. IsFiniteSet(A \ {c})
        BY <3>1, FS_Subset
      <3> QED BY <3>1, <3>2, FS_RemoveElement, FS_CardinalityType
    <2>4. target'[r].count = Cardinality(A) - 1
      BY <1>0, <1>1, <1>3, <2>2, <2>3, CountingIs
    <2> QED BY <2>1, <2>2, <2>3, <2>4
  <1>4. CASE r # t
    <2>1. ActiveOn(r)' = ActiveOn(r)
      BY <1>1, <1>2, <1>4 DEF ActiveOn, SoftDeletable
    <2>2. target'[r].count = target[r].count
      BY <1>0, <1>1, <1>4, CountingIs
    <2> QED BY <2>1, <2>2
  <1> QED BY <1>3, <1>4

CountRight(r) == target[r].count = Cardinality(ActiveOn(r))

\* Only a refresh with an old snapshot makes a right count wrong.
CountsKept ==
    \A r \in Resources :
        CountRight(r) /\ ~CountRight(r)' => FinishCount /\ counted[r] # Cardinality(ActiveOn(r))

\* A step that leaves comments and counts alone.
LEMMA CountsRemain ==
    ASSUME comment' = comment, \A t \in Targets : target'[t].count = target[t].count
    PROVE  CountsKept
  BY DEF CountsKept, CountRight, ActiveOn, Targets

\* A request that is at work with nothing new.
LEMMA WorkersRemain ==
    ASSUME CommentsInv, NEW p \in Workers, NEW work \in Request, work.op # "create",
           worker' = [worker EXCEPT ![p] = work], UNCHANGED <<target, comment, counted>>
    PROVE  CommentsInv' /\ CountsKept
  <1>1. /\ worker' \in [Workers -> Request]
        /\ \A q \in Workers : worker'[q].op = "create" => worker'[q] = worker[q]
    BY DEF CommentsInv, CommentTables
  <1> QED BY <1>1, TargetsKnown, CommentsRemain, CountsRemain

LEMMA IdleKnown == Idle \in Request /\ Idle.op = "idle"
  BY DEF Idle, NoComment, Request, Comment

LEMMA BeginKeeps ==
    ASSUME CommentsInv, NEW p \in Workers, NEW u \in Authors, NEW t \in Targets,
           NEW parent \in Comments \cup {Absent}, NEW replyTo \in Comments \cup {Absent},
           BeginCreateComment(p, u, t, parent, replyTo)
    PROVE  CommentsInv' /\ CountsKept
  <1>1. PICK row : row = [state |-> "active", on |-> t, by |-> u, parent |-> parent,
                          replyTo |-> IF replyTo = Absent THEN parent ELSE replyTo, told |-> Absent]
    OBVIOUS
  <1>2. row \in Comment /\ row.state = "active" /\ row.on = t /\ row.parent = parent
    BY <1>1 DEF Comment
  <1>3. Placed(row)
    BY <1>2 DEF BeginCreateComment, Answerable, Placed, ActiveOn
  <1>4. PICK work : work = [op |-> "create", row |-> row]
    OBVIOUS
  <1>5. work \in Request /\ work.row = row
    BY <1>2, <1>4 DEF Request
  <1>6. worker' = [worker EXCEPT ![p] = work] /\ UNCHANGED <<target, comment, counted>>
    BY <1>1, <1>4 DEF BeginCreateComment
  <1>7. /\ worker' \in [Workers -> Request] /\ worker'[p] = work
        /\ \A q \in Workers \ {p} : worker'[q] = worker[q]
    BY <1>5, <1>6 DEF CommentsInv, CommentTables
  <1>8. ASSUME NEW q \in Workers, worker'[q].op = "create"
        PROVE  \/ worker'[q] = worker[q]
               \/ worker'[q].row \in Comment /\ worker'[q].row.state = "active" /\ Placed(worker'[q].row)
    <2>1. CASE q = p
      <3>1. worker'[q].row = row
        BY <1>5, <1>7, <2>1
      <3> QED BY <1>2, <1>3, <3>1
    <2>2. CASE q # p
      BY <1>7, <2>2
    <2> QED BY <2>1, <2>2
  <1> QED BY <1>6, <1>7, <1>8, TargetsKnown, CommentsRemain, CountsRemain

LEMMA RefreshKeeps ==
    ASSUME CommentsInv, BeginCount \/ FinishCount
    PROVE  CommentsInv' /\ CountsKept
  <1>1. CASE BeginCount
    <2>0. /\ counted' = [r \in Resources |-> Cardinality(ActiveOn(r))]
          /\ UNCHANGED <<target, comment, worker>>
      BY <1>1 DEF BeginCount
    <2>1. Taken' = Taken /\ Count' = Count
      BY <2>0 DEF Taken, Count
    <2>2. counted' \in [Resources -> Count]
      <3>1. ASSUME NEW r \in Resources PROVE Cardinality(ActiveOn(r)) \in Count
        <4>1. /\ Cardinality(ActiveOn(r)) \in Nat /\ Cardinality(Taken) \in Nat
              /\ Cardinality(ActiveOn(r)) <= Cardinality(Taken)
          BY FewActive, FewTaken
        <4> QED BY <4>1 DEF Count
      <3> QED BY <2>0, <3>1
    <2>3. CommentTables'
      BY <2>0, <2>1, <2>2 DEF CommentsInv, CommentTables
    <2>4. CommentsInv'
      BY <2>0, <2>1, <2>3 DEF CommentsInv, Placed
    <2> QED BY <2>0, <2>4, CountsRemain
  <1>2. CASE FinishCount
    <2>0. /\ target' = [t \in Targets |-> IF t \in Resources THEN [target[t] EXCEPT !.count = counted[t]] ELSE target[t]]
          /\ counted' = Absent /\ counted # Absent /\ UNCHANGED <<comment, worker>>
      BY <1>2 DEF FinishCount
    <2>1. Taken' = Taken /\ Count' = Count
      BY <2>0 DEF Taken, Count
    <2>2. counted \in [Resources -> Count]
      BY <2>0 DEF CommentsInv, CommentTables
    <2>3. target' \in [Targets -> [open : BOOLEAN, count : Count, owner : Authors]]
      <3>1. ASSUME NEW t \in Targets
            PROVE  target'[t] \in [open : BOOLEAN, count : Count, owner : Authors]
        <4>1. target[t] \in [open : BOOLEAN, count : Count, owner : Authors]
          BY DEF CommentsInv, CommentTables
        <4>2. CASE t \in Resources
          BY <2>0, <2>2, <4>1, <4>2
        <4>3. CASE t \notin Resources
          BY <2>0, <4>1, <4>3
        <4> QED BY <4>2, <4>3
      <3> QED BY <2>0, <3>1
    <2>4. CommentTables'
      BY <2>0, <2>1, <2>3 DEF CommentsInv, CommentTables
    <2>5. CommentsInv'
      BY <2>0, <2>1, <2>4 DEF CommentsInv, Placed
    <2>6. ASSUME NEW r \in Resources, ~CountRight(r)' PROVE counted[r] # Cardinality(ActiveOn(r))
      <3>1. ActiveOn(r)' = ActiveOn(r)
        BY <2>0 DEF ActiveOn
      <3>2. target'[r].count = counted[r]
        <4>1. target[r] \in [open : BOOLEAN, count : Count, owner : Authors]
          BY DEF CommentsInv, CommentTables, Targets
        <4>2. target'[r] = [target[r] EXCEPT !.count = counted[r]]
          BY <2>0 DEF Targets
        <4> QED BY <4>1, <4>2
      <3> QED BY <2>6, <3>1, <3>2 DEF CountRight
    <2> QED BY <1>2, <2>5, <2>6 DEF CountsKept
  <1> QED BY <1>1, <1>2

\* What is commented on closes; its comments and counts stay.
LEMMA ClosingIs ==
    ASSUME CommentsInv, NEW t \in Targets, target' = [target EXCEPT ![t].open = FALSE]
    PROVE  /\ target' \in [Targets -> Rows3] /\ \A s \in Targets : target'[s].count = target[s].count
           /\ ~target'[t].open /\ \A s \in Targets \ {t} : target'[s] = target[s]
  <1>1. PICK row \in Rows3 : row = target[t]
    BY TargetsKnown
  <1>2. PICK new : new = [row EXCEPT !.open = FALSE]
    OBVIOUS
  <1>3. new \in Rows3 /\ new.count = row.count /\ ~new.open
    BY <1>2 DEF Rows3
  <1>4. target' = [target EXCEPT ![t] = new]
    BY <1>1, <1>2
  <1> QED BY <1>1, <1>3, <1>4, TargetsKnown

LEMMA SoftDeleteKeeps ==
    ASSUME CommentsInv, NEW p \in Workers, SoftDeleteComment(p)
    PROVE  CommentsInv' /\ CountsKept
  <1>1. worker[p].op = "delete" /\ worker' = [worker EXCEPT ![p] = Idle] /\ counted' = counted
    BY DEF SoftDeleteComment
  <1>2. PICK c \in Comments : c = worker[p].id
    BY <1>1 DEF CommentsInv, CommentTables, Request
  <1>3. /\ worker' \in [Workers -> Request]
        /\ \A q \in Workers : worker'[q].op = "create" => worker'[q] = worker[q]
    BY <1>1, IdleKnown DEF CommentsInv, CommentTables
  <1>4. CASE SoftDeletable(c)
    <2>1. comment' = Deleted(c) /\ target' = Counting(comment[c].on, -1)
      BY <1>2, <1>4 DEF SoftDeleteComment
    <2>2. CommentsInv'
      BY <1>1, <1>3, <1>4, <2>1, DeletionKeeps
    <2>3. CountsKept
      BY <1>4, <2>1, DeletionCounts DEF CountsKept, CountRight
    <2> QED BY <2>2, <2>3
  <1>5. CASE ~SoftDeletable(c)
    <2>1. UNCHANGED <<comment, target>>
      BY <1>2, <1>5 DEF SoftDeleteComment
    <2> QED BY <1>1, <2>1, IdleKnown, WorkersRemain
  <1> QED BY <1>4, <1>5

LEMMA CommentsNext_Inv ==
    ASSUME CommentsInv, CommentsNext
    PROVE  CommentsInv' /\ CountsKept
  <1>1. ASSUME NEW p \in Workers, NEW c \in Comments, InsertComment(p, c)
        PROVE  CommentsInv' /\ CountsKept
    BY <1>1, InsertKeeps DEF CountsKept, CountRight
  <1>2. ASSUME NEW p \in Workers, NEW c \in Comments, BeginDeleteComment(p, c)
        PROVE  CommentsInv' /\ CountsKept
    <2>1. PICK work : work = [op |-> "delete", id |-> c]
      OBVIOUS
    <2>2. work \in Request /\ work.op = "delete"
      BY <2>1 DEF Request
    <2>3. worker' = [worker EXCEPT ![p] = work] /\ UNCHANGED <<target, comment, counted>>
      BY <1>2, <2>1 DEF BeginDeleteComment
    <2> QED BY <2>2, <2>3, WorkersRemain
  <1>3. ASSUME NEW p \in Workers, DropRequest(p) PROVE CommentsInv' /\ CountsKept
    BY <1>3, IdleKnown, WorkersRemain DEF DropRequest
  <1>4. ASSUME NEW t \in Targets, CloseTarget(t) PROVE CommentsInv' /\ CountsKept
    <2>1. target' = [target EXCEPT ![t].open = FALSE] /\ UNCHANGED <<comment, worker, counted>>
      BY <1>4 DEF CloseTarget
    <2>2. worker' \in [Workers -> Request]
      BY <2>1 DEF CommentsInv, CommentTables
    <2> QED BY <2>1, <2>2, ClosingIs, CommentsRemain, CountsRemain
  <1> QED BY <1>1, <1>2, <1>3, <1>4, BeginKeeps, SoftDeleteKeeps, RefreshKeeps DEF CommentsNext

-----------------------------------------------------------------------------
\* Moderation

\* What is not taken back: a comment is never free again, nor active when it was deleted, and
\* nothing that was closed opens.
Lasting ==
    /\ \A c \in Comments :
          /\ comment[c].state # "free" => comment'[c].state # "free"
          /\ comment[c].state = "deleted" => comment'[c].state = "deleted"
    /\ \A t \in Targets : ~target[t].open => ~target'[t].open

LEMMA CommentsLast ==
    ASSUME CommentsInv, CommentsNext
    PROVE  Lasting
  <1>0. /\ comment \in [Comments -> Comment]
        /\ target \in [Targets -> Rows3]
    BY TargetsKnown DEF CommentsInv, CommentTables
  <1>1. ASSUME comment' = comment, target' = target PROVE Lasting
    BY <1>1 DEF Lasting
  <1>2. ASSUME NEW p \in Workers, NEW c \in Comments, InsertComment(p, c) PROVE Lasting
    <2>1. PICK u : comment' = [comment EXCEPT ![c] = [worker[p].row EXCEPT !.told = u]]
      BY <1>2 DEF InsertComment
    <2>2. comment[c].state = "free" /\ \A k \in Comments \ {c} : comment'[k] = comment[k]
      BY <1>0, <1>2, <2>1 DEF InsertComment
    <2>3. worker[p].op = "create" /\ target' = Counting(worker[p].row.on, 1)
      BY <1>2 DEF InsertComment
    <2>4. PICK row \in Comment : row = worker[p].row /\ row.state = "active" /\ row.on \in Targets
      BY <2>3 DEF CommentsInv, Placed
    <2>5. comment'[c].state = "active"
      BY <1>0, <2>1, <2>4 DEF Comment
    <2>6. \A t \in Targets : target'[t].open = target[t].open
      BY <2>3, <2>4, CountingIs
    <2> QED BY <2>2, <2>5, <2>6 DEF Lasting
  <1>3. ASSUME NEW p \in Workers, SoftDeleteComment(p) PROVE Lasting
    <2>1. PICK c \in Comments : c = worker[p].id
      BY <1>3 DEF SoftDeleteComment, CommentsInv, CommentTables, Request
    <2>2. CASE SoftDeletable(c)
      <3>1. comment' = Deleted(c) /\ target' = Counting(comment[c].on, -1)
        BY <1>3, <2>1, <2>2 DEF SoftDeleteComment
      <3>2. comment'[c].state = "deleted" /\ \A k \in Comments \ {c} : comment'[k] = comment[k]
        BY <1>0, <3>1 DEF Deleted, Comment
      <3>3. comment[c].on \in Targets
        BY <2>2 DEF SoftDeletable, CommentsInv, Taken, Placed
      <3>4. \A t \in Targets : target'[t].open = target[t].open
        BY <3>1, <3>3, CountingIs
      <3> QED BY <3>2, <3>4 DEF Lasting
    <2>3. CASE ~SoftDeletable(c)
      BY <1>1, <1>3, <2>1, <2>3 DEF SoftDeleteComment
    <2> QED BY <2>2, <2>3
  <1>4. ASSUME NEW t \in Targets, CloseTarget(t) PROVE Lasting
    BY <1>4, ClosingIs DEF CloseTarget, Lasting
  <1>5. ASSUME FinishCount PROVE Lasting
    <2>1. comment' = comment
          /\ target' = [t \in Targets |-> IF t \in Resources THEN [target[t] EXCEPT !.count = counted[t]] ELSE target[t]]
      BY <1>5 DEF FinishCount
    <2>2. \A t \in Targets : target'[t].open = target[t].open
      BY <1>0, <2>1 DEF Rows3
    <2> QED BY <2>1, <2>2 DEF Lasting
  <1>6. ASSUME NEW p \in Workers, NEW c \in Comments, BeginDeleteComment(p, c) PROVE Lasting
    BY <1>1, <1>6 DEF BeginDeleteComment
  <1>7. ASSUME NEW p \in Workers, NEW u, NEW t, NEW parent, NEW replyTo, BeginCreateComment(p, u, t, parent, replyTo)
        PROVE  Lasting
    BY <1>1, <1>7 DEF BeginCreateComment
  <1>8. ASSUME BeginCount PROVE Lasting
    BY <1>1, <1>8 DEF BeginCount
  <1>9. ASSUME NEW p \in Workers, DropRequest(p) PROVE Lasting
    BY <1>1, <1>9 DEF DropRequest
  <1> QED BY <1>2, <1>3, <1>4, <1>5, <1>6, <1>7, <1>8, <1>9 DEF CommentsNext

\* A comment that is reported was written.
ReportsKnown ==
    \A r \in Reports : report[r].about \in Comments => comment[report[r].about].state # "free"

\* What a resolved report is about is gone, a resource by this report and no other.
Effective ==
    /\ \A r \in Reports :
          report[r].status = "resolved" =>
             /\ report[r].about \in Comments => comment[report[r].about].state = "deleted"
             /\ report[r].about \in Resources => ~target[report[r].about].open
    /\ \A r, q \in Reports :
          /\ report[r].status = "resolved" /\ report[q].status = "resolved"
          /\ report[r].about = report[q].about /\ report[r].about \in Resources
          => r = q

ModerationInv == CommentsInv /\ ModerationTypeOK /\ ReportsKnown /\ Effective

\* Resolutions stand while the reports do.
LEMMA ResolutionsLast ==
    ASSUME ReportsKnown, Effective, Lasting, report' = report
    PROVE  ReportsKnown' /\ Effective'
  <1>1. ReportsKnown'
    BY DEF ReportsKnown, Lasting
  <1>2. Effective'
    BY DEF Effective, Lasting, Targets
  <1> QED BY <1>1, <1>2

LEMMA OneResolves == Effective => OneResolution
  <1> SUFFICES ASSUME Effective PROVE OneResolution
    OBVIOUS
  <1>1. ASSUME NEW c \in Comments, Resolved(c) # {} PROVE comment[c].state = "deleted"
    BY <1>1 DEF Effective, Resolved
  <1>2. ASSUME NEW x \in Resources, Resolved(x) # {}
        PROVE  ~target[x].open /\ Cardinality(Resolved(x)) = 1
    <2>1. PICK r \in Reports : r \in Resolved(x)
      BY <1>2 DEF Resolved
    <2>2. ~target[x].open /\ Resolved(x) = {r}
      BY <2>1 DEF Effective, Resolved
    <2> QED BY <2>2, FS_Singleton
  <1> QED BY <1>1, <1>2 DEF OneResolution

\* A new status of a report, its notification, and an administrator who is done.
LEMMA SaveIs ==
    ASSUME ModerationTypeOK, NEW a \in Admins, NEW r \in Reports, r = handler[a].on,
           NEW status \in {"resolved", "dismissed"}, Save(a, status)
    PROVE  /\ ModerationTypeOK'
           /\ report'[r].status = status /\ report'[r].about = report[r].about
           /\ \A q \in Reports \ {r} : report'[q] = report[q]
  <1>1. PICK row \in Report : row = report[r]
    BY DEF ModerationTypeOK
  <1>2. PICK new : new = [row EXCEPT !.status = status]
    OBVIOUS
  <1>3. new \in Report /\ new.status = status /\ new.about = row.about
    BY <1>2 DEF Report
  <1>4. report' = [report EXCEPT ![r] = new] /\ report \in [Reports -> Report]
    BY <1>1, <1>2 DEF Save, ModerationTypeOK
  <1>5. /\ informed' \in [Reports -> SUBSET {"resolved", "dismissed"}]
        /\ feedback' = feedback /\ handler' = [handler EXCEPT ![a] = NoHandler]
    BY DEF Save, ModerationTypeOK
  <1>6. ModerationTypeOK'
    BY <1>3, <1>4, <1>5 DEF ModerationTypeOK
  <1> QED BY <1>1, <1>3, <1>4, <1>6

\* What a resolution does to what was reported: the comment is deleted, the resource, open until
\* then, is closed.
LEMMA EffectIs ==
    ASSUME CommentsInv, NEW x, Effect(x), UNCHANGED <<worker, counted>>
    PROVE  /\ CommentsInv' /\ CountsKept /\ Lasting
           /\ x \in Reported
           /\ x \in Comments /\ comment[x].state # "free" => comment'[x].state = "deleted"
           /\ x \in Resources => target[x].open /\ ~target'[x].open
  <1>0. worker' \in [Workers -> Request] /\ \A q \in Workers : worker'[q] = worker[q]
    BY DEF CommentsInv, CommentTables
  <1>1. CASE x \in Comments
    <2>0. x \notin Resources /\ x \notin Pages
      BY <1>1, CommentsAssumption
    <2>1. CASE SoftDeletable(x)
      <3>1. comment' = Deleted(x) /\ target' = Counting(comment[x].on, -1)
        BY <1>1, <2>0, <2>1 DEF Effect
      <3>2. CommentsInv'
        BY <1>0, <1>1, <2>1, <3>1, DeletionKeeps
      <3>3. CountsKept
        BY <1>1, <2>1, <3>1, DeletionCounts DEF CountsKept, CountRight
      <3>4. comment'[x].state = "deleted" /\ \A k \in Comments \ {x} : comment'[k] = comment[k]
        BY <1>1, <3>1 DEF Deleted, Comment, CommentsInv, CommentTables
      <3>5. \A t \in Targets : target'[t].open = target[t].open
        <4>1. comment[x].on \in Targets
          BY <1>1, <2>1 DEF SoftDeletable, CommentsInv, Taken, Placed
        <4> QED BY <3>1, <4>1, CountingIs
      <3> QED BY <1>1, <2>0, <3>2, <3>3, <3>4, <3>5 DEF Lasting, Reported
    <2>2. CASE ~SoftDeletable(x)
      <3>1. UNCHANGED <<comment, target>>
        BY <1>1, <2>0, <2>2 DEF Effect
      <3>2. CommentsInv' /\ CountsKept
        BY <1>0, <3>1, TargetsKnown, CommentsRemain, CountsRemain
      <3>3. comment[x].state # "free" => comment[x].state = "deleted"
        BY <1>1, <2>2 DEF SoftDeletable, CommentsInv, CommentTables, Comment
      <3> QED BY <1>1, <2>0, <3>1, <3>2, <3>3 DEF Lasting, Reported
    <2> QED BY <2>1, <2>2
  <1>2. CASE x \in Resources
    <2>0. x \notin Comments /\ x \notin Pages /\ x \in Targets
      BY <1>2, CommentsAssumption DEF Targets
    <2>1. target[x].open /\ target' = [target EXCEPT ![x].open = FALSE] /\ comment' = comment
      BY <1>2, <2>0 DEF Effect
    <2>2. CommentsInv' /\ CountsKept
      BY <1>0, <2>0, <2>1, ClosingIs, CommentsRemain, CountsRemain
    <2> QED BY <2>0, <2>1, <2>2, ClosingIs DEF Lasting, Reported
  <1>3. CASE x \in Pages
    <2>0. x \notin Comments /\ x \notin Resources /\ x \in Targets
      BY <1>3, CommentsAssumption DEF Targets
    <2>1. UNCHANGED <<comment, target>>
      BY <1>3, <2>0 DEF Effect
    <2>2. CommentsInv' /\ CountsKept
      BY <1>0, <2>1, TargetsKnown, CommentsRemain, CountsRemain
    <2> QED BY <2>0, <2>1, <2>2 DEF Lasting, Reported
  <1> QED BY <1>1, <1>2, <1>3 DEF Effect

LEMMA ResolveKeeps ==
    ASSUME ModerationInv, NEW a \in Admins, ResolveReport(a)
    PROVE  ModerationInv' /\ CountsKept
  <1>1. PICK r \in Reports : r = handler[a].on
    BY DEF ResolveReport
  <1>2. PICK x : x = report[r].about
    OBVIOUS
  <1>3. Effect(x) /\ Save(a, "resolved") /\ UNCHANGED <<worker, counted>>
    BY <1>1, <1>2 DEF ResolveReport
  <1>4. /\ CommentsInv' /\ CountsKept /\ Lasting
        /\ x \in Comments /\ comment[x].state # "free" => comment'[x].state = "deleted"
        /\ x \in Resources => target[x].open /\ ~target'[x].open
    BY <1>3, EffectIs DEF ModerationInv
  <1>5. /\ ModerationTypeOK' /\ report'[r].status = "resolved" /\ report'[r].about = x
        /\ \A q \in Reports \ {r} : report'[q] = report[q]
    BY <1>1, <1>2, <1>3, SaveIs DEF ModerationInv
  <1>6. ReportsKnown'
    <2>1. ASSUME NEW q \in Reports, report'[q].about \in Comments
          PROVE  comment'[report'[q].about].state # "free"
      <3>1. report'[q].about = report[q].about
        BY <1>2, <1>5
      <3> QED BY <1>4, <2>1, <3>1 DEF ModerationInv, ReportsKnown, Lasting
    <2> QED BY <2>1 DEF ReportsKnown
  <1>7. Effective'
    <2>1. x \in Comments => comment'[x].state = "deleted"
      BY <1>2, <1>4 DEF ModerationInv, ReportsKnown
    <2>2. ASSUME NEW q \in Reports, report'[q].status = "resolved"
          PROVE  /\ report'[q].about \in Comments => comment'[report'[q].about].state = "deleted"
                 /\ report'[q].about \in Resources => ~target'[report'[q].about].open
      <3>1. CASE q = r
        BY <1>4, <1>5, <2>1, <3>1
      <3>2. CASE q # r
        <4>1. report'[q] = report[q]
          BY <1>5, <3>2
        <4> QED BY <1>4, <2>2, <4>1 DEF ModerationInv, Effective, Lasting, Targets
      <3> QED BY <3>1, <3>2
    <2>3. ASSUME NEW q \in Reports, q # r, report'[q].status = "resolved", x \in Resources
          PROVE  report'[q].about # x
      <3>1. report'[q] = report[q]
        BY <1>5, <2>3
      <3> QED BY <1>4, <2>3, <3>1 DEF ModerationInv, Effective
    <2>4. ASSUME NEW q \in Reports, NEW s \in Reports, report'[q].status = "resolved", report'[s].status = "resolved",
                 report'[q].about = report'[s].about, report'[q].about \in Resources
          PROVE  q = s
      <3>1. CASE q = r \/ s = r
        BY <1>5, <2>3, <2>4, <3>1
      <3>2. CASE q # r /\ s # r
        <4>1. report'[q] = report[q] /\ report'[s] = report[s]
          BY <1>5, <3>2
        <4> QED BY <2>4, <4>1 DEF ModerationInv, Effective
      <3> QED BY <3>1, <3>2
    <2> QED BY <2>2, <2>4 DEF Effective
  <1> QED BY <1>4, <1>5, <1>6, <1>7 DEF ModerationInv

\* A step that leaves the comments, and what the reports say, alone.
LEMMA ModerationRemains ==
    ASSUME ModerationInv, UNCHANGED commentVars, ModerationTypeOK',
           \A q \in Reports :
              /\ report'[q].about = report[q].about \/ (report'[q].about \in Comments => comment[report'[q].about].state # "free")
              /\ report'[q].status = "resolved" => report'[q] = report[q]
    PROVE  ModerationInv' /\ CountsKept
  <1>1. CommentsInv'
    <2>1. Taken' = Taken /\ Count' = Count
      BY DEF commentVars, Taken, Count
    <2> QED BY <2>1 DEF commentVars, ModerationInv, CommentsInv, CommentTables, Placed
  <1>2. CountsKept
    BY CountsRemain DEF commentVars
  <1>3. ReportsKnown'
    BY DEF commentVars, ModerationInv, ReportsKnown
  <1>4. Effective'
    BY DEF commentVars, ModerationInv, Effective
  <1> QED BY <1>1, <1>2, <1>3, <1>4 DEF ModerationInv

LEMMA ModerationNext_Inv ==
    ASSUME ModerationInv, [ModerationNext]_<<commentVars, moderationVars>>
    PROVE  ModerationInv' /\ CountsKept
  <1>0. ModerationTypeOK /\ CommentsInv
    BY DEF ModerationInv
  <1>1. CASE CommentsNext /\ UNCHANGED moderationVars
    <2>1. CommentsInv' /\ CountsKept /\ Lasting
      BY <1>0, <1>1, CommentsNext_Inv, CommentsLast
    <2>2. ReportsKnown' /\ Effective'
      BY <1>1, <2>1, ResolutionsLast DEF ModerationInv, moderationVars
    <2>3. ModerationTypeOK'
      BY <1>0, <1>1 DEF ModerationTypeOK, moderationVars
    <2> QED BY <2>1, <2>2, <2>3 DEF ModerationInv
  <1>2. ASSUME NEW r \in Reports, NEW x \in Reported, CreateReport(r, x)
        PROVE  ModerationInv' /\ CountsKept
    <2>1. PICK new : new = [status |-> "pending", about |-> x]
      OBVIOUS
    <2>2. new \in Report /\ new.status = "pending" /\ new.about = x
      BY <2>1 DEF Report
    <2>3. report' = [report EXCEPT ![r] = new] /\ UNCHANGED <<commentVars, feedback, informed, handler>>
      BY <1>2, <2>1 DEF CreateReport
    <2>4. /\ report'[r] = new /\ \A q \in Reports \ {r} : report'[q] = report[q]
          /\ report' \in [Reports -> Report]
      BY <1>0, <2>2, <2>3 DEF ModerationTypeOK
    <2>5. ModerationTypeOK'
      BY <1>0, <2>3, <2>4 DEF ModerationTypeOK
    <2>6. x \in Comments => comment[x].state # "free"
      BY <1>2 DEF CreateReport, Reportable
    <2>7. ASSUME NEW q \in Reports
          PROVE  /\ report'[q].about = report[q].about \/ (report'[q].about \in Comments => comment[report'[q].about].state # "free")
                 /\ report'[q].status = "resolved" => report'[q] = report[q]
      BY <2>2, <2>4, <2>6
    <2> QED BY <2>3, <2>5, <2>7, ModerationRemains
  <1>3. ASSUME NEW a \in Admins, DismissReport(a) PROVE ModerationInv' /\ CountsKept
    <2>1. PICK r \in Reports : r = handler[a].on
      BY <1>3 DEF DismissReport
    <2>2. Save(a, "dismissed") /\ UNCHANGED commentVars
      BY <1>3 DEF DismissReport
    <2>3. /\ ModerationTypeOK' /\ report'[r].status = "dismissed" /\ report'[r].about = report[r].about
          /\ \A q \in Reports \ {r} : report'[q] = report[q]
      BY <1>0, <2>1, <2>2, SaveIs
    <2>4. ASSUME NEW q \in Reports
          PROVE  /\ report'[q].about = report[q].about
                 /\ report'[q].status = "resolved" => report'[q] = report[q]
      BY <2>3
    <2> QED BY <2>2, <2>3, <2>4, ModerationRemains
  <1>4. ASSUME NEW now, UNCHANGED <<commentVars, report, informed>>,
               handler' = now, now \in [Admins -> {NoHandler} \cup [on : Reports] \cup [on : Feedbacks, status : FeedbackStatuses]],
               feedback' \in [Feedbacks -> FeedbackStatuses \cup {"none"}]
        PROVE  ModerationInv' /\ CountsKept
    <2>1. ModerationTypeOK'
      BY <1>0, <1>4 DEF ModerationTypeOK
    <2> QED BY <1>4, <2>1, ModerationRemains
  <1>5. ASSUME NEW a \in Admins, NEW r \in Reports, ReadReport(a, r)
        PROVE  ModerationInv' /\ CountsKept
    BY <1>0, <1>4, <1>5 DEF ReadReport, ModerationTypeOK
  <1>6. ASSUME NEW a \in Admins, FailHandling(a) PROVE ModerationInv' /\ CountsKept
    BY <1>0, <1>4, <1>6 DEF FailHandling, ModerationTypeOK
  <1>7. ASSUME NEW f \in Feedbacks, CreateFeedback(f) PROVE ModerationInv' /\ CountsKept
    BY <1>0, <1>4, <1>7 DEF CreateFeedback, ModerationTypeOK, FeedbackStatuses
  <1>8. ASSUME NEW a \in Admins, NEW f \in Feedbacks, ReadFeedback(a, f)
        PROVE  ModerationInv' /\ CountsKept
    <2>1. feedback[f] \in FeedbackStatuses
      BY <1>0, <1>8 DEF ReadFeedback, ModerationTypeOK
    <2>2. handler' = [handler EXCEPT ![a] = [on |-> f, status |-> feedback[f]]]
          /\ UNCHANGED <<commentVars, report, feedback, informed>>
      BY <1>8 DEF ReadFeedback
    <2> QED BY <1>0, <1>4, <2>1, <2>2 DEF ModerationTypeOK
  <1>9. ASSUME NEW a \in Admins, NEW s \in FeedbackStatuses \cup {Absent}, SaveFeedback(a, s)
        PROVE  ModerationInv' /\ CountsKept
    <2>1. handler[a].on \in Feedbacks
      BY <1>9 DEF SaveFeedback
    <2>2. handler[a] \in [on : Feedbacks, status : FeedbackStatuses]
      <3>1. handler[a] \in {NoHandler} \cup [on : Reports] \cup [on : Feedbacks, status : FeedbackStatuses]
        BY <1>0 DEF ModerationTypeOK
      <3>2. handler[a] # NoHandler /\ handler[a] \notin [on : Reports]
        BY <2>1, ModerationAssumption DEF NoHandler
      <3> QED BY <3>1, <3>2
    <2>3. PICK new : new = IF s # Absent THEN s ELSE IF handler[a].status = "pending" THEN "processing" ELSE handler[a].status
      OBVIOUS
    <2>4. new \in FeedbackStatuses
      BY <2>2, <2>3 DEF FeedbackStatuses
    <2>5. feedback' = [feedback EXCEPT ![handler[a].on] = new] /\ handler' = [handler EXCEPT ![a] = NoHandler]
          /\ UNCHANGED <<commentVars, report, informed>>
      BY <1>9, <2>3 DEF SaveFeedback
    <2> QED BY <1>0, <1>4, <2>1, <2>4, <2>5 DEF ModerationTypeOK
  <1>10. CASE UNCHANGED <<commentVars, moderationVars>>
    BY <1>0, <1>4, <1>10 DEF moderationVars, ModerationTypeOK
  <1>11. CASE ReportsNext
    BY <1>2, <1>3, <1>5, <1>6, <1>11, ResolveKeeps DEF ReportsNext
  <1>12. CASE FeedbackNext
    BY <1>6, <1>7, <1>8, <1>9, <1>12 DEF FeedbackNext
  <1> QED BY <1>1, <1>10, <1>11, <1>12 DEF ModerationNext

LEMMA ModerationInit_Inv == CommentsInit /\ ModerationInit => ModerationInv
  <1> SUFFICES ASSUME CommentsInit, ModerationInit PROVE ModerationInv
    OBVIOUS
  <1>1. Taken = {} /\ 0 \in Count
    <2>1. Taken = {}
      BY DEF CommentsInit, Taken, NoComment
    <2>2. 0 \in 0 .. Cardinality(Taken)
      BY FewTaken
    <2> QED BY <2>1, <2>2 DEF Count
  <1>2. CommentsInv
    <2>1. NoComment \in Comment
      BY DEF NoComment, Comment
    <2>2. (CHOOSE u \in Authors : TRUE) \in Authors
      BY CommentsAssumption
    <2>3. CommentTables
      BY <1>1, <2>1, <2>2, IdleKnown DEF CommentsInit, CommentTables
    <2> QED BY <1>1, <2>3, IdleKnown DEF CommentsInit, CommentsInv
  <1>3. ModerationTypeOK
    BY DEF ModerationInit, ModerationTypeOK, Report
  <1>4. ReportsKnown /\ Effective
    BY CommentsAssumption DEF ModerationInit, ReportsKnown, Effective
  <1> QED BY <1>2, <1>3, <1>4 DEF ModerationInv

LEMMA ModerationInvariant == ModerationSpec => []ModerationInv
  <1>1. ModerationInv /\ [ModerationNext]_<<commentVars, moderationVars>> => ModerationInv'
    BY ModerationNext_Inv
  <1> QED BY <1>1, ModerationInit_Inv, PTL DEF ModerationSpec

\* The count of a resource is what its readers are shown, and what is hidden under deleted
\* comments; only a refresh during which a comment was written or deleted makes it wrong.
THEOREM CountsAreShown == ModerationSpec => CommentCountExplained
  <1>1. ModerationInv /\ ModerationInv' /\ [ModerationNext]_<<commentVars, moderationVars>>
        => [\A r \in Resources :
               LET shown == Cardinality(ListedOn(r)) + Cardinality(HiddenOn(r)) IN
               target[r].count = shown /\ ~ target'[r].count = shown'
               => FinishCount /\ counted[r] # Cardinality(ActiveOn(r))]_commentVars
    <2> SUFFICES ASSUME ModerationInv, ModerationInv', [ModerationNext]_<<commentVars, moderationVars>>,
                        NEW r \in Resources,
                        target[r].count = Seen(r), ~(target'[r].count = Seen(r)')
                 PROVE  FinishCount /\ counted[r] # Cardinality(ActiveOn(r))
      BY DEF Seen
    <2>1. CommentsInv /\ CommentsInv'
      BY DEF ModerationInv
    <2>2. CountRight(r) /\ ~CountRight(r)'
      BY <2>1, SeenAreActive, SeenAreActiveThen DEF CountRight
    <2>3. CountsKept
      BY ModerationNext_Inv
    <2> QED BY <2>2, <2>3 DEF CountsKept
  <1> QED BY <1>1, ModerationInvariant, PTL DEF ModerationSpec, CommentCountExplained

\* How far the review of every report is, in the words of Review.
Judged == [r \in Reports |-> Verdict(report[r].status)]
Reviewing == [a \in Admins |-> IF handler[a].on \in Reports THEN handler[a].on ELSE Absent]
Heard == [r \in Reports |-> {Verdict(s) : s \in informed[r]}]

LEMMA VerdictIs ==
    /\ Verdict("none") = "none" /\ Verdict("pending") = "pending"
    /\ Verdict("resolved") = "accepted" /\ Verdict("dismissed") = "rejected"
  BY DEF Verdict

LEMMA ReviewingIs ==
    ASSUME NEW a \in Admins, NEW new, handler' = [handler EXCEPT ![a] = new], ModerationTypeOK
    PROVE  Reviewing' = [Reviewing EXCEPT ![a] = IF new.on \in Reports THEN new.on ELSE Absent]
  <1>1. DOMAIN handler = Admins
    BY DEF ModerationTypeOK
  <1> QED BY <1>1 DEF Reviewing

LEMMA SaveDecides ==
    ASSUME ModerationTypeOK, NEW a \in Admins, handler[a].on \in Reports,
           NEW status \in {"resolved", "dismissed"}, Save(a, status)
    PROVE  ReportReview!Next
  <1>1. PICK r \in Reports : r = handler[a].on
    OBVIOUS
  <1>2. PICK v : v = Verdict(status)
    OBVIOUS
  <1>3. v \in {"accepted", "rejected"}
    BY <1>2, VerdictIs
  <1>4. report' = [report EXCEPT ![r].status = status] /\ informed' = [informed EXCEPT ![r] = @ \cup {status}]
        /\ handler' = [handler EXCEPT ![a] = NoHandler]
    BY <1>1 DEF Save
  <1>5. Reviewing[a] = r /\ r # Absent
    BY <1>1, ModerationAssumption DEF Reviewing
  <1>6. Reviewing' = [Reviewing EXCEPT ![a] = Absent]
    <2>1. (IF NoHandler.on \in Reports THEN NoHandler.on ELSE Absent) = Absent
      BY DEF NoHandler
    <2> QED BY <1>4, <2>1, ReviewingIs
  <1>7. Judged' = [Judged EXCEPT ![r] = v]
    <2>1. report'[r].status = status /\ \A q \in Reports \ {r} : report'[q] = report[q]
      <3>1. report \in [Reports -> Report]
        BY DEF ModerationTypeOK
      <3> QED BY <1>4, <3>1 DEF Report
    <2> QED BY <1>2, <2>1 DEF Judged
  <1>8. Heard' = [Heard EXCEPT ![r] = @ \cup {v}]
    <2>1. informed'[r] = informed[r] \cup {status} /\ \A q \in Reports \ {r} : informed'[q] = informed[q]
      <3>1. DOMAIN informed = Reports
        BY DEF ModerationTypeOK
      <3> QED BY <1>4, <3>1
    <2>2. Heard'[r] = Heard[r] \cup {v}
      BY <1>2, <2>1 DEF Heard
    <2>3. \A q \in Reports \ {r} : Heard'[q] = Heard[q]
      BY <2>1 DEF Heard
    <2>4. Heard = [q \in Reports |-> Heard[q]] /\ Heard' = [q \in Reports |-> Heard'[q]]
      BY DEF Heard
    <2> QED BY <2>2, <2>3, <2>4
  <1>9. ReportReview!Decide(a, v)
    BY <1>5, <1>6, <1>7, <1>8 DEF ReportReview!Decide, Judged, Reviewing, Heard
  <1> QED BY <1>3, <1>9 DEF ReportReview!Next, ReportReview!Verdicts

\* Every step of the reports is one of Review, or none.
LEMMA ReportsImplement ==
    ASSUME ModerationTypeOK, [ModerationNext]_<<commentVars, moderationVars>>
    PROVE  [ReportReview!Next]_ReportReview!reviewVars
  <1>0. ASSUME UNCHANGED <<Judged, Reviewing, Heard>> PROVE UNCHANGED ReportReview!reviewVars
    BY <1>0 DEF ReportReview!reviewVars, Judged, Reviewing, Heard
  <1>1. ASSUME UNCHANGED <<report, informed>> PROVE UNCHANGED <<Judged, Heard>>
    BY <1>1 DEF Judged, Heard
  <1>2. ASSUME NEW r \in Reports, NEW x \in Reported, CreateReport(r, x) PROVE ReportReview!Next
    <2>1. Judged[r] = "none"
      BY <1>2, VerdictIs DEF CreateReport, Judged
    <2>2. PICK new : new = [status |-> "pending", about |-> x]
      OBVIOUS
    <2>3. report' = [report EXCEPT ![r] = new] /\ new.status = "pending"
      BY <1>2, <2>2 DEF CreateReport
    <2>4. report'[r] = new /\ \A q \in Reports \ {r} : report'[q] = report[q]
      <3>1. DOMAIN report = Reports
        BY DEF ModerationTypeOK
      <3> QED BY <2>3, <3>1
    <2>5. Judged' = [Judged EXCEPT ![r] = "pending"]
      <3>1. Judged'[r] = "pending"
        BY <2>3, <2>4, VerdictIs DEF Judged
      <3>2. \A q \in Reports \ {r} : Judged'[q] = Judged[q]
        BY <2>4 DEF Judged
      <3>3. Judged = [q \in Reports |-> Judged[q]] /\ Judged' = [q \in Reports |-> Judged'[q]]
        BY DEF Judged
      <3> QED BY <3>1, <3>2, <3>3
    <2>6. UNCHANGED <<Reviewing, Heard>>
      BY <1>2 DEF CreateReport, Reviewing, Heard
    <2>7. ReportReview!File(r)
      BY <2>1, <2>5, <2>6 DEF ReportReview!File, Judged, Reviewing, Heard
    <2> QED BY <2>7 DEF ReportReview!Next
  <1>3. ASSUME NEW a \in Admins, NEW r \in Reports, ReadReport(a, r) PROVE ReportReview!Next
    <2>1. Reviewing[a] = Absent
      BY <1>3, ModerationAssumption DEF ReadReport, Reviewing, NoHandler
    <2>2. Judged[r] = "pending"
      BY <1>3, VerdictIs DEF ReadReport, Judged
    <2>3. PICK new : new = [on |-> r]
      OBVIOUS
    <2>4. new.on = r
      BY <2>3
    <2>5. handler' = [handler EXCEPT ![a] = new]
      BY <1>3, <2>3 DEF ReadReport
    <2>6. Reviewing' = [Reviewing EXCEPT ![a] = r]
      BY <2>4, <2>5, ReviewingIs
    <2>7. UNCHANGED <<Judged, Heard>>
      BY <1>1, <1>3 DEF ReadReport
    <2>8. ReportReview!Open(a, r)
      BY <2>1, <2>2, <2>6, <2>7 DEF ReportReview!Open, Judged, Reviewing, Heard
    <2> QED BY <2>8 DEF ReportReview!Next
  <1>4. ASSUME NEW a \in Admins, ResolveReport(a) \/ DismissReport(a) PROVE ReportReview!Next
    BY <1>4, SaveDecides DEF ResolveReport, DismissReport
  \* Whoever has no report before and has none now has not reviewed one.
  <1>5. ASSUME NEW a \in Admins, NEW new, handler' = [handler EXCEPT ![a] = new], UNCHANGED <<report, informed>>,
               handler[a].on \notin Reports, new.on \notin Reports
        PROVE  UNCHANGED ReportReview!reviewVars
    <2>1. Reviewing' = [Reviewing EXCEPT ![a] = Absent] /\ Reviewing[a] = Absent
      BY <1>5, ReviewingIs DEF Reviewing
    <2>2. Reviewing = [b \in Admins |-> Reviewing[b]]
      BY DEF Reviewing
    <2>3. UNCHANGED Reviewing
      BY <2>1, <2>2
    <2> QED BY <1>0, <1>1, <1>5, <2>3
  <1>6. NoHandler.on = Absent /\ Absent \notin Reports
    BY ModerationAssumption DEF NoHandler
  <1>7. ASSUME NEW a \in Admins, FailHandling(a) PROVE [ReportReview!Next]_ReportReview!reviewVars
    <2>1. handler' = [handler EXCEPT ![a] = NoHandler] /\ UNCHANGED <<report, informed>>
      BY <1>7 DEF FailHandling
    <2>2. CASE handler[a].on \notin Reports
      BY <1>5, <1>6, <2>1, <2>2
    <2>3. CASE handler[a].on \in Reports
      <3>1. Reviewing[a] # Absent
        BY <1>6, <2>3 DEF Reviewing
      <3>2. Reviewing' = [Reviewing EXCEPT ![a] = Absent]
        BY <1>6, <2>1, ReviewingIs
      <3>3. UNCHANGED <<Judged, Heard>>
        BY <1>1, <2>1
      <3>4. ReportReview!Abandon(a)
        BY <3>1, <3>2, <3>3 DEF ReportReview!Abandon, Judged, Reviewing, Heard
      <3> QED BY <3>4 DEF ReportReview!Next
    <2> QED BY <2>2, <2>3
  <1>8. ASSUME NEW f \in Feedbacks, CreateFeedback(f) PROVE UNCHANGED ReportReview!reviewVars
    BY <1>0, <1>1, <1>8 DEF CreateFeedback, Reviewing
  <1>9. ASSUME NEW a \in Admins, NEW f \in Feedbacks, ReadFeedback(a, f)
        PROVE  UNCHANGED ReportReview!reviewVars
    <2>1. PICK new : new = [on |-> f, status |-> feedback[f]]
      OBVIOUS
    <2>2. new.on \notin Reports
      BY <2>1, ModerationAssumption
    <2> QED BY <1>5, <1>6, <1>9, <2>1, <2>2 DEF ReadFeedback
  <1>10. ASSUME NEW a \in Admins, NEW s \in FeedbackStatuses \cup {Absent}, SaveFeedback(a, s)
         PROVE  UNCHANGED ReportReview!reviewVars
    <2>1. handler[a].on \notin Reports
      BY <1>10, ModerationAssumption DEF SaveFeedback
    <2> QED BY <1>5, <1>6, <1>10, <2>1 DEF SaveFeedback
  <1>11. CASE UNCHANGED moderationVars
    BY <1>0, <1>1, <1>11 DEF moderationVars, Reviewing
  <1>12. CASE ReportsNext
    BY <1>2, <1>3, <1>4, <1>7, <1>12 DEF ReportsNext
  <1>13. CASE FeedbackNext
    BY <1>7, <1>8, <1>9, <1>10, <1>13 DEF FeedbackNext
  <1> QED BY <1>11, <1>12, <1>13 DEF ModerationNext

LEMMA ReportsAreReviewed == ModerationSpec => ReportsReviewed
  <1>1. CommentsInit /\ ModerationInit => ReportReview!Init
    BY VerdictIs, ModerationAssumption DEF ModerationInit, ReportReview!Init, NoHandler
  <1>2. ModerationInv /\ [ModerationNext]_<<commentVars, moderationVars>> => [ReportReview!Next]_ReportReview!reviewVars
    BY ReportsImplement DEF ModerationInv
  <1> QED BY <1>1, <1>2, ModerationInvariant, PTL DEF ModerationSpec, ReportsReviewed,
             ReportReview!Spec

-----------------------------------------------------------------------------
\* Catalogue

ClientState ==
    {Free} \cup [stage : {"linked"}, key : Keys, page : Page]
           \cup [stage : {"fill"}, key : Keys, page : Page \cup {Blank}]
           \cup [stage : {"clean"}, keys : Seq(Keys) \ {<<>>}]
           \cup [stage : {"review"}, on : Petitions]

Asked == [status : Statuses, about : Keys, name : Names]

NotAsked == [status |-> "none"]

\* Only names of entries that can be shown are shown.
EntriesKnown ==
    /\ entry \in [Entries -> [state : {"none", "active", "deleted"}, name : Names \cup {Blank}]]
    /\ \A x \in Entries : Active(x) => entry[x].name \in Names

PetitionsKnown ==
    /\ petition \in [Petitions -> {NotAsked} \cup Asked]
    /\ answered \in [Petitions -> SUBSET {"accepted", "rejected"}]

\* What is reviewed was asked.
ClientsKnown ==
    /\ client \in [Clients -> ClientState]
    /\ \A p \in Clients : client[p].stage = "review" => petition[client[p].on].status # "none"

PagesKnown ==
    /\ given \in [Links -> {"none", "active", "canceled"}]
    /\ page \in [Keys -> Page \cup {Blank}]

CatalogueInv == EntriesKnown /\ PetitionsKnown /\ ClientsKnown /\ PagesKnown

LEMMA CurrentIs ==
    ASSUME EntriesKnown, NEW k \in Keys
    PROVE  Current(k) \in Page \cup {Blank}
  <1>1. ASSUME NEW X, X \subseteq Entries PROVE Shown(X) \in SUBSET (Entries \X Names)
    BY <1>1 DEF Shown, EntriesKnown
  <1>2. CASE k \in Lists
    <2>1. KindOf(k) \subseteq Entries
      BY DEF KindOf, Entries
    <2>2. Shown(KindOf(k)) \in SUBSET (Entries \X Names)
      BY <1>1, <2>1
    <2> QED BY <1>2, <2>2 DEF Current, Listing, Page
  <1>3. CASE k \notin Lists
    <2>1. LinkedTo(k) \subseteq Entries
      BY DEF LinkedTo
    <2>2. Shown(LinkedTo(k)) \in SUBSET (Entries \X Names)
      BY <1>1, <2>1
    <2>3. entry[k].name \in Names \cup {Blank}
      BY <1>3 DEF EntriesKnown, Keys
    <2> QED BY <1>3, <2>2, <2>3 DEF Current, Detail, Page
  <1> QED BY <1>2, <1>3

LEMMA InvalidatedIs ==
    ASSUME NEW x \in Entries, NEW y \in Entries
    PROVE  /\ Invalidated(x) \in Seq(Keys) \ {<<>>} /\ Len(Invalidated(x)) = 2
           /\ Invalidated(x)[1] = x /\ Invalidated(x)[2] = ListOf(x)
           /\ Invalidated(x) \o Invalidated(y) \in Seq(Keys) \ {<<>>} /\ Len(Invalidated(x) \o Invalidated(y)) = 4
           /\ (Invalidated(x) \o Invalidated(y))[1] = x /\ (Invalidated(x) \o Invalidated(y))[2] = ListOf(x)
           /\ (Invalidated(x) \o Invalidated(y))[3] = y /\ (Invalidated(x) \o Invalidated(y))[4] = ListOf(y)
  <1>1. {x, y, ListOf(x), ListOf(y)} \subseteq Keys
    BY DEF ListOf, Keys, Lists
  <1> QED BY <1>1 DEF Invalidated

\* A client that turns to something he can be about to do.
LEMMA ClientsTurn ==
    ASSUME ClientsKnown, NEW p \in Clients, NEW new \in ClientState, client' = [client EXCEPT ![p] = new],
           new.stage = "review" => petition'[new.on].status # "none",
           \A q \in Petitions : petition[q].status # "none" => petition'[q].status # "none"
    PROVE  ClientsKnown'
  <1>1. client'[p] = new /\ (\A q \in Clients \ {p} : client'[q] = client[q]) /\ client' \in [Clients -> ClientState]
    BY DEF ClientsKnown
  <1>2. ASSUME NEW q \in Clients, client'[q].stage = "review"
        PROVE  petition'[client'[q].on].status # "none"
    <2>1. CASE q = p
      BY <1>1, <1>2, <2>1
    <2>2. CASE q # p
      <3>1. client[q] = client'[q] /\ client[q] \in ClientState /\ petition[client[q].on].status # "none"
        BY <1>1, <1>2, <2>2 DEF ClientsKnown
      <3>2. client[q].on \in Petitions
        BY <1>2, <3>1 DEF ClientState, Free
      <3> QED BY <3>1, <3>2
    <2> QED BY <2>1, <2>2
  <1> QED BY <1>1, <1>2 DEF ClientsKnown

LEMMA EntriesWritten ==
    ASSUME EntriesKnown, NEW x \in Entries, NEW new \in [state : {"none", "active", "deleted"}, name : Names \cup {Blank}],
           new.state = "active" => new.name \in Names, entry' = [entry EXCEPT ![x] = new]
    PROVE  EntriesKnown'
  <1>1. entry'[x] = new /\ (\A y \in Entries \ {x} : entry'[y] = entry[y])
        /\ entry' \in [Entries -> [state : {"none", "active", "deleted"}, name : Names \cup {Blank}]]
    BY DEF EntriesKnown
  <1> QED BY <1>1 DEF EntriesKnown, Active

\* An update of an entry leaves its state, and names it.
LEMMA EntryNamed ==
    ASSUME EntriesKnown, NEW x \in Entries, NEW n \in Names, entry' = [entry EXCEPT ![x].name = n]
    PROVE  EntriesKnown' /\ \A y \in Entries \ {x} : entry'[y] = entry[y]
  <1>1. PICK new : new = [entry[x] EXCEPT !.name = n]
    OBVIOUS
  <1>2. new \in [state : {"none", "active", "deleted"}, name : Names \cup {Blank}] /\ new.name = n
    BY <1>1 DEF EntriesKnown
  <1>3. entry' = [entry EXCEPT ![x] = new]
    BY <1>1
  <1> QED BY <1>2, <1>3, EntriesWritten DEF EntriesKnown

LEMMA FreeIs == Free \in ClientState /\ Free.stage = "free"
  BY DEF ClientState, Free

LEMMA CleaningKeeps ==
    ASSUME ClientsKnown, NEW p \in Clients, NEW keys \in Seq(Keys) \ {<<>>}, Cleaning(p, keys), UNCHANGED petition
    PROVE  ClientsKnown' /\ client'[p].stage = "clean" /\ client'[p].keys = keys
  <1>1. PICK new : new = [stage |-> "clean", keys |-> keys]
    OBVIOUS
  <1>2. new \in ClientState /\ new.stage = "clean" /\ new.keys = keys
    BY <1>1 DEF ClientState
  <1>3. client' = [client EXCEPT ![p] = new]
    BY <1>1 DEF Cleaning
  <1>4. client'[p] = new
    BY <1>3 DEF ClientsKnown
  <1> QED BY <1>2, <1>3, <1>4, ClientsTurn

LEMMA PagesNext_Inv ==
    ASSUME CatalogueInv, PagesNext
    PROVE  CatalogueInv'
  <1>0. EntriesKnown /\ PetitionsKnown /\ ClientsKnown /\ PagesKnown
    BY DEF CatalogueInv
  <1>1. UNCHANGED <<entry, given, petition, answered>>
    BY DEF PagesNext, ReadPage, ReadLinked, FillPage, CleanPage, DropClient, ExpirePage
  <1>2. EntriesKnown' /\ PetitionsKnown'
    BY <1>0, <1>1 DEF EntriesKnown, PetitionsKnown, Active
  <1>3. ASSUME NEW p \in Clients, NEW k \in Keys, ReadPage(p, k) PROVE ClientsKnown' /\ PagesKnown'
    <2>1. PICK new : new = IF k \in Lists THEN [stage |-> "fill", key |-> k, page |-> Listing(k)]
                           ELSE [stage |-> "linked", key |-> k, page |-> [name |-> entry[k].name, shown |-> {}]]
      OBVIOUS
    <2>2. new \in ClientState /\ new.stage # "review"
      <3>1. CASE k \in Lists
        BY <1>0, <2>1, <3>1, CurrentIs DEF ClientState, Current
      <3>2. CASE k \notin Lists
        <4>1. [name |-> entry[k].name, shown |-> {}] \in Page
          BY <1>0, <3>2 DEF EntriesKnown, Keys, Page
        <4> QED BY <2>1, <3>2, <4>1 DEF ClientState
      <3> QED BY <3>1, <3>2
    <2>3. client' = [client EXCEPT ![p] = new] /\ UNCHANGED <<given, page>>
      BY <1>3, <2>1 DEF ReadPage
    <2>4. ClientsKnown'
      BY <1>0, <1>1, <2>2, <2>3, ClientsTurn
    <2> QED BY <1>0, <2>3, <2>4 DEF PagesKnown
  <1>4. ASSUME NEW p \in Clients, client' = [client EXCEPT ![p] = Free] PROVE ClientsKnown'
    BY <1>0, <1>1, <1>4, FreeIs, ClientsTurn
  <1>5. ASSUME NEW k, NEW new \in Page \cup {Blank}, page' = [page EXCEPT ![k] = new]
        PROVE  PagesKnown'
    BY <1>0, <1>1, <1>5 DEF PagesKnown
  <1>6. ASSUME NEW p \in Clients, FillPage(p) PROVE ClientsKnown' /\ PagesKnown'
    <2>1. client[p].page \in Page \cup {Blank}
      <3>1. client[p] \in ClientState /\ client[p].stage = "fill"
        BY <1>0, <1>6 DEF FillPage, ClientsKnown
      <3> QED BY <3>1 DEF ClientState, Free
    <2> QED BY <1>4, <1>5, <1>6, <2>1 DEF FillPage
  <1>7. ASSUME NEW p \in Clients, CleanPage(p) PROVE ClientsKnown' /\ PagesKnown'
    <2>1. PagesKnown'
      BY <1>5, <1>7 DEF CleanPage
    <2>2. PICK keys \in Seq(Keys) \ {<<>>} : client[p] = [stage |-> "clean", keys |-> keys]
      <3>1. client[p] \in ClientState /\ client[p].stage = "clean"
        BY <1>0, <1>7 DEF CleanPage, ClientsKnown
      <3> QED BY <3>1 DEF ClientState, Free
    <2>3. CASE Len(keys) = 1
      <3>1. client' = [client EXCEPT ![p] = Free]
        BY <1>7, <2>2, <2>3 DEF CleanPage
      <3> QED BY <1>4, <2>1, <3>1
    <2>4. CASE Len(keys) # 1
      <3>1. PICK tail : tail = Tail(keys)
        OBVIOUS
      <3>2. tail \in Seq(Keys) /\ tail # <<>>
        <4>1. keys \in Seq(Keys) /\ keys # <<>>
          BY <2>2
        <4>2. Tail(keys) \in Seq(Keys) /\ Len(Tail(keys)) = Len(keys) - 1
          BY <4>1, HeadTailProperties
        <4>3. Len(keys) \in Nat /\ Len(keys) - 1 # 0
          BY <2>4, <4>1, LenProperties
        <4>4. Len(tail) # 0 /\ tail \in Seq(Keys)
          BY <3>1, <4>2, <4>3
        <4> QED BY <4>4
      <3>3. client[p] \in [stage : {"clean"}, keys : Seq(Keys) \ {<<>>}] /\ client[p].keys = keys
        BY <2>2
      <3>4. PICK new : new = [client[p] EXCEPT !.keys = tail]
        OBVIOUS
      <3>5. new \in ClientState /\ new.stage = "clean"
        BY <3>2, <3>3, <3>4 DEF ClientState
      <3>6. client' = [client EXCEPT ![p] = new]
        BY <1>7, <2>4, <3>1, <3>3, <3>4 DEF CleanPage
      <3> QED BY <1>0, <1>1, <2>1, <3>5, <3>6, ClientsTurn
    <2> QED BY <2>3, <2>4
  <1>8. ASSUME NEW p \in Clients, DropClient(p) PROVE ClientsKnown' /\ PagesKnown'
    BY <1>0, <1>4, <1>8 DEF DropClient, PagesKnown
  <1>9. ASSUME NEW k \in Keys, ExpirePage(k) PROVE ClientsKnown' /\ PagesKnown'
    BY <1>0, <1>5, <1>9 DEF ExpirePage, ClientsKnown
  <1>10. ASSUME NEW p \in Clients, ReadLinked(p) PROVE ClientsKnown' /\ PagesKnown'
    <2>1. client[p] \in [stage : {"linked"}, key : Keys, page : Page]
      BY <1>0, <1>10 DEF ReadLinked, ClientsKnown, ClientState, Free
    <2>2. PICK new : new = [stage |-> "fill", key |-> client[p].key,
                            page |-> [name |-> client[p].page.name, shown |-> Shown(LinkedTo(client[p].key))]]
      OBVIOUS
    <2>3. new \in ClientState /\ new.stage = "fill"
      <3>1. LinkedTo(client[p].key) \subseteq Entries
        BY DEF LinkedTo
      <3>2. Shown(LinkedTo(client[p].key)) \in SUBSET (Entries \X Names)
        BY <1>0, <3>1 DEF Shown, EntriesKnown
      <3>3. client[p].key \in Keys /\ client[p].page.name \in Names \cup {Blank}
        BY <2>1 DEF Page
      <3>4. [name |-> client[p].page.name, shown |-> Shown(LinkedTo(client[p].key))] \in Page
        BY <3>2, <3>3 DEF Page
      <3> QED BY <2>2, <3>3, <3>4 DEF ClientState
    <2>4. client' = [client EXCEPT ![p] = new] /\ UNCHANGED <<given, page>>
      BY <1>10, <2>2 DEF ReadLinked
    <2>5. ClientsKnown'
      BY <1>0, <1>1, <2>3, <2>4, ClientsTurn
    <2> QED BY <1>0, <2>4, <2>5 DEF PagesKnown
  <1>11. ClientsKnown' /\ PagesKnown'
    BY <1>3, <1>6, <1>7, <1>8, <1>9, <1>10 DEF PagesNext
  <1> QED BY <1>2, <1>11 DEF CatalogueInv

LEMMA WritersNext_Inv ==
    ASSUME CatalogueInv, WritersNext
    PROVE  CatalogueInv'
  <1>0. EntriesKnown /\ PetitionsKnown /\ ClientsKnown /\ PagesKnown
    BY DEF CatalogueInv
  <1>1. UNCHANGED <<page, petition, answered>>
    BY DEF WritersNext, CreateEntry, UpdateEntry, DeleteEntry, Relate, AdminRelate, Relinked
  <1>2. PetitionsKnown'
    BY <1>0, <1>1 DEF PetitionsKnown
  <1>3. ASSUME UNCHANGED given PROVE PagesKnown'
    BY <1>0, <1>1, <1>3 DEF PagesKnown
  <1>4. ASSUME UNCHANGED client PROVE ClientsKnown'
    BY <1>0, <1>1, <1>4 DEF ClientsKnown
  <1>5. ASSUME NEW x \in Entries, NEW n \in Names, CreateEntry(x, n)
        PROVE  EntriesKnown' /\ ClientsKnown' /\ PagesKnown'
    <2>1. PICK new : new = [state |-> "active", name |-> n]
      OBVIOUS
    <2>2. new \in [state : {"none", "active", "deleted"}, name : Names \cup {Blank}] /\ new.name \in Names
      BY <2>1
    <2>3. entry' = [entry EXCEPT ![x] = new]
      BY <1>5, <2>1 DEF CreateEntry
    <2> QED BY <1>0, <1>3, <1>4, <1>5, <2>2, <2>3, EntriesWritten DEF CreateEntry
  <1>6. ASSUME NEW p \in Clients, NEW x \in Entries, NEW n \in Names, UpdateEntry(p, x, n)
        PROVE  EntriesKnown' /\ ClientsKnown' /\ PagesKnown'
    BY <1>0, <1>1, <1>3, <1>6, EntryNamed, InvalidatedIs, CleaningKeeps DEF UpdateEntry
  <1>7. ASSUME NEW p \in Clients, NEW x \in Entries, DeleteEntry(p, x)
        PROVE  EntriesKnown' /\ ClientsKnown' /\ PagesKnown'
    <2>1. PICK new : new = [entry[x] EXCEPT !.state = "deleted"]
      OBVIOUS
    <2>2. new \in [state : {"none", "active", "deleted"}, name : Names \cup {Blank}] /\ new.state = "deleted"
      BY <1>0, <2>1 DEF EntriesKnown
    <2>3. entry' = [entry EXCEPT ![x] = new]
      BY <1>7, <2>1 DEF DeleteEntry
    <2>4. EntriesKnown'
      BY <1>0, <2>2, <2>3, EntriesWritten
    <2> QED BY <1>0, <1>1, <1>3, <1>7, <2>4, InvalidatedIs, CleaningKeeps DEF DeleteEntry
  <1>8. ASSUME NEW l \in Links, NEW s \in {"active", "canceled"}, Relinked(l, s)
        PROVE  EntriesKnown' /\ PagesKnown' /\ l[1] \in Entries /\ l[2] \in Entries
    <2>1. EntriesKnown'
      BY <1>0, <1>8 DEF Relinked, EntriesKnown, Active
    <2>2. PagesKnown'
      BY <1>0, <1>8 DEF Relinked, PagesKnown
    <2> QED BY <2>1, <2>2 DEF Links, Entries
  <1>9. ASSUME NEW p \in Clients, NEW l \in Links, NEW s \in {"active", "canceled"}, Relate(p, l, s)
        PROVE  EntriesKnown' /\ ClientsKnown' /\ PagesKnown'
    <2>1. Relinked(l, s)
      BY <1>9 DEF Relate
    <2>2. EntriesKnown' /\ PagesKnown' /\ l[1] \in Entries /\ l[2] \in Entries
      BY <1>8, <2>1
    <2>3. PICK keys \in Seq(Keys) \ {<<>>} : keys = Invalidated(l[1]) \o Invalidated(l[2])
      BY <2>2, InvalidatedIs
    <2>4. Cleaning(p, keys)
      BY <1>9, <2>3 DEF Relate
    <2> QED BY <1>0, <1>1, <2>2, <2>4, CleaningKeeps
  <1>10. ASSUME NEW l \in Links, NEW s \in {"active", "canceled"}, AdminRelate(l, s)
         PROVE  EntriesKnown' /\ ClientsKnown' /\ PagesKnown'
    BY <1>4, <1>8, <1>10 DEF AdminRelate
  <1>11. EntriesKnown' /\ ClientsKnown' /\ PagesKnown'
    BY <1>5, <1>6, <1>7, <1>9, <1>10 DEF WritersNext
  <1> QED BY <1>2, <1>11 DEF CatalogueInv

\* A reviewer has a petition that was asked.
LEMMA ReviewerHas ==
    ASSUME CatalogueInv, NEW p \in Clients, client[p].stage = "review"
    PROVE  client[p].on \in Petitions /\ petition[client[p].on] \in Asked
  <1>1. client[p] \in ClientState /\ petition[client[p].on].status # "none"
    BY DEF CatalogueInv, ClientsKnown
  <1>2. client[p].on \in Petitions
    BY <1>1 DEF ClientState, Free
  <1>3. petition[client[p].on] \in {NotAsked} \cup Asked
    BY <1>2 DEF CatalogueInv, PetitionsKnown
  <1> QED BY <1>1, <1>2, <1>3 DEF NotAsked

LEMMA DecideKeepsPetitions ==
    ASSUME CatalogueInv, NEW p \in Clients, client[p].stage = "review",
           NEW q, q = client[p].on, NEW s \in {"accepted", "rejected"}, DecidePetition(p, q, s)
    PROVE  /\ PetitionsKnown' /\ ClientsKnown' /\ PagesKnown'
           /\ q \in Petitions /\ petition[q].status # "none" /\ petition'[q].status = s
           /\ \A r \in Petitions \ {q} : petition'[r] = petition[r]
  <1>1. EntriesKnown /\ PetitionsKnown /\ ClientsKnown /\ PagesKnown /\ q \in Petitions /\ petition[q] \in Asked
    BY ReviewerHas DEF CatalogueInv
  <1>2. PICK new : new = [petition[q] EXCEPT !.status = s]
    OBVIOUS
  <1>3. new \in Asked /\ new.status = s
    BY <1>1, <1>2 DEF Asked, Statuses
  <1>4. petition' = [petition EXCEPT ![q] = new] /\ answered' = [answered EXCEPT ![q] = @ \cup {s}]
        /\ client' = [client EXCEPT ![p] = Free] /\ UNCHANGED <<given, page>>
    BY <1>2 DEF DecidePetition
  <1>5. petition'[q] = new /\ \A r \in Petitions \ {q} : petition'[r] = petition[r]
    BY <1>1, <1>4 DEF PetitionsKnown
  <1>6. PetitionsKnown'
    <2>1. petition' \in [Petitions -> {NotAsked} \cup Asked]
      BY <1>1, <1>3, <1>4 DEF PetitionsKnown
    <2>2. answered' \in [Petitions -> SUBSET {"accepted", "rejected"}]
      BY <1>1, <1>4 DEF PetitionsKnown
    <2> QED BY <2>1, <2>2 DEF PetitionsKnown
  <1>7. ClientsKnown'
    <2>1. \A r \in Petitions : petition[r].status # "none" => petition'[r].status # "none"
      BY <1>3, <1>5
    <2> QED BY <1>1, <1>4, <2>1, FreeIs, ClientsTurn
  <1>8. petition[q].status # "none"
    BY <1>1 DEF Asked, Statuses
  <1> QED BY <1>1, <1>3, <1>4, <1>5, <1>6, <1>7, <1>8 DEF PagesKnown

LEMMA Asking ==
    ASSUME CatalogueInv, NEW q \in Petitions, NEW k \in Keys, NEW n \in Names, petition[q].status = "none",
           petition' = [petition EXCEPT ![q] = [status |-> "pending", about |-> k, name |-> n]],
           UNCHANGED <<entry, given, page, answered, client>>
    PROVE  CatalogueInv' /\ petition'[q].status = "pending" /\ \A r \in Petitions \ {q} : petition'[r] = petition[r]
  <1>0. EntriesKnown /\ PetitionsKnown /\ ClientsKnown /\ PagesKnown
    BY DEF CatalogueInv
  <1>1. PICK new : new = [status |-> "pending", about |-> k, name |-> n]
    OBVIOUS
  <1>2. new \in Asked /\ new.status = "pending"
    BY <1>1 DEF Asked, Statuses
  <1>3. petition' = [petition EXCEPT ![q] = new]
    BY <1>1
  <1>4. petition'[q] = new /\ \A r \in Petitions \ {q} : petition'[r] = petition[r]
    BY <1>0, <1>3 DEF PetitionsKnown
  <1>5. PetitionsKnown'
    BY <1>0, <1>2, <1>3 DEF PetitionsKnown
  <1>6. ClientsKnown'
    <2>1. ASSUME NEW p \in Clients, client[p].stage = "review"
          PROVE  petition'[client[p].on].status # "none"
      <3>1. client[p].on \in Petitions
        BY <2>1, ReviewerHas
      <3>2. petition[client[p].on].status # "none"
        BY <1>0, <2>1 DEF ClientsKnown
      <3> QED BY <1>2, <1>4, <3>1, <3>2
    <2> QED BY <1>0, <2>1 DEF ClientsKnown
  <1>7. EntriesKnown' /\ PagesKnown'
    BY <1>0 DEF EntriesKnown, PagesKnown, Active
  <1> QED BY <1>2, <1>4, <1>5, <1>6, <1>7 DEF CatalogueInv

LEMMA PetitionNext_Inv ==
    ASSUME CatalogueInv, PetitionNext
    PROVE  CatalogueInv'
  <1>0. EntriesKnown /\ PetitionsKnown /\ ClientsKnown /\ PagesKnown
    BY DEF CatalogueInv
  <1>1. ASSUME NEW q \in Petitions, NEW k \in Keys, NEW n \in Names, AskCorrection(q, k, n) \/ AskAddition(q, k, n)
        PROVE  CatalogueInv'
    BY <1>1, Asking DEF AskCorrection, AskAddition
  <1>2. ASSUME NEW p \in Clients, NEW q \in Petitions, ReadPetition(p, q) PROVE CatalogueInv'
    <2>1. PICK new : new = [stage |-> "review", on |-> q]
      OBVIOUS
    <2>2. new \in ClientState /\ new.stage = "review" /\ new.on = q
      BY <2>1 DEF ClientState
    <2>3. client' = [client EXCEPT ![p] = new] /\ petition[q].status # "none"
          /\ UNCHANGED <<entry, given, page, petition, answered>>
      BY <1>2, <2>1 DEF ReadPetition
    <2>4. ClientsKnown'
      BY <1>0, <2>2, <2>3, ClientsTurn
    <2>5. EntriesKnown' /\ PagesKnown' /\ PetitionsKnown'
      BY <1>0, <2>3 DEF EntriesKnown, PagesKnown, PetitionsKnown, Active
    <2> QED BY <2>4, <2>5 DEF CatalogueInv
  <1>3. ASSUME NEW p \in Clients, AcceptCorrection(p) PROVE CatalogueInv'
    <2>1. PICK q \in Petitions : q = client[p].on /\ petition[q] \in Asked
      BY <1>3, ReviewerHas DEF AcceptCorrection
    <2>2. DecidePetition(p, q, "accepted") /\ client[p].stage = "review"
      BY <1>3, <2>1 DEF AcceptCorrection
    <2>3. PetitionsKnown' /\ ClientsKnown' /\ PagesKnown'
      BY <2>1, <2>2, DecideKeepsPetitions
    <2>4. PICK x \in Entries : x = petition[q].about
      BY <1>3, <2>1 DEF AcceptCorrection
    <2>5. PICK n \in Names : n = petition[q].name
      BY <2>1 DEF Asked
    <2>6. entry' = [entry EXCEPT ![x].name = n]
      BY <1>3, <2>1, <2>4, <2>5 DEF AcceptCorrection
    <2>7. EntriesKnown'
      BY <1>0, <2>6, EntryNamed
    <2> QED BY <2>3, <2>7 DEF CatalogueInv
  <1>4. ASSUME NEW p \in Clients, NEW x \in Entries, AcceptAddition(p, x) PROVE CatalogueInv'
    <2>1. PICK q \in Petitions : q = client[p].on /\ petition[q] \in Asked
      BY <1>4, ReviewerHas DEF AcceptAddition
    <2>2. DecidePetition(p, q, "accepted") /\ client[p].stage = "review"
      BY <1>4, <2>1 DEF AcceptAddition
    <2>3. PetitionsKnown' /\ ClientsKnown' /\ PagesKnown'
      BY <2>1, <2>2, DecideKeepsPetitions
    <2>4. PICK n \in Names : n = petition[q].name
      BY <2>1 DEF Asked
    <2>5. PICK new : new = [state |-> "active", name |-> n]
      OBVIOUS
    <2>6. new \in [state : {"none", "active", "deleted"}, name : Names \cup {Blank}] /\ new.name \in Names
      BY <2>5
    <2>7. entry' = [entry EXCEPT ![x] = new]
      BY <1>4, <2>1, <2>4, <2>5 DEF AcceptAddition
    <2>8. EntriesKnown'
      BY <1>0, <2>6, <2>7, EntriesWritten
    <2> QED BY <2>3, <2>8 DEF CatalogueInv
  <1>5. ASSUME NEW p \in Clients, RejectPetition(p) PROVE CatalogueInv'
    <2>1. PetitionsKnown' /\ ClientsKnown' /\ PagesKnown'
      BY <1>5, DecideKeepsPetitions DEF RejectPetition
    <2>2. EntriesKnown'
      BY <1>0, <1>5 DEF RejectPetition, EntriesKnown, Active
    <2> QED BY <2>1, <2>2 DEF CatalogueInv
  <1>6. Entries \subseteq Keys /\ Lists \subseteq Keys
    BY DEF Keys
  <1> QED BY <1>1, <1>2, <1>3, <1>4, <1>5, <1>6 DEF PetitionNext

CatalogueNext == PagesNext \/ WritersNext \/ PetitionNext

LEMMA CatalogueInvariant == CatalogueSpec => []CatalogueInv
  <1>1. CatalogueInit => CatalogueInv
    <2> SUFFICES ASSUME CatalogueInit PROVE CatalogueInv
      OBVIOUS
    <2>1. (CHOOSE n \in Names : TRUE) \in Names
      BY CatalogueAssumption
    <2>2. EntriesKnown
      <3>1. PICK start : entry = [x \in Entries |-> IF x \in start THEN [state |-> "active", name |-> CHOOSE n \in Names : TRUE]
                                                                   ELSE [state |-> "none", name |-> Blank]]
        BY DEF CatalogueInit
      <3>2. ASSUME NEW x \in Entries
            PROVE  /\ entry[x] \in [state : {"none", "active", "deleted"}, name : Names \cup {Blank}]
                   /\ entry[x].state = "active" => entry[x].name \in Names
        BY <2>1, <3>1
      <3>3. entry = [x \in Entries |-> entry[x]]
        BY <3>1
      <3> QED BY <3>2, <3>3 DEF EntriesKnown, Active
    <2>3. PetitionsKnown /\ PagesKnown
      BY DEF CatalogueInit, PetitionsKnown, PagesKnown, NotAsked
    <2>4. ClientsKnown
      BY FreeIs DEF CatalogueInit, ClientsKnown
    <2> QED BY <2>2, <2>3, <2>4 DEF CatalogueInv
  <1>2. CatalogueInv /\ [CatalogueNext]_catalogueVars => CatalogueInv'
    <2> SUFFICES ASSUME CatalogueInv, [CatalogueNext]_catalogueVars PROVE CatalogueInv'
      OBVIOUS
    <2>1. CASE UNCHANGED catalogueVars
      <3>1. EntriesKnown' /\ PetitionsKnown'
        BY <2>1 DEF catalogueVars, CatalogueInv, EntriesKnown, PetitionsKnown, Active
      <3>2. ClientsKnown' /\ PagesKnown'
        BY <2>1 DEF catalogueVars, CatalogueInv, ClientsKnown, PagesKnown
      <3> QED BY <3>1, <3>2 DEF CatalogueInv
    <2> QED BY <2>1, PagesNext_Inv, WritersNext_Inv, PetitionNext_Inv DEF CatalogueNext
  <1> QED BY <1>1, <1>2, PTL DEF CatalogueSpec, CatalogueNext

\* How far the review of every petition is, in the words of Review.
Settled == [q \in Petitions |-> petition[q].status]
Seeing == [p \in Clients |-> IF client[p].stage = "review" THEN client[p].on ELSE Blank]

LEMMA SeeingIs ==
    ASSUME ClientsKnown, NEW p \in Clients, NEW new, client' = [client EXCEPT ![p] = new]
    PROVE  Seeing' = [Seeing EXCEPT ![p] = IF new.stage = "review" THEN new.on ELSE Blank]
  <1>1. DOMAIN client = Clients
    BY DEF ClientsKnown
  <1> QED BY <1>1 DEF Seeing

\* A client that reviews nothing before and after.
LEMMA SeeingRemains ==
    ASSUME ClientsKnown, NEW p \in Clients, NEW new, client' = [client EXCEPT ![p] = new],
           client[p].stage # "review", new.stage # "review"
    PROVE  UNCHANGED Seeing
  <1>1. Seeing' = [Seeing EXCEPT ![p] = Blank] /\ Seeing[p] = Blank
    BY SeeingIs DEF Seeing
  <1>2. Seeing = [q \in Clients |-> Seeing[q]]
    BY DEF Seeing
  <1> QED BY <1>1, <1>2

LEMMA PetitionDecided ==
    ASSUME CatalogueInv, NEW p \in Clients, client[p].stage = "review",
           NEW s \in {"accepted", "rejected"}, DecidePetition(p, client[p].on, s)
    PROVE  PetitionReview!Decide(p, s)
  <1>1. PICK q \in Petitions : q = client[p].on
    BY ReviewerHas
  <1>2. DecidePetition(p, q, s) /\ ClientsKnown
    BY <1>1 DEF CatalogueInv
  <1>3. Seeing[p] = q /\ q # Blank
    BY <1>1, CatalogueAssumption DEF Seeing
  <1>4. Seeing' = [Seeing EXCEPT ![p] = Blank]
    BY <1>2, FreeIs, SeeingIs DEF DecidePetition
  <1>5. Settled' = [Settled EXCEPT ![q] = s]
    <2>1. petition'[q].status = s /\ \A r \in Petitions \ {q} : petition'[r] = petition[r]
      BY <1>1, <1>2, DecideKeepsPetitions
    <2>2. Settled'[q] = s /\ \A r \in Petitions \ {q} : Settled'[r] = Settled[r]
      BY <2>1 DEF Settled
    <2>3. Settled = [r \in Petitions |-> Settled[r]] /\ Settled' = [r \in Petitions |-> Settled'[r]]
      BY DEF Settled
    <2> QED BY <2>2, <2>3
  <1>6. answered' = [answered EXCEPT ![q] = @ \cup {s}]
    BY <1>2 DEF DecidePetition
  <1> QED BY <1>3, <1>4, <1>5, <1>6 DEF PetitionReview!Decide, Settled, Seeing

\* Every step of the catalogue is one of Review, or none.
LEMMA PetitionsImplement ==
    ASSUME CatalogueInv, [CatalogueNext]_catalogueVars
    PROVE  [PetitionReview!Next]_PetitionReview!reviewVars
  <1>0. ClientsKnown
    BY DEF CatalogueInv
  <1>1. ASSUME UNCHANGED <<petition, answered, Seeing>> PROVE UNCHANGED PetitionReview!reviewVars
    BY <1>1 DEF PetitionReview!reviewVars, Seeing
  <1>2. ASSUME UNCHANGED client PROVE UNCHANGED Seeing
    BY <1>2 DEF Seeing
  <1>3. ASSUME NEW q \in Petitions, NEW k \in Keys, NEW n \in Names, AskCorrection(q, k, n) \/ AskAddition(q, k, n)
        PROVE  PetitionReview!Next
    <2>1. petition[q].status = "none" /\ UNCHANGED <<answered, client>>
      BY <1>3 DEF AskCorrection, AskAddition
    <2>2. petition'[q].status = "pending" /\ \A r \in Petitions \ {q} : petition'[r] = petition[r]
      BY <1>3, Asking DEF AskCorrection, AskAddition
    <2>3. Settled'[q] = "pending" /\ (\A r \in Petitions \ {q} : Settled'[r] = Settled[r]) /\ Settled[q] = "none"
      BY <2>1, <2>2 DEF Settled
    <2>4. Settled = [r \in Petitions |-> Settled[r]] /\ Settled' = [r \in Petitions |-> Settled'[r]]
      BY DEF Settled
    <2>5. Settled' = [Settled EXCEPT ![q] = "pending"]
      BY <2>3, <2>4
    <2>6. PetitionReview!File(q)
      BY <1>2, <2>1, <2>3, <2>5 DEF PetitionReview!File, Settled, Seeing
    <2> QED BY <2>6 DEF PetitionReview!Next
  <1>4. ASSUME NEW p \in Clients, NEW q \in Petitions, ReadPetition(p, q) PROVE PetitionReview!Next
    <2>1. PICK new : new = [stage |-> "review", on |-> q]
      OBVIOUS
    <2>2. new.stage = "review" /\ new.on = q
      BY <2>1
    <2>3. client' = [client EXCEPT ![p] = new] /\ petition[q].status = "pending" /\ UNCHANGED <<petition, answered>>
      BY <1>4, <2>1 DEF ReadPetition
    <2>4. Seeing' = [Seeing EXCEPT ![p] = q]
      BY <1>0, <2>2, <2>3, SeeingIs
    <2>5. Seeing[p] = Blank
      BY <1>4, FreeIs DEF ReadPetition, Seeing
    <2>6. Settled[q] = "pending" /\ Settled' = Settled
      BY <2>3 DEF Settled
    <2>7. PetitionReview!Open(p, q)
      BY <2>3, <2>4, <2>5, <2>6 DEF PetitionReview!Open, Settled, Seeing
    <2> QED BY <2>7 DEF PetitionReview!Next
  <1>5. ASSUME NEW p \in Clients, client[p].stage = "review",
               NEW s \in {"accepted", "rejected"}, DecidePetition(p, client[p].on, s)
        PROVE  PetitionReview!Next
    BY <1>5, PetitionDecided DEF PetitionReview!Next, PetitionReview!Verdicts
  <1>6. CASE PetitionNext
    <2>1. ASSUME NEW p \in Clients, AcceptCorrection(p) \/ RejectPetition(p)
          PROVE  PetitionReview!Next
      BY <1>5, <2>1 DEF AcceptCorrection, RejectPetition
    <2>2. ASSUME NEW p \in Clients, NEW x \in Entries, AcceptAddition(p, x)
          PROVE  PetitionReview!Next
      BY <1>5, <2>2 DEF AcceptAddition
    <2>3. Entries \subseteq Keys /\ Lists \subseteq Keys
      BY DEF Keys
    <2> QED BY <1>3, <1>4, <1>6, <2>1, <2>2, <2>3 DEF PetitionNext
  <1>7. ASSUME NEW p \in Clients, NEW keys, Cleaning(p, keys), client[p] = Free
        PROVE  UNCHANGED Seeing
    <2>1. PICK new : new = [stage |-> "clean", keys |-> keys]
      OBVIOUS
    <2>2. new.stage # "review" /\ client' = [client EXCEPT ![p] = new]
      BY <1>7, <2>1 DEF Cleaning
    <2> QED BY <1>0, <1>7, <2>2, FreeIs, SeeingRemains
  <1>8. CASE WritersNext
    <2>1. UNCHANGED <<petition, answered>>
      BY <1>8 DEF WritersNext, CreateEntry, UpdateEntry, DeleteEntry, Relate, AdminRelate, Relinked
    <2>2. UNCHANGED Seeing
      BY <1>2, <1>7, <1>8 DEF WritersNext, CreateEntry, UpdateEntry, DeleteEntry, Relate,
         AdminRelate
    <2> QED BY <1>1, <2>1, <2>2
  <1>9. ASSUME PagesNext PROVE UNCHANGED <<petition, answered>>
    BY <1>9 DEF PagesNext, ReadPage, ReadLinked, FillPage, CleanPage, DropClient, ExpirePage
  <1>10. ASSUME NEW p \in Clients, client' = [client EXCEPT ![p] = Free], client[p].stage # "review"
         PROVE  UNCHANGED Seeing
    BY <1>0, <1>10, FreeIs, SeeingRemains
  <1>11. ASSUME NEW p \in Clients, NEW k \in Keys, ReadPage(p, k) PROVE UNCHANGED Seeing
    <2>1. PICK new : new = IF k \in Lists THEN [stage |-> "fill", key |-> k, page |-> Listing(k)]
                           ELSE [stage |-> "linked", key |-> k, page |-> [name |-> entry[k].name, shown |-> {}]]
      OBVIOUS
    <2>2. new.stage # "review" /\ client' = [client EXCEPT ![p] = new] /\ client[p] = Free
      BY <1>11, <2>1 DEF ReadPage
    <2> QED BY <1>0, <2>2, FreeIs, SeeingRemains
  <1>12. ASSUME NEW p \in Clients, CleanPage(p) PROVE UNCHANGED Seeing
    <2>1. client[p].stage = "clean"
      BY <1>12 DEF CleanPage
    <2>2. CASE client' = [client EXCEPT ![p] = Free]
      BY <1>10, <2>1, <2>2
    <2>3. CASE client' = [client EXCEPT ![p] = [@ EXCEPT !.keys = Tail(client[p].keys)]]
      <3>1. PICK new : new = [client[p] EXCEPT !.keys = Tail(client[p].keys)]
        OBVIOUS
      <3>2. client[p] \in [stage : {"clean"}, keys : Seq(Keys) \ {<<>>}]
        BY <1>0, <2>1 DEF ClientsKnown, ClientState, Free
      <3>3. new.stage # "review" /\ client' = [client EXCEPT ![p] = new]
        BY <2>1, <2>3, <3>1, <3>2
      <3> QED BY <1>0, <2>1, <3>3, SeeingRemains
    <2> QED BY <1>12, <2>2, <2>3 DEF CleanPage
  <1>13. ASSUME NEW p \in Clients, DropClient(p) PROVE PetitionReview!Next \/ UNCHANGED Seeing
    <2>1. client' = [client EXCEPT ![p] = Free] /\ UNCHANGED <<petition, answered>>
      BY <1>13 DEF DropClient
    <2>2. CASE client[p].stage = "review"
      <3>1. Seeing[p] # Blank
        BY <2>2, ReviewerHas, CatalogueAssumption DEF Seeing
      <3>2. Seeing' = [Seeing EXCEPT ![p] = Blank]
        BY <1>0, <2>1, FreeIs, SeeingIs
      <3>3. PetitionReview!Abandon(p)
        BY <2>1, <3>1, <3>2 DEF PetitionReview!Abandon, Seeing
      <3> QED BY <3>3 DEF PetitionReview!Next
    <2> QED BY <1>10, <2>1, <2>2
  <1>14. CASE PagesNext
    <2>1. ASSUME NEW p \in Clients, FillPage(p) PROVE UNCHANGED Seeing
      BY <1>10, <2>1 DEF FillPage
    <2>2. ASSUME NEW k \in Keys, ExpirePage(k) PROVE UNCHANGED Seeing
      BY <1>2, <2>2 DEF ExpirePage
    <2>3. ASSUME NEW p \in Clients, ReadLinked(p) PROVE UNCHANGED Seeing
      <3>1. PICK new : new = [stage |-> "fill", key |-> client[p].key,
                              page |-> [name |-> client[p].page.name, shown |-> Shown(LinkedTo(client[p].key))]]
        OBVIOUS
      <3>2. client' = [client EXCEPT ![p] = new] /\ client[p].stage = "linked" /\ new.stage = "fill"
        BY <2>3, <3>1 DEF ReadLinked
      <3> QED BY <1>0, <3>2, SeeingRemains
    <2>4. PetitionReview!Next \/ UNCHANGED Seeing
      BY <1>11, <1>12, <1>13, <1>14, <2>1, <2>2, <2>3 DEF PagesNext
    <2> QED BY <1>1, <1>9, <1>14, <2>4
  <1>15. CASE UNCHANGED catalogueVars
    BY <1>1, <1>2, <1>15 DEF catalogueVars
  <1> QED BY <1>6, <1>8, <1>14, <1>15 DEF CatalogueNext

LEMMA PetitionsAreReviewed == CatalogueSpec => PetitionsReviewed
  <1>1. CatalogueInit => PetitionReview!Init
    BY FreeIs DEF CatalogueInit, PetitionReview!Init
  <1>2. CatalogueInv /\ [CatalogueNext]_catalogueVars => [PetitionReview!Next]_PetitionReview!reviewVars
    BY PetitionsImplement
  <1> QED BY <1>1, <1>2, CatalogueInvariant, PTL DEF CatalogueSpec, CatalogueNext,
             PetitionsReviewed, PetitionReview!Spec

\* Reports, corrections and requests for additions are decided by those alone who have seen
\* them pending, and their users are told every decision: Review is what is implemented.
THEOREM CasesAreReviewed == ModerationSpec /\ CatalogueSpec => Reviewed
  BY ReportsAreReviewed, PetitionsAreReviewed DEF Reviewed

\* What a page would say depends on the entries and the links alone.
LEMMA CurrentRemains ==
    ASSUME UNCHANGED entry, NEW k \in Keys, k \in Lists \/ LinkedTo(k)' = LinkedTo(k)
    PROVE  Current(k)' = Current(k)
  <1>1. CASE k \in Lists
    BY <1>1 DEF Current, Listing, KindOf, Shown, Active
  <1>2. CASE k \notin Lists
    BY <1>2 DEF Current, Detail, Shown, Active
  <1> QED BY <1>1, <1>2

\* Writing one entry changes its own page and those where it is shown: the lists of its kind,
\* and, unannounced, the pages of others.
LEMMA EntryWriteExplained ==
    ASSUME CatalogueInv, NEW x \in Entries, \A y \in Entries \ {x} : entry'[y] = entry[y], UNCHANGED given,
           EntriesKnown', NEW k \in Keys, Current(k)' # Current(k)
    PROVE  k \in {x, ListOf(x)} \/ Unannounced(k)
  <1>1. entry'[x] # entry[x]
    <2>1. SUFFICES ASSUME entry'[x] = entry[x] PROVE FALSE
      OBVIOUS
    <2>2. UNCHANGED entry
      <3>1. DOMAIN entry = Entries /\ DOMAIN entry' = Entries
        BY DEF CatalogueInv, EntriesKnown
      <3>2. entry = [y \in Entries |-> entry[y]] /\ entry' = [y \in Entries |-> entry'[y]]
        BY <3>1 DEF CatalogueInv, EntriesKnown
      <3>3. \A y \in Entries : entry'[y] = entry[y]
        BY <2>1
      <3> QED BY <3>2, <3>3
    <2>3. LinkedTo(k)' = LinkedTo(k)
      BY DEF LinkedTo
    <2> QED BY <2>2, <2>3, CurrentRemains
  <1>2. CASE k \notin Lists
    BY <1>1, <1>2 DEF Unannounced
  <1>3. CASE k \in Lists /\ k # ListOf(x)
    <2>1. KindOf(k) \subseteq Entries \ {x}
      BY <1>3, CatalogueAssumption DEF KindOf, ListOf, Lists, Entries
    <2>2. \A y \in KindOf(k) : entry'[y] = entry[y]
      BY <2>1
    <2>3. {y \in KindOf(k) : Active(y)}' = {y \in KindOf(k) : Active(y)}
      BY <2>2 DEF Active, KindOf
    <2>4. Shown(KindOf(k))' = Shown(KindOf(k))
      BY <2>2, <2>3 DEF Shown, KindOf
    <2>5. Current(k)' = Current(k)
      BY <1>3, <2>4 DEF Current, Listing
    <2> QED BY <2>5
  <1> QED BY <1>2, <1>3

\* The clients that clean after a write delete the keys they were given.
LEMMA CleaningCondemns ==
    ASSUME CatalogueInv, NEW p \in Clients, NEW keys, Cleaning(p, keys), NEW i \in 1 .. Len(keys)
    PROVE  Condemned(keys[i])'
  <1>1. PICK new : new = [stage |-> "clean", keys |-> keys]
    OBVIOUS
  <1>2. new.stage = "clean" /\ new.keys = keys
    BY <1>1
  <1>3. client'[p] = new
    <2>1. DOMAIN client = Clients
      BY DEF CatalogueInv, ClientsKnown
    <2> QED BY <1>1, <2>1 DEF Cleaning
  <1> QED BY <1>2, <1>3 DEF Condemned

LEMMA RelationExplained ==
    ASSUME CatalogueInv, NEW p \in Clients, NEW l \in Links, NEW s, Relate(p, l, s),
           NEW k \in Keys, Current(k)' # Current(k)
    PROVE  Condemned(k)'
  <1>1. PICK c \in Courses, t \in Teachers : l = <<c, t>>
    BY DEF Links
  <1>2. c \in Entries /\ t \in Entries /\ ListOf(c) = "courses" /\ ListOf(t) = "teachers"
    BY CatalogueAssumption DEF Entries, ListOf
  <1>3. PICK keys : keys = Invalidated(c) \o Invalidated(t)
    OBVIOUS
  <1>4. Cleaning(p, keys) /\ Len(keys) = 4 /\ keys[1] = c /\ keys[2] = "courses" /\ keys[3] = t /\ keys[4] = "teachers"
    <2>1. Cleaning(p, keys)
      BY <1>1, <1>3 DEF Relate
    <2> QED BY <1>2, <1>3, <2>1, InvalidatedIs
  <1>5. Condemned(c)' /\ Condemned("courses")' /\ Condemned(t)' /\ Condemned("teachers")'
    <2>1. \A i \in 1 .. 4 : Condemned(keys[i])'
      BY <1>4, CleaningCondemns
    <2> QED BY <1>4, <2>1
  <1>6. CASE k \in Lists
    BY <1>5, <1>6 DEF Lists
  <1>7. CASE k \notin Lists /\ k \notin {c, t}
    <2>1. UNCHANGED entry /\ \A m \in Links \ {l} : given'[m] = given[m]
      BY DEF Relate, Relinked, CatalogueInv, PagesKnown
    <2>2. ASSUME NEW y PROVE {l[1], l[2]} # {k, y}
      BY <1>1, <1>7
    <2>3. LinkedTo(k)' = LinkedTo(k)
      BY <2>1, <2>2 DEF LinkedTo
    <2>4. Current(k)' = Current(k)
      BY <2>1, <2>3, CurrentRemains
    <2> QED BY <2>4
  <1> QED BY <1>5, <1>6, <1>7

LEMMA WritersExplained ==
    ASSUME CatalogueInv, EntriesKnown', WritersNext, NEW k \in Keys, Current(k)' # Current(k)
    PROVE  Condemned(k)' \/ Unannounced(k)
  <1>1. ASSUME NEW x \in Entries, NEW n \in Names, CreateEntry(x, n) PROVE Unannounced(k)
    <2>1. PICK new : new = [state |-> "active", name |-> n]
      OBVIOUS
    <2>2. entry[x].state = "none" /\ entry' = [entry EXCEPT ![x] = new]
      BY <1>1, <2>1 DEF CreateEntry
    <2>3. entry'[x] = new /\ new.state = "active"
      BY <2>1, <2>2 DEF CatalogueInv, EntriesKnown
    <2> QED BY <2>2, <2>3 DEF Unannounced
  \* UpdateEntry and DeleteEntry.
  <1>2. ASSUME NEW p \in Clients, NEW x \in Entries, NEW new, entry' = [entry EXCEPT ![x] = new],
               UNCHANGED given, Cleaning(p, Invalidated(x))
        PROVE  Condemned(k)' \/ Unannounced(k)
    <2>1. \A y \in Entries \ {x} : entry'[y] = entry[y]
      BY <1>2 DEF CatalogueInv, EntriesKnown
    <2>2. k \in {x, ListOf(x)} \/ Unannounced(k)
      BY <1>2, <2>1, EntryWriteExplained
    <2>3. PICK keys : keys = Invalidated(x)
      OBVIOUS
    <2>4. Len(keys) = 2 /\ keys[1] = x /\ keys[2] = ListOf(x) /\ Cleaning(p, keys)
      BY <1>2, <2>3, InvalidatedIs
    <2>5. \A i \in 1 .. 2 : Condemned(keys[i])'
      BY <2>4, CleaningCondemns
    <2> QED BY <2>2, <2>4, <2>5
  <1>3. ASSUME NEW p \in Clients, NEW x \in Entries, NEW n \in Names, UpdateEntry(p, x, n)
        PROVE  Condemned(k)' \/ Unannounced(k)
    BY <1>2, <1>3 DEF UpdateEntry
  <1>4. ASSUME NEW p \in Clients, NEW x \in Entries, DeleteEntry(p, x)
        PROVE  Condemned(k)' \/ Unannounced(k)
    BY <1>2, <1>4 DEF DeleteEntry
  <1>5. ASSUME NEW p \in Clients, NEW l \in Links, NEW s \in {"active", "canceled"}, Relate(p, l, s)
        PROVE  Condemned(k)'
    BY <1>5, RelationExplained
  <1>6. ASSUME NEW l \in Links, NEW s \in {"active", "canceled"}, AdminRelate(l, s)
        PROVE  Unannounced(k)
    BY <1>6 DEF Unannounced
  <1> QED BY <1>1, <1>3, <1>4, <1>5, <1>6 DEF WritersNext

LEMMA PetitionsExplained ==
    ASSUME CatalogueInv, PetitionNext, NEW k \in Keys, Current(k)' # Current(k)
    PROVE  Unannounced(k)
  <1>1. ASSUME UNCHANGED <<entry, given>> PROVE FALSE
    <2>1. LinkedTo(k)' = LinkedTo(k)
      BY <1>1 DEF LinkedTo
    <2> QED BY <1>1, <2>1, CurrentRemains
  <1>2. ASSUME NEW p \in Clients, NEW x \in Entries, AcceptAddition(p, x) PROVE Unannounced(k)
    <2>1. PICK new : new = [state |-> "active", name |-> petition[client[p].on].name]
      OBVIOUS
    <2>2. entry[x].state = "none" /\ entry' = [entry EXCEPT ![x] = new]
      BY <1>2, <2>1 DEF AcceptAddition
    <2>3. entry'[x] = new /\ new.state = "active"
      BY <2>1, <2>2 DEF CatalogueInv, EntriesKnown
    <2> QED BY <2>2, <2>3 DEF Unannounced
  <1>3. ASSUME NEW p \in Clients, AcceptCorrection(p) PROVE Unannounced(k)
    BY <1>3 DEF Unannounced
  <1>4. ASSUME NEW p \in Clients, RejectPetition(p) PROVE FALSE
    BY <1>1, <1>4 DEF RejectPetition, DecidePetition
  <1> QED BY <1>1, <1>2, <1>3, <1>4 DEF PetitionNext, AskCorrection, AskAddition, ReadPetition

\* A page comes to disagree with the database only by a write whose client is about to delete
\* the key, by one of the writes that never delete it, or by a reader that was slower than a write.
THEOREM PagesAreExplained == CatalogueSpec => PagesExplained
  <1>1. CatalogueInv /\ CatalogueInv' /\ [CatalogueNext]_catalogueVars
        => [\A k \in Keys :
               Fresh(k) /\ ~ Fresh(k)' =>
                  \/ Condemned(k)'
                  \/ Unannounced(k)
                  \/ \E p \in Clients : FillPage(p) /\ client[p].key = k /\ client[p].page # Current(k)]_catalogueVars
    <2> SUFFICES ASSUME CatalogueInv, CatalogueInv', CatalogueNext, NEW k \in Keys, Fresh(k), ~ Fresh(k)',
                        ~ Condemned(k)', ~ Unannounced(k)
                 PROVE  \E p \in Clients : FillPage(p) /\ client[p].key = k /\ client[p].page # Current(k)
      OBVIOUS
    <2>1. EntriesKnown'
      BY DEF CatalogueInv
    <2>2. page[k] \in {Blank, Current(k)} /\ page'[k] \notin {Blank, Current(k)'}
      BY DEF Fresh
    <2>3. PagesNext
      <3>1. ASSUME WritersNext PROVE FALSE
        <4>1. UNCHANGED page
          BY <3>1 DEF WritersNext, CreateEntry, UpdateEntry, DeleteEntry, Relate, AdminRelate,
             Relinked
        <4>2. Current(k)' # Current(k)
          BY <2>2, <4>1
        <4> QED BY <2>1, <3>1, <4>2, WritersExplained
      <3>2. ASSUME PetitionNext PROVE FALSE
        <4>1. UNCHANGED page
          BY <3>2 DEF PetitionNext, AskCorrection, AskAddition, ReadPetition,
                      AcceptCorrection, AcceptAddition, RejectPetition, DecidePetition
        <4>2. Current(k)' # Current(k)
          BY <2>2, <4>1
        <4> QED BY <3>2, <4>2, PetitionsExplained
      <3> QED BY <3>1, <3>2 DEF CatalogueNext
    <2>4. Current(k)' = Current(k)
      <3>1. UNCHANGED <<entry, given>>
        BY <2>3 DEF PagesNext, ReadPage, ReadLinked, FillPage, CleanPage, DropClient, ExpirePage
      <3>2. LinkedTo(k)' = LinkedTo(k)
        BY <3>1 DEF LinkedTo
      <3> QED BY <3>1, <3>2, CurrentRemains
    <2>5. page'[k] # page[k] /\ page'[k] # Blank /\ page'[k] # Current(k)
      BY <2>2, <2>4
    <2>6. DOMAIN page = Keys
      BY DEF CatalogueInv, PagesKnown
    <2>7. ASSUME NEW x, page' = [page EXCEPT ![x] = Blank] PROVE FALSE
      BY <2>5, <2>6, <2>7
    <2>8. ASSUME NEW p \in Clients, CleanPage(p) PROVE FALSE
      BY <2>7, <2>8 DEF CleanPage
    <2>9. ASSUME NEW x \in Keys, ExpirePage(x) PROVE FALSE
      BY <2>7, <2>9 DEF ExpirePage
    <2>10. PICK p \in Clients : FillPage(p)
      <3>1. ASSUME UNCHANGED page PROVE FALSE
        BY <2>5, <3>1
      <3> QED BY <2>3, <2>8, <2>9, <3>1 DEF PagesNext, ReadPage, ReadLinked, DropClient
    <2>11. page' = [page EXCEPT ![client[p].key] = client[p].page]
      BY <2>10 DEF FillPage
    <2>12. client[p].key = k /\ client[p].page # Current(k)
      BY <2>5, <2>6, <2>11
    <2> QED BY <2>10, <2>12
  <1> QED BY <1>1, CatalogueInvariant, PTL DEF CatalogueSpec, CatalogueNext, PagesExplained

-----------------------------------------------------------------------------
\* LockOrders

\* An order in which transactions may agree to lock rows: users first or last, resources,
\* evaluations of one side and of the other, rows of one side and of the other.
Orders == [users : {0, 6}, evaluation : Sides, table : Sides]

Level(row, o) ==
    CASE row[1] = "users" -> o.users
      [] row[1] = "resources" -> 1
      [] row[1] = "evaluations" -> IF row[2] = o.evaluation THEN 2 ELSE 3
      [] OTHER -> IF row[1] = o.table THEN 4 ELSE 5

Before(x, y, o) == Level(x, o) < Level(y, o) \/ (x[1] = y[1] /\ x[1] \in Refreshed)

\* The order does not contradict what a transaction of its kind does.
Agrees(kind, side, o) ==
    /\ side \in Sides => side = o.table
    /\ kind = "download" => o.users = 0
    /\ kind \in {"finalize", "create"} => o.users = 6
    /\ kind = "remove" => o.evaluation # o.table
    /\ (kind = "update" /\ side = o.table) => o.evaluation = o.table

Row == ({"users"} \X UserRows) \cup ({"evaluations"} \X Sides \X Pairs) \cup UNION {Rows(table) : table \in Refreshed}

Ascends(plan, o) == \A i, j \in 1 .. Len(plan) : i < j => Before(plan[i], plan[j], o)

Transaction == [kind : Kinds \cup {"none"}, side : Sides \cup {"none"}, plan : Seq(Row), got : Nat]

\* A transaction locks its rows in every order that it agrees with.
Ordered(t) ==
    /\ t.kind = "remove" => t.side \in Sides
    /\ \A o \in Orders : Agrees(t.kind, t.side, o) => Ascends(t.plan, o)

LocksInv ==
    /\ tx \in [Sessions -> Transaction]
    /\ \A s \in Sessions : tx[s].got <= Len(tx[s].plan) /\ Ordered(tx[s])

LEMMA RowsAre ==
    /\ \A u \in UserRows : User(u) \in Row /\ User(u)[1] = "users"
    /\ \A r \in ResourceRows : Resource(r) \in Row /\ Resource(r)[1] = "resources"
    /\ \A c \in CourseRows : Course(c) \in Row /\ Course(c)[1] = "courses"
    /\ \A t \in TeacherRows : Teacher(t) \in Row /\ Teacher(t)[1] = "teachers"
    /\ \A e \in Pairs, side \in Sides :
          Evaluation(side, e) \in Row /\ Evaluation(side, e)[1] = "evaluations" /\ Evaluation(side, e)[2] = side
    /\ \A side \in Sides : \A row \in Rated(side) : row \in Row /\ row[1] = side
    /\ \A table \in Refreshed : \A row \in Rows(table) : row \in Row /\ row[1] = table
  <1>1. ASSUME NEW table \in Refreshed, NEW row \in Rows(table) PROVE row \in Row /\ row[1] = table
    BY DEF Rows, Row
  <1>2. /\ \A r \in ResourceRows : Resource(r) \in Rows("resources")
        /\ \A c \in CourseRows : Course(c) \in Rows("courses")
        /\ \A t \in TeacherRows : Teacher(t) \in Rows("teachers")
    BY DEF Rows, Resource, Course, Teacher
  <1>3. {"resources", "courses", "teachers"} \subseteq Refreshed /\ Sides \subseteq Refreshed
    BY DEF Refreshed, Sides
  <1>4. \A u \in UserRows : User(u) \in Row /\ User(u)[1] = "users"
    BY DEF User, Row
  <1>5. \A e \in Pairs, side \in Sides :
           Evaluation(side, e) \in Row /\ Evaluation(side, e)[1] = "evaluations" /\ Evaluation(side, e)[2] = side
    BY DEF Evaluation, Row
  <1> QED BY <1>1, <1>2, <1>3, <1>4, <1>5 DEF Rated

LEMMA OtherIs == \A side \in Sides : Other(side) \in Sides /\ Other(side) # side /\ Other(Other(side)) = side
                                     /\ \A d \in Sides : d # side => d = Other(side)
  BY DEF Sides, Other

\* Who has the higher level, by the tables of two rows.
LEMMA LevelIs ==
    ASSUME NEW o \in Orders, NEW row
    PROVE  /\ row[1] = "users" => Level(row, o) = o.users
           /\ row[1] = "resources" => Level(row, o) = 1
           /\ row[1] = "evaluations" => Level(row, o) = IF row[2] = o.evaluation THEN 2 ELSE 3
           /\ row[1] \in Sides => Level(row, o) = IF row[1] = o.table THEN 4 ELSE 5
           /\ o.users \in {0, 6} /\ o.evaluation \in Sides /\ o.table \in Sides
  BY DEF Level, Orders, Sides

LEMMA TwoRows ==
    ASSUME NEW o, NEW a, NEW b, Before(a, b, o)
    PROVE  Ascends(<<a, b>>, o)
  BY DEF Ascends

LEMMA ThreeRows ==
    ASSUME NEW o, NEW a, NEW b, NEW c, Before(a, b, o), Before(a, c, o), Before(b, c, o)
    PROVE  Ascends(<<a, b, c>>, o)
  BY DEF Ascends

LEMMA FourRows ==
    ASSUME NEW o, NEW a, NEW b, NEW c, NEW d, Before(a, b, o), Before(a, c, o), Before(a, d, o),
           Before(b, c, o), Before(b, d, o), Before(c, d, o)
    PROVE  Ascends(<<a, b, c, d>>, o)
  BY DEF Ascends

LEMMA FiveRows ==
    ASSUME NEW o, NEW a, NEW b, NEW c, NEW d, NEW e, Ascends(<<a, b, c, d>>, o),
           Before(a, e, o), Before(b, e, o), Before(c, e, o), Before(d, e, o)
    PROVE  Ascends(<<a, b, c, d, e>>, o)
  <1> SUFFICES ASSUME NEW i \in 1 .. 5, NEW j \in 1 .. 5, i < j
               PROVE  Before(<<a, b, c, d, e>>[i], <<a, b, c, d, e>>[j], o)
    BY DEF Ascends
  <1>1. CASE j = 5
    BY <1>1
  <1>2. CASE j # 5
    <2>1. i \in 1 .. 4 /\ j \in 1 .. 4
      BY <1>2
    <2>2. Before(<<a, b, c, d>>[i], <<a, b, c, d>>[j], o)
      BY <2>1 DEF Ascends
    <2> QED BY <2>1, <2>2
  <1> QED BY <1>1, <1>2

\* Whatever begins keeps the invariant if its plan ascends.
LEMMA StartKeeps ==
    ASSUME LocksInv, NEW s \in Sessions, NEW kind \in Kinds, NEW side \in Sides \cup {"none"},
           NEW plan \in Seq(Row), Start(s, kind, side, plan), kind = "remove" => side \in Sides,
           \A o \in Orders : Agrees(kind, side, o) => Ascends(plan, o)
    PROVE  LocksInv'
  <1>1. PICK new : new = [kind |-> kind, side |-> side, plan |-> plan, got |-> 0]
    OBVIOUS
  <1>2. new \in Transaction /\ new.kind = kind /\ new.side = side /\ new.plan = plan /\ new.got = 0
    BY <1>1 DEF Transaction
  <1>3. tx' = [tx EXCEPT ![s] = new]
    BY <1>1 DEF Start
  <1>4. Ordered(new)
    BY <1>1, <1>2 DEF Ordered
  <1>5. new.got <= Len(new.plan)
    BY <1>2, LenProperties
  <1>6. tx' \in [Sessions -> Transaction] /\ tx'[s] = new /\ \A q \in Sessions \ {s} : tx'[q] = tx[q]
    BY <1>2, <1>3 DEF LocksInv
  <1> QED BY <1>4, <1>5, <1>6 DEF LocksInv

\* Uploads, downloads, views, and updates of resources: the users first or last.
LEMMA ResourcePlansKeep ==
    ASSUME LocksInv, NEW s \in Sessions, NEW c \in CourseRows,
           \/ \E u \in UserRows : BeginFinalize(s, u, c)
           \/ \E r \in ResourceRows, u \in UserRows : BeginDownload(s, u, r, c)
           \/ \E r \in ResourceRows : BeginUse(s, r, c)
           \/ \E r \in ResourceRows, to \in CourseRows : BeginMove(s, r, c, to)
    PROVE  LocksInv'
  <1>0. {"finalize", "download", "use", "move"} \subseteq Kinds /\ "courses" \in Sides \cap Refreshed
    BY DEF Kinds, Sides, Refreshed
  <1>1. ASSUME NEW x \in CourseRows
        PROVE  /\ Course(x) \in Row /\ Course(x)[1] = "courses"
               /\ \A o \in Orders : Level(Course(x), o) \in {4, 5}
    BY <1>0, RowsAre, LevelIs
  <1>2. ASSUME NEW u \in UserRows, BeginFinalize(s, u, c) PROVE LocksInv'
    <2>1. PICK plan : plan = <<Course(c), User(u)>>
      OBVIOUS
    <2>2. User(u) \in Row /\ \A o \in Orders : Level(User(u), o) = o.users
      BY RowsAre, LevelIs
    <2>3. plan \in Seq(Row)
      BY <1>1, <2>1, <2>2
    <2>4. ASSUME NEW o \in Orders, o.users = 6 PROVE Ascends(plan, o)
      <3>1. Before(Course(c), User(u), o)
        BY <1>1, <2>2, <2>4 DEF Before
      <3> QED BY <2>1, <3>1, TwoRows
    <2>5. Start(s, "finalize", "none", plan)
      BY <1>2, <2>1 DEF BeginFinalize
    <2>6. \A o \in Orders : Agrees("finalize", "none", o) => Ascends(plan, o)
      BY <2>4 DEF Agrees
    <2> QED BY <1>0, <2>3, <2>5, <2>6, StartKeeps
  <1>3. ASSUME NEW r \in ResourceRows, NEW u \in UserRows, BeginDownload(s, u, r, c) PROVE LocksInv'
    <2>1. PICK plan : plan = <<User(u), Resource(r), Course(c)>>
      OBVIOUS
    <2>2. User(u) \in Row /\ Resource(r) \in Row
          /\ \A o \in Orders : Level(User(u), o) = o.users /\ Level(Resource(r), o) = 1
      BY RowsAre, LevelIs
    <2>3. plan \in Seq(Row)
      BY <1>1, <2>1, <2>2
    <2>4. ASSUME NEW o \in Orders, o.users = 0 PROVE Ascends(plan, o)
      <3>1. Level(User(u), o) = 0 /\ Level(Resource(r), o) = 1 /\ Level(Course(c), o) \in {4, 5}
        BY <1>1, <2>2, <2>4
      <3>2. Before(User(u), Resource(r), o) /\ Before(User(u), Course(c), o) /\ Before(Resource(r), Course(c), o)
        BY <3>1 DEF Before
      <3> QED BY <2>1, <3>2, ThreeRows
    <2>5. Start(s, "download", "none", plan)
      BY <1>3, <2>1 DEF BeginDownload
    <2>6. \A o \in Orders : Agrees("download", "none", o) => Ascends(plan, o)
      BY <2>4 DEF Agrees
    <2> QED BY <1>0, <2>3, <2>5, <2>6, StartKeeps
  <1>4. ASSUME NEW r \in ResourceRows
        PROVE  /\ Resource(r) \in Row
               /\ \A o \in Orders, x \in CourseRows : Before(Resource(r), Course(x), o)
    <2>1. Resource(r) \in Row /\ \A o \in Orders : Level(Resource(r), o) = 1
      BY RowsAre, LevelIs
    <2> QED BY <1>1, <2>1 DEF Before
  <1>5. ASSUME NEW r \in ResourceRows, BeginUse(s, r, c) PROVE LocksInv'
    <2>1. PICK plan : plan = <<Resource(r), Course(c)>>
      OBVIOUS
    <2>2. plan \in Seq(Row)
      BY <1>1, <1>4, <2>1
    <2>3. \A o \in Orders : Ascends(plan, o)
      BY <1>4, <2>1, TwoRows
    <2>4. Start(s, "use", "none", plan)
      BY <1>5, <2>1 DEF BeginUse
    <2> QED BY <1>0, <2>2, <2>3, <2>4, StartKeeps
  <1>6. ASSUME NEW r \in ResourceRows, NEW to \in CourseRows, BeginMove(s, r, c, to) PROVE LocksInv'
    <2>1. PICK plan : plan = <<Resource(r), Course(c), Course(to)>>
      OBVIOUS
    <2>2. plan \in Seq(Row)
      BY <1>1, <1>4, <2>1
    <2>3. ASSUME NEW o \in Orders PROVE Ascends(plan, o)
      <3>1. Before(Course(c), Course(to), o)
        BY <1>0, <1>1 DEF Before
      <3> QED BY <1>4, <2>1, <3>1, ThreeRows
    <2>4. Start(s, "move", "none", plan)
      BY <1>6, <2>1 DEF BeginMove
    <2> QED BY <1>0, <2>2, <2>3, <2>4, StartKeeps
  <1> QED BY <1>2, <1>3, <1>5, <1>6

\* Where the rows of a linked evaluation come, in an order that has its side first.
LEMMA SidesAre ==
    ASSUME NEW side \in Sides, NEW e \in Pairs, NEW rated \in Rated(side), NEW other \in Rated(Other(side))
    PROVE  /\ {Evaluation(side, e), Evaluation(Other(side), e), rated, other} \subseteq Row
           /\ rated[1] = side /\ other[1] = Other(side) /\ Other(side) \in Sides /\ Sides \subseteq Refreshed
           /\ \A o \in Orders :
                 /\ Level(Evaluation(side, e), o) \in {2, 3} /\ Level(Evaluation(Other(side), e), o) \in {2, 3}
                 /\ Level(rated, o) \in {4, 5}
                 /\ o.table = side => Level(rated, o) = 4 /\ Level(other, o) = 5
                 /\ o.evaluation = side =>
                       Level(Evaluation(side, e), o) = 2 /\ Level(Evaluation(Other(side), e), o) = 3
                 /\ o.evaluation # side =>
                       Level(Evaluation(side, e), o) = 3 /\ Level(Evaluation(Other(side), e), o) = 2
  <1>1. Other(side) \in Sides /\ Other(side) # side /\ \A d \in Sides : d # side => d = Other(side)
    BY OtherIs
  <1>2. /\ rated \in Row /\ rated[1] = side /\ other \in Row /\ other[1] = Other(side)
        /\ Evaluation(side, e) \in Row /\ Evaluation(Other(side), e) \in Row
        /\ Evaluation(side, e)[1] = "evaluations" /\ Evaluation(side, e)[2] = side
        /\ Evaluation(Other(side), e)[1] = "evaluations" /\ Evaluation(Other(side), e)[2] = Other(side)
    BY <1>1, RowsAre
  <1>3. ASSUME NEW o \in Orders
        PROVE  /\ Level(Evaluation(side, e), o) = IF side = o.evaluation THEN 2 ELSE 3
               /\ Level(Evaluation(Other(side), e), o) = IF Other(side) = o.evaluation THEN 2 ELSE 3
               /\ Level(rated, o) = IF side = o.table THEN 4 ELSE 5
               /\ Level(other, o) = IF Other(side) = o.table THEN 4 ELSE 5
               /\ o.evaluation \in Sides
    BY <1>1, <1>2, LevelIs
  <1>4. Sides \subseteq Refreshed
    BY DEF Refreshed
  <1> QED BY <1>1, <1>2, <1>3, <1>4

LEMMA CreationsKeep ==
    ASSUME LocksInv, NEW s \in Sessions, NEW side \in Sides, NEW rated \in Rated(side), NEW u \in UserRows,
           \/ BeginCreateSingle(s, rated, u)
           \/ \E other \in Rated(Other(side)) : BeginCreateLinked(s, side, rated, other, u)
    PROVE  LocksInv'
  <1>0. "create" \in Kinds /\ Other(side) \in Sides /\ Other(side) # side
    BY OtherIs DEF Kinds
  <1>1. /\ User(u) \in Row /\ rated \in Row
        /\ \A o \in Orders : Level(User(u), o) = o.users /\ Level(rated, o) = IF side = o.table THEN 4 ELSE 5
    BY RowsAre, LevelIs
  <1>2. ASSUME BeginCreateSingle(s, rated, u) PROVE LocksInv'
    <2>1. PICK plan : plan = <<rated, User(u)>>
      OBVIOUS
    <2>2. plan \in Seq(Row)
      BY <1>1, <2>1
    <2>3. ASSUME NEW o \in Orders, o.users = 6 PROVE Ascends(plan, o)
      <3>1. Before(rated, User(u), o)
        BY <1>1, <2>3 DEF Before
      <3> QED BY <2>1, <3>1, TwoRows
    <2>4. Start(s, "create", "none", plan)
      BY <1>2, <2>1 DEF BeginCreateSingle
    <2> QED BY <1>0, <2>2, <2>3, <2>4, StartKeeps DEF Agrees
  <1>3. ASSUME NEW other \in Rated(Other(side)), BeginCreateLinked(s, side, rated, other, u)
        PROVE  LocksInv'
    <2>1. PICK plan : plan = <<rated, other, User(u)>>
      OBVIOUS
    <2>2. other \in Row /\ \A o \in Orders : Level(other, o) = IF Other(side) = o.table THEN 4 ELSE 5
      BY <1>0, RowsAre, LevelIs
    <2>3. plan \in Seq(Row)
      BY <1>1, <2>1, <2>2
    <2>4. ASSUME NEW o \in Orders, o.users = 6, o.table = side PROVE Ascends(plan, o)
      <3>1. Level(rated, o) = 4 /\ Level(other, o) = 5 /\ Level(User(u), o) = 6
        BY <1>0, <1>1, <2>2, <2>4
      <3>2. Before(rated, other, o) /\ Before(rated, User(u), o) /\ Before(other, User(u), o)
        BY <3>1 DEF Before
      <3> QED BY <2>1, <3>2, ThreeRows
    <2>5. Start(s, "create", side, plan)
      BY <1>3, <2>1 DEF BeginCreateLinked
    <2> QED BY <1>0, <2>3, <2>4, <2>5, StartKeeps DEF Agrees
  <1> QED BY <1>2, <1>3

LEMMA ChangesKeep ==
    ASSUME LocksInv, NEW s \in Sessions, NEW side \in Sides, NEW e \in Pairs, NEW rated \in Rated(side),
           NEW other \in Rated(Other(side)),
           \/ BeginLink(s, side, e, rated, other)
           \/ BeginRemove(s, side, e, rated, other)
           \/ \E new \in Rated(Other(side)) : BeginUpdateLinked(s, side, e, rated, other, new)
    PROVE  LocksInv'
  <1>0. {"update", "remove"} \subseteq Kinds
    BY DEF Kinds
  <1>1. PICK a, b : a = Evaluation(side, e) /\ b = Evaluation(Other(side), e)
    OBVIOUS
  <1>2. {a, b, rated, other} \subseteq Row
    BY <1>1, SidesAre
  <1>3. ASSUME BeginLink(s, side, e, rated, other) PROVE LocksInv'
    <2>1. PICK plan : plan = <<a, rated, other>>
      OBVIOUS
    <2>2. plan \in Seq(Row)
      BY <1>2, <2>1
    <2>3. ASSUME NEW o \in Orders, o.table = side PROVE Ascends(plan, o)
      <3>1. Level(a, o) \in {2, 3} /\ Level(rated, o) = 4 /\ Level(other, o) = 5
        BY <1>1, <2>3, SidesAre
      <3>2. Before(a, rated, o) /\ Before(a, other, o) /\ Before(rated, other, o)
        BY <3>1 DEF Before
      <3> QED BY <2>1, <3>2, ThreeRows
    <2>4. Start(s, "update", side, plan)
      BY <1>1, <1>3, <2>1 DEF BeginLink
    <2> QED BY <1>0, <2>2, <2>3, <2>4, StartKeeps DEF Agrees
  <1>4. ASSUME BeginRemove(s, side, e, rated, other) PROVE LocksInv'
    <2>1. PICK plan : plan = <<b, a, rated, other>>
      OBVIOUS
    <2>2. plan \in Seq(Row)
      BY <1>2, <2>1
    <2>3. ASSUME NEW o \in Orders, o.table = side, o.evaluation # o.table PROVE Ascends(plan, o)
      <3>1. Level(b, o) = 2 /\ Level(a, o) = 3 /\ Level(rated, o) = 4 /\ Level(other, o) = 5
        BY <1>1, <2>3, SidesAre
      <3>2. Before(b, a, o) /\ Before(b, rated, o) /\ Before(b, other, o) /\ Before(a, rated, o) /\ Before(a, other, o)
            /\ Before(rated, other, o)
        BY <3>1 DEF Before
      <3> QED BY <2>1, <3>2, FourRows
    <2>4. Start(s, "remove", side, plan)
      BY <1>1, <1>4, <2>1 DEF BeginRemove
    <2> QED BY <1>0, <2>2, <2>3, <2>4, StartKeeps DEF Agrees
  <1>5. ASSUME NEW new \in Rated(Other(side)), BeginUpdateLinked(s, side, e, rated, other, new)
        PROVE  LocksInv'
    <2>1. PICK short, long : short = <<a, b, rated, other>> /\ long = <<a, b, rated, other, new>>
      OBVIOUS
    <2>2. new \in Row /\ other[1] = Other(side) /\ new[1] = Other(side) /\ Other(side) \in Refreshed
      BY SidesAre
    <2>3. short \in Seq(Row) /\ long \in Seq(Row)
      BY <1>2, <2>1, <2>2
    <2>4. ASSUME NEW o \in Orders, o.table = side, o.evaluation = o.table
          PROVE  Ascends(short, o) /\ Ascends(long, o)
      <3>1. Level(a, o) = 2 /\ Level(b, o) = 3 /\ Level(rated, o) = 4 /\ Level(other, o) = 5 /\ Level(new, o) = 5
        BY <1>1, <2>4, SidesAre
      <3>2. Before(a, b, o) /\ Before(a, rated, o) /\ Before(a, other, o) /\ Before(b, rated, o) /\ Before(b, other, o)
            /\ Before(rated, other, o)
        BY <3>1 DEF Before
      <3>3. Before(a, new, o) /\ Before(b, new, o) /\ Before(rated, new, o) /\ Before(other, new, o)
        BY <2>2, <3>1 DEF Before
      <3>4. Ascends(short, o)
        BY <2>1, <3>2, FourRows
      <3> QED BY <2>1, <3>3, <3>4, FiveRows
    <2>5. Start(s, "update", side, short) \/ Start(s, "update", side, long)
      <3>1. short \o <<>> = short
        BY <2>3, ConcatEmptySeq
      <3>2. short \o <<new>> = long
        <4>1. PICK more, both : more = <<new>> /\ both = short \o <<new>>
          OBVIOUS
        <4>2. more \in Seq(Row) /\ Len(more) = 1 /\ more[1] = new
          BY <2>2, <4>1
        <4>3. both \in Seq(Row) /\ Len(both) = Len(short) + 1
              /\ \A i \in 1 .. Len(short) + 1 : both[i] = IF i <= Len(short) THEN short[i] ELSE more[i - Len(short)]
          BY <2>3, <4>1, <4>2, ConcatProperties
        <4>4. Len(short) = 4 /\ short[1] = a /\ short[2] = b /\ short[3] = rated /\ short[4] = other
          BY <2>1
        <4>5. Len(long) = 5 /\ long[1] = a /\ long[2] = b /\ long[3] = rated /\ long[4] = other /\ long[5] = new
          BY <2>1
        <4>6. Len(both) = 5 /\ both[1] = a /\ both[2] = b /\ both[3] = rated /\ both[4] = other /\ both[5] = new
          BY <4>2, <4>3, <4>4
        <4>7. \A i \in 1 .. 5 : both[i] = long[i]
          BY <4>5, <4>6
        <4> QED BY <2>3, <4>1, <4>3, <4>5, <4>6, <4>7, SeqEqual
      <3>3. Start(s, "update", side, short \o IF new = other THEN <<>> ELSE <<new>>)
        BY <1>1, <1>5, <2>1 DEF BeginUpdateLinked
      <3> QED BY <3>1, <3>2, <3>3
    <2>6. ASSUME NEW plan \in {short, long}, Start(s, "update", side, plan) PROVE LocksInv'
      <3>1. plan \in Seq(Row) /\ \A o \in Orders : o.table = side /\ o.evaluation = o.table => Ascends(plan, o)
        BY <2>3, <2>4, <2>6
      <3> QED BY <1>0, <2>6, <3>1, StartKeeps DEF Agrees
    <2> QED BY <2>5, <2>6
  <1> QED BY <1>3, <1>4, <1>5

LEMMA RestKeeps ==
    ASSUME LocksInv, NEW s \in Sessions,
           \/ \E side \in Sides : \E e \in Pairs, rated \in Rated(side) : BeginChangeSingle(s, side, e, rated)
           \/ \E c \in CourseRows, t \in TeacherRows : BeginRelate(s, c, t)
           \/ \E table \in Refreshed : BeginRefresh(s, table)
    PROVE  LocksInv'
  <1>0. {"update", "relate", "refresh"} \subseteq Kinds /\ {"courses", "teachers"} = Sides
    BY DEF Kinds, Sides
  <1>1. ASSUME NEW side \in Sides, NEW e \in Pairs, NEW rated \in Rated(side), BeginChangeSingle(s, side, e, rated)
        PROVE  LocksInv'
    <2>1. PICK a : a = Evaluation(side, e)
      OBVIOUS
    <2>2. PICK plan : plan = <<a, rated>>
      OBVIOUS
    <2>3. a \in Row /\ a[1] = "evaluations" /\ rated \in Row /\ rated[1] = side
      BY <2>1, RowsAre
    <2>4. plan \in Seq(Row)
      BY <2>2, <2>3
    <2>5. ASSUME NEW o \in Orders PROVE Ascends(plan, o)
      <3>1. Level(a, o) \in {2, 3} /\ Level(rated, o) \in {4, 5}
        BY <2>3, LevelIs
      <3>2. Before(a, rated, o)
        BY <3>1 DEF Before
      <3> QED BY <2>2, <3>2, TwoRows
    <2>6. Start(s, "update", "none", plan)
      BY <1>1, <2>1, <2>2 DEF BeginChangeSingle
    <2> QED BY <1>0, <2>4, <2>5, <2>6, StartKeeps
  <1>2. ASSUME NEW c \in CourseRows, NEW t \in TeacherRows, BeginRelate(s, c, t) PROVE LocksInv'
    <2>1. PICK plan : plan = <<Course(c), Teacher(t)>>
      OBVIOUS
    <2>2. Course(c) \in Row /\ Course(c)[1] = "courses" /\ Teacher(t) \in Row /\ Teacher(t)[1] = "teachers"
      BY RowsAre
    <2>3. plan \in Seq(Row)
      BY <2>1, <2>2
    <2>4. ASSUME NEW o \in Orders, o.table = "courses" PROVE Ascends(plan, o)
      <3>1. Level(Course(c), o) = 4 /\ Level(Teacher(t), o) = 5
        BY <1>0, <2>2, <2>4, LevelIs
      <3>2. Before(Course(c), Teacher(t), o)
        BY <3>1 DEF Before
      <3> QED BY <2>1, <3>2, TwoRows
    <2>5. Start(s, "relate", "courses", plan)
      BY <1>2, <2>1 DEF BeginRelate
    <2>6. \A o \in Orders : Agrees("relate", "courses", o) => Ascends(plan, o)
      BY <1>0, <2>4 DEF Agrees
    <2> QED BY <1>0, <2>3, <2>5, <2>6, StartKeeps
  <1>3. ASSUME NEW table \in Refreshed, BeginRefresh(s, table) PROVE LocksInv'
    <2>1. IsFiniteSet(Rows(table))
      <3>1. Rows(table) = {table} \X CourseRows \/ Rows(table) = {table} \X TeacherRows
            \/ Rows(table) = {table} \X ResourceRows
        BY <1>3 DEF Rows, Refreshed, Sides
      <3>2. IsFiniteSet({table})
        BY FS_Singleton
      <3> QED BY <3>1, <3>2, FS_Product, LocksAssumption
    <2>2. PICK n \in Nat : n = Cardinality(Rows(table))
      BY <2>1, FS_CardinalityType
    <2>3. PICK order \in [1 .. n -> Rows(table)] : Start(s, "refresh", "none", order)
      BY <1>3, <2>2 DEF BeginRefresh
    <2>4. order \in Seq(Row) /\ Len(order) = n
      <3>1. Rows(table) \subseteq Row
        BY RowsAre
      <3>2. order \in [1 .. n -> Row]
        BY <3>1
      <3>3. order \in Seq(Row)
        BY <3>2, SeqDef
      <3> QED BY <3>2, <3>3, LenProperties
    <2>5. \A i \in 1 .. n : order[i][1] = table
      BY RowsAre
    <2>6. \A o \in Orders : Ascends(order, o)
      BY <2>4, <2>5 DEF Ascends, Before
    <2> QED BY <1>0, <2>3, <2>4, <2>6, StartKeeps
  <1> QED BY <1>1, <1>2, <1>3

LEMMA NoTxIs == NoTx \in Transaction /\ NoTx.got <= Len(NoTx.plan) /\ Ordered(NoTx)
  <1>1. <<>> \in Seq(Row) /\ Len(<<>>) = 0
    BY EmptySeq
  <1>2. NoTx.kind = "none" /\ NoTx.side = "none" /\ NoTx.plan = <<>> /\ NoTx.got = 0 /\ NoTx \in Transaction
    BY <1>1 DEF NoTx, Transaction
  <1>3. \A o : Ascends(<<>>, o)
    BY <1>1 DEF Ascends
  <1> QED BY <1>1, <1>2, <1>3 DEF Ordered

LEMMA LocksNext_Inv == LocksInv /\ [LocksNext]_tx => LocksInv'
  <1> SUFFICES ASSUME LocksInv, [LocksNext]_tx PROVE LocksInv'
    OBVIOUS
  <1>1. ASSUME NEW s \in Sessions, LockRow(s) PROVE LocksInv'
    <2>1. PICK t \in Transaction : t = tx[s] /\ t.got <= Len(t.plan) /\ Ordered(t)
      BY DEF LocksInv
    <2>2. t.got + 1 <= Len(t.plan) /\ t.got \in Nat
      <3>1. t.got # Len(t.plan) /\ t.got \in Nat /\ Len(t.plan) \in Nat
        BY <1>1, <2>1, LenProperties DEF LockRow, Done, Transaction
      <3> QED BY <2>1, <3>1
    <2>3. PICK new : new = [t EXCEPT !.got = @ + 1]
      OBVIOUS
    <2>4. new \in Transaction /\ new.kind = t.kind /\ new.side = t.side /\ new.plan = t.plan /\ new.got = t.got + 1
      BY <2>2, <2>3 DEF Transaction
    <2>5. tx' = [tx EXCEPT ![s] = new]
      BY <1>1, <2>1, <2>3 DEF LockRow
    <2>6. tx' \in [Sessions -> Transaction] /\ tx'[s] = new /\ \A q \in Sessions \ {s} : tx'[q] = tx[q]
      BY <2>4, <2>5 DEF LocksInv
    <2>7. new.got <= Len(new.plan) /\ Ordered(new)
      BY <2>1, <2>2, <2>4 DEF Ordered
    <2> QED BY <2>6, <2>7 DEF LocksInv
  <1>2. ASSUME NEW s \in Sessions, CommitTx(s) \/ RollBackTx(s) PROVE LocksInv'
    <2>1. tx' = [tx EXCEPT ![s] = NoTx]
      BY <1>2 DEF CommitTx, RollBackTx
    <2>2. tx' \in [Sessions -> Transaction] /\ tx'[s] = NoTx /\ \A q \in Sessions \ {s} : tx'[q] = tx[q]
      BY <2>1, NoTxIs DEF LocksInv
    <2> QED BY <2>2, NoTxIs DEF LocksInv
  <1>3. CASE UNCHANGED tx
    BY <1>3 DEF LocksInv
  <1>4. ASSUME NEW s \in Sessions, NEW c \in CourseRows,
               \/ \E u \in UserRows : BeginFinalize(s, u, c)
               \/ \E r \in ResourceRows :
                     \/ \E u \in UserRows : BeginDownload(s, u, r, c)
                     \/ BeginUse(s, r, c)
                     \/ \E to \in CourseRows : BeginMove(s, r, c, to)
        PROVE  LocksInv'
    BY <1>4, ResourcePlansKeep
  <1>5. ASSUME NEW s \in Sessions, NEW side \in Sides, NEW rated \in Rated(side),
               \/ \E u \in UserRows : BeginCreateSingle(s, rated, u)
               \/ \E u \in UserRows, other \in Rated(Other(side)) : BeginCreateLinked(s, side, rated, other, u)
        PROVE  LocksInv'
    BY <1>5, CreationsKeep
  <1>6. ASSUME NEW s \in Sessions, NEW side \in Sides, NEW rated \in Rated(side), NEW e \in Pairs,
               \/ BeginChangeSingle(s, side, e, rated)
               \/ \E other \in Rated(Other(side)) :
                     BeginLink(s, side, e, rated, other) \/ BeginRemove(s, side, e, rated, other)
               \/ \E old, new \in Rated(Other(side)) : BeginUpdateLinked(s, side, e, rated, old, new)
        PROVE  LocksInv'
    BY <1>6, RestKeeps, ChangesKeep
  <1>7. CASE LocksNext
    BY <1>1, <1>2, <1>4, <1>5, <1>6, <1>7, RestKeeps DEF LocksNext
  <1> QED BY <1>3, <1>7

LEMMA LocksInvariant == LocksSpec => []LocksInv
  <1>1. LocksInit => LocksInv
    BY NoTxIs DEF LocksInit, LocksInv
  <1> QED BY <1>1, LocksNext_Inv, PTL DEF LocksSpec

\* A transaction that locks two rows of a table walks it.
LEMMA TwoRowsWalk ==
    ASSUME LocksInv, NEW s \in Sessions, NEW table,
           NEW i \in 1 .. Len(tx[s].plan), NEW j \in 1 .. Len(tx[s].plan), i # j,
           tx[s].plan[i][1] = table, tx[s].plan[j][1] = table
    PROVE  Walks(s, table)
  <1>1. tx[s].plan \in Seq(Row)
    BY DEF LocksInv, Transaction
  <1>2. PICK n \in Nat : n = Len(tx[s].plan) /\ DOMAIN tx[s].plan = 1 .. n
    BY <1>1, LenProperties
  <1>3. PICK W : W = {k \in DOMAIN tx[s].plan : tx[s].plan[k][1] = table}
    OBVIOUS
  <1>4. {i, j} \subseteq W /\ W \subseteq 1 .. n
    BY <1>2, <1>3
  <1>5. IsFiniteSet(W)
    <2>1. IsFiniteSet(1 .. n)
      BY FS_Interval
    <2> QED BY <1>4, <2>1, FS_Subset
  <1>6. Cardinality({i, j}) = 2
    <2>1. Cardinality({i}) = 1 /\ IsFiniteSet({i})
      BY FS_Singleton
    <2>2. Cardinality({i} \cup {j}) = Cardinality({i}) + 1
      BY <2>1, FS_AddElement
    <2>3. {i} \cup {j} = {i, j}
      OBVIOUS
    <2>4. Cardinality({i} \cup {j}) = 1 + 1
      BY <2>1, <2>2, Zenon
    <2>5. 1 + 1 = 2
      OBVIOUS
    <2> QED BY <2>3, <2>4, <2>5, Zenon
  <1>7. Cardinality({i, j}) <= Cardinality(W) /\ Cardinality(W) \in Nat
    BY <1>4, <1>5, FS_Subset, FS_CardinalityType
  <1> QED BY <1>3, <1>6, <1>7 DEF Walks

\* One of some levels is the highest.
LEMMA HighestLevel ==
    ASSUME NEW L \in SUBSET (0 .. 6), L # {}
    PROVE  \E m \in L : \A l \in L : l <= m
  <1> SUFFICES ASSUME \A m \in L : \E l \in L : l > m PROVE FALSE
    OBVIOUS
  <1>6. 6 \notin L
    OBVIOUS
  <1>5. 5 \notin L
    BY <1>6
  <1>4. 4 \notin L
    BY <1>5, <1>6
  <1>3. 3 \notin L
    BY <1>4, <1>5, <1>6
  <1>2. 2 \notin L
    BY <1>3, <1>4, <1>5, <1>6
  <1>1. 1 \notin L
    BY <1>2, <1>3, <1>4, <1>5, <1>6
  <1>0. 0 \notin L
    BY <1>1, <1>2, <1>3, <1>4, <1>5, <1>6
  <1>7. PICK l \in L : l \in 0 .. 6
    OBVIOUS
  <1>8. l \in {0, 1, 2, 3, 4, 5, 6}
    BY <1>7
  <1> QED BY <1>0, <1>1, <1>2, <1>3, <1>4, <1>5, <1>6, <1>7, <1>8

\* Whoever agree on an order do not wait in a circle, unless two of them walk the same table:
\* look at those who wait for a row of the highest level; whoever holds that row waits for one
\* that is no higher, so he walks its table, and so does the one he waits for.
LEMMA NoCircle ==
    ASSUME LocksInv, NEW o \in Orders, NEW S \in SUBSET Sessions, Deadlocked(S),
           \A s \in S : Agrees(tx[s].kind, tx[s].side, o)
    PROVE  \E s, q \in S : s # q /\ \E table \in Refreshed : Walks(s, table) /\ Walks(q, table)
  <1>1. ASSUME NEW s \in S
        PROVE  /\ tx[s].plan \in Seq(Row) /\ Len(tx[s].plan) \in Nat /\ tx[s].got \in Nat
               /\ tx[s].got + 1 \in 1 .. Len(tx[s].plan)
               /\ Wanted(s) = tx[s].plan[tx[s].got + 1] /\ Wanted(s) \in Row
               /\ Ascends(tx[s].plan, o)
    <2>1. PICK t \in Transaction : t = tx[s] /\ t.got <= Len(t.plan) /\ Ordered(t)
      BY DEF LocksInv
    <2>2. t.plan \in Seq(Row) /\ Len(t.plan) \in Nat /\ t.got \in Nat
      BY LenProperties DEF Transaction
    <2>3. t.got # Len(t.plan)
      BY <2>1 DEF Deadlocked, Waits, Done
    <2>4. t.got + 1 \in 1 .. Len(t.plan)
      BY <2>1, <2>2, <2>3
    <2>5. t.plan[t.got + 1] \in Row
      BY <2>2, <2>4, ElementOfSeq
    <2>6. Ascends(t.plan, o)
      BY <2>1 DEF Ordered
    <2> QED BY <2>1, <2>2, <2>4, <2>5, <2>6 DEF Wanted
  <1>2. ASSUME NEW row \in Row PROVE Level(row, o) \in 0 .. 6
    <2>1. row[1] \in {"users", "evaluations"} \cup Refreshed
      <3>1. CASE row \in {"users"} \X UserRows
        BY <3>1
      <3>2. CASE row \in {"evaluations"} \X Sides \X Pairs
        BY <3>2
      <3>3. CASE row \in UNION {Rows(table) : table \in Refreshed}
        BY <3>3, RowsAre
      <3> QED BY <3>1, <3>2, <3>3 DEF Row
    <2>2. o.users \in 0 .. 6
      BY DEF Orders
    <2> QED BY <2>1, <2>2, LevelIs DEF Refreshed
  \* Two rows of a table that has several in a transaction.
  <1>3. ASSUME NEW x \in Row, NEW y \in Row, Level(x, o) = Level(y, o), x[1] \in Refreshed, y[1] \in Refreshed
        PROVE  x[1] = y[1]
    <2>1. \A z \in {x, y} : \/ z[1] = "resources" /\ Level(z, o) = 1
                            \/ z[1] \in Sides /\ Level(z, o) = IF z[1] = o.table THEN 4 ELSE 5
      BY <1>3, LevelIs DEF Refreshed
    <2>2. o.table \in Sides
      BY LevelIs
    <2> QED BY <1>3, <2>1, <2>2 DEF Sides
  \* Whoever is waited for waits for a row that is higher, or walks the table.
  <1>4. ASSUME NEW s \in S, NEW q \in S, Waits(s, q)
        PROVE  \/ Level(Wanted(s), o) < Level(Wanted(q), o)
               \/ Wanted(s)[1] = Wanted(q)[1] /\ Wanted(s)[1] \in Refreshed /\ Walks(q, Wanted(s)[1])
    <2>1. PICK n, plan : n = tx[q].got + 1 /\ plan = tx[q].plan
      OBVIOUS
    <2>2. PICK i \in 1 .. tx[q].got : Wanted(s) = plan[i]
      BY <1>4, <2>1 DEF Waits, Held
    <2>3. n \in 1 .. Len(plan) /\ Wanted(q) = plan[n] /\ Ascends(plan, o) /\ Len(plan) \in Nat /\ tx[q].got \in Nat
      BY <1>1, <2>1
    <2>4. i \in 1 .. Len(plan) /\ i < n
      BY <2>1, <2>2, <2>3
    <2>5. Before(Wanted(s), Wanted(q), o)
      BY <2>2, <2>3, <2>4 DEF Ascends
    <2>6. ASSUME Wanted(s)[1] = Wanted(q)[1] PROVE Walks(q, Wanted(s)[1])
      <3>1. i # n /\ tx[q].plan[i][1] = Wanted(s)[1] /\ tx[q].plan[n][1] = Wanted(s)[1]
            /\ i \in 1 .. Len(tx[q].plan) /\ n \in 1 .. Len(tx[q].plan)
        BY <2>1, <2>2, <2>3, <2>4, <2>6
      <3> QED BY <3>1, TwoRowsWalk
    <2> QED BY <2>5, <2>6 DEF Before
  <1>5. PICK high \in S : \A s \in S : Level(Wanted(s), o) <= Level(Wanted(high), o)
    <2>1. PICK L : L = {Level(Wanted(s), o) : s \in S}
      OBVIOUS
    <2>2. L \in SUBSET (0 .. 6)
      BY <1>1, <1>2, <2>1
    <2>3. L # {}
      BY <2>1 DEF Deadlocked
    <2>4. PICK m \in L : \A l \in L : l <= m
      BY <2>2, <2>3, HighestLevel
    <2> QED BY <2>1, <2>4
  <1>6. ASSUME NEW s \in S, Level(Wanted(s), o) = Level(Wanted(high), o)
        PROVE  \E q \in S : /\ Waits(s, q) /\ Level(Wanted(q), o) = Level(Wanted(high), o)
                            /\ Wanted(s)[1] = Wanted(q)[1] /\ Wanted(s)[1] \in Refreshed /\ Walks(q, Wanted(s)[1])
    <2>1. PICK q \in S : Waits(s, q)
      BY DEF Deadlocked
    <2>2. Level(Wanted(s), o) \in 0 .. 6 /\ Level(Wanted(q), o) \in 0 .. 6 /\ Level(Wanted(q), o) <= Level(Wanted(s), o)
      BY <1>1, <1>2, <1>5, <1>6
    <2>3. ~ Level(Wanted(s), o) < Level(Wanted(q), o)
      BY <2>2
    <2>4. Wanted(s)[1] = Wanted(q)[1] /\ Wanted(s)[1] \in Refreshed /\ Walks(q, Wanted(s)[1])
      BY <1>4, <2>1, <2>3
    <2>5. Level(Wanted(q), o) = Level(Wanted(s), o)
      <3>1. Level(Wanted(s), o) = Level(Wanted(q), o)
        BY <1>1, <2>4, LevelIs DEF Refreshed
      <3> QED BY <3>1
    <2> QED BY <1>6, <2>1, <2>4, <2>5
  <1>7. PICK q \in S : /\ Level(Wanted(q), o) = Level(Wanted(high), o) /\ Wanted(high)[1] = Wanted(q)[1]
                       /\ Wanted(high)[1] \in Refreshed /\ Walks(q, Wanted(high)[1])
    BY <1>6
  <1>8. PICK r \in S : Waits(q, r) /\ Walks(r, Wanted(q)[1])
    BY <1>6, <1>7
  <1>9. q # r
    BY <1>8 DEF Waits
  <1> QED BY <1>7, <1>8, <1>9

LEMMA DeadlocksAreKnown == LocksInv => LocksSound
  <1> SUFFICES ASSUME LocksInv PROVE LocksSound
    OBVIOUS
  <1>1. LocksTypeOK
    <2>1. ASSUME NEW s \in Sessions
          PROVE  tx[s].kind \in Kinds \cup {"none"} /\ tx[s].side \in Sides \cup {"none"} /\ tx[s].got \in 0 .. Len(tx[s].plan)
      <3>1. tx[s] \in Transaction /\ tx[s].got <= Len(tx[s].plan)
        BY DEF LocksInv
      <3>2. Len(tx[s].plan) \in Nat
        BY <3>1, LenProperties DEF Transaction
      <3> QED BY <3>1, <3>2 DEF Transaction
    <2> QED BY <2>1 DEF LocksTypeOK
  <1>2. ASSUME NEW S \in SUBSET Waiting, Deadlocked(S), ~ \E s, q \in S : s # q /\ Opposed(s, q)
        PROVE  FALSE
    <2>1. S \subseteq Sessions
      BY DEF Waiting
    <2>2. PICK table \in Sides : \A s \in S : tx[s].side \in Sides => tx[s].side = table
      <3>1. CASE \A s \in S : tx[s].side \notin Sides
        BY <3>1 DEF Sides
      <3>2. CASE \E s \in S : tx[s].side \in Sides
        <4>1. PICK s \in S : tx[s].side \in Sides
          BY <3>2
        <4>2. ASSUME NEW q \in S, tx[q].side \in Sides PROVE tx[q].side = tx[s].side
          <5>1. SUFFICES ASSUME tx[q].side # tx[s].side PROVE FALSE
            OBVIOUS
          <5>2. {tx[s].side, tx[q].side} = Sides
            BY <4>1, <4>2, <5>1 DEF Sides
          <5> QED BY <1>2, <5>1, <5>2 DEF Opposed
        <4> QED BY <4>1, <4>2
      <3> QED BY <3>1, <3>2
    <2>3. PICK users \in {0, 6} : /\ (\E s \in S : tx[s].kind = "download") => users = 0
                                  /\ (\A s \in S : tx[s].kind # "download") => users = 6
      OBVIOUS
    <2>4. PICK evaluation \in Sides : /\ (\E s \in S : tx[s].kind = "remove") => evaluation # table
                                      /\ (\A s \in S : tx[s].kind # "remove") => evaluation = table
      BY OtherIs
    <2>5. PICK o \in Orders : o.users = users /\ o.evaluation = evaluation /\ o.table = table
      <3>1. [users |-> users, evaluation |-> evaluation, table |-> table] \in Orders
        BY DEF Orders
      <3> QED BY <3>1
    <2>6. ASSUME NEW s \in S PROVE Agrees(tx[s].kind, tx[s].side, o)
      <3>1. ASSUME tx[s].kind \in {"finalize", "create"} PROVE o.users = 6
        <4>1. ASSUME NEW q \in S, tx[q].kind = "download" PROVE FALSE
          <5>1. q # s /\ Opposed(q, s)
            BY <3>1, <4>1 DEF Opposed
          <5> QED BY <1>2, <5>1
        <4> QED BY <2>3, <2>5, <4>1
      <3>2. ASSUME tx[s].kind = "update", tx[s].side = o.table PROVE o.evaluation = o.table
        <4>1. ASSUME NEW q \in S, tx[q].kind = "remove" PROVE FALSE
          <5>1. tx[q].side = table
            BY <2>1, <2>2, <4>1 DEF LocksInv, Ordered
          <5>2. q # s /\ Opposed(q, s)
            BY <2>5, <3>2, <4>1, <5>1 DEF Opposed
          <5> QED BY <1>2, <5>2
        <4> QED BY <2>4, <2>5, <4>1
      <3>3. tx[s].kind = "download" => o.users = 0
        BY <2>3, <2>5
      <3>4. tx[s].kind = "remove" => o.evaluation # o.table
        BY <2>4, <2>5
      <3> QED BY <2>2, <2>5, <3>1, <3>2, <3>3, <3>4 DEF Agrees
    <2>7. \E s, q \in S : s # q /\ \E t \in Refreshed : Walks(s, t) /\ Walks(q, t)
      BY <1>2, <2>1, <2>6, NoCircle
    <2> QED BY <1>2, <2>7 DEF Opposed
  <1> QED BY <1>1, <1>2 DEF LocksSound, DeadlocksKnown

-----------------------------------------------------------------------------
\* The run

LEMMA CommentsHaveTypes == CommentsInv => CommentsTypeOK
  <1> SUFFICES ASSUME CommentsInv PROVE CommentsTypeOK
    OBVIOUS
  <1>1. Count \subseteq 0 .. Cardinality(Comments)
    <2>1. ASSUME NEW n \in Count PROVE n \in 0 .. Cardinality(Comments)
      <3>1. n \in 0 .. Cardinality(Taken)
        BY DEF Count
      <3> QED BY <3>1, FewTaken
    <2> QED BY <2>1
  <1>2. CommentTables
    BY DEF CommentsInv
  <1>3. target \in [Targets -> [open : BOOLEAN, count : 0 .. Cardinality(Comments), owner : Authors]]
    <2>1. [open : BOOLEAN, count : Count, owner : Authors]
          \subseteq [open : BOOLEAN, count : 0 .. Cardinality(Comments), owner : Authors]
      BY <1>1
    <2> QED BY <1>2, <2>1 DEF CommentTables
  <1>4. counted \in {Absent} \cup [Resources -> 0 .. Cardinality(Comments)]
    BY <1>1, <1>2 DEF CommentTables
  <1> QED BY <1>2, <1>3, <1>4 DEF CommentsTypeOK, CommentTables

LEMMA CatalogueHasTypes == CatalogueInv => CatalogueTypeOK
  <1> SUFFICES ASSUME CatalogueInv PROVE CatalogueTypeOK
    OBVIOUS
  <1>1. EntriesKnown /\ PetitionsKnown /\ ClientsKnown /\ PagesKnown
    BY DEF CatalogueInv
  <1>2. ASSUME NEW q \in Petitions
        PROVE  petition[q] = [status |-> "none"] \/ petition[q] \in [status : Statuses, about : Keys, name : Names]
    BY <1>1 DEF PetitionsKnown, NotAsked, Asked
  <1>3. ASSUME NEW p \in Clients PROVE client[p].stage \in {"free", "linked", "fill", "clean", "review"}
    BY <1>1 DEF ClientsKnown, ClientState, Free
  <1> QED BY <1>1, <1>2, <1>3 DEF CatalogueTypeOK, EntriesKnown, PetitionsKnown, PagesKnown

\* A resolved report has had its effect and is, of the reports of a resource, the only one;
\* whoever is deadlocked, two of them are known to lock rows in opposite orders; and the
\* variables have their types.
THEOREM ModerationIsSound == ModerationSpec /\ CatalogueSpec /\ LocksSpec => []ModerationSound
  <1>1. ModerationInv /\ CatalogueInv /\ LocksInv => ModerationSound
    BY CommentsHaveTypes, OneResolves, CatalogueHasTypes, DeadlocksAreKnown DEF ModerationInv,
       ModerationSound
  <1> QED BY <1>1, ModerationInvariant, CatalogueInvariant, LocksInvariant, PTL

\* The run keeps the parts apart, and is a behaviour of each.
LEMMA RunIsCovered == MCSpec => ModerationSpec /\ CatalogueSpec /\ LocksSpec
  <1>1. MCInit => CommentsInit /\ ModerationInit /\ CatalogueInit /\ LocksInit
    BY DEF MCInit
  <1>2. [MCNext]_<<commentVars, moderationVars, catalogueVars, tx, part>>
        => [ModerationNext]_<<commentVars, moderationVars>>
    BY DEF MCNext, ServicesNext, LocksPart, ModerationNext
  <1>3. [MCNext]_<<commentVars, moderationVars, catalogueVars, tx, part>>
        => [PagesNext \/ WritersNext \/ PetitionNext]_catalogueVars
    BY DEF MCNext, ServicesNext, LocksPart
  <1>4. [MCNext]_<<commentVars, moderationVars, catalogueVars, tx, part>> => [LocksNext]_tx
    BY DEF MCNext, LocksPart
  <1> QED BY <1>1, <1>2, <1>3, <1>4, PTL DEF MCSpec, ModerationSpec, CatalogueSpec, LocksSpec
================================================================================
