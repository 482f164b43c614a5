------------------------ MODULE CourseAggregates_proofs ------------------------
(***************************************************************************)
(* Theorems about the totals of courses, for any finite sets of users and  *)
(* of resources, any courses and any number of requests: every variable    *)
(* keeps its type, resources.like_count is the number of likes, and the    *)
(* totals of a course only go wrong in the known ways.                     *)
(*                                                                         *)
(* The model sums with a fold.  Sections: what the fold computes (the size *)
(* of a pile, so that adding a resource or a hit adds to it), then what    *)
(* every step does to the types, to the likes, to the favorites and to the *)
(* totals.                                                                 *)
(***************************************************************************)
EXTENDS CourseAggregates, FiniteSetTheorems, WellFoundedInduction, TLAPS

-----------------------------------------------------------------------------
\* Sums over sets
\* f[x] pairs for every x of T: their number is the sum of f over T.
Pile(f, T) == {x \in T \X Nat : x[2] \in 1 .. f[x[1]]}

Layer(f, x) == {x} \X (1 .. f[x])

Total(f, T) == Cardinality(Pile(f, T))

\* If some sets are bad then one is that has no smaller bad set.
LEMMA LeastSet ==
    ASSUME NEW S, IsFiniteSet(S), NEW Bad \in SUBSET (SUBSET S), Bad # {}
    PROVE  \E T \in Bad : \A U \in SUBSET T : U # T => U \notin Bad
  <1>1. IsWellFoundedOn(StrictSubsetOrdering(S), SUBSET S)
    BY FS_StrictSubsetOrderingWellFounded, FS_FiniteSubsetsOfFinite
  <1>2. PICK T \in Bad : \A U \in Bad : <<U, T>> \notin StrictSubsetOrdering(S)
    BY <1>1, WFMin
  <1>3. ASSUME NEW U \in SUBSET T, U # T, U \in Bad PROVE FALSE
    <2>1. U \in SUBSET S /\ T \in SUBSET S
      OBVIOUS
    <2>2. <<U, T>> \in StrictSubsetOrdering(S)
      BY <1>3, <2>1 DEF StrictSubsetOrdering
    <2> QED BY <1>3, <2>2, <1>2
  <1> QED BY <1>3

\* The pile of T is a layer of f[x] pairs on the pile of the others.
LEMMA PileGrows ==
    ASSUME NEW S, NEW f \in [S -> Nat], NEW T \in SUBSET S, NEW x \in T
    PROVE  /\ Pile(f, T) = Pile(f, T \ {x}) \cup Layer(f, x)
           /\ Pile(f, T \ {x}) \cap Layer(f, x) = {}
           /\ IsFiniteSet(Layer(f, x)) /\ Cardinality(Layer(f, x)) = f[x]
  <1>1. f[x] \in Nat
    OBVIOUS
  <1>2. \A y : y \in Pile(f, T) <=> y \in Pile(f, T \ {x}) \/ y \in Layer(f, x)
    BY <1>1 DEF Pile, Layer
  <1>3. \A y : ~(y \in Pile(f, T \ {x}) /\ y \in Layer(f, x))
    BY DEF Pile, Layer
  <1>4. IsFiniteSet({x}) /\ Cardinality({x}) = 1
    BY FS_Singleton
  <1>5. IsFiniteSet(1 .. f[x]) /\ Cardinality(1 .. f[x]) = f[x]
    BY <1>1, FS_Interval
  <1>6. IsFiniteSet(Layer(f, x)) /\ Cardinality(Layer(f, x)) = 1 * f[x]
    BY <1>4, <1>5, FS_Product, ZenonT(30) DEF Layer
  <1>7. Pile(f, T) = Pile(f, T \ {x}) \cup Layer(f, x)
    BY <1>2
  <1>8. Pile(f, T \ {x}) \cap Layer(f, x) = {}
    BY <1>3
  <1>9. 1 * f[x] = f[x]
    BY <1>1
  <1> QED BY <1>6, <1>7, <1>8, <1>9

\* A least set with an infinite pile would be one layer on a finite pile.
LEMMA PileFinite ==
    ASSUME NEW S, IsFiniteSet(S), NEW f \in [S -> Nat], NEW T \in SUBSET S
    PROVE  IsFiniteSet(Pile(f, T)) /\ Total(f, T) \in Nat
  <1> DEFINE Bad == {U \in SUBSET S : ~IsFiniteSet(Pile(f, U))}
  <1>1. ASSUME Bad # {} PROVE FALSE
    <2>1. PICK U \in Bad : \A V \in SUBSET U : V # U => V \notin Bad
      <3> HIDE DEF Bad
      <3>1. Bad \in SUBSET (SUBSET S)
        BY DEF Bad
      <3> QED BY <1>1, <3>1, LeastSet
    <2>2. CASE U = {}
      <3>1. Pile(f, U) = {}
        BY <2>2 DEF Pile
      <3> QED BY <3>1, FS_EmptySet
    <2>3. CASE U # {}
      <3>1. PICK x : x \in U
        BY <2>3
      <3>2. IsFiniteSet(Pile(f, U \ {x}))
        BY <2>1, <3>1
      <3>3. IsFiniteSet(Layer(f, x)) /\ Pile(f, U) = Pile(f, U \ {x}) \cup Layer(f, x)
        BY <3>1, <2>1, PileGrows
      <3>4. IsFiniteSet(Pile(f, U \ {x}) \cup Layer(f, x))
        BY <3>2, <3>3, FS_Union
      <3>5. IsFiniteSet(Pile(f, U))
        BY <3>3, <3>4
      <3> QED BY <3>5, <2>1
    <2> QED BY <2>2, <2>3
  <1>2. IsFiniteSet(Pile(f, T))
    BY <1>1
  <1> QED BY <1>2, FS_CardinalityType DEF Total

LEMMA TotalOfNone == \A f : Total(f, {}) = 0
  <1>1. \A f : Pile(f, {}) = {}
    BY DEF Pile
  <1> QED BY <1>1, FS_EmptySet DEF Total

\* Any element can be taken out of a sum.
LEMMA TotalSplit ==
    ASSUME NEW S, IsFiniteSet(S), NEW f \in [S -> Nat], NEW T \in SUBSET S, NEW x \in T
    PROVE  Total(f, T) = f[x] + Total(f, T \ {x})
  <1>1. IsFiniteSet(Pile(f, T \ {x})) /\ Cardinality(Pile(f, T \ {x})) \in Nat
    BY PileFinite DEF Total
  <1> DEFINE Others == Pile(f, T \ {x})
             Own == Layer(f, x)
  <1>2. Pile(f, T) = Others \cup Own /\ Others \cap Own = {} /\ IsFiniteSet(Own) /\ Cardinality(Own) = f[x]
    BY PileGrows
  <1>3. f[x] \in Nat
    OBVIOUS
  <1>4. Cardinality(Pile(f, T)) = Cardinality(Others) + f[x]
    <2>1. IsFiniteSet(Others) /\ Cardinality(Others) \in Nat
      BY <1>1
    <2> HIDE DEF Others, Own
    <2>2. Cardinality(Others \cup Own) = Cardinality(Others) + Cardinality(Own) - Cardinality(Others \cap Own)
      BY <1>2, <2>1, FS_Union
    <2>3. Cardinality(Others \cap Own) = 0
      BY <1>2, FS_EmptySet
    <2> QED BY <1>2, <1>3, <2>1, <2>2, <2>3
  <1> QED BY <1>1, <1>3, <1>4 DEF Total

\* A sum depends on its summands only.
LEMMA TotalSame ==
    ASSUME NEW f, NEW g, NEW T, \A x \in T : f[x] = g[x]
    PROVE  Total(f, T) = Total(g, T)
  <1>1. \A y : y \in Pile(f, T) <=> y \in Pile(g, T)
    BY DEF Pile
  <1>2. Pile(f, T) = Pile(g, T)
    BY <1>1 DEF Pile
  <1> QED BY <1>2 DEF Total

\* sum is the recursive function by which the library sums f over S.
Folded(sum, f, S) ==
    sum = [T \in SUBSET S |-> IF T = {} THEN 0
                              ELSE f[CHOOSE x \in T : TRUE] + sum[T \ {CHOOSE x \in T : TRUE}]]

\* There is such a function, since totals satisfy its equation,
LEMMA FoldExists ==
    ASSUME NEW S, IsFiniteSet(S), NEW f \in [S -> Nat]
    PROVE  Folded([T \in SUBSET S |-> Total(f, T)], f, S)
  <1> DEFINE sum == [T \in SUBSET S |-> Total(f, T)]
  <1>1. ASSUME NEW T \in SUBSET S
        PROVE  sum[T] = IF T = {} THEN 0 ELSE f[CHOOSE x \in T : TRUE] + sum[T \ {CHOOSE x \in T : TRUE}]
    <2>1. CASE T = {}
      BY <2>1, TotalOfNone
    <2>2. CASE T # {}
      <3>1. PICK x : x = (CHOOSE y \in T : TRUE)
        OBVIOUS
      <3>2. x \in T
        BY <2>2, <3>1
      <3>3. T \ {x} \in SUBSET S
        OBVIOUS
      <3>4. Total(f, T) = f[x] + Total(f, T \ {x})
        BY <3>2, TotalSplit
      <3> QED BY <2>2, <3>1, <3>3, <3>4
    <2> QED BY <2>1, <2>2
  <1> QED BY <1>1 DEF Folded

\* and it gives totals: on a least set where it does not, both sides take out the
\* same element.
LEMMA FoldIs ==
    ASSUME NEW S, IsFiniteSet(S), NEW f \in [S -> Nat], NEW sum, Folded(sum, f, S)
    PROVE  sum[S] = Total(f, S)
  <1> DEFINE Bad == {T \in SUBSET S : sum[T] # Total(f, T)}
  <1>1. ASSUME Bad # {} PROVE FALSE
    <2>1. PICK T \in Bad : \A U \in SUBSET T : U # T => U \notin Bad
      <3> HIDE DEF Bad
      <3>1. Bad \in SUBSET (SUBSET S)
        BY DEF Bad
      <3> QED BY <1>1, <3>1, LeastSet
    <2>2. CASE T = {}
      <3>1. sum[T] = 0
        BY <2>2 DEF Folded
      <3> QED BY <2>2, <3>1, TotalOfNone
    <2>3. CASE T # {}
      <3>1. PICK x : x = (CHOOSE y \in T : TRUE)
        OBVIOUS
      <3>2. x \in T
        BY <2>3, <3>1
      <3>3. sum[T] = f[x] + sum[T \ {x}]
        BY <2>3, <3>1 DEF Folded
      <3>4. sum[T \ {x}] = Total(f, T \ {x})
        BY <2>1, <3>2
      <3> QED BY <3>2, <3>3, <3>4, TotalSplit
    <2> QED BY <2>2, <2>3
  <1> QED BY <1>1

Hits(rows) == [r \in Resources |-> rows[r].hits]

LikeCounts(rows) == [r \in Resources |-> rows[r].likes]

\* The sums of the model are totals.
LEMMA SumsAreTotals ==
    ASSUME NEW rows \in [Resources -> Row], NEW T \in SUBSET Resources
    PROVE  /\ HitsOf(rows, T) = Total(Hits(rows), T)
           /\ LikesOf(rows, T) = Total(LikeCounts(rows), T)
  <1>1. IsFiniteSet(T)
    BY AggregateAssumption, FS_Subset
  <1>2. HitsOf(rows, T) = Total(Hits(rows), T)
    <2> DEFINE f == [r \in T |-> rows[r].hits]
               sum == CHOOSE s : s = [U \in SUBSET T |-> IF U = {} THEN 0 ELSE
                          rows[CHOOSE x \in U : TRUE].hits + s[U \ {CHOOSE x \in U : TRUE}]]
    <2>1. f \in [T -> Nat]
      BY DEF Row
    <2>2. HitsOf(rows, T) = sum[T]
      BY DEF HitsOf, MapThenSumSet, MapThenFoldSet
    <2>3. \A s : Folded(s, f, T) <=> s = [U \in SUBSET T |-> IF U = {} THEN 0 ELSE
                          rows[CHOOSE x \in U : TRUE].hits + s[U \ {CHOOSE x \in U : TRUE}]]
      BY ZenonT(30) DEF Folded
    <2>4. Folded(sum, f, T)
      BY <1>1, <2>1, <2>3, FoldExists
    <2>5. sum[T] = Total(f, T)
      <3> HIDE DEF sum, f
      <3> QED BY <1>1, <2>1, <2>4, FoldIs
    <2>6. Total(f, T) = Total(Hits(rows), T)
      BY TotalSame DEF Hits
    <2> QED BY <2>2, <2>5, <2>6
  <1>3. LikesOf(rows, T) = Total(LikeCounts(rows), T)
    <2> DEFINE f == [r \in T |-> rows[r].likes]
               sum == CHOOSE s : s = [U \in SUBSET T |-> IF U = {} THEN 0 ELSE
                          rows[CHOOSE x \in U : TRUE].likes + s[U \ {CHOOSE x \in U : TRUE}]]
    <2>1. f \in [T -> Nat]
      BY DEF Row
    <2>2. LikesOf(rows, T) = sum[T]
      BY DEF LikesOf, MapThenSumSet, MapThenFoldSet
    <2>3. \A s : Folded(s, f, T) <=> s = [U \in SUBSET T |-> IF U = {} THEN 0 ELSE
                          rows[CHOOSE x \in U : TRUE].likes + s[U \ {CHOOSE x \in U : TRUE}]]
      BY ZenonT(30) DEF Folded
    <2>4. Folded(sum, f, T)
      BY <1>1, <2>1, <2>3, FoldExists
    <2>5. sum[T] = Total(f, T)
      <3> HIDE DEF sum, f
      <3> QED BY <1>1, <2>1, <2>4, FoldIs
    <2>6. Total(f, T) = Total(LikeCounts(rows), T)
      BY TotalSame DEF LikeCounts
    <2> QED BY <2>2, <2>5, <2>6
  <1> QED BY <1>2, <1>3
\* The summand of one element changes.
LEMMA TotalChanged ==
    ASSUME NEW S, IsFiniteSet(S), NEW f \in [S -> Nat], NEW g \in [S -> Nat], NEW T \in SUBSET S, NEW x \in T,
           \A y \in T \ {x} : f[y] = g[y]
    PROVE  Total(g, T) = Total(f, T) - f[x] + g[x] /\ Total(f, T) >= f[x]
  <1>1. Total(f, T) = f[x] + Total(f, T \ {x}) /\ Total(g, T) = g[x] + Total(g, T \ {x})
    BY TotalSplit
  <1>2. Total(f, T \ {x}) = Total(g, T \ {x})
    BY TotalSame
  <1>3. f[x] \in Nat /\ g[x] \in Nat
    OBVIOUS
  <1>4. Total(f, T \ {x}) \in Nat
    <2>1. T \ {x} \in SUBSET S
      OBVIOUS
    <2> QED BY <2>1, PileFinite
  <1> QED BY <1>1, <1>2, <1>3, <1>4

-----------------------------------------------------------------------------
\* What a course shows, as sizes of sets

FavoredIn(favs, shown) == {f \in favs : f[2] \in shown}

LEMMA FavoredFinite ==
    ASSUME NEW favs \in SUBSET (Users \X Resources), NEW shown
    PROVE  IsFiniteSet(FavoredIn(favs, shown)) /\ Cardinality(FavoredIn(favs, shown)) \in Nat
  <1>1. IsFiniteSet(Users \X Resources)
    BY AggregateAssumption, FS_Product
  <1>2. FavoredIn(favs, shown) \in SUBSET (Users \X Resources)
    BY DEF FavoredIn
  <1>3. IsFiniteSet(FavoredIn(favs, shown))
    BY <1>1, <1>2, FS_Subset
  <1> QED BY <1>3, FS_CardinalityType

LEMMA ShownFinite ==
    ASSUME NEW rows, NEW c
    PROVE  /\ Shown(rows, c) \in SUBSET Resources
           /\ IsFiniteSet(Shown(rows, c)) /\ Cardinality(Shown(rows, c)) \in Nat
  <1>1. Shown(rows, c) \in SUBSET Resources
    BY DEF Shown
  <1>2. IsFiniteSet(Shown(rows, c))
    BY <1>1, AggregateAssumption, FS_Subset
  <1> QED BY <1>1, <1>2, FS_CardinalityType

LEMMA SummandsTyped ==
    ASSUME NEW rows \in [Resources -> Row]
    PROVE  /\ Hits(rows) \in [Resources -> Nat] /\ LikeCounts(rows) \in [Resources -> Nat]
           /\ \A r \in Resources : Hits(rows)[r] = rows[r].hits /\ LikeCounts(rows)[r] = rows[r].likes
  BY DEF Hits, LikeCounts, Row

\* The totals of a record are those of the rows of course c.
Agree(totals, rows, favs, c) ==
    /\ totals.resources = Cardinality(Shown(rows, c))
    /\ totals.hits = Total(Hits(rows), Shown(rows, c))
    /\ totals.likes = Total(LikeCounts(rows), Shown(rows, c))
    /\ totals.favorites = Cardinality(FavoredIn(favs, Shown(rows, c)))

LEMMA SameTotals ==
    ASSUME NEW t \in Totals, NEW u \in Totals,
           t.resources = u.resources, t.hits = u.hits, t.likes = u.likes, t.favorites = u.favorites
    PROVE  t = u
  BY DEF Totals

LEMMA StatsNow ==
    ASSUME NEW rows \in [Resources -> Row], favorites \subseteq Users \X Resources, NEW c
    PROVE  StatsOf(rows, c) \in Totals /\ Agree(StatsOf(rows, c), rows, favorites, c)
  <1>1. /\ HitsOf(rows, Shown(rows, c)) = Total(Hits(rows), Shown(rows, c))
        /\ LikesOf(rows, Shown(rows, c)) = Total(LikeCounts(rows), Shown(rows, c))
    BY ShownFinite, SumsAreTotals
  <1>2. Total(Hits(rows), Shown(rows, c)) \in Nat /\ Total(LikeCounts(rows), Shown(rows, c)) \in Nat
    BY ShownFinite, SummandsTyped, PileFinite, AggregateAssumption
  <1>3. Cardinality(FavoredIn(favorites, Shown(rows, c))) \in Nat
    BY FavoredFinite
  <1>4. Agree(StatsOf(rows, c), rows, favorites, c)
    BY <1>1 DEF Agree, StatsOf, FavoredIn
  <1>5. StatsOf(rows, c) \in Totals
    BY <1>1, <1>2, <1>3, ShownFinite DEF StatsOf, Totals, FavoredIn
  <1> QED BY <1>4, <1>5

LEMMA StatsThen ==
    ASSUME resource' \in [Resources -> Row], favorites' \subseteq Users \X Resources, NEW c
    PROVE  StatsOf(resource, c)' \in Totals /\ Agree(StatsOf(resource, c)', resource', favorites', c)
  <1>1. /\ HitsOf(resource', Shown(resource', c)) = Total(Hits(resource'), Shown(resource', c))
        /\ LikesOf(resource', Shown(resource', c)) = Total(LikeCounts(resource'), Shown(resource', c))
    BY ShownFinite, SumsAreTotals
  <1>2. Total(Hits(resource'), Shown(resource', c)) \in Nat /\ Total(LikeCounts(resource'), Shown(resource', c)) \in Nat
    BY ShownFinite, SummandsTyped, PileFinite, AggregateAssumption
  <1>3. Cardinality(FavoredIn(favorites', Shown(resource', c))) \in Nat
    BY FavoredFinite
  <1>4. Agree(StatsOf(resource, c)', resource', favorites', c)
    BY <1>1 DEF Agree, StatsOf, FavoredIn
  <1>5. StatsOf(resource, c)' \in Totals
    BY <1>1, <1>2, <1>3, ShownFinite DEF StatsOf, Totals, FavoredIn
  <1> QED BY <1>4, <1>5

\* A record of totals that agrees with the rows is the only one.
LEMMA AgreeOnce ==
    ASSUME NEW t \in Totals, NEW u \in Totals, NEW rows, NEW favs, NEW c,
           Agree(t, rows, favs, c), Agree(u, rows, favs, c)
    PROVE  t = u
  BY SameTotals DEF Agree

LEMMA AllStatsTyped ==
    ASSUME NEW rows \in [Resources -> Row], favorites \subseteq Users \X Resources
    PROVE  AllStats(rows) \in [Courses -> Totals]
  BY StatsNow DEF AllStats

-----------------------------------------------------------------------------
\* How totals follow their rows.  Each lemma has rows and favorites before and
\* after a change and a record of totals that agrees with them before.

\* Nothing changes of what the course shows.
LEMMA AgreeSame ==
    ASSUME NEW rows \in [Resources -> Row], NEW after \in [Resources -> Row],
           NEW favs \in SUBSET (Users \X Resources), NEW favsAfter \in SUBSET (Users \X Resources),
           NEW c, NEW totals, Agree(totals, rows, favs, c),
           Shown(after, c) = Shown(rows, c),
           \A r \in Shown(rows, c) : after[r].hits = rows[r].hits /\ after[r].likes = rows[r].likes,
           \A f \in Users \X Resources : f[2] \in Shown(rows, c) => (f \in favsAfter <=> f \in favs)
    PROVE  Agree(totals, after, favsAfter, c)
  <1>1. \A r \in Shown(rows, c) : Hits(after)[r] = Hits(rows)[r] /\ LikeCounts(after)[r] = LikeCounts(rows)[r]
    BY ShownFinite, SummandsTyped
  <1>2. /\ Total(Hits(after), Shown(rows, c)) = Total(Hits(rows), Shown(rows, c))
        /\ Total(LikeCounts(after), Shown(rows, c)) = Total(LikeCounts(rows), Shown(rows, c))
    BY <1>1, TotalSame
  <1>3. FavoredIn(favsAfter, Shown(rows, c)) = FavoredIn(favs, Shown(rows, c))
    <2>1. \A f : f \in FavoredIn(favsAfter, Shown(rows, c)) <=> f \in FavoredIn(favs, Shown(rows, c))
      BY DEF FavoredIn
    <2> QED BY <2>1
  <1> QED BY <1>2, <1>3 DEF Agree

\* One row changes, and the course shows it neither before nor after.
LEMMA AgreeElsewhere ==
    ASSUME NEW rows \in [Resources -> Row], NEW after \in [Resources -> Row],
           NEW favs \in SUBSET (Users \X Resources), NEW c, NEW totals, Agree(totals, rows, favs, c),
           NEW r, \A s \in Resources \ {r} : after[s] = rows[s],
           r \notin Shown(rows, c), r \notin Shown(after, c)
    PROVE  Agree(totals, after, favs, c)
  <1>1. \A s : s \in Shown(after, c) <=> s \in Shown(rows, c)
    BY DEF Shown
  <1>2. Shown(after, c) = Shown(rows, c)
    BY <1>1
  <1>3. \A s \in Shown(rows, c) : after[s].hits = rows[s].hits /\ after[s].likes = rows[s].likes
    BY DEF Shown
  <1> QED BY <1>2, <1>3, AgreeSame

\* The counts of one row that is shown change, and the totals by as much.
LEMMA AgreeCounts ==
    ASSUME NEW rows \in [Resources -> Row], NEW after \in [Resources -> Row],
           NEW favs \in SUBSET (Users \X Resources), NEW c, NEW totals, NEW totalsAfter,
           Agree(totals, rows, favs, c), NEW r \in Shown(rows, c),
           after[r].status = rows[r].status, after[r].course = rows[r].course,
           \A s \in Resources \ {r} : after[s] = rows[s],
           totalsAfter.resources = totals.resources, totalsAfter.favorites = totals.favorites,
           totalsAfter.hits = totals.hits - rows[r].hits + after[r].hits,
           totalsAfter.likes = totals.likes - rows[r].likes + after[r].likes
    PROVE  Agree(totalsAfter, after, favs, c)
  <1>1. r \in Resources
    BY DEF Shown
  <1>2. \A s : s \in Shown(after, c) <=> s \in Shown(rows, c)
    BY DEF Shown
  <1>3. Shown(after, c) = Shown(rows, c)
    BY <1>2
  <1>4. /\ Hits(rows)[r] = rows[r].hits /\ Hits(after)[r] = after[r].hits
        /\ LikeCounts(rows)[r] = rows[r].likes /\ LikeCounts(after)[r] = after[r].likes
    BY <1>1, SummandsTyped
  <1>5. \A s \in Shown(rows, c) \ {r} : Hits(rows)[s] = Hits(after)[s] /\ LikeCounts(rows)[s] = LikeCounts(after)[s]
    BY ShownFinite, SummandsTyped
  <1>6. Total(Hits(after), Shown(rows, c)) = Total(Hits(rows), Shown(rows, c)) - Hits(rows)[r] + Hits(after)[r]
    BY <1>5, ShownFinite, SummandsTyped, AggregateAssumption, TotalChanged
  <1>7. Total(LikeCounts(after), Shown(rows, c))
            = Total(LikeCounts(rows), Shown(rows, c)) - LikeCounts(rows)[r] + LikeCounts(after)[r]
    BY <1>5, ShownFinite, SummandsTyped, AggregateAssumption, TotalChanged
  <1> QED BY <1>3, <1>4, <1>6, <1>7 DEF Agree

\* No total is less than the count of a row.
LEMMA AgreeBounds ==
    ASSUME NEW rows \in [Resources -> Row], NEW favs, NEW c, NEW totals, Agree(totals, rows, favs, c),
           NEW r \in Shown(rows, c)
    PROVE  totals.likes >= rows[r].likes
  <1>1. r \in Resources
    BY DEF Shown
  <1>2. Total(LikeCounts(rows), Shown(rows, c)) >= LikeCounts(rows)[r]
    BY ShownFinite, SummandsTyped, AggregateAssumption, TotalChanged
  <1> QED BY <1>1, <1>2, SummandsTyped DEF Agree

\* The course shows one resource more, which nobody has seen yet.
LEMMA AgreeMore ==
    ASSUME NEW rows \in [Resources -> Row], NEW after \in [Resources -> Row],
           NEW favs \in SUBSET (Users \X Resources), NEW c, NEW totals, NEW totalsAfter,
           Agree(totals, rows, favs, c), NEW r \in Resources, r \notin Shown(rows, c), r \in Shown(after, c),
           after[r].hits = 0, after[r].likes = 0, \A u \in Users : <<u, r>> \notin favs,
           \A s \in Resources \ {r} : after[s] = rows[s],
           totalsAfter.resources = totals.resources + 1, totalsAfter.favorites = totals.favorites,
           totalsAfter.hits = totals.hits, totalsAfter.likes = totals.likes
    PROVE  Agree(totalsAfter, after, favs, c)
  <1>1. \A s : s \in Shown(after, c) <=> s \in Shown(rows, c) \cup {r}
    BY DEF Shown
  <1>2. Shown(after, c) = Shown(rows, c) \cup {r} /\ Shown(after, c) \ {r} = Shown(rows, c)
    BY <1>1
  <1>3. Cardinality(Shown(after, c)) = Cardinality(Shown(rows, c)) + 1
    BY <1>2, ShownFinite, FS_AddElement
  <1>4. \A s \in Shown(rows, c) : Hits(after)[s] = Hits(rows)[s] /\ LikeCounts(after)[s] = LikeCounts(rows)[s]
    BY ShownFinite, SummandsTyped
  <1>5. Hits(after)[r] = 0 /\ LikeCounts(after)[r] = 0
    BY SummandsTyped
  <1>6. /\ Total(Hits(after), Shown(rows, c)) = Total(Hits(rows), Shown(rows, c))
        /\ Total(LikeCounts(after), Shown(rows, c)) = Total(LikeCounts(rows), Shown(rows, c))
    BY <1>4, TotalSame
  <1>7. /\ Total(Hits(after), Shown(after, c)) = 0 + Total(Hits(after), Shown(rows, c))
        /\ Total(LikeCounts(after), Shown(after, c)) = 0 + Total(LikeCounts(after), Shown(rows, c))
    BY <1>2, <1>5, ShownFinite, SummandsTyped, AggregateAssumption, TotalSplit
  <1>8. Total(Hits(rows), Shown(rows, c)) \in Nat /\ Total(LikeCounts(rows), Shown(rows, c)) \in Nat
    BY ShownFinite, SummandsTyped, AggregateAssumption, PileFinite
  <1>9. FavoredIn(favs, Shown(after, c)) = FavoredIn(favs, Shown(rows, c))
    <2>1. \A f : f \in FavoredIn(favs, Shown(after, c)) <=> f \in FavoredIn(favs, Shown(rows, c))
      BY <1>1 DEF FavoredIn
    <2> QED BY <2>1
  <1> QED BY <1>3, <1>6, <1>7, <1>8, <1>9 DEF Agree

\* One favorite of a resource that is shown comes or goes.
LEMMA AgreeFavorite ==
    ASSUME NEW rows, NEW favs \in SUBSET (Users \X Resources), NEW c, NEW totals, NEW totalsAfter,
           Agree(totals, rows, favs, c), NEW u \in Users, NEW r \in Shown(rows, c),
           totalsAfter.resources = totals.resources,
           totalsAfter.hits = totals.hits, totalsAfter.likes = totals.likes
    PROVE  /\ <<u, r>> \notin favs /\ totalsAfter.favorites = totals.favorites + 1
                  => Agree(totalsAfter, rows, favs \cup {<<u, r>>}, c)
           /\ <<u, r>> \in favs =>
                  /\ totals.favorites >= 1
                  /\ totalsAfter.favorites = totals.favorites - 1 => Agree(totalsAfter, rows, favs \ {<<u, r>>}, c)
  <1> DEFINE Before == FavoredIn(favs, Shown(rows, c))
  <1>1. IsFiniteSet(Before) /\ Cardinality(Before) \in Nat
    BY FavoredFinite
  <1>2. ASSUME <<u, r>> \notin favs, totalsAfter.favorites = totals.favorites + 1
        PROVE  Agree(totalsAfter, rows, favs \cup {<<u, r>>}, c)
    <2>1. \A f : f \in FavoredIn(favs \cup {<<u, r>>}, Shown(rows, c)) <=> f \in Before \cup {<<u, r>>}
      BY DEF FavoredIn
    <2>2. FavoredIn(favs \cup {<<u, r>>}, Shown(rows, c)) = Before \cup {<<u, r>>}
      BY <2>1
    <2>3. <<u, r>> \notin Before
      BY <1>2 DEF FavoredIn
    <2>4. Cardinality(Before \cup {<<u, r>>}) = Cardinality(Before) + 1
      BY <1>1, <2>3, FS_AddElement
    <2> QED BY <1>2, <2>2, <2>4 DEF Agree
  <1>3. ASSUME <<u, r>> \in favs
        PROVE  /\ totals.favorites >= 1
               /\ totalsAfter.favorites = totals.favorites - 1 => Agree(totalsAfter, rows, favs \ {<<u, r>>}, c)
    <2>1. \A f : f \in FavoredIn(favs \ {<<u, r>>}, Shown(rows, c)) <=> f \in Before \ {<<u, r>>}
      BY DEF FavoredIn
    <2>2. FavoredIn(favs \ {<<u, r>>}, Shown(rows, c)) = Before \ {<<u, r>>}
      BY <2>1
    <2>3. <<u, r>> \in Before
      BY <1>3 DEF FavoredIn
    <2>4. Cardinality(Before \ {<<u, r>>}) = Cardinality(Before) - 1 /\ Cardinality(Before) # 0
      BY <1>1, <2>3, FS_RemoveElement, FS_EmptySet, ZenonT(30)
    <2>5. totals.favorites = Cardinality(Before)
      BY DEF Agree
    <2>6. totals.favorites >= 1
      BY <1>1, <2>4, <2>5
    <2>7. ASSUME totalsAfter.favorites = totals.favorites - 1 PROVE Agree(totalsAfter, rows, favs \ {<<u, r>>}, c)
      BY <2>2, <2>4, <2>5, <2>7 DEF Agree
    <2> QED BY <2>6, <2>7
  <1> QED BY <1>2, <1>3

-----------------------------------------------------------------------------
\* The inductive invariant

\* A resource that was not uploaded has no hits, likes or favorites.
Unborn ==
    \A r \in Resources : resource[r].status = "none" =>
        resource[r].hits = 0 /\ resource[r].likes = 0 /\ \A u \in Users : <<u, r>> \notin favorites

\* Requests are about resources that were uploaded.
Asked ==
    \A p \in Procs : req[p].stage \notin {"idle", "recalc"} => resource[req[p].resource].status # "none"

Pair(p) == <<req[p].user, req[p].resource>>

Holding(p) == req[p].stage \in {"favorite", "removing"}

\* What is about to be inserted into favorites is not there, what is about to be
\* deleted is, and no two requests hold the same row.
FavoritesApart ==
    \A p \in Procs :
        /\ req[p].stage = "favorite" => Pair(p) \notin favorites
        /\ req[p].stage = "removing" => Pair(p) \in favorites
        /\ \A q \in Procs \ {p} : Holding(p) /\ Holding(q) => Pair(p) # Pair(q)

Inv == TypeOK /\ LikeCountExact /\ Unborn /\ Asked /\ FavoritesApart

-----------------------------------------------------------------------------
\* Likes and their counter

\* The users who like a resource are finitely many.
LEMMA LikersFinite == \A r \in Resources : IsFiniteSet(LikersOf(r)) /\ Cardinality(LikersOf(r)) \in Nat
  <1> TAKE r \in Resources
  <1>1. LikersOf(r) \subseteq Users
    BY DEF LikersOf
  <1> QED BY <1>1, AggregateAssumption, FS_Subset, FS_CardinalityType

\* One more like of r, and every other resource has the likes it had.
LEMMA LikeAdded ==
    ASSUME NEW u \in Users, NEW r \in Resources, <<u, r>> \notin likes, likes' = likes \cup {<<u, r>>}
    PROVE  /\ Cardinality(LikersOf(r))' = Cardinality(LikersOf(r)) + 1
           /\ \A s \in Resources \ {r} : Cardinality(LikersOf(s))' = Cardinality(LikersOf(s))
  <1>1. LikersOf(r)' = LikersOf(r) \cup {u} /\ u \notin LikersOf(r)
    BY DEF LikersOf
  <1>2. \A s \in Resources \ {r} : LikersOf(s)' = LikersOf(s)
    BY DEF LikersOf
  <1>3. Cardinality(LikersOf(r) \cup {u}) = Cardinality(LikersOf(r)) + 1
    BY <1>1, LikersFinite, FS_AddElement
  <1> QED BY <1>1, <1>2, <1>3

\* One like of r less.
LEMMA LikeRemoved ==
    ASSUME NEW u \in Users, NEW r \in Resources, <<u, r>> \in likes, likes' = likes \ {<<u, r>>}
    PROVE  /\ Cardinality(LikersOf(r))' = Cardinality(LikersOf(r)) - 1
           /\ Cardinality(LikersOf(r)) # 0
           /\ \A s \in Resources \ {r} : Cardinality(LikersOf(s))' = Cardinality(LikersOf(s))
  <1>1. LikersOf(r)' = LikersOf(r) \ {u} /\ u \in LikersOf(r)
    BY DEF LikersOf
  <1>2. \A s \in Resources \ {r} : LikersOf(s)' = LikersOf(s)
    BY DEF LikersOf
  <1>3. Cardinality(LikersOf(r) \ {u}) = Cardinality(LikersOf(r)) - 1
    BY <1>1, LikersFinite, FS_RemoveElement
  <1>4. Cardinality(LikersOf(r)) # 0
    BY <1>1, LikersFinite, FS_EmptySet
  <1> QED BY <1>1, <1>2, <1>3, <1>4

\* Without a change of likes the property only looks at the like counts.
LEMMA LikesKept ==
    ASSUME LikeCountExact, UNCHANGED likes, \A r \in Resources : resource'[r].likes = resource[r].likes
    PROVE  LikeCountExact'
  BY DEF LikeCountExact, LikersOf

-----------------------------------------------------------------------------
\* The parts of a step

\* The values a request is reset to.
LEMMA Defaults ==
    /\ NoStats \in [Courses -> Totals]
    /\ NoRequest.stage = "idle" /\ NoRequest \in Request
    /\ (CHOOSE c \in Courses : TRUE) \in Courses
  <1>1. NoTotals \in Totals
    BY DEF NoTotals, Totals
  <1>2. NoStats \in [Courses -> Totals]
    BY <1>1 DEF NoStats
  <1> QED BY <1>2, AggregateAssumption DEF NoRequest, Request, Stages

\* Only the request of p changes.
OnlyOf(p) == \A q \in Procs \ {p} : req'[q] = req[q]

LEMMA Finished ==
    ASSUME TypeOK, NEW p \in Procs, Finish(p)
    PROVE  req' \in [Procs -> Request] /\ OnlyOf(p) /\ req'[p].stage = "idle"
  BY Defaults DEF Finish, TypeOK, OnlyOf

LEMMA WentOn ==
    ASSUME TypeOK, NEW p \in Procs, NEW stage \in Stages, NEW stats \in [Courses -> Totals], GoOn(p, stage, stats)
    PROVE  /\ req' \in [Procs -> Request] /\ OnlyOf(p)
           /\ req'[p].stage = stage /\ req'[p].resource = req[p].resource
  <1>1. req'[p] = [req[p] EXCEPT !.stage = stage, !.stats = stats]
    BY DEF GoOn, TypeOK
  <1>2. req[p] \in Request
    BY DEF TypeOK
  <1>3. req'[p] \in Request /\ req'[p].stage = stage /\ req'[p].resource = req[p].resource
    BY <1>1, <1>2 DEF Request
  <1>4. OnlyOf(p) /\ req' = [req EXCEPT ![p] = req'[p]]
    BY DEF GoOn, OnlyOf, TypeOK
  <1> QED BY <1>3, <1>4 DEF TypeOK

\* What a request names exists.
LEMMA Named ==
    ASSUME TypeOK, NEW p \in Procs
    PROVE  /\ req[p].user \in Users /\ req[p].resource \in Resources
           /\ req[p].course \in Courses /\ req[p].to \in Courses
           /\ req[p].stats \in [Courses -> Totals] /\ req[p].stage \in Stages
  BY DEF TypeOK, Request

\* AdjustCourseAggregates changes one total of one course, which stays natural.
LEMMA AdjustedIs ==
    ASSUME TypeOK, NEW c \in Courses, NEW n \in Int,
           NEW column \in {"resources", "hits", "likes", "favorites"}
    PROVE  /\ Adjusted(c, column, n) \in [Courses -> Totals]
           /\ \A d \in Courses \ {c} : Adjusted(c, column, n)[d] = course[d]
           /\ \A other \in {"resources", "hits", "likes", "favorites"} \ {column} :
                  Adjusted(c, column, n)[c][other] = course[c][other]
           /\ course[c][column] + n >= 0 => Adjusted(c, column, n)[c][column] = course[c][column] + n
  <1>1. course \in [Courses -> Totals] /\ course[c] \in Totals
    BY DEF TypeOK
  <1>2. course[c][column] \in Nat
    BY <1>1 DEF Totals
  <1>3. PICK m \in Nat : m = IF course[c][column] + n < 0 THEN 0 ELSE course[c][column] + n
    BY <1>2
  <1>4. PICK t : t = [course[c] EXCEPT ![column] = m]
    OBVIOUS
  <1>5. t \in Totals
    BY <1>1, <1>4 DEF Totals
  <1>6. t[column] = m /\ \A other \in {"resources", "hits", "likes", "favorites"} \ {column} : t[other] = course[c][other]
    BY <1>1, <1>4 DEF Totals
  <1>7. Adjusted(c, column, n) = [course EXCEPT ![c] = t]
    BY <1>1, <1>3, <1>4 DEF Adjusted
  <1> QED BY <1>1, <1>2, <1>3, <1>5, <1>6, <1>7

\* The same, total by total.
LEMMA AdjustedResources ==
    ASSUME TypeOK, NEW c \in Courses, NEW n \in {1, -1}, course' = Adjusted(c, "resources", n)
    PROVE  /\ course'[c].hits = course[c].hits
           /\ course'[c].likes = course[c].likes
           /\ course'[c].favorites = course[c].favorites
           /\ course[c].resources + n >= 0 => course'[c].resources = course[c].resources + n
           /\ \A d \in Courses \ {c} : course'[d] = course[d]
  BY AdjustedIs

LEMMA AdjustedHits ==
    ASSUME TypeOK, NEW c \in Courses, NEW n \in {1, -1}, course' = Adjusted(c, "hits", n)
    PROVE  /\ course'[c].resources = course[c].resources
           /\ course'[c].likes = course[c].likes
           /\ course'[c].favorites = course[c].favorites
           /\ course[c].hits + n >= 0 => course'[c].hits = course[c].hits + n
           /\ \A d \in Courses \ {c} : course'[d] = course[d]
  BY AdjustedIs

LEMMA AdjustedLikes ==
    ASSUME TypeOK, NEW c \in Courses, NEW n \in {1, -1}, course' = Adjusted(c, "likes", n)
    PROVE  /\ course'[c].resources = course[c].resources
           /\ course'[c].hits = course[c].hits
           /\ course'[c].favorites = course[c].favorites
           /\ course[c].likes + n >= 0 => course'[c].likes = course[c].likes + n
           /\ \A d \in Courses \ {c} : course'[d] = course[d]
  BY AdjustedIs

LEMMA AdjustedFavorites ==
    ASSUME TypeOK, NEW c \in Courses, NEW n \in {1, -1}, course' = Adjusted(c, "favorites", n)
    PROVE  /\ course'[c].resources = course[c].resources
           /\ course'[c].hits = course[c].hits
           /\ course'[c].likes = course[c].likes
           /\ course[c].favorites + n >= 0 => course'[c].favorites = course[c].favorites + n
           /\ \A d \in Courses \ {c} : course'[d] = course[d]
  BY AdjustedIs

\* What no request for a favorite does keeps Unborn, Asked and FavoritesApart.
LEMMA QuietRequest ==
    ASSUME Inv, TypeOK', NEW p \in Procs, OnlyOf(p), UNCHANGED favorites,
           req'[p].stage \notin {"favorite", "removing"},
           req'[p].stage \in {"idle", "recalc"} \/ resource'[req'[p].resource].status # "none",
           \A r \in Resources : resource'[r].status = "none" => resource'[r] = resource[r]
    PROVE  Unborn' /\ Asked' /\ FavoritesApart'
  <1>1. Unborn'
    BY DEF Inv, Unborn
  <1>2. Asked'
    <2> SUFFICES ASSUME NEW q \in Procs, req'[q].stage \notin {"idle", "recalc"}
                 PROVE  resource'[req'[q].resource].status # "none"
      BY DEF Asked
    <2>1. CASE q = p
      BY <2>1
    <2>2. CASE q # p
      <3>1. req'[q] = req[q] /\ req[q].resource \in Resources
        BY <2>2, Named DEF OnlyOf, Inv
      <3> QED BY <3>1 DEF Inv, Asked
    <2> QED BY <2>1, <2>2
  <1>3. FavoritesApart'
    BY DEF Inv, FavoritesApart, Pair, Holding, OnlyOf
  <1> QED BY <1>1, <1>2, <1>3

LEMMA QuietRows ==
    ASSUME Inv, UNCHANGED <<favorites, req>>,
           \A r \in Resources : resource'[r].status = "none" => resource'[r] = resource[r]
    PROVE  Unborn' /\ Asked' /\ FavoritesApart'
  <1>1. Unborn'
    BY DEF Inv, Unborn
  <1>2. Asked'
    BY Named DEF Inv, Asked
  <1>3. FavoritesApart'
    BY DEF Inv, FavoritesApart, Pair, Holding
  <1> QED BY <1>1, <1>2, <1>3

-----------------------------------------------------------------------------
\* Every step keeps the invariant

LEMMA InitInv == Init => Inv
  <1> SUFFICES ASSUME Init PROVE Inv
    OBVIOUS
  <1>1. resource \in [Resources -> Row] /\ likes = {} /\ favorites = {} /\ course \in [Courses -> Totals]
    BY Defaults DEF Init, Row
  <1>2. req \in [Procs -> Request] /\ \A p \in Procs : req[p].stage = "idle"
    BY Defaults DEF Init
  <1>3. refresh \in [running : BOOLEAN, stats : [Courses -> Totals]] /\ requests \in Nat
    BY Defaults, AggregateAssumption DEF Init
  <1>4. \A r \in Resources : LikersOf(r) = {} /\ resource[r].likes = 0 /\ resource[r].hits = 0
    BY <1>1 DEF LikersOf, Init
  <1>5. TypeOK
    BY <1>1, <1>2, <1>3 DEF TypeOK
  <1>6. LikeCountExact
    BY <1>4, FS_EmptySet DEF LikeCountExact
  <1>7. Unborn /\ Asked /\ FavoritesApart
    BY <1>1, <1>2, <1>4 DEF Unborn, Asked, FavoritesApart, Holding
  <1> QED BY <1>5, <1>6, <1>7 DEF Inv

LEMMA FinalizeStep ==
    ASSUME Inv, NEW r \in Resources, NEW c \in Courses, Finalize(r, c)
    PROVE  Inv'
  <1>1. /\ resource' \in [Resources -> Row]
        /\ \A s \in Resources : resource'[s].likes = resource[s].likes
        /\ \A s \in Resources : resource'[s].status = "none" => resource'[s] = resource[s]
    BY DEF Finalize, Inv, TypeOK, Row
  <1>2. course' \in [Courses -> Totals]
    BY AdjustedIs DEF Finalize, Inv
  <1>3. TypeOK'
    BY <1>1, <1>2 DEF Finalize, Inv, TypeOK
  <1>4. LikeCountExact'
    BY <1>1, LikesKept DEF Finalize, Inv
  <1> QED BY <1>1, <1>3, <1>4, QuietRows DEF Finalize, Inv

\* A request begins, and changes no row.
LEMMA BeginTypes ==
    ASSUME Inv, NEW p \in Procs, NEW stage \in Stages, NEW u \in Users, NEW r \in Resources, NEW to \in Courses,
           Begin(p, stage, u, r, to)
    PROVE  /\ TypeOK' /\ LikeCountExact' /\ OnlyOf(p) /\ UNCHANGED <<resource, favorites, course>>
           /\ req'[p].stage = stage /\ req'[p].resource = r /\ req'[p].user = u
  <1> DEFINE new == [stage |-> stage, user |-> u, resource |-> r, course |-> resource[r].course, to |-> to,
                     stats |-> NoStats]
  <1>1. resource[r].course \in Courses
    BY DEF Inv, TypeOK, Row
  <1>2. new \in Request
    BY <1>1, Defaults DEF Request
  <1>3. req' = [req EXCEPT ![p] = new]
    BY DEF Begin
  <1>4. req' \in [Procs -> Request] /\ OnlyOf(p) /\ req'[p] = new
    BY <1>2, <1>3 DEF Inv, TypeOK, OnlyOf
  <1>5. requests' \in Nat
    BY DEF Begin, Inv, TypeOK
  <1>6. UNCHANGED <<resource, likes, favorites, course, refresh>>
    BY DEF Begin
  <1>7. TypeOK'
    BY <1>4, <1>5, <1>6 DEF Inv, TypeOK
  <1>8. LikeCountExact'
    BY <1>6, LikesKept DEF Inv
  <1> QED BY <1>4, <1>6, <1>7, <1>8

LEMMA BeginQuiet ==
    ASSUME Inv, NEW p \in Procs, NEW stage \in Stages, NEW u \in Users, NEW r \in Resources, NEW to \in Courses,
           Begin(p, stage, u, r, to), stage \notin {"favorite", "removing"}, resource[r].status # "none"
    PROVE  Inv'
  <1>1. Unborn' /\ Asked' /\ FavoritesApart'
    BY BeginTypes, QuietRequest
  <1> QED BY <1>1, BeginTypes DEF Inv

LEMMA BeginFavoriteStep ==
    ASSUME Inv, NEW p \in Procs, NEW u \in Users, NEW r \in Resources, BeginFavorite(p, u, r)
    PROVE  Inv'
  <1>1. resource[r].course \in Courses /\ "favorite" \in Stages
    BY DEF Inv, TypeOK, Row, Stages
  <1>2. Begin(p, "favorite", u, r, resource[r].course)
    BY DEF BeginFavorite
  <1>3. /\ TypeOK' /\ LikeCountExact' /\ OnlyOf(p) /\ UNCHANGED <<resource, favorites, course>>
        /\ req'[p].stage = "favorite" /\ req'[p].resource = r /\ req'[p].user = u
    BY <1>1, <1>2, BeginTypes
  <1>4. Unborn'
    BY <1>3 DEF Inv, Unborn
  <1>5. Asked'
    <2> SUFFICES ASSUME NEW q \in Procs, req'[q].stage \notin {"idle", "recalc"}
                 PROVE  resource'[req'[q].resource].status # "none"
      BY DEF Asked
    <2>1. CASE q = p
      BY <2>1, <1>3 DEF BeginFavorite
    <2>2. CASE q # p
      BY <2>2, <1>3 DEF OnlyOf, Inv, Asked
    <2> QED BY <2>1, <2>2
  <1>6. FavoritesApart'
    <2>1. Pair(p)' = <<u, r>>
      BY <1>3 DEF Pair
    <2>2. \A q \in Procs \ {p} : Pair(q)' = Pair(q) /\ Holding(q)' = Holding(q) /\ req'[q].stage = req[q].stage
      BY <1>3 DEF OnlyOf, Pair, Holding
    <2>3. <<u, r>> \notin favorites /\ \A q \in Procs : Holding(q) => Pair(q) # <<u, r>>
      BY DEF BeginFavorite, FavoriteLocked, Holding, Pair
    <2>4. favorites' = favorites /\ req'[p].stage = "favorite"
      BY <1>3
    <2> QED BY <2>1, <2>2, <2>3, <2>4 DEF Inv, FavoritesApart
  <1> QED BY <1>3, <1>4, <1>5, <1>6 DEF Inv

LEMMA BeginStep ==
    ASSUME Inv, NEW p \in Procs, NEW u \in Users, NEW r \in Resources,
           \/ BeginLike(p, u, r) \/ BeginUnlike(p, u, r) \/ BeginUnfavorite(p, u, r)
           \/ \E stage \in {"view", "download"} : BeginHit(p, stage, u, r)
           \/ \E stage \in {"delete", "adminDelete"} : BeginDelete(p, stage, u, r)
           \/ \E to \in Courses : BeginMove(p, u, r, to)
    PROVE  Inv'
  <1>1. resource[r].course \in Courses
    BY DEF Inv, TypeOK, Row
  <1>2. resource[r].status # "none"
    BY DEF BeginLike, BeginUnlike, BeginUnfavorite, BeginHit, BeginDelete, BeginMove, Inv, Unborn
  <1>3. PICK stage \in Stages \ {"favorite", "removing"}, to \in Courses : Begin(p, stage, u, r, to)
    BY <1>1 DEF BeginLike, BeginUnlike, BeginUnfavorite, BeginHit, BeginDelete, BeginMove, Stages
  <1> QED BY <1>2, <1>3, BeginQuiet

LEMMA BeginRecalcStep ==
    ASSUME Inv, NEW p \in Procs, NEW u \in Users, NEW r \in Resources, BeginRecalc(p, u, r)
    PROVE  Inv'
  <1> DEFINE new == [stage |-> "recalc", user |-> u, resource |-> r, course |-> resource[r].course,
                     to |-> resource[r].course, stats |-> AllStats(resource)]
  <1>1. resource[r].course \in Courses /\ "recalc" \in Stages
    BY DEF Inv, TypeOK, Row, Stages
  <1>2. AllStats(resource) \in [Courses -> Totals]
    BY AllStatsTyped DEF Inv, TypeOK
  <1>3. new \in Request
    BY <1>1, <1>2 DEF Request
  <1>4. req' \in [Procs -> Request] /\ OnlyOf(p) /\ req'[p].stage = "recalc"
    BY <1>3 DEF BeginRecalc, Inv, TypeOK, OnlyOf
  <1>5. requests' \in Nat /\ UNCHANGED <<resource, likes, favorites, course, refresh>>
    BY DEF BeginRecalc, Inv, TypeOK
  <1>6. TypeOK'
    BY <1>4, <1>5 DEF Inv, TypeOK
  <1>7. LikeCountExact'
    BY <1>5, LikesKept DEF Inv
  <1> QED BY <1>4, <1>5, <1>6, <1>7, QuietRequest DEF Inv

\* A request ends and leaves favorites and likes alone.
LEMMA EndQuiet ==
    ASSUME Inv, NEW p \in Procs, Finish(p), UNCHANGED <<likes, favorites, refresh, requests>>,
           course' \in [Courses -> Totals], resource' \in [Resources -> Row],
           \A r \in Resources : resource'[r].likes = resource[r].likes,
           \A r \in Resources : resource'[r].status = "none" => resource'[r] = resource[r]
    PROVE  Inv'
  <1>1. req' \in [Procs -> Request] /\ OnlyOf(p) /\ req'[p].stage = "idle"
    BY Finished DEF Inv
  <1>2. TypeOK'
    BY <1>1 DEF Inv, TypeOK
  <1>3. LikeCountExact'
    BY LikesKept DEF Inv
  <1> QED BY <1>1, <1>2, <1>3, QuietRequest DEF Inv

LEMMA EndSameRows ==
    ASSUME Inv, NEW p \in Procs, Finish(p), UNCHANGED <<likes, favorites, refresh, requests, resource>>,
           course' \in [Courses -> Totals]
    PROVE  Inv'
  BY EndQuiet DEF Inv, TypeOK

\* A request goes on in a stage that holds no favorite, and nothing else changes.
LEMMA GoOnQuiet ==
    ASSUME Inv, NEW p \in Procs, NEW stage \in Stages \ {"favorite", "removing", "idle", "recalc"},
           NEW stats \in [Courses -> Totals], GoOn(p, stage, stats), req[p].stage \notin {"idle", "recalc"},
           UNCHANGED <<resource, likes, favorites, course, refresh, requests>>
    PROVE  Inv'
  <1>1. req' \in [Procs -> Request] /\ OnlyOf(p) /\ req'[p].stage = stage /\ req'[p].resource = req[p].resource
    BY WentOn DEF Inv
  <1>2. TypeOK'
    BY <1>1 DEF Inv, TypeOK
  <1>3. LikeCountExact'
    BY LikesKept DEF Inv
  <1>4. resource'[req'[p].resource].status # "none"
    BY <1>1 DEF Inv, Asked
  <1> QED BY <1>1, <1>2, <1>3, <1>4, QuietRequest DEF Inv

\* Like is counted once, however often it is asked for.
LEMMA LikeStep ==
    ASSUME Inv, NEW p \in Procs, Like(p)
    PROVE  Inv'
  <1> DEFINE u == req[p].user
             r == req[p].resource
  <1>1. u \in Users /\ r \in Resources /\ resource[r].course \in Courses /\ resource[r].status # "none"
    BY Named DEF Inv, Like, Asked, TypeOK, Row
  <1>2. Finish(p) /\ UNCHANGED <<favorites, refresh, requests>>
    BY DEF Like
  <1>3. CASE <<u, r>> \in likes
    <2>1. UNCHANGED <<resource, likes, course>>
      BY <1>3 DEF Like
    <2> QED BY <2>1, <1>2, EndSameRows DEF Inv, TypeOK
  <1>4. CASE <<u, r>> \notin likes
    <2>1. /\ likes' = likes \cup {<<u, r>>} /\ resource' = [resource EXCEPT ![r].likes = @ + 1]
          /\ course' = Adjusted(resource[r].course, "likes", 1)
      BY <1>4 DEF Like
    <2>2. resource' \in [Resources -> Row] /\ likes' \subseteq Users \X Resources
      BY <2>1, <1>1 DEF Inv, TypeOK, Row
    <2>3. /\ resource'[r].likes = resource[r].likes + 1 /\ resource'[r].status = resource[r].status
          /\ \A s \in Resources \ {r} : resource'[s] = resource[s]
      BY <2>1, <1>1 DEF Inv, TypeOK, Row
    <2>4. LikeCountExact'
      BY <2>1, <2>3, <1>1, <1>4, LikeAdded DEF Inv, LikeCountExact
    <2>5. course' \in [Courses -> Totals]
      BY <2>1, <1>1, AdjustedIs DEF Inv
    <2>6. req' \in [Procs -> Request] /\ OnlyOf(p) /\ req'[p].stage = "idle"
      BY <1>2, Finished DEF Inv
    <2>7. TypeOK'
      BY <1>2, <2>2, <2>5, <2>6 DEF Inv, TypeOK
    <2>8. \A s \in Resources : resource'[s].status = "none" => resource'[s] = resource[s]
      BY <1>1, <2>3
    <2> QED BY <1>2, <2>4, <2>6, <2>7, <2>8, QuietRequest DEF Inv
  <1> QED BY <1>3, <1>4

\* A resource that somebody likes was uploaded and has a count to lower.
LEMMA Liked ==
    ASSUME Inv, NEW u \in Users, NEW r \in Resources, <<u, r>> \in likes
    PROVE  resource[r].likes \in Nat /\ resource[r].likes # 0 /\ resource[r].status # "none"
  <1>1. u \in LikersOf(r) /\ IsFiniteSet(LikersOf(r))
    BY LikersFinite DEF LikersOf
  <1>2. Cardinality(LikersOf(r)) \in Nat /\ Cardinality(LikersOf(r)) # 0
    BY <1>1, FS_EmptySet, LikersFinite
  <1> QED BY <1>2 DEF Inv, LikeCountExact, Unborn

\* Only a like that was there is taken back.
LEMMA UnlikeStep ==
    ASSUME Inv, NEW u \in Users, NEW r \in Resources, Unlike(u, r)
    PROVE  Inv'
  <1>1. /\ <<u, r>> \in likes /\ likes' = likes \ {<<u, r>>}
        /\ resource' = [resource EXCEPT ![r].likes = IF @ = 0 THEN 0 ELSE @ - 1]
        /\ course' = Adjusted(resource[r].course, "likes", -1)
        /\ requests' \in Nat /\ UNCHANGED <<favorites, req, refresh>>
    BY DEF Unlike, Inv, TypeOK
  <1>2. resource[r].likes \in Nat /\ resource[r].likes # 0 /\ resource[r].status # "none"
    BY <1>1, Liked
  <1>3. course' \in [Courses -> Totals]
    <2>1. resource[r].course \in Courses
      BY DEF Inv, TypeOK, Row
    <2> QED BY <1>1, <2>1, AdjustedIs DEF Inv
  <1>4. resource' \in [Resources -> Row] /\ likes' \subseteq Users \X Resources
    <2>1. PICK m \in Nat : m = resource[r].likes - 1
      BY <1>2
    <2>2. resource' = [resource EXCEPT ![r].likes = m]
      BY <1>1, <1>2, <2>1
    <2> QED BY <1>1, <2>2 DEF Inv, TypeOK, Row
  <1>5. /\ resource'[r].likes = resource[r].likes - 1
        /\ resource'[r].status = resource[r].status
        /\ \A s \in Resources \ {r} : resource'[s] = resource[s]
    BY <1>1, <1>2 DEF Inv, TypeOK, Row
  <1>6. LikeCountExact'
    BY <1>1, <1>5, LikeRemoved DEF Inv, LikeCountExact
  <1>7. TypeOK'
    BY <1>1, <1>3, <1>4 DEF Inv, TypeOK
  <1>8. \A s \in Resources : resource'[s].status = "none" => resource'[s] = resource[s]
    BY <1>2, <1>5
  <1> QED BY <1>1, <1>6, <1>7, <1>8, QuietRows DEF Inv

LEMMA CommitUnlikeStep ==
    ASSUME Inv, NEW p \in Procs, CommitUnlike(p)
    PROVE  Inv'
  <1>1. course' \in [Courses -> Totals]
    BY Named, AdjustedIs DEF CommitUnlike, Inv
  <1> QED BY <1>1, EndSameRows DEF CommitUnlike

LEMMA HitStep ==
    ASSUME Inv, NEW p \in Procs, CommitHit(p)
    PROVE  Inv'
  <1>1. req[p].resource \in Resources /\ req[p].course \in Courses /\ resource[req[p].resource].status # "none"
    BY Named DEF Inv, CommitHit, Asked
  <1>2. course' \in [Courses -> Totals]
    BY <1>1, AdjustedIs DEF CommitHit, Inv
  <1>3. /\ resource' \in [Resources -> Row]
        /\ \A s \in Resources : resource'[s].likes = resource[s].likes
        /\ \A s \in Resources : resource'[s].status = "none" => resource'[s] = resource[s]
    BY <1>1 DEF CommitHit, Inv, TypeOK, Row
  <1> QED BY <1>2, <1>3, EndQuiet DEF CommitHit

\* A favorite that is written or deleted is of no other request.
LEMMA FavoriteStep ==
    ASSUME Inv, NEW p \in Procs, CommitFavorite(p) \/ CommitUnfavorite(p)
    PROVE  Inv'
  <1>1. /\ req' \in [Procs -> Request] /\ OnlyOf(p) /\ req'[p].stage = "idle"
        /\ UNCHANGED <<resource, likes, refresh, requests>>
    BY Finished DEF CommitFavorite, CommitUnfavorite, Inv
  <1>2. Pair(p) \in Users \X Resources /\ resource[req[p].resource].status # "none"
    BY Named DEF Inv, Pair, CommitFavorite, CommitUnfavorite, Asked
  <1>3. course' \in [Courses -> Totals]
    BY Named, AdjustedIs DEF CommitFavorite, CommitUnfavorite, Inv
  <1>4. \/ req[p].stage = "favorite" /\ favorites' = favorites \cup {Pair(p)}
        \/ req[p].stage = "removing" /\ favorites' = favorites \ {Pair(p)}
        \/ favorites' = favorites
    BY DEF CommitFavorite, CommitUnfavorite, Pair
  <1>5. TypeOK'
    BY <1>1, <1>2, <1>3, <1>4 DEF Inv, TypeOK
  <1>6. LikeCountExact'
    BY <1>1, LikesKept DEF Inv
  <1>7. Unborn'
    BY <1>1, <1>2, <1>4 DEF Inv, Unborn, Pair
  <1>8. Asked'
    BY <1>1 DEF Inv, Asked, OnlyOf
  <1>9. FavoritesApart'
    <2>1. \A q \in Procs \ {p} : Pair(q)' = Pair(q) /\ Holding(q)' = Holding(q) /\ req'[q].stage = req[q].stage
      BY <1>1 DEF OnlyOf, Pair, Holding
    <2>2. ~Holding(p)'
      BY <1>1 DEF Holding
    <2>3. \A q \in Procs \ {p} : Holding(q) => (Pair(q) \in favorites' <=> Pair(q) \in favorites)
      BY <1>4 DEF Inv, FavoritesApart, Holding
    <2> QED BY <1>1, <2>1, <2>2, <2>3 DEF Inv, FavoritesApart, Holding
  <1> QED BY <1>5, <1>6, <1>7, <1>8, <1>9 DEF Inv

LEMMA DeleteFavoriteStep ==
    ASSUME Inv, NEW p \in Procs, DeleteFavorite(p)
    PROVE  Inv'
  <1> DEFINE r == req[p].resource
  <1>1. r \in Resources /\ resource[r].course \in Courses /\ resource[r].status # "none"
    BY Named DEF DeleteFavorite, Inv, TypeOK, Row, Asked
  <1>2. PICK stage \in Stages : stage = IF Pair(p) \in favorites THEN "removing" ELSE "missed"
    BY DEF Stages
  <1>3. req' = [req EXCEPT ![p].stage = stage, ![p].course = resource[r].course]
    BY <1>2 DEF DeleteFavorite, Pair
  <1>4. req'[p] = [req[p] EXCEPT !.stage = stage, !.course = resource[r].course] /\ req[p] \in Request
    BY <1>3 DEF Inv, TypeOK
  <1>5. req'[p] \in Request /\ req'[p].stage = stage /\ req'[p].user = req[p].user /\ req'[p].resource = r
    BY <1>1, <1>4 DEF Request
  <1>6. OnlyOf(p) /\ req' \in [Procs -> Request]
    <2>1. OnlyOf(p) /\ req' = [req EXCEPT ![p] = req'[p]]
      BY <1>3 DEF OnlyOf, Inv, TypeOK
    <2> QED BY <1>5, <2>1 DEF Inv, TypeOK
  <1>7. UNCHANGED <<resource, likes, favorites, course, refresh, requests>>
    BY DEF DeleteFavorite
  <1>8. TypeOK'
    BY <1>6, <1>7 DEF Inv, TypeOK
  <1>9. LikeCountExact' /\ Unborn'
    BY <1>7, LikesKept DEF Inv, Unborn
  <1>10. Asked'
    <2> SUFFICES ASSUME NEW q \in Procs, req'[q].stage \notin {"idle", "recalc"}
                 PROVE  resource'[req'[q].resource].status # "none"
      BY DEF Asked
    <2>1. CASE q = p
      BY <2>1, <1>1, <1>5, <1>7
    <2>2. CASE q # p
      BY <2>2, <1>6, <1>7 DEF OnlyOf, Inv, Asked
    <2> QED BY <2>1, <2>2
  <1>11. FavoritesApart'
    <2>1. Pair(p)' = Pair(p) /\ req'[p].stage = stage
      BY <1>5 DEF Pair
    <2>2. \A q \in Procs \ {p} : Pair(q)' = Pair(q) /\ Holding(q)' = Holding(q) /\ req'[q].stage = req[q].stage
      BY <1>6 DEF OnlyOf, Pair, Holding
    <2>3. \A q \in Procs : Holding(q) => Pair(q) # Pair(p)
      BY DEF DeleteFavorite, FavoriteLocked, Holding, Pair
    <2> QED BY <1>2, <1>7, <2>1, <2>2, <2>3 DEF Inv, FavoritesApart
  <1> QED BY <1>8, <1>9, <1>10, <1>11 DEF Inv

\* What a deletion and a move write are rows with the counts they had.
Deleted(r) == [resource EXCEPT ![r].status = "deleted"]

LEMMA Rewritten ==
    ASSUME Inv, NEW p \in Procs, resource[req[p].resource].status # "none"
    PROVE  /\ MovedRow(p) \in [Resources -> Row] /\ Deleted(req[p].resource) \in [Resources -> Row]
           /\ \A s \in Resources : /\ MovedRow(p)[s].likes = resource[s].likes
                                   /\ Deleted(req[p].resource)[s].likes = resource[s].likes
                                   /\ MovedRow(p)[s].status = "none" => MovedRow(p)[s] = resource[s]
                                   /\ Deleted(req[p].resource)[s].status = "none"
                                          => Deleted(req[p].resource)[s] = resource[s]
  BY Named, SMTT(20) DEF MovedRow, Deleted, Inv, TypeOK, Row

LEMMA DeleteStep ==
    ASSUME Inv, NEW p \in Procs, MarkDeleted(p) \/ CommitDelete(p)
    PROVE  Inv'
  <1>1. resource[req[p].resource].status # "none" /\ req[p].stage \notin {"idle", "recalc"}
    BY DEF Inv, Asked, MarkDeleted, CommitDelete
  <1>2. CASE MarkDeleted(p)
    <2>1. UNCHANGED <<resource, likes, favorites, course, refresh, requests>>
      BY <1>2 DEF MarkDeleted
    <2>2. CASE Finish(p)
      BY <2>1, <2>2, EndSameRows DEF Inv, TypeOK
    <2>3. CASE GoOn(p, "marked", AllStats(Deleted(req[p].resource)))
      <3>1. AllStats(Deleted(req[p].resource)) \in [Courses -> Totals]
        BY <1>1, Rewritten, AllStatsTyped DEF Inv, TypeOK
      <3>2. "marked" \in Stages \ {"favorite", "removing", "idle", "recalc"}
        BY DEF Stages
      <3> QED BY <1>1, <2>1, <2>3, <3>1, <3>2, GoOnQuiet
    <2> QED BY <1>2, <2>2, <2>3 DEF MarkDeleted, Deleted
  <1>3. CASE CommitDelete(p)
    <2>1. resource' = Deleted(req[p].resource)
      BY <1>3 DEF CommitDelete, Deleted
    <2>2. course' \in [Courses -> Totals]
      BY <1>3, Named DEF CommitDelete, Inv, TypeOK
    <2>3. /\ resource' \in [Resources -> Row]
          /\ \A s \in Resources : /\ resource'[s].likes = resource[s].likes
                                  /\ resource'[s].status = "none" => resource'[s] = resource[s]
      BY <1>1, <2>1, Rewritten
    <2>4. Finish(p) /\ UNCHANGED <<likes, favorites, refresh, requests>>
      BY <1>3 DEF CommitDelete
    <2> QED BY <2>2, <2>3, <2>4, EndQuiet
  <1> QED BY <1>2, <1>3

LEMMA ReportStep ==
    ASSUME Inv, NEW r \in Resources, ReportDelete(r)
    PROVE  Inv'
  <1>1. /\ resource' \in [Resources -> Row]
        /\ \A s \in Resources : resource'[s].likes = resource[s].likes
        /\ \A s \in Resources : resource'[s].status = "none" => resource'[s] = resource[s]
    BY DEF ReportDelete, Inv, TypeOK, Row
  <1>2. TypeOK' /\ LikeCountExact'
    BY <1>1, LikesKept DEF ReportDelete, Inv, TypeOK
  <1> QED BY <1>1, <1>2, QuietRows DEF ReportDelete, Inv

LEMMA MoveStep ==
    ASSUME Inv, NEW p \in Procs, MoveRow(p) \/ LeaveCourse(p) \/ EnterCourse(p)
    PROVE  Inv'
  <1>1. resource[req[p].resource].status # "none" /\ req[p].stage \notin {"idle", "recalc"}
    BY DEF Inv, Asked, MoveRow, LeaveCourse, EnterCourse
  <1>2. AllStats(MovedRow(p)) \in [Courses -> Totals] /\ StatsOf(MovedRow(p), req[p].to) \in Totals
    BY <1>1, Rewritten, AllStatsTyped, StatsNow DEF Inv, TypeOK
  <1>3. {"moved", "left"} \subseteq Stages \ {"favorite", "removing", "idle", "recalc"}
    BY DEF Stages
  <1>4. CASE MoveRow(p)
    <2>1. UNCHANGED <<likes, favorites, course, refresh, requests>>
      BY <1>4 DEF MoveRow
    <2>2. CASE Finish(p) /\ UNCHANGED resource
      BY <2>1, <2>2, EndSameRows DEF Inv, TypeOK
    <2>3. CASE Finish(p) /\ resource' = MovedRow(p)
      BY <1>1, <2>1, <2>3, Rewritten, EndQuiet DEF Inv, TypeOK
    <2>4. CASE GoOn(p, "moved", AllStats(MovedRow(p))) /\ UNCHANGED resource
      BY <1>1, <1>2, <1>3, <2>1, <2>4, GoOnQuiet
    <2> QED BY <1>4, <2>2, <2>3, <2>4 DEF MoveRow
  <1>5. CASE LeaveCourse(p)
    <2>1. PICK stats : stats = [req[p].stats EXCEPT ![req[p].to] = StatsOf(MovedRow(p), req[p].to)]
      OBVIOUS
    <2>2. stats \in [Courses -> Totals]
      BY <1>2, <2>1, Named DEF Inv
    <2>3. GoOn(p, "left", stats) /\ UNCHANGED <<resource, likes, favorites, course, refresh, requests>>
      BY <1>5, <2>1 DEF LeaveCourse
    <2> QED BY <1>1, <1>3, <2>2, <2>3, GoOnQuiet
  <1>6. CASE EnterCourse(p)
    <2>1. course' \in [Courses -> Totals]
      BY <1>6, Named DEF EnterCourse, Inv, TypeOK
    <2> QED BY <1>1, <1>6, <2>1, Rewritten, EndQuiet DEF EnterCourse
  <1> QED BY <1>4, <1>5, <1>6

LEMMA RecalcStep ==
    ASSUME Inv, NEW p \in Procs, CommitRecalc(p) \/ Rollback(p)
    PROVE  Inv'
  <1>1. course' \in [Courses -> Totals]
    BY Named DEF CommitRecalc, Rollback, Inv, TypeOK
  <1> QED BY <1>1, EndSameRows DEF CommitRecalc, Rollback

LEMMA RefreshStep ==
    ASSUME Inv, RefreshBegin \/ RefreshApply \/ RefreshFail
    PROVE  Inv'
  <1>1. UNCHANGED <<resource, likes, favorites, req, requests>>
    BY DEF RefreshBegin, RefreshApply, RefreshFail
  <1>2. AllStats(resource) \in [Courses -> Totals]
    BY AllStatsTyped DEF Inv, TypeOK
  <1>3. course' = course \/ course' = refresh.stats
    BY DEF RefreshBegin, RefreshApply, RefreshFail
  <1>4. course' \in [Courses -> Totals]
    BY <1>3 DEF Inv, TypeOK
  <1>5. PICK on \in BOOLEAN, stats \in [Courses -> Totals] : refresh' = [running |-> on, stats |-> stats]
    BY <1>2, Defaults DEF RefreshBegin, RefreshApply, RefreshFail
  <1>6. refresh' \in [running : BOOLEAN, stats : [Courses -> Totals]]
    BY <1>5
  <1>7. TypeOK' /\ LikeCountExact'
    BY <1>1, <1>4, <1>6, LikesKept DEF Inv, TypeOK
  <1> QED BY <1>1, <1>7, QuietRows DEF Inv

LEMMA ContinueStep ==
    ASSUME Inv, NEW p \in Procs, Continue(p)
    PROVE  Inv'
  BY LikeStep, CommitUnlikeStep, HitStep, FavoriteStep, DeleteFavoriteStep, DeleteStep, MoveStep, RecalcStep DEF Continue

LEMMA NextInv == Inv /\ [Next]_vars => Inv'
  <1> SUFFICES ASSUME Inv, [Next]_vars PROVE Inv'
    OBVIOUS
  <1>1. ASSUME NEW r \in Resources, NEW c \in Courses, Finalize(r, c) PROVE Inv'
    BY <1>1, FinalizeStep
  <1>2. ASSUME NEW u \in Users, NEW r \in Resources, Unlike(u, r) PROVE Inv'
    BY <1>2, UnlikeStep
  <1>3. ASSUME NEW r \in Resources, ReportDelete(r) PROVE Inv'
    BY <1>3, ReportStep
  <1>4. ASSUME NEW p \in Procs, NEW u \in Users, NEW r \in Resources,
               \/ BeginLike(p, u, r) \/ BeginUnlike(p, u, r) \/ BeginFavorite(p, u, r)
               \/ BeginUnfavorite(p, u, r) \/ BeginRecalc(p, u, r)
               \/ \E stage \in {"view", "download"} : BeginHit(p, stage, u, r)
               \/ \E stage \in {"delete", "adminDelete"} : BeginDelete(p, stage, u, r)
               \/ \E to \in Courses : BeginMove(p, u, r, to)
        PROVE  Inv'
    BY <1>4, BeginStep, BeginFavoriteStep, BeginRecalcStep
  <1>5. ASSUME NEW p \in Procs, Continue(p) PROVE Inv'
    BY <1>5, ContinueStep
  <1>6. CASE RefreshBegin \/ RefreshApply \/ RefreshFail
    BY <1>6, RefreshStep
  <1>7. CASE UNCHANGED vars
    <2>1. UNCHANGED <<resource, likes, favorites, req>>
      BY <1>7 DEF vars
    <2>2. TypeOK' /\ LikeCountExact'
      BY <1>7, LikesKept DEF vars, Inv, TypeOK
    <2> QED BY <2>1, <2>2, QuietRows DEF Inv
  <1> QED BY <1>1, <1>2, <1>3, <1>4, <1>5, <1>6, <1>7 DEF Next

\* Every variable of the totals keeps its type: no counter or total falls below
\* zero, and every snapshot of a recalculation is made of natural numbers.
THEOREM AggregateTypes == Spec => []TypeOK
  <1>1. Inv => TypeOK
    BY DEF Inv
  <1> QED BY <1>1, InitInv, NextInv, PTL DEF Spec

\* resources.like_count is the number of rows in likes in every state, whatever
\* requests overlap: Like is undone by the unique index before it counts twice,
\* and Unlike counts only a row it has deleted.
THEOREM LikesAreCounted == Spec => []LikeCountExact
  <1>1. Inv => LikeCountExact
    BY DEF Inv
  <1> QED BY <1>1, InitInv, NextInv, PTL DEF Spec

-----------------------------------------------------------------------------
\* How the totals of a course go wrong

\* The totals of course c are right, and they are after the step.
Right(c) == Agree(course[c], resource, favorites, c)

RightThen(c) == Agree(course'[c], resource', favorites', c)

LEMMA ExactIsRight ==
    ASSUME Inv, Inv', NEW c \in Courses
    PROVE  (Exact(c) <=> Right(c)) /\ (Exact(c)' <=> RightThen(c))
  <1>1. StatsOf(resource, c) \in Totals /\ Agree(StatsOf(resource, c), resource, favorites, c) /\ course[c] \in Totals
    BY StatsNow DEF Inv, TypeOK
  <1>2. /\ StatsOf(resource, c)' \in Totals /\ Agree(StatsOf(resource, c)', resource', favorites', c)
        /\ course'[c] \in Totals
    BY StatsThen DEF Inv, TypeOK
  <1>3. Exact(c) <=> Right(c)
    BY <1>1, AgreeOnce DEF Exact, Right
  <1>4. Exact(c)' <=> RightThen(c)
    BY <1>2, AgreeOnce DEF Exact, RightThen
  <1> QED BY <1>3, <1>4

\* Totals that are written from a snapshot are right if the snapshot is.
LEMMA Written ==
    ASSUME Inv', NEW c \in Courses, course'[c] = StatsOf(resource, c)'
    PROVE  RightThen(c)
  BY StatsThen DEF Inv, TypeOK, RightThen

LEMMA RightStays ==
    ASSUME NEW c, Right(c), UNCHANGED <<resource, favorites, course>>
    PROVE  RightThen(c)
  BY DEF Right, RightThen

\* A step on one row, which course c shows neither before nor after.
LEMMA RightElsewhere ==
    ASSUME Inv, Inv', NEW c \in Courses, Right(c), course'[c] = course[c], UNCHANGED favorites,
           NEW r \in Resources, \A s \in Resources \ {r} : resource'[s] = resource[s],
           r \notin Shown(resource, c), r \notin Shown(resource', c)
    PROVE  RightThen(c)
  <1>1. /\ resource \in [Resources -> Row] /\ resource' \in [Resources -> Row]
        /\ favorites \in SUBSET (Users \X Resources)
    BY DEF Inv, TypeOK
  <1>2. Agree(course[c], resource', favorites, c)
    BY <1>1, AgreeElsewhere DEF Right
  <1> QED BY <1>2 DEF RightThen

LEMMA FinalizeRight ==
    ASSUME Inv, Inv', NEW c \in Courses, Right(c), NEW r \in Resources, NEW d \in Courses, Finalize(r, d)
    PROVE  RightThen(c)
  <1>1. /\ resource \in [Resources -> Row] /\ resource' \in [Resources -> Row]
        /\ favorites \in SUBSET (Users \X Resources) /\ course[c].resources \in Nat
    BY DEF Inv, TypeOK, Totals
  <1>2. /\ resource[r].status = "none" /\ favorites' = favorites /\ course' = Adjusted(d, "resources", 1)
        /\ resource' = [resource EXCEPT ![r].status = "approved", ![r].course = d]
    BY DEF Finalize
  <1>3. /\ resource'[r].status = "approved" /\ resource'[r].course = d
        /\ resource'[r].hits = resource[r].hits /\ resource'[r].likes = resource[r].likes
        /\ \A s \in Resources \ {r} : resource'[s] = resource[s]
    BY <1>1, <1>2 DEF Row
  <1>4. r \notin Shown(resource, c) /\ (r \in Shown(resource', c) <=> c = d)
    BY <1>2, <1>3 DEF Shown
  <1>5. CASE c # d
    <2>1. course'[c] = course[c]
      BY <1>2, <1>5, AdjustedResources DEF Inv
    <2> QED BY <1>2, <1>3, <1>4, <1>5, <2>1, RightElsewhere
  <1>6. CASE c = d
    <2>1. course[c].resources + 1 >= 0
      BY <1>1
    <2>2. /\ course'[c].resources = course[c].resources + 1 /\ course'[c].hits = course[c].hits
          /\ course'[c].likes = course[c].likes /\ course'[c].favorites = course[c].favorites
      BY <1>2, <1>6, <2>1, AdjustedResources DEF Inv
    <2>3. resource'[r].hits = 0 /\ resource'[r].likes = 0 /\ \A u \in Users : <<u, r>> \notin favorites
      BY <1>2, <1>3 DEF Inv, Unborn
    <2>4. Agree(course'[c], resource', favorites, c)
      BY <1>1, <1>3, <1>4, <1>6, <2>2, <2>3, AgreeMore DEF Right
    <2> QED BY <1>2, <2>4 DEF RightThen
  <1> QED BY <1>5, <1>6

\* A row of another course changes, and stays in that course.
LEMMA OtherCourseRight ==
    ASSUME Inv, Inv', NEW c \in Courses, Right(c), NEW r \in Resources, UNCHANGED favorites,
           \A s \in Resources \ {r} : resource'[s] = resource[s],
           resource'[r].course = resource[r].course, resource[r].course # c, course'[c] = course[c]
    PROVE  RightThen(c)
  <1>1. r \notin Shown(resource, c) /\ r \notin Shown(resource', c)
    BY DEF Shown
  <1> QED BY <1>1, RightElsewhere

\* The counts of a row of course c change, and the totals by as much.
LEMMA CountsRight ==
    ASSUME Inv, Inv', NEW c \in Courses, Right(c), NEW r \in Resources, UNCHANGED favorites,
           \A s \in Resources \ {r} : resource'[s] = resource[s],
           resource'[r].status = resource[r].status, resource'[r].course = resource[r].course,
           resource[r].course = c, resource[r].status = "approved",
           course'[c].resources = course[c].resources, course'[c].favorites = course[c].favorites,
           course'[c].hits = course[c].hits - resource[r].hits + resource'[r].hits,
           course'[c].likes = course[c].likes - resource[r].likes + resource'[r].likes
    PROVE  RightThen(c)
  <1>1. /\ resource \in [Resources -> Row] /\ resource' \in [Resources -> Row]
        /\ favorites \in SUBSET (Users \X Resources)
    BY DEF Inv, TypeOK
  <1>2. r \in Shown(resource, c)
    BY DEF Shown
  <1>3. Agree(course'[c], resource', favorites, c)
    BY <1>1, <1>2, AgreeCounts DEF Right
  <1> QED BY <1>3 DEF RightThen

LEMMA Naturals ==
    ASSUME TypeOK, NEW c \in Courses, NEW r \in Resources
    PROVE  /\ course[c].resources \in Nat /\ course[c].hits \in Nat
           /\ course[c].likes \in Nat /\ course[c].favorites \in Nat
           /\ resource[r].hits \in Nat /\ resource[r].likes \in Nat /\ resource[r].course \in Courses
           /\ resource[r].status \in {"none", "approved", "deleted"}
  <1>1. course[c] \in Totals /\ resource[r] \in Row
    BY DEF TypeOK
  <1> QED BY <1>1 DEF Totals, Row

LEMMA LikeRight ==
    ASSUME Inv, Inv', NEW c \in Courses, Right(c), NEW p \in Procs, Like(p),
           c = resource[req[p].resource].course => ~Stale(p)
    PROVE  RightThen(c)
  <1> DEFINE r == req[p].resource
  <1>1. r \in Resources /\ resource[r].status # "none" /\ UNCHANGED favorites /\ TypeOK
    BY Named DEF Inv, Like, Asked
  <1>2. CASE <<req[p].user, r>> \in likes
    <2>1. UNCHANGED <<resource, favorites, course>>
      BY <1>2 DEF Like
    <2> QED BY <2>1, RightStays
  <1>3. CASE <<req[p].user, r>> \notin likes
    <2>1. /\ resource' = [resource EXCEPT ![r].likes = @ + 1]
          /\ course' = Adjusted(resource[r].course, "likes", 1)
      BY <1>3 DEF Like
    <2>2. /\ \A s \in Resources \ {r} : resource'[s] = resource[s]
          /\ resource'[r].status = resource[r].status /\ resource'[r].course = resource[r].course
          /\ resource'[r].hits = resource[r].hits /\ resource'[r].likes = resource[r].likes + 1
      BY <1>1, <2>1 DEF TypeOK, Row
    <2>3. CASE c # resource[r].course
      <3>1. course'[c] = course[c]
        BY <1>1, <2>1, <2>3, Naturals, AdjustedLikes
      <3> QED BY <1>1, <2>2, <2>3, <3>1, OtherCourseRight
    <2>4. CASE c = resource[r].course
      <3>1. resource[r].status = "approved"
        BY <1>1, <2>4, Naturals DEF Stale
      <3>2. course[c].likes + 1 >= 0
        BY <1>1, Naturals
      <3>3. /\ course'[c].resources = course[c].resources /\ course'[c].favorites = course[c].favorites
            /\ course'[c].hits = course[c].hits /\ course'[c].likes = course[c].likes + 1
        BY <1>1, <2>1, <2>4, <3>2, AdjustedLikes
      <3>4. /\ course'[c].hits = course[c].hits - resource[r].hits + resource'[r].hits
            /\ course'[c].likes = course[c].likes - resource[r].likes + resource'[r].likes
        <4>1. /\ resource[r].hits \in Nat /\ resource[r].likes \in Nat
              /\ course[c].hits \in Nat /\ course[c].likes \in Nat
          BY <1>1, Naturals
        <4> QED BY <2>2, <3>3, <4>1
      <3> QED BY <1>1, <2>2, <2>4, <3>1, <3>3, <3>4, CountsRight
    <2> QED BY <2>3, <2>4
  <1> QED BY <1>2, <1>3

LEMMA UnlikeRight ==
    ASSUME Inv, Inv', NEW c \in Courses, Right(c), NEW u \in Users, NEW r \in Resources, Unlike(u, r),
           c = resource[r].course => resource[r].status # "deleted"
    PROVE  RightThen(c)
  <1>1. /\ <<u, r>> \in likes /\ UNCHANGED favorites /\ TypeOK
        /\ course' = Adjusted(resource[r].course, "likes", -1)
        /\ resource' = [resource EXCEPT ![r].likes = IF @ = 0 THEN 0 ELSE @ - 1]
    BY DEF Inv, Unlike
  <1>2. resource[r].likes \in Nat /\ resource[r].likes # 0 /\ resource[r].status # "none"
    BY <1>1, Liked
  <1>3. PICK m \in Nat : m = resource[r].likes - 1
    BY <1>2
  <1>4. resource' = [resource EXCEPT ![r].likes = m]
    BY <1>1, <1>2, <1>3
  <1>5. /\ \A s \in Resources \ {r} : resource'[s] = resource[s]
        /\ resource'[r].status = resource[r].status /\ resource'[r].course = resource[r].course
        /\ resource'[r].hits = resource[r].hits /\ resource'[r].likes = m
    BY <1>1, <1>4 DEF TypeOK, Row
  <1>6. CASE c # resource[r].course
    <2>1. course'[c] = course[c]
      BY <1>1, <1>6, Naturals, AdjustedLikes
    <2> QED BY <1>1, <1>5, <1>6, <2>1, OtherCourseRight
  <1>7. CASE c = resource[r].course
    <2>1. resource[r].status = "approved"
      BY <1>1, <1>2, <1>7, Naturals
    <2>2. r \in Shown(resource, c)
      BY <1>7, <2>1 DEF Shown
    <2>3. course[c].likes >= resource[r].likes
      BY <1>1, <2>2, AgreeBounds DEF Right, TypeOK
    <2>4. /\ course[c].likes + (-1) >= 0 /\ course[c].likes + (-1) = course[c].likes - 1
          /\ course[c].likes \in Nat /\ course[c].hits \in Nat /\ resource[r].hits \in Nat
      BY <1>1, <1>2, <2>3, Naturals
    <2>5. /\ course'[c].resources = course[c].resources /\ course'[c].favorites = course[c].favorites
          /\ course'[c].hits = course[c].hits /\ course'[c].likes = course[c].likes - 1
      BY <1>1, <1>7, <2>4, AdjustedLikes
    <2>6. /\ course'[c].hits = course[c].hits - resource[r].hits + resource'[r].hits
          /\ course'[c].likes = course[c].likes - resource[r].likes + resource'[r].likes
      BY <1>2, <1>3, <1>5, <2>4, <2>5
    <2> QED BY <1>1, <1>5, <1>7, <2>1, <2>5, <2>6, CountsRight
  <1> QED BY <1>6, <1>7

LEMMA CommitUnlikeRight ==
    ASSUME Inv, Inv', NEW c \in Courses, Right(c), NEW p \in Procs, CommitUnlike(p), c # req[p].course
    PROVE  RightThen(c)
  <1>1. /\ course' = Adjusted(req[p].course, "likes", -1) /\ UNCHANGED <<resource, favorites>>
        /\ req[p].course \in Courses /\ TypeOK
    BY Named DEF CommitUnlike, Inv
  <1>2. course'[c] = course[c]
    BY <1>1, AdjustedLikes
  <1> QED BY <1>1, <1>2 DEF Right, RightThen

LEMMA HitRight ==
    ASSUME Inv, Inv', NEW c \in Courses, Right(c), NEW p \in Procs, CommitHit(p),
           c \in {req[p].course, resource[req[p].resource].course} => ~Stale(p)
    PROVE  RightThen(c)
  <1> DEFINE r == req[p].resource
  <1>1. /\ r \in Resources /\ resource[r].status # "none" /\ req[p].course \in Courses
        /\ UNCHANGED favorites /\ TypeOK
        /\ course' = Adjusted(req[p].course, "hits", 1)
    BY Named DEF Inv, CommitHit, Asked
  <1>2. CASE c # resource[r].course
    <2>1. course'[c] = course[c]
      <3>1. c # req[p].course
        BY <1>2 DEF Stale
      <3> QED BY <1>1, <3>1, AdjustedHits
    <2>2. resource' = resource \/ resource' = [resource EXCEPT ![r].hits = @ + 1]
      BY DEF CommitHit
    <2>3. resource'[r].course = resource[r].course /\ \A s \in Resources \ {r} : resource'[s] = resource[s]
      BY <1>1, <2>2 DEF TypeOK, Row
    <2> QED BY <1>1, <1>2, <2>1, <2>3, OtherCourseRight
  <1>3. CASE c = resource[r].course
    <2>1. resource[r].status = "approved" /\ req[p].course = c
      BY <1>1, <1>3, Naturals DEF Stale
    <2>2. resource' = [resource EXCEPT ![r].hits = @ + 1]
      BY <2>1 DEF CommitHit
    <2>3. /\ \A s \in Resources \ {r} : resource'[s] = resource[s]
          /\ resource'[r].status = resource[r].status /\ resource'[r].course = resource[r].course
          /\ resource'[r].likes = resource[r].likes /\ resource'[r].hits = resource[r].hits + 1
      BY <1>1, <2>2 DEF TypeOK, Row
    <2>4. /\ course[c].hits \in Nat /\ course[c].likes \in Nat
          /\ resource[r].hits \in Nat /\ resource[r].likes \in Nat
      BY <1>1, Naturals
    <2>5. course[c].hits + 1 >= 0
      BY <2>4
    <2>6. /\ course'[c].resources = course[c].resources /\ course'[c].favorites = course[c].favorites
          /\ course'[c].hits = course[c].hits + 1 /\ course'[c].likes = course[c].likes
      BY <1>1, <2>1, <2>5, AdjustedHits
    <2>7. /\ course'[c].hits = course[c].hits - resource[r].hits + resource'[r].hits
          /\ course'[c].likes = course[c].likes - resource[r].likes + resource'[r].likes
      BY <2>3, <2>4, <2>6
    <2> QED BY <1>1, <1>3, <2>1, <2>3, <2>6, <2>7, CountsRight
  <1> QED BY <1>2, <1>3

LEMMA FavoriteRight ==
    ASSUME Inv, Inv', NEW c \in Courses, Right(c), NEW p \in Procs, CommitFavorite(p) \/ CommitUnfavorite(p),
           c \in {req[p].course, resource[req[p].resource].course} => ~Stale(p),
           c = req[p].course => req[p].stage # "missed"
    PROVE  RightThen(c)
  <1> DEFINE r == req[p].resource
             u == req[p].user
  <1>1. /\ r \in Resources /\ u \in Users /\ req[p].course \in Courses
        /\ resource[r].status # "none" /\ resource[r] \in Row
        /\ course[c] \in Totals /\ resource' = resource /\ resource \in [Resources -> Row]
        /\ favorites \in SUBSET (Users \X Resources) /\ favorites' \in SUBSET (Users \X Resources)
    BY Named DEF Inv, TypeOK, CommitFavorite, CommitUnfavorite, Asked
  <1>2. req[p].course = c <=> resource[r].course = c
    BY DEF Stale
  <1>3. course[c].favorites \in Nat
    BY <1>1 DEF Totals
  <1>4. PICK n \in {1, -1} : course' = Adjusted(req[p].course, "favorites", n)
    BY DEF CommitFavorite, CommitUnfavorite
  <1>5. CASE c # req[p].course
    <2>1. course'[c] = course[c]
      BY <1>1, <1>4, <1>5, AdjustedFavorites DEF Inv
    <2>2. r \notin Shown(resource, c)
      BY <1>2, <1>5 DEF Shown
    <2>3. \A f \in Users \X Resources : f[2] \in Shown(resource, c) => (f \in favorites' <=> f \in favorites)
      BY <2>2 DEF CommitFavorite, CommitUnfavorite
    <2>4. Agree(course[c], resource, favorites', c)
      BY <1>1, <2>3, AgreeSame DEF Right
    <2> QED BY <1>1, <2>1, <2>4 DEF RightThen
  <1>6. CASE c = req[p].course
    <2>1. r \in Shown(resource, c)
      BY <1>1, <1>2, <1>6 DEF Stale, Row, Shown
    <2>2. CASE CommitFavorite(p)
      <3>1. <<u, r>> \notin favorites /\ favorites' = favorites \cup {<<u, r>>}
        BY <2>2 DEF CommitFavorite, Inv, FavoritesApart, Pair
      <3>2. course[c].favorites + 1 >= 0
        BY <1>3
      <3>3. /\ course'[c].resources = course[c].resources /\ course'[c].hits = course[c].hits
            /\ course'[c].likes = course[c].likes /\ course'[c].favorites = course[c].favorites + 1
        BY <3>2, <1>6, <2>2, AdjustedFavorites DEF Inv, CommitFavorite
      <3>4. Agree(course'[c], resource, favorites \cup {<<u, r>>}, c)
        BY <1>1, <2>1, <3>1, <3>3, AgreeFavorite DEF Right
      <3> QED BY <1>1, <3>1, <3>4 DEF RightThen
    <2>3. CASE CommitUnfavorite(p)
      <3>1. <<u, r>> \in favorites /\ favorites' = favorites \ {<<u, r>>}
        BY <1>6, <2>3 DEF CommitUnfavorite, Inv, FavoritesApart, Pair
      <3>2. course[c].favorites >= 1
        BY <1>1, <2>1, <3>1, AgreeFavorite DEF Right
      <3>3. course[c].favorites + (-1) >= 0 /\ course[c].favorites + (-1) = course[c].favorites - 1
        BY <1>3, <3>2
      <3>4. /\ course'[c].resources = course[c].resources /\ course'[c].hits = course[c].hits
            /\ course'[c].likes = course[c].likes /\ course'[c].favorites = course[c].favorites - 1
        BY <1>6, <2>3, <3>3, AdjustedFavorites DEF Inv, CommitUnfavorite
      <3>5. Agree(course'[c], resource, favorites \ {<<u, r>>}, c)
        BY <1>1, <2>1, <3>1, <3>4, AgreeFavorite DEF Right
      <3> QED BY <1>1, <3>1, <3>5 DEF RightThen
    <2> QED BY <2>2, <2>3
  <1> QED BY <1>5, <1>6

\* A report, a deletion or a move.
LEMMA ReportRight ==
    ASSUME Inv, Inv', NEW c \in Courses, Right(c), NEW r \in Resources, ReportDelete(r), resource[r].course # c
    PROVE  RightThen(c)
  <1>1. /\ \A s \in Resources \ {r} : resource'[s] = resource[s]
        /\ resource'[r].course # c /\ UNCHANGED <<course, favorites>>
    BY DEF ReportDelete, Inv, TypeOK, Row
  <1>2. r \notin Shown(resource, c) /\ r \notin Shown(resource', c)
    BY <1>1 DEF Shown
  <1> QED BY <1>1, <1>2, RightElsewhere

LEMMA DeleteRight ==
    ASSUME Inv, Inv', NEW c \in Courses, Right(c), NEW p \in Procs, CommitDelete(p),
           c \in {req[p].course, resource[req[p].resource].course} => ~Stale(p),
           ~StaleSnapshot(p, c)
    PROVE  RightThen(c)
  <1> DEFINE r == req[p].resource
  <1>1. /\ r \in Resources /\ resource \in [Resources -> Row] /\ course \in [Courses -> Totals]
        /\ resource' = [resource EXCEPT ![r].status = "deleted"] /\ UNCHANGED favorites
        /\ course' = [course EXCEPT ![req[p].course] = req[p].stats[req[p].course]]
    BY Named DEF Inv, TypeOK, CommitDelete
  <1>2. CASE c = req[p].course
    BY <1>1, <1>2, Written DEF StaleSnapshot
  <1>3. CASE c # req[p].course
    <2>1. /\ \A s \in Resources \ {r} : resource'[s] = resource[s]
          /\ resource'[r].course = resource[r].course /\ course'[c] = course[c]
      BY <1>1, <1>3 DEF Row
    <2>2. r \notin Shown(resource, c) /\ r \notin Shown(resource', c)
      BY <1>3, <2>1 DEF Shown, Stale
    <2> QED BY <1>1, <2>1, <2>2, RightElsewhere
  <1> QED BY <1>2, <1>3

LEMMA MoveRight ==
    ASSUME Inv, Inv', NEW c \in Courses, Right(c), NEW p \in Procs, MoveRow(p) \/ EnterCourse(p),
           c \in {req[p].course, req[p].to, resource[req[p].resource].course} => ~Stale(p),
           EnterCourse(p) => ~StaleSnapshot(p, c)
    PROVE  RightThen(c)
  <1> DEFINE r == req[p].resource
  <1>1. r \in Resources /\ resource \in [Resources -> Row] /\ UNCHANGED favorites
    BY Named DEF Inv, TypeOK, MoveRow, EnterCourse
  <1>2. /\ \A s \in Resources \ {r} : MovedRow(p)[s] = resource[s]
        /\ MovedRow(p)[r].course = req[p].to /\ MovedRow(p)[r].status = resource[r].status
    BY <1>1 DEF MovedRow, Row
  <1>3. CASE MoveRow(p)
    <2>1. UNCHANGED course
      BY <1>3 DEF MoveRow
    <2>2. CASE resource' = resource
      BY <1>1, <2>1, <2>2, RightStays
    <2>3. CASE resource' = MovedRow(p) /\ req[p].to = req[p].course
      <3>1. CASE c = resource[r].course
        <4>1. MovedRow(p)[r].course = resource[r].course
          BY <1>2, <2>3, <3>1 DEF Stale
        <4>2. MovedRow(p) = resource
          BY <1>1, <2>3, <3>1 DEF MovedRow, Stale, Row
        <4> QED BY <1>1, <2>1, <2>3, <4>2, RightStays
      <3>2. CASE c # resource[r].course
        <4>1. c # req[p].to
          BY <2>3, <3>2 DEF Stale
        <4>2. r \notin Shown(resource, c) /\ r \notin Shown(resource', c)
          BY <1>2, <2>3, <3>2, <4>1 DEF Shown
        <4> QED BY <1>1, <1>2, <2>1, <2>3, <4>2, RightElsewhere
      <3> QED BY <3>1, <3>2
    <2> QED BY <1>3, <2>2, <2>3 DEF MoveRow
  <1>4. CASE EnterCourse(p)
    <2>1. /\ resource' = MovedRow(p)
          /\ course' = [d \in Courses |-> IF d \in {req[p].course, req[p].to} THEN req[p].stats[d] ELSE course[d]]
      BY <1>4 DEF EnterCourse
    <2>2. CASE c \in {req[p].course, req[p].to}
      BY <1>4, <2>1, <2>2, Written DEF StaleSnapshot
    <2>3. CASE c \notin {req[p].course, req[p].to}
      <3>1. course'[c] = course[c]
        BY <2>1, <2>3
      <3>2. r \notin Shown(resource, c) /\ r \notin Shown(resource', c)
        BY <1>2, <2>1, <2>3 DEF Shown, Stale
      <3> QED BY <1>1, <1>2, <2>1, <3>1, <3>2, RightElsewhere
    <2> QED BY <2>2, <2>3
  <1> QED BY <1>3, <1>4

LEMMA RecalcRight ==
    ASSUME Inv, Inv', NEW c \in Courses, Right(c), NEW p \in Procs, CommitRecalc(p), ~StaleSnapshot(p, c)
    PROVE  RightThen(c)
  <1>1. /\ course' = [course EXCEPT ![req[p].course] = req[p].stats[req[p].course]]
        /\ course \in [Courses -> Totals] /\ UNCHANGED <<resource, favorites>>
    BY DEF CommitRecalc, Inv, TypeOK
  <1>2. CASE c = req[p].course
    BY <1>1, <1>2, Written DEF StaleSnapshot
  <1>3. CASE c # req[p].course
    <2>1. course'[c] = course[c]
      BY <1>1, <1>3
    <2> QED BY <1>1, <2>1 DEF Right, RightThen
  <1> QED BY <1>2, <1>3

LEMMA RefreshRight ==
    ASSUME Inv, Inv', NEW c \in Courses, Right(c), RefreshBegin \/ RefreshApply \/ RefreshFail,
           RefreshApply => refresh.stats[c] = StatsOf(resource, c)'
    PROVE  RightThen(c)
  <1>1. CASE RefreshApply
    <2>1. course'[c] = StatsOf(resource, c)'
      BY <1>1 DEF RefreshApply
    <2> QED BY <2>1, Written
  <1>2. CASE RefreshBegin \/ RefreshFail
    <2>1. UNCHANGED <<resource, favorites, course>>
      BY <1>2 DEF RefreshBegin, RefreshFail
    <2> QED BY <2>1, RightStays
  <1> QED BY <1>1, <1>2

\* The only ways left, if a step of no known kind is taken.
LEMMA Unknown ==
    ASSUME NEW c \in Courses, ~KnownDrift(c)
    PROVE  /\ \A u \in Users, r \in Resources : resource[r].course = c =>
                  /\ Unlike(u, r) => resource[r].status # "deleted"
                  /\ ~ReportDelete(r)
           /\ \A p \in Procs :
                  /\ \/ Like(p) \/ CommitHit(p) \/ CommitFavorite(p) \/ CommitUnfavorite(p) \/ MoveRow(p)
                     \/ CommitDelete(p) \/ EnterCourse(p)
                     => (c \in {req[p].course, req[p].to, resource[req[p].resource].course} => ~Stale(p))
                  /\ CommitUnlike(p) => c # req[p].course
                  /\ CommitUnfavorite(p) /\ c = req[p].course => req[p].stage # "missed"
                  /\ CommitDelete(p) \/ EnterCourse(p) \/ CommitRecalc(p) => ~StaleSnapshot(p, c)
           /\ RefreshApply => refresh.stats[c] = StatsOf(resource, c)'
  BY DEF KnownDrift

LEMMA DriftStep ==
    ASSUME Inv, Inv', [Next]_vars, NEW c \in Courses, Right(c), ~KnownDrift(c)
    PROVE  RightThen(c)
  <1>1. ASSUME NEW r \in Resources, NEW d \in Courses, Finalize(r, d) PROVE RightThen(c)
    BY <1>1, FinalizeRight
  <1>2. ASSUME NEW u \in Users, NEW r \in Resources, Unlike(u, r) PROVE RightThen(c)
    BY <1>2, Unknown, UnlikeRight
  <1>3. ASSUME NEW r \in Resources, ReportDelete(r) PROVE RightThen(c)
    <2>1. PICK u : u \in Users
      BY AggregateAssumption
    <2>2. resource[r].course # c
      BY <1>3, <2>1, Unknown
    <2> QED BY <1>3, <2>2, ReportRight
  <1>4. ASSUME NEW p \in Procs, NEW u \in Users, NEW r \in Resources,
               \/ BeginLike(p, u, r) \/ BeginUnlike(p, u, r) \/ BeginFavorite(p, u, r)
               \/ BeginUnfavorite(p, u, r) \/ BeginRecalc(p, u, r)
               \/ \E stage \in {"view", "download"} : BeginHit(p, stage, u, r)
               \/ \E stage \in {"delete", "adminDelete"} : BeginDelete(p, stage, u, r)
               \/ \E to \in Courses : BeginMove(p, u, r, to)
        PROVE  RightThen(c)
    <2>1. UNCHANGED <<resource, favorites, course>>
      BY <1>4 DEF BeginLike, BeginUnlike, BeginFavorite, BeginUnfavorite, BeginRecalc, BeginHit, BeginDelete, BeginMove, Begin
    <2> QED BY <2>1, RightStays
  <1>5. ASSUME NEW p \in Procs, Continue(p) PROVE RightThen(c)
    <2>1. CASE Like(p)
      BY <2>1, Unknown, LikeRight
    <2>2. CASE CommitHit(p)
      BY <2>2, Unknown, HitRight
    <2>3. CASE CommitFavorite(p) \/ CommitUnfavorite(p)
      <3>1. c = req[p].course => req[p].stage # "missed"
        BY <2>3, Unknown DEF CommitFavorite
      <3> QED BY <2>3, <3>1, Unknown, FavoriteRight
    <2>4. CASE DeleteFavorite(p) \/ MarkDeleted(p) \/ LeaveCourse(p) \/ Rollback(p)
      <3>1. UNCHANGED <<resource, favorites, course>>
        BY <2>4 DEF DeleteFavorite, MarkDeleted, LeaveCourse, Rollback
      <3> QED BY <3>1, RightStays
    <2>5. CASE CommitDelete(p)
      BY <2>5, Unknown, DeleteRight
    <2>6. CASE MoveRow(p) \/ EnterCourse(p)
      BY <2>6, Unknown, MoveRight
    <2>7. CASE CommitRecalc(p)
      BY <2>7, Unknown, RecalcRight
    <2>8. CASE CommitUnlike(p)
      BY <2>8, Unknown, CommitUnlikeRight
    <2> QED BY <1>5, <2>1, <2>2, <2>3, <2>4, <2>5, <2>6, <2>7, <2>8 DEF Continue
  <1>6. CASE RefreshBegin \/ RefreshApply \/ RefreshFail
    BY <1>6, Unknown, RefreshRight
  <1>7. CASE UNCHANGED vars
    <2>1. UNCHANGED <<resource, favorites, course>>
      BY <1>7 DEF vars
    <2> QED BY <2>1, RightStays
  <1> QED BY <1>1, <1>2, <1>3, <1>4, <1>5, <1>6, <1>7 DEF Next

\* The totals of a course that are equal to what its rows give stay equal in every
\* step, unless by an unlike without a like (of the course it had read, wherever the
\* resource is by then), an unlike of a deleted resource, an unfavorite that lost a
\* race, a resolved report, a course id that was stale when it was used or a
\* recalculation from a stale snapshot: there is no other way to drift.
THEOREM TotalsDriftAsKnown == Spec => DriftExplained
  <1>1. Inv /\ Inv' /\ [Next]_vars => [\A c \in Courses : Exact(c) => Exact(c)' \/ KnownDrift(c)]_vars
    <2> SUFFICES ASSUME Inv, Inv', [Next]_vars, NEW c \in Courses, Exact(c), ~KnownDrift(c)
                 PROVE  Exact(c)'
      OBVIOUS
    <2>1. Right(c)
      BY ExactIsRight
    <2>2. RightThen(c)
      BY <2>1, DriftStep
    <2> QED BY <2>2, ExactIsRight
  <1> QED BY <1>1, InitInv, NextInv, PTL DEF Spec, DriftExplained
=============================================================================
