-------------------------------- MODULE Rankings --------------------------------
(***************************************************************************)
(* One ranking of courses, of teachers or of the resources of courses, and *)
(* the list of random courses: what the scheduler computes every hour and  *)
(* readers are shown.                                                      *)
(*                                                                         *)
(* The ranking of courses goes from their rows to a table, in one          *)
(* transaction, and from there to a sorted set in Redis, command by        *)
(* command; a step that fails leaves what the steps before it did.  The    *)
(* ranking of resources has no table, and that of teachers no sorted set.  *)
(* A reader takes the sorted set, or the table if that is empty, or else   *)
(* the rows themselves, with one query for the number and one for the      *)
(* content.  Only one refresh runs at a time.  Averages and counts that    *)
(* one of these queries computes anew and another reads from a column are  *)
(* one score here.                                                         *)
(***************************************************************************)
EXTENDS FiniteSets, Functions, Integers, Sequences

CONSTANTS
    Ranked,    \* ids of courses or teachers: numbers, the smaller goes first among equals
    Scores,    \* numbers
    TopN,      \* the length of a table
    Viewers,   \* goroutines of readers
    DrawSize   \* how many random courses make a list

ASSUME RankingsAssumption ==
    /\ Ranked \subseteq Nat /\ IsFiniteSet(Ranked) /\ Scores \subseteq Nat
    /\ TopN \in Nat \ {0} /\ DrawSize \in Nat \ {0}

VARIABLES
    kind,      \* what is ranked
    standing,  \* rows of courses or teachers: whether one is listed, and its score
    rows,      \* rows of course_rankings or teacher_rankings of one dimension: scores
    board,     \* key cache:ranking:*: scores
    life,      \* whether that key is not there, lives for ever or for a time
    task,      \* the refresh that is running
    repaired,  \* whether the last refresh went well and nothing has changed since it began
    viewer,    \* the request every reader is serving
    drawn,     \* key random:courses:*: the draws its items come from
    draw       \* the draw whose list is being replaced, and what is left to push

rankVars == <<kind, standing, rows, board, life, task, repaired, viewer>>
drawVars == <<drawn, draw>>

\* Scores of some of what is ranked.
Partial == UNION {[S -> Scores] : S \in SUBSET Ranked}

Empty == [x \in {} |-> 0]

Stages == {"idle", "rank", "copy", "list", "add", "drop", "time"}

NoTask == [stage |-> "idle", saw |-> Empty, was |-> Empty]

NoViewer == [stage |-> "idle", up |-> FALSE, total |-> 0, ids |-> Empty, shown |-> {}, moved |-> FALSE]

NoDraw == [stage |-> "idle", mark |-> 0, left |-> 0]

RankingsInit ==
    /\ kind \in {"courses", "teachers", "resources"}
    /\ \E least \in Scores :
        /\ \A n \in Scores : least <= n
        /\ standing = [x \in Ranked |-> [listed |-> TRUE, score |-> least]]
    /\ rows = Empty /\ board = Empty /\ life = "ended"
    /\ task = NoTask /\ repaired = "no"
    /\ viewer = [v \in Viewers |-> NoViewer]
    /\ drawn = <<>> /\ draw = NoDraw

Listed == {x \in Ranked : standing[x].listed}

ScoresOf(S) == [x \in S |-> standing[x].score]

\* The TopN best, by score and then by id.
Best(scores) ==
    LET ahead(x) == {y \in DOMAIN scores : scores[y] > scores[x] \/ (scores[y] = scores[x] /\ y < x)} IN
    Restrict(scores, {x \in DOMAIN scores : Cardinality(ahead(x)) < TopN})

\* What was written last counts.
Over(new, old) == [x \in DOMAIN new \cup DOMAIN old |-> IF x \in DOMAIN new THEN new[x] ELSE old[x]]

\* What is ranked: rows of any status.
Computed == IF kind = "resources" THEN ScoresOf(Ranked) ELSE Best(ScoresOf(Ranked))

\* In ascending order only scores above zero are shown.
Pick(scores, up) == IF up THEN RestrictValues(scores, LAMBDA n : n > 0) ELSE scores

\* Who is reading, or has just read, sees what changes under it.
Moved == viewer' = [v \in Viewers |-> [viewer[v] EXCEPT !.moved = viewer[v].stage # "idle"]]

-----------------------------------------------------------------------------
\* Evaluations, favorites, downloads and administrators change the rows

Change(x, listed, score) ==
    /\ standing' = [standing EXCEPT ![x] = [listed |-> listed, score |-> score]]
    /\ standing' # standing
    /\ repaired' = "no"
    /\ Moved
    /\ UNCHANGED <<kind, rows, board, life, task>>

-----------------------------------------------------------------------------
\* runRefresh

\* What the end of a refresh makes of repaired.
Finished == IF repaired = "so far" THEN "yes" ELSE repaired

Going(stage, saw, was) == task' = [stage |-> stage, saw |-> saw, was |-> was]

\* RefreshCourseRankings and RefreshTeacherRankings read the scores of all rows.
BeginRanking ==
    /\ task.stage = "idle"
    /\ Going(IF kind = "resources" THEN "copy" ELSE "rank", ScoresOf(Ranked), Empty)
    /\ repaired' = "so far"
    /\ UNCHANGED <<kind, standing, rows, board, life, viewer>>

\* Rows that are no longer among the best are left in the table: RankingsSound.
FaultyReplaced(scores) == Over(Best(scores), rows)

Replaced(scores) == Best(scores)

\* upsertCourseRankings, upsertTeacherRankings: one transaction.  No one copies the table of teachers.
ReplaceRows ==
    /\ task.stage = "rank"
    /\ rows' = Replaced(task.saw)
    /\ IF kind = "teachers" THEN task' = NoTask /\ repaired' = Finished
                            ELSE Going("copy", Empty, Empty) /\ UNCHANGED repaired
    /\ Moved
    /\ UNCHANGED <<kind, standing, board, life>>

\* syncCourseRankingRedis reads the table, syncResourceRankingRedis the rows of courses.
ReadRanking ==
    /\ task.stage = "copy"
    /\ LET saw == IF kind = "resources" THEN ScoresOf(Ranked) ELSE rows IN
       IF saw = Empty THEN task' = NoTask ELSE Going("list", saw, Empty)
    /\ UNCHANGED <<kind, standing, rows, board, life, repaired, viewer>>

\* ZRANGE.
ListMembers ==
    /\ task.stage = "list"
    /\ Going("add", task.saw, board)
    /\ UNCHANGED <<kind, standing, rows, board, life, repaired, viewer>>

\* ZADD; a key it creates has no time to live.
AddMembers ==
    /\ task.stage = "add"
    /\ board' = Over(task.saw, board)
    /\ life' = IF life = "ended" THEN "for ever" ELSE life
    /\ Going("drop", task.saw, task.was)
    /\ Moved
    /\ UNCHANGED <<kind, standing, rows, repaired>>

\* All members that were there are removed: RankingsSound.
FaultyStale == DOMAIN task.was

Stale == DOMAIN task.was \ DOMAIN task.saw

\* ZREM.
DropMembers ==
    /\ task.stage = "drop"
    /\ board' = Restrict(board, DOMAIN board \ Stale)
    /\ Going("time", task.saw, task.was)
    /\ Moved
    /\ UNCHANGED <<kind, standing, rows, life, repaired>>

\* expireRedisKeys, the end of the refresh.
SetTime ==
    /\ task.stage = "time"
    /\ life' = IF life = "ended" THEN life ELSE "timed"
    /\ task' = NoTask
    /\ repaired' = Finished
    /\ UNCHANGED <<kind, standing, rows, board, viewer>>

\* A step fails.  The copy to Redis is made all the same when the table was not replaced.
FailRefresh ==
    /\ task.stage # "idle"
    /\ IF task.stage = "rank" /\ kind = "courses" THEN Going("copy", Empty, Empty) ELSE task' = NoTask
    /\ repaired' = "no"
    /\ UNCHANGED <<kind, standing, rows, board, life, viewer>>

\* rankingCacheTTL.
EndBoard ==
    /\ life = "timed"
    /\ board' = Empty /\ life' = "ended"
    /\ Moved
    /\ UNCHANGED <<kind, standing, rows, task, repaired>>

-----------------------------------------------------------------------------
\* Readers

Viewing(v, now) == viewer' = [viewer EXCEPT ![v] = now]

Sources == <<kind, standing, rows, board, life, task, repaired>>

\* ZCARD, or ZCOUNT of the scores above zero.
BeginView(v, up) ==
    LET n == Cardinality(DOMAIN Pick(board, up)) IN
    /\ viewer[v].stage = "idle"
    /\ Viewing(v, [NoViewer EXCEPT !.stage = IF n > 0 THEN "range" ELSE "count", !.up = up, !.total = n])
    /\ UNCHANGED Sources

\* ZREVRANGE or ZRANGEBYSCORE, on one page.
TakeRange(v) ==
    /\ viewer[v].stage = "range"
    /\ Viewing(v, [viewer[v] EXCEPT !.stage = "look", !.ids = Pick(board, viewer[v].up)])
    /\ UNCHANGED Sources

\* Of what was found, what is listed, with the scores of the query before.
Answer(v, found, total) ==
    Viewing(v, [viewer[v] EXCEPT !.stage = "done", !.ids = Empty, !.total = total,
                                 !.shown = {<<x, found[x]>> : x \in DOMAIN found \cap Listed}])

\* Find...RankingItemsByIDs.
Look(v) ==
    /\ viewer[v].stage = "look"
    /\ Answer(v, viewer[v].ids, viewer[v].total)
    /\ UNCHANGED Sources

\* Whatever fails in Redis, or in the query for the items, is made up for by the database.
FallBack(v) ==
    /\ viewer[v].stage \in {"range", "look"}
    /\ Viewing(v, [viewer[v] EXCEPT !.stage = "count", !.ids = Empty])
    /\ UNCHANGED Sources

\* The table of a ranking, if it has one and any rows in it, or else the rows that are listed.
InTable(v) == kind # "resources" /\ DOMAIN Pick(rows, viewer[v].up) # {}

\* The first query of Find...Rankings counts, the second one lists.
CountRanking(v) ==
    LET found == IF InTable(v) THEN rows ELSE ScoresOf(Listed) IN
    /\ viewer[v].stage = "count"
    /\ Viewing(v, [viewer[v] EXCEPT !.stage = IF InTable(v) THEN "rows" ELSE "all",
                                    !.total = Cardinality(DOMAIN Pick(found, viewer[v].up))])
    /\ UNCHANGED Sources

ListRanking(v) ==
    LET found == IF viewer[v].stage = "rows" THEN rows ELSE ScoresOf(Listed) IN
    /\ viewer[v].stage \in {"rows", "all"}
    /\ Answer(v, Pick(found, viewer[v].up), viewer[v].total)
    /\ UNCHANGED Sources

EndView(v) ==
    /\ viewer[v].stage # "idle"
    /\ Viewing(v, NoViewer)
    /\ UNCHANGED Sources

-----------------------------------------------------------------------------
\* Random courses

\* SyncRandomCourses, SyncRandomTeachers: n items were drawn; the list is deleted ...
BeginDraw(n) ==
    /\ draw.stage = "idle"
    /\ draw' = [stage |-> "delete", mark |-> 1 - draw.mark, left |-> n]
    /\ UNCHANGED drawn

\* The list is not deleted before it is filled again: RankingsSound.
FaultyCleared == drawn

Cleared == <<>>

DeleteDrawn ==
    /\ draw.stage = "delete"
    /\ drawn' = Cleared
    /\ draw' = [draw EXCEPT !.stage = IF draw.left = 0 THEN "idle" ELSE "push"]

\* ... and the items follow, in a pipeline that is not a transaction.
PushItem ==
    /\ draw.stage = "push"
    /\ drawn' = Append(drawn, draw.mark)
    /\ draw' = [draw EXCEPT !.left = draw.left - 1, !.stage = IF draw.left = 1 THEN "idle" ELSE "push"]

BreakDraw ==
    /\ draw.stage # "idle"
    /\ draw' = [draw EXCEPT !.stage = "idle", !.left = 0]
    /\ UNCHANGED drawn

EndDrawn ==
    /\ drawn # <<>>
    /\ drawn' = <<>>
    /\ UNCHANGED draw

\* RandomShowCourses, RandomShowTeachers: a list of another length is not used.
Usable == Len(drawn) = DrawSize

-----------------------------------------------------------------------------
RefreshNext ==
    \/ \E x \in Ranked, listed \in BOOLEAN, n \in Scores : Change(x, listed, n)
    \/ BeginRanking \/ ReplaceRows \/ ReadRanking \/ ListMembers \/ AddMembers \/ DropMembers \/ SetTime
    \/ FailRefresh \/ EndBoard

ViewNext ==
    \E v \in Viewers :
        \/ \E up \in BOOLEAN : BeginView(v, up)
        \/ TakeRange(v) \/ Look(v) \/ FallBack(v) \/ CountRanking(v) \/ ListRanking(v) \/ EndView(v)

RankNext == RefreshNext \/ ViewNext

DrawNext ==
    \/ \E n \in 0 .. DrawSize : BeginDraw(n)
    \/ DeleteDrawn \/ PushItem \/ BreakDraw \/ EndDrawn

RankingsSpec ==
    /\ RankingsInit
    /\ [][(RankNext /\ UNCHANGED drawVars) \/ (DrawNext /\ UNCHANGED rankVars)]_<<rankVars, drawVars>>

-----------------------------------------------------------------------------
\* Properties

RankingsTypeOK ==
    /\ standing \in [Ranked -> [listed : BOOLEAN, score : Scores]]
    /\ {rows, board, task.saw, task.was} \subseteq Partial
    /\ life \in {"ended", "for ever", "timed"} /\ repaired \in {"no", "so far", "yes"}
    /\ task.stage \in Stages
    /\ \A v \in Viewers : viewer[v].total \in 0 .. Cardinality(Ranked) /\ viewer[v].ids \in Partial

\* While its sorted set is being replaced, a ranking never lacks what both the old and the
\* new one contain, each with one of its two scores, unless the key has ended meanwhile.
BoardComplete ==
    task.stage \in {"drop", "time"} /\ life # "ended" =>
        \A x \in DOMAIN task.saw \cap DOMAIN task.was :
            x \in DOMAIN board /\ board[x] \in {task.saw[x], task.was[x]}

\* A refresh without a failure during which nothing changes puts table and sorted set right,
\* whatever failed refreshes before it left there, and what it leaves has an end.
RefreshRepairs ==
    repaired = "yes" =>
        /\ kind # "resources" => rows = Computed
        /\ IF kind = "teachers" THEN board = Empty ELSE life = "ended" \/ (life = "timed" /\ board = Computed)

\* After such a refresh a reader who is not disturbed is shown the same, wherever it comes
\* from: the best, with their scores, that are still listed.
AnswersAgree ==
    \A v \in Viewers :
        repaired = "yes" /\ viewer[v].stage = "done" /\ ~viewer[v].moved =>
            /\ LET best == Pick(Computed, viewer[v].up) IN
               viewer[v].shown = {<<x, best[x]>> : x \in DOMAIN best \cap Listed}
            /\ viewer[v].total >= Cardinality(viewer[v].shown)

\* A list of random courses that is used is one draw, however draws break off.
DrawsWhole == Usable => \A i \in DOMAIN drawn : drawn[i] = drawn[1]

\* What is left of a ranking by failures, and what is shown of it.
RankingsKnown == RankingsTypeOK /\ BoardComplete /\ RefreshRepairs /\ AnswersAgree /\ DrawsWhole
=============================================================================
