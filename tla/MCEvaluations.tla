---------------------------- MODULE MCEvaluations ----------------------------
(***************************************************************************)
(* Small instances of Evaluations, EvaluationReplies and Rankings for TLC. *)
(* They share no variable, so a behaviour explores one of them, and of     *)
(* Rankings either the ranking or the list of random courses.              *)
(***************************************************************************)
EXTENDS Evaluations, EvaluationReplies, Rankings, TLC

VARIABLE part  \* the module whose actions are taken

MCInit ==
    /\ Init /\ ReplyInit /\ RankingsInit
    /\ part \in {"evaluations", "replies", "ranking", "draws"}
    /\ part # "ranking" => kind = "courses"

\* Only the first of two courses is ever taken off the list, the ranking of courses is not read in
\* ascending order, and nothing happens between an answer and its end: what it says is looked at
\* when it is given.
RankingPart ==
    /\ RankNext
    /\ \A x \in Ranked \ {1} : standing'[x].listed
    /\ \A v \in Viewers : /\ viewer[v].stage = "done" => viewer'[v].stage = "idle"
                          /\ kind = "courses" => ~viewer'[v].up

MCNext ==
    /\ \/ part = "evaluations" /\ Next /\ UNCHANGED <<replyVars, rankVars, drawVars>>
       \/ part = "replies" /\ ReplyNext /\ UNCHANGED <<vars, rankVars, drawVars>>
       \/ part = "ranking" /\ RankingPart /\ UNCHANGED <<vars, replyVars, drawVars>>
       \/ part = "draws" /\ DrawNext /\ UNCHANGED <<vars, replyVars, rankVars>>
    /\ UNCHANGED part

MCSpec == MCInit /\ [][MCNext]_<<vars, replyVars, rankVars, drawVars, part>>

\* A refresh that nothing disturbs puts a ranking right whatever failures left of it, a
\* ranking lacks nothing while it is replaced, readers are shown the same wherever it comes
\* from, a list of random courses is one draw; and every variable of the three modules has
\* its type.
RankingsSound == TypeOK /\ ReplyTypeOK /\ RankingsKnown

Symmetry ==
    Permutations(CourseRows) \cup Permutations(TeacherRows) \cup Permutations(Procs) \cup Permutations(Teachers)
    \cup Permutations(Contents)
=============================================================================
