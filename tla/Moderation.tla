------------------------------ MODULE Moderation ------------------------------
(***************************************************************************)
(* Reports of resources and comments, and feedback: users file them,       *)
(* administrators handle them.                                             *)
(*                                                                         *)
(* A handler reads the row first in its transaction and takes no lock; it  *)
(* writes the whole row back by its id (gorm's Save), so of two handlers   *)
(* that overlap the later one replaces the other.  What the writing        *)
(* transaction does to the rows it locks is one step, at its commit.       *)
(* Evaluations and replies are reported too: Evaluations and               *)
(* EvaluationReplies have their deletion.                                  *)
(***************************************************************************)
EXTENDS Comments

CONSTANTS
    Reports,    \* ids of table reports
    Feedbacks,  \* ids of table feedbacks
    Admins      \* goroutines of administrators' requests

ASSUME ModerationAssumption ==
    Absent \notin Reports \cup Feedbacks /\ Reports \cap Feedbacks = {}

VARIABLES
    report,    \* rows of table reports
    feedback,  \* rows of table feedbacks
    informed,  \* the verdicts whose notification the user of a report has
    handler    \* what every administrator's request has read

moderationVars == <<report, feedback, informed, handler>>

Reported == Targets \cup Comments

Report == [status : {"none", "pending", "resolved", "dismissed"}, about : Reported \cup {Absent}]

FeedbackStatuses == {"pending", "processing", "resolved", "closed"}

NoHandler == [on |-> Absent]

ModerationInit ==
    /\ report = [r \in Reports |-> [status |-> "none", about |-> Absent]]
    /\ feedback = [f \in Feedbacks |-> "none"]
    /\ informed = [r \in Reports |-> {}]
    /\ handler = [a \in Admins |-> NoHandler]

-----------------------------------------------------------------------------
\* Users file

\* reportTargetExists: of the pages, only courses are reported.
Reportable(x) == IF x \in Comments THEN comment[x].state = "active" ELSE target[x].open

CreateReport(r, x) ==
    /\ report[r].status = "none"
    /\ Reportable(x)
    /\ report' = [report EXCEPT ![r] = [status |-> "pending", about |-> x]]
    /\ UNCHANGED <<commentVars, feedback, informed, handler>>

CreateFeedback(f) ==
    /\ feedback[f] = "none"
    /\ feedback' = [feedback EXCEPT ![f] = "pending"]
    /\ UNCHANGED <<commentVars, report, informed, handler>>

-----------------------------------------------------------------------------
\* Administrators handle

\* HandleReport reads the row; only a pending one goes on.
ReadReport(a, r) ==
    /\ handler[a] = NoHandler
    /\ report[r].status = "pending"
    /\ handler' = [handler EXCEPT ![a] = [on |-> r]]
    /\ UNCHANGED <<commentVars, report, feedback, informed>>

\* A resource that is deleted already is taken for deleted now: ModerationSound.
FaultyEffect(x) ==
    IF x \in Comments
    THEN /\ comment' = IF SoftDeletable(x) THEN Deleted(x) ELSE comment
         /\ target' = IF SoftDeletable(x) THEN Counting(comment[x].on, -1) ELSE target
    ELSE /\ target' = [target EXCEPT ![x].open = FALSE]
         /\ UNCHANGED comment

\* applyResolvedReportEffects.  A comment that is deleted already is skipped (or, if it went
\* after it was read, fails the update: FailHandling).  A deleted resource is still found,
\* but SoftDeleteResource does not change it and fails.  Nothing is done about a course.
Effect(x) ==
    \/ /\ x \in Comments
       /\ IF SoftDeletable(x)
          THEN comment' = Deleted(x) /\ target' = Counting(comment[x].on, -1)
          ELSE UNCHANGED <<comment, target>>
    \/ /\ x \in Resources
       /\ target[x].open
       /\ target' = [target EXCEPT ![x].open = FALSE]
       /\ UNCHANGED comment
    \/ /\ x \in Pages
       /\ UNCHANGED <<comment, target>>

\* A handler that is done saves the row without the notification: ReportsReviewed.
FaultySave(a, status) ==
    LET r == handler[a].on IN
    /\ report' = [report EXCEPT ![r].status = status]
    /\ handler' = [handler EXCEPT ![a] = NoHandler]
    /\ UNCHANGED <<feedback, informed>>

\* The end of HandleReport: the row, the audit log and the notification of the user.
Save(a, status) ==
    LET r == handler[a].on IN
    /\ report' = [report EXCEPT ![r].status = status]
    /\ informed' = [informed EXCEPT ![r] = @ \cup {status}]
    /\ handler' = [handler EXCEPT ![a] = NoHandler]
    /\ UNCHANGED feedback

ResolveReport(a) ==
    /\ handler[a].on \in Reports
    /\ Effect(report[handler[a].on].about)
    /\ Save(a, "resolved")
    /\ UNCHANGED <<worker, counted>>

DismissReport(a) ==
    /\ handler[a].on \in Reports
    /\ Save(a, "dismissed")
    /\ UNCHANGED commentVars

\* ReplyFeedback reads the row, whatever its status.
ReadFeedback(a, f) ==
    /\ handler[a] = NoHandler
    /\ feedback[f] # "none"
    /\ handler' = [handler EXCEPT ![a] = [on |-> f, status |-> feedback[f]]]
    /\ UNCHANGED <<commentVars, report, feedback, informed>>

\* ReplyFeedback writes it: the status that is asked for, or the one that was read, of which
\* "pending" becomes "processing".
SaveFeedback(a, asked) ==
    LET h == handler[a] IN
    /\ h.on \in Feedbacks
    /\ feedback' = [feedback EXCEPT ![h.on] =
                       IF asked # Absent THEN asked ELSE IF h.status = "pending" THEN "processing" ELSE h.status]
    /\ handler' = [handler EXCEPT ![a] = NoHandler]
    /\ UNCHANGED <<commentVars, report, informed>>

\* Any error rolls the transaction back.
FailHandling(a) ==
    /\ handler[a] # NoHandler
    /\ handler' = [handler EXCEPT ![a] = NoHandler]
    /\ UNCHANGED <<commentVars, report, feedback, informed>>

ReportsNext ==
    \/ \E r \in Reports, x \in Reported : CreateReport(r, x)
    \/ \E a \in Admins, r \in Reports : ReadReport(a, r)
    \/ \E a \in Admins : ResolveReport(a) \/ DismissReport(a) \/ FailHandling(a)

FeedbackNext ==
    \/ \E f \in Feedbacks : CreateFeedback(f)
    \/ \E a \in Admins, f \in Feedbacks : ReadFeedback(a, f)
    \/ \E a \in Admins, s \in FeedbackStatuses \cup {Absent} : SaveFeedback(a, s)
    \/ \E a \in Admins : FailHandling(a)

ModerationNext ==
    \/ CommentsNext /\ UNCHANGED moderationVars
    \/ ReportsNext
    \/ FeedbackNext

ModerationSpec == CommentsInit /\ ModerationInit /\ [][ModerationNext]_<<commentVars, moderationVars>>

-----------------------------------------------------------------------------
\* Properties

\* Every variable has its type.
ModerationTypeOK ==
    /\ report \in [Reports -> Report]
    /\ feedback \in [Feedbacks -> FeedbackStatuses \cup {"none"}]
    /\ informed \in [Reports -> SUBSET {"resolved", "dismissed"}]
    /\ handler \in [Admins -> {NoHandler} \cup [on : Reports] \cup [on : Feedbacks, status : FeedbackStatuses]]

Resolved(x) == {r \in Reports : report[r].status = "resolved" /\ report[r].about = x}

\* A resolved report has had its effect: what it is about stays deleted.  Of the reports of
\* one resource at most one is ever resolved, the one that deletes it: the others can only
\* be dismissed, or wait for ever.
OneResolution ==
    /\ \A c \in Comments : Resolved(c) # {} => comment[c].state = "deleted"
    /\ \A r \in Resources : Resolved(r) # {} => ~ target[r].open /\ Cardinality(Resolved(r)) = 1

Verdict(status) ==
    CASE status = "resolved" -> "accepted" [] status = "dismissed" -> "rejected" [] OTHER -> status

ReportReview == INSTANCE Review WITH
    Cases <- Reports,
    Reviewers <- Admins,
    Nothing <- Absent,
    verdict <- [r \in Reports |-> Verdict(report[r].status)],
    reviewing <- [a \in Admins |-> IF handler[a].on \in Reports THEN handler[a].on ELSE Absent],
    messages <- [r \in Reports |-> {Verdict(s) : s \in informed[r]}]

\* The handling of reports keeps the promise of Review: a report is decided by those alone
\* who have seen it pending, and its user is told every decision with it.
ReportsReviewed == ReportReview!Spec
=============================================================================
