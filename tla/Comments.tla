------------------------------- MODULE Comments -------------------------------
(***************************************************************************)
(* Comments under resources, courses and teachers, two levels deep, and    *)
(* the count of comments a resource row keeps.                             *)
(*                                                                         *)
(* A request checks what it read before its transaction.  The transaction  *)
(* writes the comment and adds to or takes from the count; the row of the  *)
(* resource is locked until it commits, so it is one step.  The hourly     *)
(* refresh counts in the snapshot of its statement and writes later: if a  *)
(* comment is written or deleted in between, PostgreSQL reads the row anew *)
(* but not the comments.                                                   *)
(***************************************************************************)
EXTENDS FiniteSets, Integers

CONSTANTS
    Authors,    \* users
    Resources,  \* resources, whose rows keep a count
    Pages,      \* courses and teachers, whose rows do not
    Comments,   \* ids of table comments
    Workers,    \* request goroutines
    Absent      \* NULL, and "no request"

ASSUME CommentsAssumption ==
    /\ IsFiniteSet(Comments) /\ Authors # {}
    /\ Resources \cap Pages = {} /\ (Resources \cup Pages) \cap Comments = {}
    /\ Absent \notin Authors \cup Resources \cup Pages \cup Comments

VARIABLES
    target,   \* what can be commented on: its state, comment_count, and the uploader of a resource
    comment,  \* rows of table comments
    worker,   \* the request every goroutine is serving
    counted   \* what the statement of a running refresh has counted, or Absent

commentVars == <<target, comment, worker, counted>>

Targets == Resources \cup Pages

Comment == [state : {"free", "active", "deleted"}, on : Targets \cup {Absent}, by : Authors \cup {Absent},
            parent : Comments \cup {Absent}, replyTo : Comments \cup {Absent}, told : Authors \cup {Absent}]

NoComment ==
    [state |-> "free", on |-> Absent, by |-> Absent, parent |-> Absent, replyTo |-> Absent, told |-> Absent]

\* Requests: what is about to be inserted, or the id of what is about to be deleted.
Request == [op : {"idle", "create"}, row : Comment] \cup [op : {"delete"}, id : Comments]

Idle == [op |-> "idle", row |-> NoComment]

CommentsInit ==
    /\ target = [t \in Targets |-> [open |-> TRUE, count |-> 0, owner |-> CHOOSE u \in Authors : TRUE]]
    /\ comment = [c \in Comments |-> NoComment]
    /\ worker = [p \in Workers |-> Idle]
    /\ counted = Absent

-----------------------------------------------------------------------------
\* What readers see

ActiveOn(t) == {c \in Comments : comment[c].state = "active" /\ comment[c].on = t}

\* ListComments of the repository, all pages together: the active comments without a
\* parent, and the active replies of those.
ListedOn(t) ==
    LET parents == {c \in ActiveOn(t) : comment[c].parent = Absent} IN
    parents \cup {c \in ActiveOn(t) : comment[c].parent \in parents}

\* Replies that stay active under a deleted comment: counted, and not listed.
HiddenOn(t) ==
    {c \in ActiveOn(t) : LET p == comment[c].parent IN p # Absent /\ comment[p].state = "deleted"}

-----------------------------------------------------------------------------
\* Creation

\* A reply to any active comment is accepted: CommentCountExplained.
FaultyAnswerable(t, parent, replyTo) ==
    /\ parent # Absent => parent \in ActiveOn(t)
    /\ replyTo # Absent => replyTo \in ActiveOn(t)

\* The checks of CreateComment: a parent is an active comment of the first level, and what
\* is replied to is that parent or an active reply of it.
Answerable(t, parent, replyTo) ==
    /\ parent # Absent => parent \in ActiveOn(t) /\ comment[parent].parent = Absent
    /\ replyTo # Absent => /\ parent # Absent
                           /\ replyTo \in ActiveOn(t)
                           /\ replyTo = parent \/ comment[replyTo].parent = parent

BeginCreateComment(p, u, t, parent, replyTo) ==
    /\ worker[p] = Idle
    /\ target[t].open
    /\ Answerable(t, parent, replyTo)
    /\ worker' = [worker EXCEPT ![p] =
                     [op |-> "create",
                      row |-> [state |-> "active", on |-> t, by |-> u, parent |-> parent,
                               replyTo |-> IF replyTo = Absent THEN parent ELSE replyTo, told |-> Absent]]]
    /\ UNCHANGED <<target, comment, counted>>

\* Taking from and adding to a count, for resources only; it never falls below zero.
Counting(t, d) ==
    IF t \in Resources
    THEN [target EXCEPT ![t].count = IF @ + d < 0 THEN 0 ELSE @ + d]
    ELSE target

\* Whom a comment may be notified to: the author of what it replies to, or nobody if that
\* was deleted when it was read once more; without one, the owner of the resource.
\* Nobody is notified of a comment of their own.
Recipients(row) ==
    LET c == row.replyTo
        whom == IF c # Absent
                THEN {comment[c].by} \cup (IF comment[c].state = "deleted" THEN {Absent} ELSE {})
                ELSE {IF row.on \in Resources THEN target[row.on].owner ELSE Absent} IN
    {IF u = row.by THEN Absent ELSE u : u \in whom}

\* CreateCommentWithEffects.  The foreign keys hold: a deleted comment keeps its row.
InsertComment(p, c) ==
    LET row == worker[p].row IN
    /\ worker[p].op = "create"
    /\ comment[c].state = "free"
    /\ \E u \in Recipients(row) : comment' = [comment EXCEPT ![c] = [row EXCEPT !.told = u]]
    /\ target' = Counting(row.on, 1)
    /\ worker' = [worker EXCEPT ![p] = Idle]
    /\ UNCHANGED counted

-----------------------------------------------------------------------------
\* Deletion

\* DeleteComment up to its transaction.  Its author, a moderator and the owner of the
\* resource may: somebody always does.
BeginDeleteComment(p, c) ==
    /\ worker[p] = Idle
    /\ comment[c].state = "active"
    /\ worker' = [worker EXCEPT ![p] = [op |-> "delete", id |-> c]]
    /\ UNCHANGED <<target, comment, counted>>

Deleted(c) == [comment EXCEPT ![c].state = "deleted"]

\* The row is updated whether or not it is deleted already: CommentCountExplained.
FaultySoftDeletable(c) == comment[c].state # "free"

\* The update finds the row only while deleted_at is NULL: gorm.DeletedAt adds that
\* condition to every query of the model.
SoftDeletable(c) == comment[c].state = "active"

\* SoftDeleteCommentWithEffects, or its ErrRecordNotFound.
SoftDeleteComment(p) ==
    /\ worker[p].op = "delete"
    /\ LET c == worker[p].id IN
       IF SoftDeletable(c)
       THEN comment' = Deleted(c) /\ target' = Counting(comment[c].on, -1)
       ELSE UNCHANGED <<comment, target>>
    /\ worker' = [worker EXCEPT ![p] = Idle]
    /\ UNCHANGED counted

\* A request that fails before its commit.
DropRequest(p) ==
    /\ worker[p] # Idle
    /\ worker' = [worker EXCEPT ![p] = Idle]
    /\ UNCHANGED <<target, comment, counted>>

\* What is commented on is deleted by its owner or an administrator; its comments stay.
CloseTarget(t) ==
    /\ target[t].open
    /\ target' = [target EXCEPT ![t].open = FALSE]
    /\ UNCHANGED <<comment, worker, counted>>

-----------------------------------------------------------------------------
\* RefreshResourceStats, every hour

BeginCount ==
    /\ counted = Absent
    /\ counted' = [r \in Resources |-> Cardinality(ActiveOn(r))]
    /\ UNCHANGED <<target, comment, worker>>

FinishCount ==
    /\ counted # Absent
    /\ target' = [t \in Targets |-> IF t \in Resources THEN [target[t] EXCEPT !.count = counted[t]] ELSE target[t]]
    /\ counted' = Absent
    /\ UNCHANGED <<comment, worker>>

CommentsNext ==
    \/ \E p \in Workers, u \in Authors, t \in Targets, parent, replyTo \in Comments \cup {Absent} :
          BeginCreateComment(p, u, t, parent, replyTo)
    \/ \E p \in Workers, c \in Comments : InsertComment(p, c) \/ BeginDeleteComment(p, c)
    \/ \E p \in Workers : SoftDeleteComment(p) \/ DropRequest(p)
    \/ \E t \in Targets : CloseTarget(t)
    \/ BeginCount
    \/ FinishCount

-----------------------------------------------------------------------------
\* Properties

\* Every variable has its type.
CommentsTypeOK ==
    /\ target \in [Targets -> [open : BOOLEAN, count : 0 .. Cardinality(Comments), owner : Authors]]
    /\ comment \in [Comments -> Comment]
    /\ worker \in [Workers -> Request]
    /\ counted \in {Absent} \cup [Resources -> 0 .. Cardinality(Comments)]

\* The count of a resource is what readers are listed and the replies hidden under deleted
\* comments, so no reply is out of reach and none is counted twice; only a refresh makes a
\* right count wrong, one during which a comment was written or deleted.
CommentCountExplained ==
    [][\A r \in Resources :
          LET shown == Cardinality(ListedOn(r)) + Cardinality(HiddenOn(r)) IN
          target[r].count = shown /\ ~ target'[r].count = shown'
          => FinishCount /\ counted[r] # Cardinality(ActiveOn(r))]_commentVars
=============================================================================
