--------------------------- MODULE EvaluationReplies ---------------------------
(***************************************************************************)
(* Replies under an evaluation, and who they are shown to be from and to.  *)
(* A reply answers the evaluation or another reply and names the user it   *)
(* is addressed to.  Whether that name is shown is decided when the reply  *)
(* is read: lists and single replies look at the anonymity of what it      *)
(* answers at that time, the page of one evaluation at none at all.        *)
(*                                                                         *)
(* A request reads the evaluation, and the reply it answers, before its    *)
(* transaction; foreign keys refuse the insertion if one is gone by then.  *)
(* The functions for teachers are twins of those for courses.              *)
(***************************************************************************)
EXTENDS FiniteSets

CONSTANTS
    People,    \* users
    Threads,   \* evaluations
    Replies,   \* ids of table course_evaluation_replies
    Writers,   \* request goroutines
    Nobody     \* NULL, and a name that is not shown

ASSUME ReplyAssumption == People # {} /\ Nobody \notin People \cup Threads \cup Replies

VARIABLES
    thread,  \* the evaluations: their author, whether they exist and are anonymous
    reply,   \* rows of table course_evaluation_replies
    write,   \* the request every goroutine is serving
    notices  \* notifications: who was told of which reply

replyVars == <<thread, reply, write, notices>>

Reply == [state : {"free", "kept", "gone"}, thread : Threads \cup {Nobody}, user : People \cup {Nobody},
          anonymous : BOOLEAN, toReply : Replies \cup {Nobody}, toUser : People \cup {Nobody}]

NoReply == [state |-> "free", thread |-> Nobody, user |-> Nobody, anonymous |-> FALSE,
            toReply |-> Nobody, toUser |-> Nobody]

ReplyInit ==
    /\ thread = [t \in Threads |-> [author |-> CHOOSE u \in People : TRUE, kept |-> TRUE, anonymous |-> FALSE]]
    /\ reply = [r \in Replies |-> NoReply]
    /\ write = [p \in Writers |-> NoReply]
    /\ notices = {}

-----------------------------------------------------------------------------
KeptReplies == {r \in Replies : reply[r].state = "kept"}

\* Who a reply is to: the user the client names, else the author of the reply it
\* answers, else the author of the evaluation.
Addressee(t, target, named) ==
    IF named # Nobody THEN named
    ELSE IF target # Nobody THEN reply[target].user ELSE thread[t].author

\* CreateCourseEvaluationReply up to its transaction.
BeginReply(p, u, t, target, named, anonymous) ==
    /\ write[p] = NoReply
    /\ thread[t].kept
    /\ target # Nobody => target \in KeptReplies /\ reply[target].thread = t
    /\ write' = [write EXCEPT ![p] = [state |-> "kept", thread |-> t, user |-> u, anonymous |-> anonymous,
                                      toReply |-> target, toUser |-> Addressee(t, target, named)]]
    /\ UNCHANGED <<thread, reply, notices>>

\* Its transaction: the row and a notification, except to oneself.
InsertReply(p, r) ==
    LET w == write[p] IN
    /\ w # NoReply
    /\ reply[r].state = "free"
    /\ write' = [write EXCEPT ![p] = NoReply]
    /\ IF thread[w.thread].kept /\ (w.toReply = Nobody \/ w.toReply \in KeptReplies)
       THEN /\ reply' = [reply EXCEPT ![r] = w]
            /\ notices' = IF w.toUser = w.user THEN notices ELSE notices \cup {<<w.toUser, r>>}
       ELSE UNCHANGED <<reply, notices>>
    /\ UNCHANGED thread

\* UpdateCourseEvaluationReply, by its author.
UpdateReply(r, anonymous) ==
    /\ r \in KeptReplies
    /\ reply' = [reply EXCEPT ![r].anonymous = anonymous]
    /\ UNCHANGED <<thread, write, notices>>

\* Rows of replies without those in gone: ON DELETE SET NULL.
Without(gone) ==
    [r \in Replies |->
        IF r \in gone THEN [NoReply EXCEPT !.state = "gone"]
        ELSE IF reply[r].toReply \in gone THEN [reply[r] EXCEPT !.toReply = Nobody] ELSE reply[r]]

\* DeleteCourseEvaluationReply by its author or a moderator.
DeleteReply(r) ==
    /\ r \in KeptReplies
    /\ reply' = Without({r})
    /\ UNCHANGED <<thread, write, notices>>

\* deleteCourseEvaluationReplyForReport is the same deletion by a resolved report.
\* The evaluation is deleted with its replies (ON DELETE CASCADE).
DeleteThread(t) ==
    /\ thread[t].kept
    /\ thread' = [thread EXCEPT ![t].kept = FALSE]
    /\ reply' = Without({r \in Replies : reply[r].thread = t})
    /\ UNCHANGED <<write, notices>>

\* UpdateCourseEvaluation, of which only the anonymity matters here.
UpdateThread(t, anonymous) ==
    /\ thread[t].kept
    /\ thread' = [thread EXCEPT ![t].anonymous = anonymous]
    /\ UNCHANGED <<reply, write, notices>>

ReplyNext ==
    \/ \E p \in Writers, u \in People, t \in Threads, target \in Replies \cup {Nobody},
          named \in People \cup {Nobody}, a \in BOOLEAN : BeginReply(p, u, t, target, named, a)
    \/ \E p \in Writers, r \in Replies : InsertReply(p, r)
    \/ \E r \in Replies, a \in BOOLEAN : UpdateReply(r, a)
    \/ \E r \in Replies : DeleteReply(r)
    \/ \E t \in Threads : DeleteThread(t)
    \/ \E t \in Threads, a \in BOOLEAN : UpdateThread(t, a)

ReplySpec == ReplyInit /\ [][ReplyNext]_replyVars

-----------------------------------------------------------------------------
\* Who is shown

\* A reply is read with the list of evaluations of a course, on its own, on its own
\* when what it answers is not read, and with its one evaluation.
Ways == {"list", "reply", "replyUnread", "evaluation"}

\* GetCourseEvaluationReplyItem reads what is answered in a second query and leaves
\* the name if that fails or finds no row.
NamingAddressee == {"replyUnread", "evaluation"}

\* hydrateCourseEvaluationItem, for the page of an evaluation and the answers to its
\* creation and change, names the author and the addressee of every reply.
NamingAuthor == {"evaluation"}

\* The name of what is answered is looked for in the evaluation alone: NamesExplained.
FaultyShownAddressee(way, r) ==
    IF thread[reply[r].thread].anonymous /\ way \notin NamingAddressee THEN Nobody ELSE reply[r].toUser

\* normalizeCourseEvaluationUsers: the addressee is masked if the reply that is
\* answered, or without one the evaluation, is anonymous.
ShownAddressee(way, r) ==
    LET target == reply[r].toReply
        masked == IF target = Nobody THEN thread[reply[r].thread].anonymous ELSE reply[target].anonymous IN
    IF masked /\ way \notin NamingAddressee THEN Nobody ELSE reply[r].toUser

\* The author of a reply is masked if the reply is anonymous.
ShownAuthor(way, r) == IF reply[r].anonymous /\ way \notin NamingAuthor THEN Nobody ELSE reply[r].user

-----------------------------------------------------------------------------
\* Properties

\* Every variable has its type.
ReplyTypeOK ==
    /\ thread \in [Threads -> [author : People, kept : BOOLEAN, anonymous : BOOLEAN]]
    /\ reply \in [Replies -> Reply]
    /\ write \in [Writers -> Reply]
    /\ notices \subseteq People \X Replies

\* An addressee whose name one way of reading hides stays hidden in that way as long as
\* what the reply answers exists and stays anonymous: only deleting the answered reply,
\* after which the evaluation decides, or a change of anonymity by its author shows the
\* name; and the author of a reply, only giving up its own anonymity.  This is said of
\* the ways that hide names, lists and single replies whose second query succeeds; the
\* others name everybody at any time.
NamesExplained ==
    [][\A way \in Ways, r \in KeptReplies :
          LET target == reply[r].toReply IN
          reply'[r].state = "kept" =>
          /\ /\ reply[r].toUser # Nobody
             /\ ShownAddressee(way, r) = Nobody
             /\ ShownAddressee(way, r)' # Nobody
             => IF target = Nobody
                THEN UpdateThread(reply[r].thread, FALSE)
                ELSE UpdateReply(target, FALSE) \/ DeleteReply(target)
          /\ ShownAuthor(way, r) = Nobody /\ ShownAuthor(way, r)' # Nobody
             => UpdateReply(r, FALSE)]_replyVars
=============================================================================
