------------------------------ MODULE Notifications ------------------------------
(***************************************************************************)
(* Notices to users, and what an open page is told of them.                *)
(*                                                                         *)
(* A notice is for one user, or for all when it is about an announcement.  *)
(* A user's own notice has a flag that it was read; of a notice to all,    *)
(* every reader leaves a mark in a table of its own, without a foreign     *)
(* key.  What a user sees are notices of the last 30 days, those to all as *)
(* long as their announcement is not deleted.                              *)
(*                                                                         *)
(* The page is told the number of unread notices when it connects and      *)
(* after every request that reads some, and each new notice as it is made. *)
(* Some services do that after their commit, most of those of              *)
(* administrators inside the transaction, which may still roll back.       *)
(* Nothing tells the page that notices were taken back or grew old.        *)
(*                                                                         *)
(* The page is modelled at its best: what it knows is the set of notices   *)
(* behind the last number and those it was told of since.  The queues      *)
(* between the hub and the page are those of module RealtimeHub.  Notices  *)
(* that are born read (of points) change no number and are left out.       *)
(***************************************************************************)
EXTENDS Integers, FiniteSets

CONSTANTS
    Receivers,  \* users, each with one page
    Slots,      \* ids of table notifications, 1 .. n
    Bulletins,  \* ids of announcements
    Messengers, \* goroutines
    Everyone,   \* the receiver of a notice to all
    Nobody      \* no bulletin, no user

ASSUME NoticesAssumption ==
    /\ 0 \notin Slots
    /\ Everyone \notin Receivers
    /\ Nobody \notin Receivers \cup Bulletins \cup Messengers

VARIABLES
    notice,    \* rows of notifications
    marked,    \* rows of global_notification_reads
    bulletin,  \* rows of announcements
    told,      \* what the page of every user knows
    messenger  \* what every goroutine is doing

noticeVars == <<notice, marked, bulletin, told, messenger>>

NoNotice == [state |-> "none", to |-> Everyone, about |-> Nobody, read |-> FALSE, old |-> FALSE]

NoBulletin == [state |-> "none", published |-> FALSE, text |-> 0]

Unsent ==
    [stage |-> "idle", user |-> Nobody, slot |-> 0, about |-> Nobody,
     was |-> NoBulletin, face |-> NoBulletin, seen |-> {}, met |-> FALSE, failed |-> FALSE]

Offline == [on |-> FALSE, known |-> {}, why |-> "nothing"]

NoticesInit ==
    /\ notice = [s \in Slots |-> NoNotice]
    /\ marked = {}
    /\ bulletin = [b \in Bulletins |-> NoBulletin]
    /\ told = [u \in Receivers |-> Offline]
    /\ messenger = [g \in Messengers |-> Unsent]

-----------------------------------------------------------------------------
\* What a user sees

Addressed(s, u) == notice[s].to \in {u, Everyone}

\* notificationsBaseQuery: not older than the retention, and if it is to all, its
\* announcement not deleted; whether that is still published is not asked.
Displayed(u) ==
    {s \in Slots :
        /\ notice[s].state = "there" /\ ~notice[s].old
        /\ Addressed(s, u)
        /\ notice[s].to = Everyone => bulletin[notice[s].about].state = "live"}

ReadBy(u) == {s \in Slots : notice[s].read \/ \E m \in marked : m.of = s /\ m.by = u}

Unread(u) == Displayed(u) \ ReadBy(u)

-----------------------------------------------------------------------------
\* Steps of goroutines.  A goroutine between a number it read and the push of it, or between
\* a push and its commit, has met another when what the user has to read changed meanwhile,
\* or what the page knows; an update of an announcement, when the row it read did.

Concerns(m, u) == m.user = u \/ (m.slot # 0 /\ Addressed(m.slot, u))

\* The step of g after which it is at m: the last conjunct of every action.
Becomes(g, m) ==
    \E moved \in SUBSET Receivers, edited \in SUBSET Bulletins :
        /\ moved = {u \in Receivers : \/ Unread(u)' # Unread(u)
                                    \/ <<told'[u].on, told'[u].known>> # <<told[u].on, told[u].known>>}
        /\ edited = {b \in Bulletins : bulletin'[b] # bulletin[b]}
        /\ messenger' = [h \in Messengers |->
               IF h = g THEN m
               ELSE [messenger[h] EXCEPT
                        !.met = @ \/ (\E u \in moved : Concerns(messenger[h], u)) \/ messenger[h].about \in edited]]

\* The users whose pages hear of a notice of slot s.
Pages(s) == {u \in Receivers : told[u].on /\ Addressed(s, u)}

\* The pages of a set of users, given their first reason not to know the number.
Confused(us, why) ==
    [u \in Receivers |->
        IF u \in us /\ told[u].why = "nothing" THEN [told[u] EXCEPT !.why = why] ELSE told[u]]

\* The same for those that lose or gain an unread notice in this step.
Confuses(why) ==
    \E us \in SUBSET Receivers :
        /\ us = {u \in Receivers : Unread(u)' # Unread(u)}
        /\ told' = Confused(us, why)

FreeSlot == {s \in Slots : notice[s].state = "none" /\ \A r \in 1 .. s - 1 : notice[r].state # "none"}

-----------------------------------------------------------------------------
\* New notices

\* Services that push after their commit: of likes, replies and comments.
SendNotice(g, u) ==
    /\ messenger[g].stage = "idle"
    /\ \E s \in FreeSlot :
          /\ notice' = [notice EXCEPT ![s] = [NoNotice EXCEPT !.state = "there", !.to = u]]
          /\ UNCHANGED <<marked, bulletin, told>>
          /\ Becomes(g, [Unsent EXCEPT !.stage = "push", !.slot = s])

PushNotice(g) ==
    /\ messenger[g].stage = "push"
    /\ LET s == messenger[g].slot
           late == IF messenger[g].met THEN Pages(s) ELSE {} IN
       told' = [u \in Receivers |->
                   IF u \in Pages(s) THEN [Confused(late, "overlap")[u] EXCEPT !.known = @ \cup {s}]
                   ELSE told[u]]
    /\ UNCHANGED <<notice, marked, bulletin>>
    /\ Becomes(g, Unsent)

\* The row of a transaction of g, and its push; next is what g goes on with.
Push(g, s, to, about, next) ==
    /\ notice' = [notice EXCEPT ![s] = [NoNotice EXCEPT !.state = "open", !.to = to, !.about = about]]
    /\ told' = [u \in Receivers |->
                   IF told[u].on /\ to \in {u, Everyone}
                   THEN [told[u] EXCEPT !.known = @ \cup {s}]
                   ELSE told[u]]
    /\ UNCHANGED <<marked, bulletin>>
    /\ Becomes(g, [next EXCEPT !.stage = "pushed", !.slot = s])

\* Services that push inside: a message, or the result of a report, a correction or a feedback.
SendInside(g, u) ==
    /\ messenger[g].stage = "idle"
    /\ \E s \in FreeSlot : Push(g, s, u, Nobody, Unsent)

\* The commit, of the announcement too where there is one.  Pages that were told another
\* number since the push, or connected since, miss the notice.
CommitNotice(g) ==
    /\ messenger[g].stage = "pushed"
    /\ LET m == messenger[g] IN
       /\ notice' = [notice EXCEPT ![m.slot].state = "there"]
       /\ bulletin' = IF m.about = Nobody THEN bulletin ELSE [bulletin EXCEPT ![m.about] = m.face]
       /\ told' = Confused(IF m.met THEN Pages(m.slot) ELSE {}, "early")
    /\ UNCHANGED marked
    /\ Becomes(g, Unsent)

\* The audit log cannot be written, or the commit fails: the page was told of nothing.
RollBack(g) ==
    /\ messenger[g].stage = "pushed"
    /\ LET s == messenger[g].slot IN
       /\ notice' = [notice EXCEPT ![s].state = "gone"]
       /\ told' = Confused({u \in Pages(s) : s \in told[u].known}, "phantom")
    /\ UNCHANGED <<marked, bulletin>>
    /\ Becomes(g, Unsent)

-----------------------------------------------------------------------------
\* Announcements

\* A row that a transaction wrote is locked until its end.
Locked(b) == \E g \in Messengers : messenger[g].stage = "pushed" /\ messenger[g].about = b

\* CreateAnnouncement of one that is published.
CreateBulletin(g, b) ==
    /\ messenger[g].stage = "idle"
    /\ bulletin[b].state = "none" /\ ~Locked(b)
    /\ \E s \in FreeSlot :
          Push(g, s, Everyone, b,
               [Unsent EXCEPT !.about = b, !.face = [state |-> "live", published |-> TRUE, text |-> 0]])

\* CreateAnnouncement of a draft.
DraftBulletin(g, b) ==
    /\ messenger[g].stage = "idle"
    /\ bulletin[b].state = "none" /\ ~Locked(b)
    /\ bulletin' = [bulletin EXCEPT ![b].state = "live"]
    /\ UNCHANGED <<notice, marked, told>>
    /\ Becomes(g, Unsent)

\* GetAnnouncementByID finds none that is deleted.  Faulty for ReturnsExplained: it does.
FaultyReadable(b) == bulletin[b].state # "none"

Readable(b) == bulletin[b].state = "live"

\* UpdateAnnouncement reads the row and applies its changes: it publishes or withdraws it, or
\* writes the other text.
ReadBulletin(g, b) ==
    /\ messenger[g].stage = "idle"
    /\ Readable(b)
    /\ UNCHANGED <<notice, marked, bulletin, told>>
    /\ \E p \in BOOLEAN, t \in {0, 1} :
          Becomes(g, [Unsent EXCEPT !.stage = "edit", !.about = b,
                                     !.was = bulletin[b],
                                     !.face = [state |-> "live", published |-> p, text |-> t]])

\* shouldBroadcastAnnouncementUpdate.
Broadcasts(was, face) == face.published /\ (~was.published \/ was.text # face.text)

\* Save writes the whole row as it was read, with the changes.  Of a row deleted meanwhile
\* its UPDATE finds nothing, and gorm then inserts it over the old one: it is not deleted any more.
SaveBulletin(g) ==
    /\ messenger[g].stage = "edit"
    /\ LET m == messenger[g] IN
       /\ ~Locked(m.about)
       /\ IF Broadcasts(m.was, m.face)
          THEN \E s \in FreeSlot : Push(g, s, Everyone, m.about, [m EXCEPT !.was = NoBulletin])
          ELSE /\ bulletin' = [bulletin EXCEPT ![m.about] = m.face]
               /\ UNCHANGED <<notice, marked>>
               /\ Confuses("withdrawn")
               /\ Becomes(g, Unsent)

\* DeleteAnnouncement: its notices are hidden, and no page is told.
DeleteBulletin(g, b) ==
    /\ messenger[g].stage = "idle"
    /\ bulletin[b].state = "live" /\ ~Locked(b)
    /\ bulletin' = [bulletin EXCEPT ![b].state = "deleted"]
    /\ UNCHANGED <<notice, marked>>
    /\ Confuses("withdrawn")
    /\ Becomes(g, Unsent)

-----------------------------------------------------------------------------
\* Pages

\* HandleNotifications: the page is registered, then its number read.
OpenPage(g, u) ==
    /\ messenger[g].stage = "idle"
    /\ told' = [told EXCEPT ![u] = [Offline EXCEPT !.on = TRUE]]
    /\ UNCHANGED <<notice, marked, bulletin>>
    /\ Becomes(g, [Unsent EXCEPT !.stage = "ready", !.user = u])

ClosePage(u) ==
    /\ told[u].on
    /\ \A g \in Messengers : messenger[g].user = u => messenger[g].stage # "ready"
    /\ told' = [told EXCEPT ![u] = Offline]
    /\ UNCHANGED <<notice, marked, bulletin>>
    /\ Becomes(Nobody, Unsent)

\* MarkNotificationRead looks for the notice among those the user sees.
FindNotice(g, u, s) ==
    /\ messenger[g].stage = "idle"
    /\ s \in Displayed(u)
    /\ UNCHANGED <<notice, marked, bulletin, told>>
    /\ Becomes(g, [Unsent EXCEPT !.stage = "mark", !.user = u, !.slot = s])

\* A mark that is left after its notice was purged says so.
MarkOf(s, u) == [of |-> s, by |-> u, late |-> notice[s].state # "there"]

\* The marks of a user on a set of notices: ON CONFLICT DO NOTHING.
Marking(ss, u) ==
    {MarkOf(s, u) : s \in {r \in ss : \A m \in marked : ~(m.of = r /\ m.by = u)}}

WriteMark(g) ==
    /\ messenger[g].stage = "mark"
    /\ LET s == messenger[g].slot
           u == messenger[g].user IN
       IF notice[s].to = Everyone
       THEN marked' = marked \cup Marking({s}, u) /\ UNCHANGED notice
       ELSE notice' = [notice EXCEPT ![s].read = (notice[s].state = "there")] /\ UNCHANGED marked
    /\ UNCHANGED <<bulletin, told>>
    /\ Becomes(g, [messenger[g] EXCEPT !.stage = "count", !.met = FALSE])

\* MarkAllNotificationsRead: its first statement takes the user's own notices.
BeginMarkAll(g, u) ==
    /\ messenger[g].stage = "idle"
    /\ UNCHANGED <<notice, marked, bulletin, told>>
    /\ Becomes(g, [Unsent EXCEPT !.stage = "all", !.user = u,
                                  !.seen = {s \in Displayed(u) : notice[s].to = u}])

\* Its second marks the notices to all, and both are committed; the number sent is 0,
\* without asking.  Faulty for NewsKnown: those of a withdrawn announcement are forgotten.
FaultyPublic(u) == {s \in Displayed(u) : notice[s].to = Everyone /\ bulletin[notice[s].about].published}

Public(u) == {s \in Displayed(u) : notice[s].to = Everyone}

WriteAll(g) ==
    /\ messenger[g].stage = "all"
    /\ LET u == messenger[g].user
           taken == messenger[g].seen
           missed == {s \in Unread(u) : notice[s].to = u} \ taken IN
       /\ notice' = [s \in Slots |->
                        IF s \in taken /\ notice[s].state = "there"
                        THEN [notice[s] EXCEPT !.read = TRUE] ELSE notice[s]]
       /\ marked' = marked \cup Marking(Public(u), u)
       /\ UNCHANGED <<bulletin, told>>
       /\ Becomes(g, [Unsent EXCEPT !.stage = "tell", !.user = u, !.met = (missed # {})])

\* CountUnreadNotifications of a page that connects, or after PublishRead; an error is
\* number 0 for the first and no number for the other.
CountUnread(g) ==
    /\ messenger[g].stage \in {"ready", "count"}
    /\ UNCHANGED <<notice, marked, bulletin>>
    /\ LET m == messenger[g]
           u == m.user IN
       /\ told' = IF m.stage = "count"
                  THEN [told EXCEPT ![u].known = @ \ {m.slot},
                                    ![u].why = IF m.met /\ @ = "nothing" THEN "overlap" ELSE @]
                  ELSE told
       /\ \/ Becomes(g, [Unsent EXCEPT !.stage = "tell", !.user = u, !.seen = Unread(u)])
          \/ m.stage = "count" /\ Becomes(g, Unsent)
          \/ m.stage = "ready" /\ Becomes(g, [Unsent EXCEPT !.stage = "tell", !.user = u, !.failed = TRUE])

\* PublishUnreadCount, or SendReady.
Tell(g) ==
    /\ messenger[g].stage = "tell"
    /\ LET m == messenger[g] IN
       told' = IF told[m.user].on
               THEN [told EXCEPT ![m.user] =
                        [on |-> TRUE, known |-> m.seen,
                         why |-> IF m.met THEN "overlap" ELSE IF m.failed THEN "failed" ELSE "nothing"]]
               ELSE told
    /\ UNCHANGED <<notice, marked, bulletin>>
    /\ Becomes(g, Unsent)

-----------------------------------------------------------------------------
\* Retention

\* Thirty days go by.
GrowOld(s) ==
    /\ notice[s].state = "there" /\ ~notice[s].old
    /\ notice' = [notice EXCEPT ![s].old = TRUE]
    /\ UNCHANGED <<marked, bulletin>>
    /\ Confuses("old")
    /\ Becomes(Nobody, Unsent)

\* The marks that a purge of the notices ss takes with them, and those of no notice.
\* Faulty for MarksKnown: it takes only the latter, before the notices.
FaultyCleared(ss) == {m \in marked : notice[m.of].state # "there"}

Cleared(ss) == {m \in marked : m.of \in ss \/ notice[m.of].state # "there"}

\* PurgeExpiredNotifications, once a day, by one goroutine at a time.
Purge ==
    LET expired == {s \in Slots : notice[s].state = "there" /\ notice[s].old} IN
    /\ expired # {} \/ Cleared({}) # {}
    /\ notice' = [s \in Slots |-> IF s \in expired THEN [NoNotice EXCEPT !.state = "gone"] ELSE notice[s]]
    /\ marked' = marked \ Cleared(expired)
    /\ UNCHANGED <<bulletin, told>>
    /\ Becomes(Nobody, Unsent)

-----------------------------------------------------------------------------
MessengerNext(g) ==
    \/ PushNotice(g) \/ CommitNotice(g) \/ RollBack(g) \/ SaveBulletin(g)
    \/ WriteMark(g) \/ WriteAll(g) \/ CountUnread(g) \/ Tell(g)
    \/ \E u \in Receivers :
          \/ SendNotice(g, u) \/ SendInside(g, u) \/ OpenPage(g, u) \/ BeginMarkAll(g, u)
          \/ \E s \in Slots : FindNotice(g, u, s)
    \/ \E b \in Bulletins :
          CreateBulletin(g, b) \/ DraftBulletin(g, b) \/ ReadBulletin(g, b) \/ DeleteBulletin(g, b)

NoticesNext ==
    \/ \E g \in Messengers : MessengerNext(g)
    \/ \E u \in Receivers : ClosePage(u)
    \/ \E s \in Slots : GrowOld(s)
    \/ Purge

-----------------------------------------------------------------------------
\* Properties

NoticesTypeOK ==
    /\ \A s \in Slots :
          /\ notice[s].state \in {"none", "open", "there", "gone"}
          /\ notice[s].to \in Receivers \cup {Everyone}
          /\ notice[s].about # Nobody <=> notice[s].about \in Bulletins
    /\ \A m \in marked : m.of \in Slots /\ m.by \in Receivers
    /\ \A b \in Bulletins : bulletin[b].state \in {"none", "live", "deleted"}
    /\ \A u \in Receivers : told[u].known \subseteq Slots

\* Rows whose sender is between its push and its commit, or the other way round.
Underway == {messenger[g].slot : g \in {h \in Messengers : messenger[h].stage \in {"push", "pushed"}}}

\* The user has no request at work that still has a number to send.
Settled(u) == \A g \in Messengers : messenger[g].user = u => messenger[g].stage \notin {"ready", "count", "tell"}

\* The page knows what its user has to read, unless two of the steps overlapped (a number
\* was read before a change and sent after it, a count failed, a notice was pushed before
\* its commit and the number came between), a transaction rolled back after its push, or
\* notices were taken back or grew old, of which nobody tells it.
NewsKnown ==
    \A u \in Receivers :
        told[u].on /\ Settled(u) /\ told[u].why = "nothing" =>
            told[u].known \ Underway = Unread(u) \ Underway

\* A mark stands for a notice to all, save one by a request that had found the notice before
\* it was purged: the table has no foreign key.
MarksKnown ==
    \A m \in marked : m.late \/ (notice[m.of].state = "there" /\ notice[m.of].to = Everyone)

\* A deleted announcement is there again only where an update had read the row before it
\* was deleted.
ReturnsExplained ==
    [][\A b \in Bulletins :
          bulletin[b].state = "deleted" /\ bulletin'[b].state = "live" =>
              \E g \in Messengers : messenger[g].about = b /\ messenger[g].met]_noticeVars

NoticesSpec == NoticesInit /\ [][NoticesNext]_noticeVars
=============================================================================
