-------------------------------- MODULE MailPool --------------------------------
(***************************************************************************)
(* How a mail leaves: the channels that administrators set up, their       *)
(* cached list, and the pool that tries them one after another.            *)
(*                                                                         *)
(* Channels come in levels, cloud services before mailboxes and then by    *)
(* tier.  Within a level the first one to be tried goes round with every   *)
(* mail; a level is left when all of it has failed.  A mail gets a few     *)
(* tries and a budget of time, and a try that is reported as failed may    *)
(* have delivered: the answer was lost, or QUIT failed after DATA.         *)
(*                                                                         *)
(* The list is cached for half a minute.  A write of an administrator      *)
(* empties the cache after its commit; a request that listed the channels  *)
(* before may fill it later.                                               *)
(***************************************************************************)
EXTENDS Integers, SequencesExt

CONSTANTS
    Channels,    \* ids of table mail_providers: numbers, in the order of the list
    Levels,      \* numbers: the rank of a kind and the tier in one, the first is tried first
    Configured,  \* the channels of config.yaml, as the pool sees them
    Posters,     \* goroutines
    MaxAttempts, \* tries of one mail
    Budget,      \* the time for one mail, in tries that time out
    Turns,       \* a common multiple of the sizes of levels: cursors are counted up to it
    Unlisted     \* no list is cached

Ids == Channels \cup {c.id : c \in Configured}

ASSUME MailAssumption ==
    /\ Ids \subseteq Int /\ IsFiniteSet(Ids)
    /\ Levels \subseteq Int /\ IsFiniteSet(Levels) /\ Levels # {}
    /\ Configured \subseteq [id : Ids, level : Levels]
    /\ \A c, d \in Configured : c.id = d.id => c = d
    /\ MaxAttempts \in Nat /\ Budget \in Nat /\ Turns \in Nat \ {0}

VARIABLES
    channel, \* rows of mail_providers
    listed,  \* the cached list, and whether it was out of date when it was set; or Unlisted
    cursor,  \* the cursor of every level
    post     \* what every goroutine is doing

mailVars == <<channel, listed, cursor, post>>

Entry == [id : Ids, level : Levels]

NoChannel == [there |-> FALSE, on |-> FALSE, level |-> CHOOSE l \in Levels : TRUE]

\* list: the channels of this mail; left: those of the levels that are still to come; queue:
\* what is left of the level it is at; tried: the channels in the order of the tries.
Unposted ==
    [stage |-> "idle", list |-> {}, left |-> {}, queue |-> <<>>, tried |-> <<>>,
     spent |-> 0, copies |-> 0, unheard |-> 0, ok |-> FALSE]

MailInit ==
    /\ channel \in [Channels -> {NoChannel} \cup [there : {TRUE}, on : BOOLEAN, level : Levels]]
    /\ listed = Unlisted
    /\ cursor = [l \in Levels |-> 0]
    /\ post = [p \in Posters |-> Unposted]

-----------------------------------------------------------------------------
\* The list of channels

\* The rows that are switched on.
Enabled == {[id |-> c, level |-> channel[c].level] : c \in {d \in Channels : channel[d].there /\ channel[d].on}}

\* Providers: without a usable channel in the table, those of config.yaml.
Sending(list) ==
    LET usable == IF list = {} THEN Configured ELSE list IN
    [Unposted EXCEPT !.stage = "send", !.list = usable, !.left = usable]

\* A mail with a cached list; without a channel anywhere it is over.
BeginMail(p) ==
    /\ post[p].stage \in {"idle", "done"}
    /\ listed # Unlisted
    /\ post' = [post EXCEPT ![p] = Sending(listed.list)]
    /\ UNCHANGED <<channel, listed, cursor>>

\* A mail without one: the rows are read, or cannot be.
ListChannels(p) ==
    /\ post[p].stage \in {"idle", "done"}
    /\ listed = Unlisted
    /\ \/ post' = [post EXCEPT ![p] = [Unposted EXCEPT !.stage = "store", !.list = Enabled]]
       \/ post' = [post EXCEPT ![p] = Sending({})]
    /\ UNCHANGED <<channel, listed, cursor>>

StoreChannels(p) ==
    /\ post[p].stage = "store"
    /\ listed' = [list |-> post[p].list, late |-> post[p].list # Enabled]
    /\ post' = [post EXCEPT ![p] = Sending(post[p].list)]
    /\ UNCHANGED <<channel, cursor>>

\* providerCacheTTL.
ForgetChannels ==
    /\ listed # Unlisted
    /\ listed' = Unlisted
    /\ UNCHANGED <<channel, cursor, post>>

-----------------------------------------------------------------------------
\* Pool.Send

\* A level is tried from the cursor to its end only: MailsSound.
FaultyRotated(s, start) == SubSeq(s, start + 1, Len(s))

Rotated(s, start) == SubSeq(s, start + 1, Len(s)) \o SubSeq(s, 1, start)

TopLevel(list) == CHOOSE l \in {c.level : c \in list} : \A c \in list : l <= c.level

\* The list of channels comes in the order of their ids.
InOrder(ids) ==
    CHOOSE s \in [1 .. Cardinality(ids) -> ids] : \A i, j \in DOMAIN s : i < j => s[i] < s[j]

\* The next level, in the order of its ids, from where its cursor points.
EnterLevel(p) ==
    LET top == TopLevel(post[p].left)
        tier == {c \in post[p].left : c.level = top}
        ids == InOrder({c.id : c \in tier}) IN
    /\ post[p].stage = "send"
    /\ post[p].queue = <<>> /\ post[p].left # {}
    /\ post' = [post EXCEPT ![p].queue = Rotated(ids, cursor[top] % Len(ids)), ![p].left = @ \ tier]
    /\ cursor' = [cursor EXCEPT ![top] = (@ + 1) % Turns]
    /\ UNCHANGED <<channel, listed>>

\* Whether there is another try.
Allowed(p) == Len(post[p].tried) < MaxAttempts /\ post[p].spent < Budget

\* One try.  It is answered, or it ends with an error: at once or when its time is over, and
\* with the mail delivered or not.
Try(p) ==
    LET m == [post[p] EXCEPT !.tried = Append(@, Head(post[p].queue)), !.queue = Tail(@)] IN
    /\ post[p].stage = "send" /\ post[p].queue # <<>> /\ Allowed(p)
    /\ \/ post' = [post EXCEPT ![p] = [m EXCEPT !.stage = "done", !.copies = @ + 1, !.ok = TRUE]]
       \/ \E slow, delivered \in {0, 1} :
             post' = [post EXCEPT ![p] = [m EXCEPT !.spent = @ + slow, !.copies = @ + delivered,
                                                   !.unheard = @ + delivered]]
    /\ UNCHANGED <<channel, listed, cursor>>

\* The mail has failed: tries or time are used up, or no channel is left.
GiveUp(p) ==
    /\ post[p].stage = "send"
    /\ IF post[p].queue # <<>> THEN ~Allowed(p) ELSE post[p].left = {}
    /\ post' = [post EXCEPT ![p].stage = "done"]
    /\ UNCHANGED <<channel, listed, cursor>>

-----------------------------------------------------------------------------
\* Administration

\* A request that wrote a channel goes on to empty the cache.
Written(p) == post' = [post EXCEPT ![p] = [Unposted EXCEPT !.stage = "written"]]

CreateChannel(p, c, on, l) ==
    /\ post[p].stage = "idle" /\ ~channel[c].there
    /\ channel' = [channel EXCEPT ![c] = [there |-> TRUE, on |-> on, level |-> l]]
    /\ Written(p)
    /\ UNCHANGED <<listed, cursor>>

UpdateChannel(p, c, on, l) ==
    /\ post[p].stage = "idle" /\ channel[c].there
    /\ channel' = [channel EXCEPT ![c] = [there |-> TRUE, on |-> on, level |-> l]]
    /\ Written(p)
    /\ UNCHANGED <<listed, cursor>>

DeleteChannel(p, c) ==
    /\ post[p].stage = "idle" /\ channel[c].there
    /\ channel' = [channel EXCEPT ![c] = NoChannel]
    /\ Written(p)
    /\ UNCHANGED <<listed, cursor>>

InvalidateChannels(p) ==
    /\ post[p].stage = "written"
    /\ listed' = Unlisted
    /\ post' = [post EXCEPT ![p] = Unposted]
    /\ UNCHANGED <<channel, cursor>>

-----------------------------------------------------------------------------
SendNext ==
    \/ \E p \in Posters : BeginMail(p) \/ ListChannels(p) \/ StoreChannels(p)
    \/ \E p \in Posters : EnterLevel(p) \/ Try(p) \/ GiveUp(p)

ChannelsNext ==
    \/ \E p \in Posters, c \in Channels, on \in BOOLEAN, l \in Levels :
          CreateChannel(p, c, on, l) \/ UpdateChannel(p, c, on, l)
    \/ \E p \in Posters, c \in Channels : DeleteChannel(p, c)
    \/ \E p \in Posters : InvalidateChannels(p)
    \/ ForgetChannels

MailNext == SendNext \/ ChannelsNext

MailSpec == MailInit /\ [][MailNext]_mailVars

-----------------------------------------------------------------------------
\* Properties

MailTypeOK ==
    /\ channel \in [Channels -> [there : BOOLEAN, on : BOOLEAN, level : Levels]]
    /\ listed # Unlisted => listed.list \subseteq Entry /\ listed.late \in BOOLEAN
    /\ cursor \in [Levels -> 0 .. Turns - 1]
    /\ \A p \in Posters :
          /\ post[p].stage \in {"idle", "store", "send", "done", "written"}
          /\ post[p].left \subseteq post[p].list /\ post[p].list \subseteq Entry
          /\ post[p].spent \in 0 .. Budget

\* No channel is tried twice for one mail, and one of a lower level only after all of every
\* higher level; a mail that failed has been tried everywhere, unless its tries or its time
\* were used up.
TriesInOrder ==
    \A p \in Posters :
        LET m == post[p]
            tried == {m.tried[i] : i \in 1 .. Len(m.tried)} IN
        /\ Cardinality(tried) = Len(m.tried) /\ Len(m.tried) <= MaxAttempts
        /\ \A c, d \in m.list : c.level < d.level /\ d.id \in tried => c.id \in tried
        /\ m.stage = "done" /\ ~m.ok /\ Allowed(p) => tried = {c.id : c \in m.list}

\* Nobody gets a mail twice unless a try that delivered it was reported as failed.
CopiesExplained ==
    \A p \in Posters : post[p].copies <= post[p].unheard + (IF post[p].ok THEN 1 ELSE 0)

\* The cached list is what the table gives, except between a write and the emptying of the
\* cache, and when a request that had listed the channels before a write set it after.
ListKnown ==
    listed # Unlisted /\ listed.list # Enabled => listed.late \/ \E p \in Posters : post[p].stage = "written"
=============================================================================
