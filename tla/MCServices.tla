------------------------------- MODULE MCServices -------------------------------
\* Small instances of Access, MailPool, Wiki, Compass and Notifications, which share no state: each part
\* of the run is at work on one of them, with what does not concern its question kept still.
EXTENDS Access, MailPool, Wiki, Compass, Notifications, TLC

CONSTANTS
    FirstSlug,    \* the only slug of the part "headings"
    OtherDocument \* the document that only the part "pages" creates

VARIABLE part

Parts == {"bans", "tokens", "mails", "channels", "pages", "tree", "headings", "forms", "notes", "roots",
          "news", "posts", "marks"}

\* The channel of the configuration.
FromConfiguration == {[id |-> 0, level |-> 1]}

\* "mails": up to three channels of any level, all switched on;
\* "channels": none at first, and one that administrators write.
MCInit ==
    /\ AccessInit /\ MailInit /\ WikiInit /\ CompassInit /\ NoticesInit
    /\ part \in Parts
    /\ part # "mails" => \A c \in Channels : ~channel[c].there
    /\ \A c \in Channels : channel[c].there => channel[c].on /\ \A d \in 1 .. c : channel[d].there

OneMail == Cardinality({p \in Posters : post[p] # Unposted}) <= 1

OneChannel ==
    /\ \A c \in Channels \ {1} : ~channel[c].there
    /\ Cardinality({p \in Posters : post[p].stage \in {"send", "done"}}) <= 1

OneKey == Cardinality({k \in Places : shown[k] # Missing}) <= 1

AccessPart ==
    \/ part \in {"bans", "tokens"} /\ (RequestsNext \/ UsersNext)
    \/ part = "bans" /\ AbuseNext
    \/ part = "tokens" /\ TokensNext

MailPart ==
    \/ part = "mails" /\ SendNext /\ OneMail'
    \/ part = "channels" /\ MailNext /\ OneChannel'

\* "pages": no categories; "tree" and "headings": one document, whose text nobody edits.
WikiPart ==
    /\ \/ part \in {"pages", "tree", "headings"} /\ (EditorsNext \/ CacheNext)
       \/ part = "tree" /\ TreeNext
       \/ part \in {"pages", "headings"} /\ SlugNext
    /\ OneKey'
    /\ part = "pages" => \A c \in Categories : category'[c].state = "none"
    /\ part # "pages" => /\ document'[OtherDocument].state = "none"
                         /\ \A e \in Editors : editor'[e].field # "text"
    /\ part = "headings" => \A d \in Documents : document'[d].slug \in {FirstSlug, Missing}

\* A page nobody wrote anything in.
Untouched(n) == note[n].title = 0 /\ note[n].body = 0 /\ history[n] \subseteq {<<0, 0>>}

\* Pages begin with one wording and edits write the other.
\* "forms": pages are not edited; "notes": one page, and an author who asked before it was there;
\* "roots": nobody asks or edits.
CompassPart ==
    /\ part \in {"forms", "notes", "roots"}
    /\ CompassNext
    /\ \A n \in {m \in Notes : ~note[m].there} : Untouched(n)'
    /\ \A h \in Hands : hand'[h].stage = "write" => hand'[h].value = 1
    /\ part = "forms" => \A h \in Hands : hand'[h].stage \notin {"plant", "collect", "write"}
    /\ part # "forms" => \A f \in Forms \ {1} : form'[f] = NoForm
    /\ part = "notes" => /\ Cardinality({n \in Notes : note'[n].there}) <= 1
                         /\ \A h \in Hands : hand'[h].stage # "plant"
                         /\ form' # form => \A n \in Notes : ~note'[n].there
                         /\ \A h \in Hands : hand'[h].stage \in {"ask", "grant", "settle"} =>
                               /\ \A n \in Notes : ~note'[n].there
                               /\ authors = {}
    /\ part = "roots" => \A h \in Hands : hand'[h].stage \notin {"ask", "write"}

\* "news": a user's own notices and an open page; "posts": announcements and their updates,
\* without a page; "marks": one notice to all, whose text nobody edits.
NoticesPart ==
    /\ part \in {"news", "posts", "marks"}
    /\ NoticesNext
    /\ part = "news" => bulletin' = bulletin /\ \A m \in Messengers : messenger'[m].about = Nobody
    /\ part # "news" => \A s \in Slots : notice'[s].to = Everyone
    /\ part = "posts" => /\ \A u \in Receivers : ~told'[u].on
                         /\ \A m \in Messengers : messenger'[m].stage \notin {"mark", "all"}
    /\ part = "marks" => /\ \A s \in Slots \ {1} : notice'[s].state = "none"
                         /\ \A m \in Messengers : messenger'[m].face.text = 0

MCNext ==
    /\ \/ AccessPart /\ UNCHANGED <<mailVars, wikiVars, compassVars, noticeVars>>
       \/ MailPart /\ UNCHANGED <<accessVars, wikiVars, compassVars, noticeVars>>
       \/ WikiPart /\ UNCHANGED <<accessVars, mailVars, compassVars, noticeVars>>
       \/ CompassPart /\ UNCHANGED <<accessVars, mailVars, wikiVars, noticeVars>>
       \/ NoticesPart /\ UNCHANGED <<accessVars, mailVars, wikiVars, compassVars>>
    /\ UNCHANGED part

MCSpec == MCInit /\ [][MCNext]_<<accessVars, mailVars, wikiVars, compassVars, noticeVars, part>>

-----------------------------------------------------------------------------
\* Properties

\* Who is shut out and who has tokens: the types, a ban for ever of the system has its three
\* violations, and a refresh token gives one pair for every request that was at work with it.
AccessSound == AccessTypeOK /\ PenaltyEarned /\ PairsBounded

\* What reaches people.  A mail tries its channels in order, all of them unless its tries or
\* its time end, and comes twice only after a try that delivered it and was reported as
\* failed; the cached list of channels is late only for the reasons ListKnown names.  The
\* page of a user knows the number of unread notices, up to what NewsKnown names, and a mark
\* has its notice.
MessagesSound ==
    /\ MailTypeOK /\ TriesInOrder /\ CopiesExplained /\ ListKnown
    /\ NoticesTypeOK /\ NewsKnown /\ MarksKnown

\* What is shown of the wiki is what its tables say, up to the races ShownKnown names; an
\* approval of the compass has its right, and a page its history.
DocumentsSound == WikiTypeOK /\ ShownKnown /\ CompassTypeOK /\ GrantsKept /\ HistoryKept

\* A document loses its category, an edit its text, a course its root page and a deletion of
\* an announcement its effect only where two requests overlapped.
DocumentsExplained == OrphansExplained /\ EditsExplained /\ ReturnsExplained

\* Callers, Posters, Editors, Hands and Messengers are the same set of goroutines in the instance, and
\* Sessions and Notes the same two values.
Interchangeable == Permutations(Callers) \cup Permutations(Notes)
=============================================================================
