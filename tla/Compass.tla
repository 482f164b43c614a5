-------------------------------- MODULE Compass --------------------------------
(***************************************************************************)
(* The compass: pages that authors write and others edit on request, with  *)
(* a history, collections of pages and one root page for every course.     *)
(*                                                                         *)
(* The service runs its statements one by one, without a transaction: a    *)
(* request may end between any two of them, and what it read before may be *)
(* out of date when it writes.                                             *)
(***************************************************************************)
EXTENDS Integers, FiniteSets

CONSTANTS
    Members,  \* users
    Notes,    \* ids of table compass_pages
    Subjects, \* courses
    Forms,    \* ids of author applications and edit requests: numbers, in the order they are created
    Hands,    \* request goroutines
    Null    \* NULL

Wordings == {0, 1} \* what a title or a body may say

VARIABLES
    authors,    \* rows of compass_authors
    writers,    \* rows of compass_page_writers, for every page
    form,       \* applications to become an author, requests to edit a page
    note,       \* rows of compass_pages
    history,    \* rows of compass_page_history, for every page
    unlogged,   \* pages some version of which did not come into the history
    root,       \* rows of compass_course_roots
    collection, \* rows of compass_collections, by the page they start at, and whether the page knows
    hand        \* the request every goroutine is serving

compassVars == <<authors, writers, form, note, history, unlogged, root, collection, hand>>

Note == [there : BOOLEAN, owner : Members \cup {Null}, title : Wordings, body : Wordings]

NoNote == [there |-> FALSE, owner |-> Null, title |-> 0, body |-> 0]

NoForm == [status |-> "none", by |-> Null, page |-> Null]

\* read: the page as the request read it; fields and value: what it makes of it; found: the
\* root it found for a course.
Free == [stage |-> "idle", who |-> Null, id |-> Null, page |-> Null, verdict |-> "none",
         read |-> NoNote, fields |-> {}, value |-> 0, found |-> Null]

CompassInit ==
    /\ authors = {}
    /\ writers = [n \in Notes |-> {}]
    /\ form = [f \in Forms |-> NoForm]
    /\ note = [n \in Notes |-> NoNote]
    /\ history = [n \in Notes |-> {}]
    /\ unlogged = {}
    /\ root = [x \in Subjects |-> Null]
    /\ collection = [n \in Notes |-> "none"]
    /\ hand = [h \in Hands |-> Free]

Leave(h) == hand' = [hand EXCEPT ![h] = Free]

Take(h, job) == hand[h] = Free /\ hand' = [hand EXCEPT ![h] = job]

\* A request that ends before its next statement, with an error or, before the last of a
\* new collection, without one.
Stumble(h) ==
    /\ hand[h].stage \notin {"idle", "append"}
    /\ Leave(h)
    /\ UNCHANGED <<authors, writers, form, note, history, unlogged, root, collection>>

-----------------------------------------------------------------------------
\* Authors and editors

FormsOf(u, n) == {f \in Forms : form[f].by = u /\ form[f].page = n}

\* ApplyAuthor: not an author, and the latest application is decided.  RequestEdit: neither
\* the owner nor a writer, and no request pending.
MayAsk(u, n) ==
    IF n = Null
    THEN /\ u \notin authors
         /\ \A f \in FormsOf(u, n) : form[f].status = "pending" => \E g \in FormsOf(u, n) : g > f
    ELSE /\ note[n].there /\ note[n].owner # u /\ u \notin writers[n]
         /\ \A f \in FormsOf(u, n) : form[f].status # "pending"

BeginAsk(h, u, n) ==
    /\ MayAsk(u, n)
    /\ Take(h, [Free EXCEPT !.stage = "ask", !.who = u, !.id = n])
    /\ UNCHANGED <<authors, writers, form, note, history, unlogged, root, collection>>

InsertForm(h, f) ==
    /\ hand[h].stage = "ask"
    /\ form[f] = NoForm /\ \A g \in Forms : form[g] = NoForm => f <= g
    /\ form' = [form EXCEPT ![f] = [status |-> "pending", by |-> hand[h].who, page |-> hand[h].id]]
    /\ Leave(h)
    /\ UNCHANGED <<authors, writers, note, history, unlogged, root, collection>>

\* Approval writes the status before the right: DocumentsSound.
FaultyFirst(verdict) == "settle"

\* ReviewAuthorApplication and ReviewEditRequest grant first and write the status then.
First(verdict) == IF verdict = "approved" THEN "grant" ELSE "settle"

BeginReview(h, f, verdict) ==
    /\ form[f].status = "pending"
    /\ Take(h, [Free EXCEPT !.stage = First(verdict), !.id = f, !.verdict = verdict])
    /\ UNCHANGED <<authors, writers, form, note, history, unlogged, root, collection>>

\* GrantAuthor or GrantPageWriter, both of which may be repeated.
Grant(h) ==
    LET f == form[hand[h].id] IN
    /\ hand[h].stage = "grant"
    /\ IF f.page = Null
       THEN authors' = authors \cup {f.by} /\ UNCHANGED writers
       ELSE writers' = [writers EXCEPT ![f.page] = @ \cup {f.by}] /\ UNCHANGED authors
    /\ hand' = [hand EXCEPT ![h].stage = "settle"]
    /\ UNCHANGED <<form, note, history, unlogged, root, collection>>

\* Save writes the form whatever another reviewer made of it.
Settle(h) ==
    /\ hand[h].stage = "settle"
    /\ form' = [form EXCEPT ![hand[h].id].status = hand[h].verdict]
    /\ Leave(h)
    /\ UNCHANGED <<authors, writers, note, history, unlogged, root, collection>>

-----------------------------------------------------------------------------
\* Pages

\* CreatePage of the store: the page and its first history row, in a transaction.
Created(n, u, t) ==
    /\ ~note[n].there
    /\ note' = [note EXCEPT ![n] = [there |-> TRUE, owner |-> u, title |-> t, body |-> t]]
    /\ history' = [history EXCEPT ![n] = {<<t, t>>}]

\* CreateEssay, by an author; in a course it follows EnsureCourseRoot.
CreateEssay(h, u, n, t) ==
    /\ hand[h] = Free
    /\ u \in authors
    /\ Created(n, u, t)
    /\ UNCHANGED <<authors, writers, form, unlogged, root, collection, hand>>

\* UpdatePage reads the page and checks who may write: its owner, its writers, moderators.
BeginUpdatePage(h, n, fields, t) ==
    /\ note[n].there
    /\ Take(h, [Free EXCEPT !.stage = "write", !.page = n, !.read = note[n], !.fields = fields, !.value = t])
    /\ UNCHANGED <<authors, writers, form, note, history, unlogged, root, collection>>

\* What an edit leaves out becomes empty: DocumentsExplained.
FaultyEdited(h) == [f \in DOMAIN NoNote |-> IF f \in {"title", "body"} THEN hand[h].value ELSE hand[h].read[f]]

\* The page as this request has it: as it read it, with its own changes.
Edited(h) == [f \in DOMAIN NoNote |-> IF f \in hand[h].fields THEN hand[h].value ELSE hand[h].read[f]]

\* The store writes title and body, changed or not.
WritePage(h) ==
    /\ hand[h].stage = "write"
    /\ note' = [note EXCEPT ![hand[h].page] = Edited(h)]
    /\ hand' = [hand EXCEPT ![h].stage = "append"]
    /\ UNCHANGED <<authors, writers, form, history, unlogged, root, collection>>

\* The history gets what the request had read: DocumentsSound.
FaultyVersion(h) == <<hand[h].read.title, hand[h].read.body>>

\* The history gets what this request wrote.
Version(h) == <<Edited(h).title, Edited(h).body>>

AppendHistory(h) ==
    LET n == hand[h].page IN
    /\ hand[h].stage = "append"
    /\ \/ history' = [history EXCEPT ![n] = @ \cup {Version(h)}] /\ UNCHANGED unlogged
       \/ unlogged' = unlogged \cup {n} /\ UNCHANGED history
    /\ Leave(h)
    /\ UNCHANGED <<authors, writers, form, note, root, collection>>

-----------------------------------------------------------------------------
\* Collections and courses

\* CreateCollection: the page, the collection, and the page once more, to know it.
CreateRootPage(h, u, n, t) ==
    /\ u \in authors
    /\ Created(n, u, t)
    /\ Take(h, [Free EXCEPT !.stage = "collect", !.page = n, !.read = note'[n]])
    /\ UNCHANGED <<authors, writers, form, unlogged, root, collection>>

InsertCollection(h) ==
    /\ hand[h].stage = "collect"
    /\ collection' = [collection EXCEPT ![hand[h].page] = "made"]
    /\ hand' = [hand EXCEPT ![h].stage = "tie"]
    /\ UNCHANGED <<authors, writers, form, note, history, unlogged, root>>

TieCollection(h) ==
    LET n == hand[h].page IN
    /\ hand[h].stage = "tie"
    /\ note' = [note EXCEPT ![n] = Edited(h)]
    /\ collection' = [collection EXCEPT ![n] = "known"]
    /\ Leave(h)
    /\ UNCHANGED <<authors, writers, form, history, unlogged, root>>

\* A root is made whether there is one or not: DocumentsExplained.
FaultyRootless(x) == TRUE

Rootless(x) == root[x] = Null

\* EnsureCourseRoot: anybody who looks at the pages of a course makes its root.
BeginCourseRoot(h, u, x) ==
    /\ Rootless(x)
    /\ Take(h, [Free EXCEPT !.stage = "plant", !.who = u, !.id = x, !.found = root[x]])
    /\ UNCHANGED <<authors, writers, form, note, history, unlogged, root, collection>>

PlantCourseRoot(h, n) ==
    /\ hand[h].stage = "plant"
    /\ Created(n, hand[h].who, 0)
    /\ hand' = [hand EXCEPT ![h].stage = "link", ![h].page = n]
    /\ UNCHANGED <<authors, writers, form, unlogged, root, collection>>

\* SaveCourseRoot replaces the row of the course.
LinkCourseRoot(h) ==
    /\ hand[h].stage = "link"
    /\ root' = [root EXCEPT ![hand[h].id] = hand[h].page]
    /\ Leave(h)
    /\ UNCHANGED <<authors, writers, form, note, history, unlogged, collection>>

-----------------------------------------------------------------------------
FormsNext ==
    \/ \E h \in Hands, u \in Members, n \in Notes \cup {Null} : BeginAsk(h, u, n)
    \/ \E h \in Hands, f \in Forms : InsertForm(h, f) \/ BeginReview(h, f, "approved") \/ BeginReview(h, f, "rejected")
    \/ \E h \in Hands : Grant(h) \/ Settle(h) \/ Stumble(h)

NotesNext ==
    \/ \E h \in Hands, u \in Members, n \in Notes, t \in Wordings : CreateEssay(h, u, n, t) \/ CreateRootPage(h, u, n, t)
    \/ \E h \in Hands, n \in Notes, fields \in (SUBSET {"title", "body"}) \ {{}}, t \in Wordings :
          BeginUpdatePage(h, n, fields, t)
    \/ \E h \in Hands : WritePage(h) \/ AppendHistory(h) \/ InsertCollection(h) \/ TieCollection(h)

RootsNext ==
    \/ \E h \in Hands, u \in Members, x \in Subjects : BeginCourseRoot(h, u, x)
    \/ \E h \in Hands, n \in Notes : PlantCourseRoot(h, n)
    \/ \E h \in Hands : LinkCourseRoot(h)

CompassNext == FormsNext \/ NotesNext \/ RootsNext

CompassSpec == CompassInit /\ [][CompassNext]_compassVars

-----------------------------------------------------------------------------
\* Properties

CompassTypeOK ==
    /\ authors \subseteq Members
    /\ \A n \in Notes : writers[n] \subseteq Members /\ history[n] \subseteq Wordings \X Wordings
    /\ \A f \in Forms : form[f].status \in {"none", "pending", "approved", "rejected"}
    /\ note \in [Notes -> Note]
    /\ unlogged \subseteq Notes
    /\ root \in [Subjects -> Notes \cup {Null}]
    /\ collection \in [Notes -> {"none", "made", "known"}]

\* Whose application or request shows as approved has the right: a review that fails half
\* way leaves a right without an approval, and never an approval without a right.
GrantsKept ==
    \A f \in Forms :
        form[f].status = "approved" => form[f].by \in IF form[f].page = Null THEN authors ELSE writers[form[f].page]

\* What a page says is in its history, or about to be, unless a version of the page was
\* written and its row in the history was not.
HistoryKept ==
    \A n \in Notes :
        note[n].there =>
            \/ <<note[n].title, note[n].body>> \in history[n] \/ n \in unlogged
            \/ \E h \in Hands : hand[h].stage = "append" /\ hand[h].page = n

\* A course that has a root page keeps it.
Replanted(x) == root[x] # Null /\ root'[x] # root[x]

\* An edit of a title changes no body and the other way round, unless it read the page
\* before another edit; and a course gets another root page only from a request that
\* found none when the first was on its way, whose page is then left without a course.
EditsExplained ==
    [][/\ \A n \in Notes, field \in {"title", "body"} :
             note[n].there /\ note'[n][field] # note[n][field] =>
                \E h \in Hands :
                    /\ hand'[h] # hand[h] /\ hand[h].page = n
                    /\ field \in hand[h].fields \/ hand[h].read # note[n]
       /\ \A x \in Subjects :
             Replanted(x) => \E h \in Hands : hand[h].stage = "link" /\ hand[h].found # root[x]]_compassVars
=============================================================================
