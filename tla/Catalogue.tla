------------------------------- MODULE Catalogue -------------------------------
(***************************************************************************)
(* Courses and teachers, which teacher gives which course, the pages of    *)
(* them that Redis keeps, and what users ask to be corrected or added.     *)
(*                                                                         *)
(* A page is filled by a reader that found none: it reads the database and *)
(* sets the key, and what it sets may be old by then.  A writer commits    *)
(* first and deletes keys afterwards, one command each, and only those of  *)
(* the entry it wrote: its own page and the lists of its kind.             *)
(***************************************************************************)
EXTENDS Integers, Sequences

CONSTANTS
    Courses,    \* ids of table courses
    Teachers,   \* ids of table teachers
    Names,      \* what the row of an entry says, name and other fields together
    Petitions,  \* ids of tables corrections and *_supplement_requests
    Clients,    \* request goroutines
    Blank       \* no page, no name

ASSUME CatalogueAssumption ==
    /\ Names # {} /\ Courses \cap Teachers = {} /\ {"courses", "teachers"} \cap (Courses \cup Teachers) = {}
    /\ Blank \notin Names \cup Petitions

VARIABLES
    entry,     \* rows of tables courses and teachers
    given,     \* rows of table course_teachers: their status
    page,      \* keys cache:course:* and cache:teacher:*
    petition,  \* rows of tables corrections and *_supplement_requests
    answered,  \* the verdicts whose notification the user of a petition has
    client     \* what every request is about to do

catalogueVars == <<entry, given, page, petition, answered, client>>

Entries == Courses \cup Teachers

Lists == {"courses", "teachers"}

Keys == Entries \cup Lists

\* The kind of an entry, by the name of its lists.
ListOf(x) == IF x \in Courses THEN "courses" ELSE "teachers"

KindOf(k) == IF k = "courses" THEN Courses ELSE Teachers

Links == Courses \X Teachers

Free == [stage |-> "free"]

CatalogueInit ==
    /\ \E start \in SUBSET Entries :
          entry = [x \in Entries |-> IF x \in start THEN [state |-> "active", name |-> CHOOSE n \in Names : TRUE]
                                                    ELSE [state |-> "none", name |-> Blank]]
    /\ given = [l \in Links |-> "none"]
    /\ page = [k \in Keys |-> Blank]
    /\ petition = [q \in Petitions |-> [status |-> "none"]]
    /\ answered = [q \in Petitions |-> {}]
    /\ client = [p \in Clients |-> Free]

-----------------------------------------------------------------------------
\* What a page says

Active(x) == entry[x].state = "active"

\* The other ends of the active links of an entry.
LinkedTo(x) == {y \in Entries : \E l \in Links : given[l] = "active" /\ {l[1], l[2]} = {x, y} /\ x # y}

Shown(X) == {<<x, entry[x].name>> : x \in {y \in X : Active(y)}}

\* FindCourseDetail and FindTeacherDetail: the row, and the active entries linked to it.
Detail(x) == [name |-> entry[x].name, shown |-> Shown(LinkedTo(x))]

\* FindCourses and FindTeachers: the active entries of a kind, all pages together.
Listing(k) == [name |-> Blank, shown |-> Shown(KindOf(k))]

\* What a reader finds in the database now; an entry that is not active has no page.
Current(k) == IF k \in Lists THEN Listing(k) ELSE IF Active(k) THEN Detail(k) ELSE Blank

-----------------------------------------------------------------------------
\* Readers: GetCourseDetail, ListCourses and their twins

\* A list is one query; that of a detail finds the row of the entry.
ReadPage(p, k) ==
    /\ client[p] = Free
    /\ page[k] = Blank
    /\ Current(k) # Blank
    /\ client' = [client EXCEPT ![p] =
                     IF k \in Lists THEN [stage |-> "fill", key |-> k, page |-> Listing(k)]
                     ELSE [stage |-> "linked", key |-> k, page |-> [name |-> entry[k].name, shown |-> {}]]]
    /\ UNCHANGED <<entry, given, page, petition, answered>>

\* The second query of a detail: the entries linked to it.
ReadLinked(p) ==
    LET k == client[p].key IN
    /\ client[p].stage = "linked"
    /\ client' = [client EXCEPT ![p] = [stage |-> "fill", key |-> k,
                                        page |-> [name |-> @.page.name, shown |-> Shown(LinkedTo(k))]]]
    /\ UNCHANGED <<entry, given, page, petition, answered>>

FillPage(p) ==
    /\ client[p].stage = "fill"
    /\ page' = [page EXCEPT ![client[p].key] = client[p].page]
    /\ client' = [client EXCEPT ![p] = Free]
    /\ UNCHANGED <<entry, given, petition, answered>>

\* The key expires: 10 minutes for a detail, 5 for a list.
ExpirePage(k) ==
    /\ page[k] # Blank
    /\ page' = [page EXCEPT ![k] = Blank]
    /\ UNCHANGED <<entry, given, petition, answered, client>>

-----------------------------------------------------------------------------
\* Writers

\* The keys of an entry are left to their expiry: PagesExplained.
FaultyInvalidated(x) == <<ListOf(x)>>

\* InvalidateCourseCache and InvalidateTeacherCache: the page, then the lists.
Invalidated(x) == <<x, ListOf(x)>>

\* After its commit a writer deletes keys, one after the other.
Cleaning(p, keys) == client' = [client EXCEPT ![p] = [stage |-> "clean", keys |-> keys]]

CleanPage(p) ==
    /\ client[p].stage = "clean"
    /\ page' = [page EXCEPT ![Head(client[p].keys)] = Blank]
    /\ client' = [client EXCEPT ![p] =
                     IF Len(@.keys) = 1 THEN Free ELSE [@ EXCEPT !.keys = Tail(client[p].keys)]]
    /\ UNCHANGED <<entry, given, petition, answered>>

\* CreateCourse and CreateTeacher: nothing is invalidated.
CreateEntry(x, n) ==
    /\ entry[x].state = "none"
    /\ entry' = [entry EXCEPT ![x] = [state |-> "active", name |-> n]]
    /\ UNCHANGED <<given, page, petition, answered, client>>

\* UpdateCourse and UpdateTeacher find deleted rows too.
UpdateEntry(p, x, n) ==
    /\ client[p] = Free
    /\ entry[x].state # "none"
    /\ entry' = [entry EXCEPT ![x].name = n]
    /\ Cleaning(p, Invalidated(x))
    /\ UNCHANGED <<given, page, petition, answered>>

\* DeleteCourse and DeleteTeacher.
DeleteEntry(p, x) ==
    /\ client[p] = Free
    /\ Active(x)
    /\ entry' = [entry EXCEPT ![x].state = "deleted"]
    /\ Cleaning(p, Invalidated(x))
    /\ UNCHANGED <<given, page, petition, answered>>

\* A link is created, restored or canceled while both ends are active.  The check comes just
\* before the transaction: an end deleted in between leaves what its deletion leaves later.
Relinked(l, status) ==
    /\ Active(l[1]) /\ Active(l[2])
    /\ IF status = "active" THEN given[l] # "active" ELSE given[l] = "active"
    /\ given' = [given EXCEPT ![l] = status]
    /\ UNCHANGED <<entry, page, petition, answered>>

\* CreateCourseTeacherRelation and CancelCourseTeacherRelation of the course service.
Relate(p, l, status) ==
    /\ client[p] = Free
    /\ Relinked(l, status)
    /\ Cleaning(p, Invalidated(l[1]) \o Invalidated(l[2]))

\* AddCourseRelation and RemoveCourseRelation of the administrators invalidate nothing.
AdminRelate(l, status) ==
    /\ Relinked(l, status)
    /\ UNCHANGED client

-----------------------------------------------------------------------------
\* Petitions

\* CreateCorrection, of an active entry.
AskCorrection(q, x, n) ==
    /\ petition[q].status = "none"
    /\ Active(x)
    /\ petition' = [petition EXCEPT ![q] = [status |-> "pending", about |-> x, name |-> n]]
    /\ UNCHANGED <<entry, given, page, answered, client>>

\* CreateSupplementRequest, of a course or a teacher to add.
AskAddition(q, k, n) ==
    /\ petition[q].status = "none"
    /\ petition' = [petition EXCEPT ![q] = [status |-> "pending", about |-> k, name |-> n]]
    /\ UNCHANGED <<entry, given, page, answered, client>>

\* HandleCorrection, ApproveSupplementRequest and RejectSupplementRequest read the row; the
\* first in its transaction, the others not: neither locks it.
ReadPetition(p, q) ==
    /\ client[p] = Free
    /\ petition[q].status = "pending"
    /\ client' = [client EXCEPT ![p] = [stage |-> "review", on |-> q]]
    /\ UNCHANGED <<entry, given, page, petition, answered>>

\* The petition is decided again by everybody who asks: PetitionsReviewed.
FaultyDecidePetition(p, q, status) ==
    /\ petition' = [petition EXCEPT ![q].status = status]
    /\ answered' = [answered EXCEPT ![q] = {status}]
    /\ client' = [client EXCEPT ![p] = Free]
    /\ UNCHANGED <<given, page>>

\* The row is written by its id, and the user notified, in the transaction.
DecidePetition(p, q, status) ==
    /\ petition' = [petition EXCEPT ![q].status = status]
    /\ answered' = [answered EXCEPT ![q] = @ \cup {status}]
    /\ client' = [client EXCEPT ![p] = Free]
    /\ UNCHANGED <<given, page>>

\* applyCorrection: the row of the entry is written, whatever its state.
AcceptCorrection(p) ==
    /\ client[p].stage = "review"
    /\ LET q == client[p].on IN
       /\ petition[q].about \in Entries
       /\ entry' = [entry EXCEPT ![petition[q].about].name = petition[q].name]
       /\ DecidePetition(p, q, "accepted")

\* approveTeacherSupplementRequest and approveCourseSupplementRequest: an entry is created,
\* one for every approval.
AcceptAddition(p, x) ==
    /\ client[p].stage = "review"
    /\ entry[x].state = "none"
    /\ LET q == client[p].on IN
       /\ petition[q].about = ListOf(x)
       /\ entry' = [entry EXCEPT ![x] = [state |-> "active", name |-> petition[q].name]]
       /\ DecidePetition(p, q, "accepted")

RejectPetition(p) ==
    /\ client[p].stage = "review"
    /\ DecidePetition(p, client[p].on, "rejected")
    /\ UNCHANGED entry

\* A request that fails: before its commit, before it sets a key, or, the errors of Redis
\* being ignored, instead of deleting the keys that are left.
DropClient(p) ==
    /\ client[p] # Free
    /\ client' = [client EXCEPT ![p] = Free]
    /\ UNCHANGED <<entry, given, page, petition, answered>>

PagesNext ==
    \/ \E p \in Clients, k \in Keys : ReadPage(p, k)
    \/ \E p \in Clients : ReadLinked(p) \/ FillPage(p) \/ CleanPage(p) \/ DropClient(p)
    \/ \E k \in Keys : ExpirePage(k)

WritersNext ==
    \/ \E x \in Entries, n \in Names : CreateEntry(x, n)
    \/ \E p \in Clients, x \in Entries, n \in Names : UpdateEntry(p, x, n)
    \/ \E p \in Clients, x \in Entries : DeleteEntry(p, x)
    \/ \E p \in Clients, l \in Links, s \in {"active", "canceled"} : Relate(p, l, s)
    \/ \E l \in Links, s \in {"active", "canceled"} : AdminRelate(l, s)

PetitionNext ==
    \/ \E q \in Petitions, x \in Entries, n \in Names : AskCorrection(q, x, n)
    \/ \E q \in Petitions, k \in Lists, n \in Names : AskAddition(q, k, n)
    \/ \E p \in Clients, q \in Petitions : ReadPetition(p, q)
    \/ \E p \in Clients : AcceptCorrection(p) \/ RejectPetition(p)
    \/ \E p \in Clients, x \in Entries : AcceptAddition(p, x)

CatalogueSpec == CatalogueInit /\ [][PagesNext \/ WritersNext \/ PetitionNext]_catalogueVars

-----------------------------------------------------------------------------
\* Properties

Statuses == {"pending", "accepted", "rejected"}

Page == [name : Names \cup {Blank}, shown : SUBSET (Entries \X Names)]

\* Every variable has its type.
CatalogueTypeOK ==
    /\ entry \in [Entries -> [state : {"none", "active", "deleted"}, name : Names \cup {Blank}]]
    /\ given \in [Links -> {"none", "active", "canceled"}]
    /\ page \in [Keys -> Page \cup {Blank}]
    /\ \A q \in Petitions :
          \/ petition[q] = [status |-> "none"]
          \/ petition[q] \in [status : Statuses, about : Keys, name : Names]
    /\ answered \in [Petitions -> SUBSET {"accepted", "rejected"}]
    /\ \A p \in Clients : client[p].stage \in {"free", "linked", "fill", "clean", "review"}

Fresh(k) == page[k] \in {Blank, Current(k)}

\* A key some writer is about to delete.
Condemned(k) == \E p \in Clients : client[p].stage = "clean" /\ k \in {client[p].keys[i] : i \in 1 .. Len(client[p].keys)}

\* The writes after which nobody deletes the key of a page that shows what they wrote: of an
\* entry shown on the pages of others, those of links by administrators, those of petitions,
\* and a new entry on its lists.
Unannounced(k) ==
    \/ \E x \in Entries \ {k} : k \notin Lists /\ entry'[x] # entry[x]
    \/ \E l \in Links, s \in {"active", "canceled"} : AdminRelate(l, s)
    \/ \E x \in Entries : entry[x].state = "none" /\ entry'[x].state = "active"
    \/ \E p \in Clients : AcceptCorrection(p)

\* A page that agrees with the database stops doing so only when a write commits whose
\* client still has to delete the key, when a write happens that never deletes it, or when the
\* page is set by a reader from what it read before a write.
PagesExplained ==
    [][\A k \in Keys :
          Fresh(k) /\ ~ Fresh(k)' =>
             \/ Condemned(k)'
             \/ Unannounced(k)
             \/ \E p \in Clients : FillPage(p) /\ client[p].key = k /\ client[p].page # Current(k)]_catalogueVars

PetitionReview == INSTANCE Review WITH
    Cases <- Petitions,
    Reviewers <- Clients,
    Nothing <- Blank,
    verdict <- [q \in Petitions |-> petition[q].status],
    reviewing <- [p \in Clients |-> IF client[p].stage = "review" THEN client[p].on ELSE Blank],
    messages <- answered

\* The handling of corrections and additions keeps the promise of Review: a petition is
\* decided by those alone who have seen it pending, and its user is told every decision.
PetitionsReviewed == PetitionReview!Spec
=============================================================================
