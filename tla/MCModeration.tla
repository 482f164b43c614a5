------------------------------ MODULE MCModeration ------------------------------
\* Small instances of Moderation, with Comments, of Catalogue and of LockOrders.  What does
\* not concern a property is kept still by running the parts on their own: the comments; the
\* reports with few comments; the feedback; the pages with their writers; the pages with
\* the petitions; the locks.  A page is looked at alone: one key is set at a time.
EXTENDS Moderation, Catalogue, LockOrders, TLC

VARIABLE part

MCInit ==
    /\ CommentsInit
    /\ ModerationInit
    /\ CatalogueInit
    /\ LocksInit
    /\ part \in {"comments", "reports", "feedback", "pages", "petitions", "locks"}
    /\ part \notin {"pages", "petitions"} => \A x \in Entries : entry[x].state = "none"

FewComments ==
    /\ Cardinality({c \in Comments : comment[c].state # "free"}) <= 1
    /\ Cardinality({p \in Workers : worker[p] # Idle}) <= 1
    /\ counted = Absent

OnePage == Cardinality({k \in Keys : page[k] # Blank}) <= 1

ServicesNext ==
    \/ part = "comments" /\ CommentsNext /\ UNCHANGED <<moderationVars, catalogueVars>>
    \/ part = "reports" /\ CommentsNext /\ FewComments' /\ UNCHANGED <<moderationVars, catalogueVars>>
    \/ part = "reports" /\ ReportsNext /\ UNCHANGED catalogueVars
    \/ part = "feedback" /\ FeedbackNext /\ UNCHANGED catalogueVars
    \/ part \in {"pages", "petitions"} /\ PagesNext /\ OnePage' /\ UNCHANGED <<commentVars, moderationVars>>
    \/ part = "pages" /\ WritersNext /\ UNCHANGED <<commentVars, moderationVars>>
    \/ part = "petitions" /\ PetitionNext /\ UNCHANGED <<commentVars, moderationVars>>

\* Whoever has locked nothing yet, or all his rows, goes on before anything else happens: nobody who
\* is deadlocked needs him to wait.
Urgent == {s \in Sessions : tx[s] # NoTx /\ (tx[s].got = 0 \/ Done(s))}

LocksPart == LocksNext /\ \A s \in Urgent : tx'[s] # tx[s]

MCNext ==
    /\ \/ part # "locks" /\ ServicesNext /\ UNCHANGED tx
       \/ part = "locks" /\ LocksPart /\ UNCHANGED <<commentVars, moderationVars, catalogueVars>>
    /\ UNCHANGED part

MCSpec == MCInit /\ [][MCNext]_<<commentVars, moderationVars, catalogueVars, tx, part>>

\* A resolved report has had its effect, of the reports of a resource at most one is ever
\* resolved, transactions deadlock only if two of them are known to lock in opposite orders,
\* and every variable of the four modules has its type.
ModerationSound == CommentsTypeOK /\ ModerationTypeOK /\ CatalogueTypeOK /\ OneResolution /\ LocksSound

\* Reports, corrections and requests for additions are decided as Review promises.
Reviewed == ReportsReviewed /\ PetitionsReviewed

\* Workers, Admins and Clients are the same set of goroutines in the instance; Sessions, CourseRows
\* and ResourceRows have the values of Comments, Reports and Workers.
Interchangeable == Permutations(Comments) \cup Permutations(Workers) \cup Permutations(Reports)
=============================================================================
