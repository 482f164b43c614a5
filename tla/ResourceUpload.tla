---------------------------- MODULE ResourceUpload ----------------------------
(***************************************************************************)
(* The life of an uploaded resource: an upload session in Redis, the       *)
(* objects the client puts into the object store (COS) through presigned   *)
(* URLs, the row of table resources that FinalizeResourceUpload inserts,   *)
(* and its deletion: by the owner, by an administrator, for a report.      *)
(*                                                                         *)
(* Redis, COS and Postgres share no transaction.  A request loads the      *)
(* session once and then works on its copy, one call after the other, so   *)
(* every call is a step here and other requests run in between.  The       *)
(* session is not taken when it is loaded: it is deleted at the end.       *)
(*                                                                         *)
(* Operators named Faulty... are plausible bugs in the definition that     *)
(* follows them; they belong to no specification.                          *)
(***************************************************************************)
EXTENDS Integers, FiniteSets

CONSTANTS
    Sessions,   \* upload sessions, each prepared at most once
    NoSession,  \* the session of a row that does not exist
    Files,      \* the files of a session
    Resources,  \* ids of table resources; bound: as many can be inserted
    NoResource, \* the resource of a request that deletes none
    Procs,      \* request goroutines
    Faults,     \* what may fail: "cos", "db", "redis", "crash"
    MaxReloads  \* bound on the loads of a session that is in use or used up

ASSUME UploadAssumption ==
    /\ IsFiniteSet(Resources)
    /\ NoSession \notin Sessions /\ NoResource \notin Resources
    /\ Faults \subseteq {"cos", "db", "redis", "crash"}
    /\ MaxReloads \in Nat

VARIABLES
    session,    \* the key of every session: not yet set, set, deleted or expired
    objects,    \* the objects in COS: pairs of a session and a file of it
    resource,   \* the rows of table resources
    req,        \* the request every goroutine is serving
    reloads,    \* history: loads of a session in use by another request or used up
    deletions,  \* history: how often a row was deleted
    overtaken   \* history: administrators who had read a row when it was deleted

vars == <<session, objects, resource, req, reloads, deletions, overtaken>>

Row == [session : Sessions \cup {NoSession}, status : {"none", "approved", "deleted"}]

\* "check": a finalize that still has to see the objects in todo; "discard": a
\* failed finalize that deletes them; "abort": an abort that does; "close": only
\* the session is left to delete; "delete", "adminDelete": a DeleteResource of the
\* owner or of an administrator that has read the row; "purge": one that has
\* committed and deletes the objects in todo.
Stages == {"idle", "check", "discard", "abort", "close", "delete", "adminDelete", "purge"}

Request == [stage : Stages, session : Sessions \cup {NoSession},
            resource : Resources \cup {NoResource}, todo : SUBSET Files]

NoRequest == [stage |-> "idle", session |-> NoSession, resource |-> NoResource, todo |-> {}]

Init ==
    /\ session = [s \in Sessions |-> "unset"]
    /\ objects = {}
    /\ resource = [r \in Resources |-> [session |-> NoSession, status |-> "none"]]
    /\ req = [p \in Procs |-> NoRequest]
    /\ reloads = [s \in Sessions |-> 0]
    /\ deletions = [r \in Resources |-> 0]
    /\ overtaken = [r \in Resources |-> 0]

\* The objects of session s.
ObjectsOf(s) == {s} \X Files

\* The rows made from session s, deleted ones included.
MadeFrom(s) == {r \in Resources : resource[r].session = s}

\* The requests at work on session s.
Using(s) == {p \in Procs : req[p].session = s /\ req[p].stage \in {"check", "discard", "abort", "close"}}

GoOn(p, stage, todo) == req' = [req EXCEPT ![p].stage = stage, ![p].todo = todo]

Answer(p) == req' = [req EXCEPT ![p] = NoRequest]

\* The administrators who have read row r, found it not deleted and will delete it.
AdminsAt(r) == {p \in Procs : req[p].stage = "adminDelete" /\ req[p].resource = r}

\* Row r is deleted, also if it already was; late are the administrators who have
\* read it and do not learn of this.
DeleteRow(r, late) ==
    /\ resource' = [resource EXCEPT ![r].status = "deleted"]
    /\ deletions' = [deletions EXCEPT ![r] = @ + 1]
    /\ overtaken' = IF resource[r].status = "deleted"
                    THEN overtaken
                    ELSE [overtaken EXCEPT ![r] = Cardinality(late)]

-----------------------------------------------------------------------------
\* The client

\* PrepareResourceUpload: the URLs are signed, then the session is saved.
Prepare(s) ==
    /\ session[s] = "unset"
    /\ session' = [session EXCEPT ![s] = "set"]
    /\ UNCHANGED <<objects, resource, req, reloads, deletions, overtaken>>

\* The key is signed without its session: UploadSound.
FaultyPutObject(s, f) ==
    /\ session[s] # "unset"
    /\ objects' = objects \cup {<<NoSession, f>>}
    /\ UNCHANGED <<session, resource, req, reloads, deletions, overtaken>>

\* A presigned URL works whatever became of the session.
PutObject(s, f) ==
    /\ session[s] # "unset"
    /\ objects' = objects \cup {<<s, f>>}
    /\ UNCHANGED <<session, resource, req, reloads, deletions, overtaken>>

\* The two hours of the session are over.
Expire(s) ==
    /\ session[s] = "set"
    /\ session' = [session EXCEPT ![s] = "gone"]
    /\ UNCHANGED <<objects, resource, req, reloads, deletions, overtaken>>

-----------------------------------------------------------------------------
\* Finalize and abort

\* A request of the owner reads the session and leaves it where it is.
Load(p, s, stage) ==
    LET again == Using(s) # {} \/ MadeFrom(s) # {} IN
    /\ req[p].stage = "idle"
    /\ session[s] = "set"
    /\ again => reloads[s] < MaxReloads
    /\ reloads' = IF again THEN [reloads EXCEPT ![s] = @ + 1] ELSE reloads
    /\ req' = [req EXCEPT ![p] = [stage |-> stage, session |-> s, resource |-> NoResource, todo |-> Files]]
    /\ UNCHANGED <<session, objects, resource, deletions, overtaken>>

\* Only the first object is looked for: FilesLostOnlyByReuse.
FaultyCheckObject(p, f) ==
    LET found == <<req[p].session, f>> \in objects IN
    /\ req[p].stage = "check"
    /\ f \in req[p].todo
    /\ IF found THEN GoOn(p, "check", {}) ELSE GoOn(p, "discard", Files)
    /\ UNCHANGED <<session, objects, resource, reloads, deletions, overtaken>>

\* TencentCosObjectExists: a missing object ends the session and its objects.
CheckObject(p, f) ==
    LET found == <<req[p].session, f>> \in objects IN
    /\ req[p].stage = "check"
    /\ f \in req[p].todo
    /\ IF found THEN GoOn(p, "check", req[p].todo \ {f}) ELSE GoOn(p, "discard", Files)
    /\ UNCHANGED <<session, objects, resource, reloads, deletions, overtaken>>

\* The transaction is retried after it has committed: FinalizedPerLoad.
FaultyCommitFinalize(p, r) ==
    /\ req[p].stage = "check"
    /\ req[p].todo = {}
    /\ resource[r].status = "none"
    /\ resource' = [resource EXCEPT ![r] = [session |-> req[p].session, status |-> "approved"]]
    /\ UNCHANGED <<session, objects, req, reloads, deletions, overtaken>>

\* The transaction that inserts the approved row and its files.
CommitFinalize(p, r) ==
    /\ req[p].stage = "check"
    /\ req[p].todo = {}
    /\ resource[r].status = "none"
    /\ resource' = [resource EXCEPT ![r] = [session |-> req[p].session, status |-> "approved"]]
    /\ GoOn(p, "close", {})
    /\ UNCHANGED <<session, objects, reloads, deletions, overtaken>>

\* The transaction fails: the objects are deleted, then the session.
FailFinalize(p) ==
    /\ "db" \in Faults
    /\ req[p].stage = "check"
    /\ req[p].todo = {}
    /\ GoOn(p, "discard", Files)
    /\ UNCHANGED <<session, objects, resource, reloads, deletions, overtaken>>

\* TencentCosDeleteObject succeeds.
RemoveObject(p, f) ==
    LET s == IF req[p].stage = "purge" THEN resource[req[p].resource].session ELSE req[p].session IN
    /\ req[p].stage \in {"discard", "abort", "purge"}
    /\ f \in req[p].todo
    /\ objects' = objects \ {<<s, f>>}
    /\ GoOn(p, req[p].stage, req[p].todo \ {f})
    /\ UNCHANGED <<session, resource, reloads, deletions, overtaken>>

\* A call to COS fails.  The other objects stay; a finalize that was looking for
\* one and an abort are answered with an error and keep the session, a failed
\* finalize deletes it all the same, a deletion has already succeeded.
FailObject(p) ==
    /\ "cos" \in Faults
    /\ req[p].stage \in {"check", "discard", "abort", "purge"}
    /\ req[p].todo # {}
    /\ IF req[p].stage = "discard" THEN GoOn(p, "close", {}) ELSE Answer(p)
    /\ UNCHANGED <<session, objects, resource, reloads, deletions, overtaken>>

\* deleteUploadSession, the last call of a finalize and of an abort; its failure
\* is logged or returned and the session stays.
CloseSession(p) ==
    /\ \/ req[p].stage = "close"
       \/ req[p].stage \in {"discard", "abort"} /\ req[p].todo = {}
    /\ \/ session' = [session EXCEPT ![req[p].session] = "gone"]
       \/ "redis" \in Faults /\ UNCHANGED session
    /\ Answer(p)
    /\ UNCHANGED <<objects, resource, reloads, deletions, overtaken>>

-----------------------------------------------------------------------------
\* Deletion

\* DeleteResource of the owner reads the row and the keys of its files.
BeginDelete(p, r) ==
    /\ req[p].stage = "idle"
    /\ resource[r].status = "approved"
    /\ req' = [req EXCEPT ![p] = [NoRequest EXCEPT !.stage = "delete", !.resource = r]]
    /\ UNCHANGED <<session, objects, resource, reloads, deletions, overtaken>>

\* The update does not ask whether the row is deleted: DeletedPerReader.
FaultyCommitDelete(p) ==
    /\ req[p].stage = "delete"
    /\ DeleteRow(req[p].resource, AdminsAt(req[p].resource))
    /\ GoOn(p, "purge", Files)
    /\ UNCHANGED <<session, objects, reloads>>

\* SoftDeleteResource updates the row only if it is not yet deleted.
CommitDelete(p) ==
    /\ req[p].stage = "delete"
    /\ resource[req[p].resource].status # "deleted"
    /\ DeleteRow(req[p].resource, AdminsAt(req[p].resource))
    /\ GoOn(p, "purge", Files)
    /\ UNCHANGED <<session, objects, reloads>>

\* It changed no row: ErrResourceAlreadyDeleted.
RefuseDelete(p) ==
    /\ req[p].stage = "delete"
    /\ resource[req[p].resource].status = "deleted"
    /\ Answer(p)
    /\ UNCHANGED <<session, objects, resource, reloads, deletions, overtaken>>

\* DeleteResource of an administrator reads the keys, then, in its transaction but
\* without a lock, a row that is not deleted; else it answers ErrAdminConflict.
BeginAdminDelete(p, r) ==
    /\ req[p].stage = "idle"
    /\ resource[r].status = "approved"
    /\ req' = [req EXCEPT ![p] = [NoRequest EXCEPT !.stage = "adminDelete", !.resource = r]]
    /\ UNCHANGED <<session, objects, resource, reloads, deletions, overtaken>>

\* UpdateResourceStatus asks for nothing; the uploader is told and the files go,
\* though another deletion may have done both.
CommitAdminDelete(p) ==
    /\ req[p].stage = "adminDelete"
    /\ DeleteRow(req[p].resource, AdminsAt(req[p].resource) \ {p})
    /\ GoOn(p, "purge", Files)
    /\ UNCHANGED <<session, objects, reloads>>

EndDelete(p) ==
    /\ req[p].stage = "purge"
    /\ req[p].todo = {}
    /\ Answer(p)
    /\ UNCHANGED <<session, objects, resource, reloads, deletions, overtaken>>

\* A resolved report soft-deletes the row and leaves the objects.
ReportDelete(r) ==
    /\ resource[r].status = "approved"
    /\ DeleteRow(r, AdminsAt(r))
    /\ UNCHANGED <<session, objects, req, reloads>>

-----------------------------------------------------------------------------
\* The process ends in the middle of a request; an open transaction is undone.
Die(p) ==
    /\ "crash" \in Faults
    /\ req[p].stage # "idle"
    /\ Answer(p)
    /\ UNCHANGED <<session, objects, resource, reloads, deletions, overtaken>>

Next ==
    \/ \E s \in Sessions : Prepare(s) \/ Expire(s)
    \/ \E s \in Sessions, f \in Files : PutObject(s, f)
    \/ \E p \in Procs, s \in Sessions : Load(p, s, "check") \/ Load(p, s, "abort")
    \/ \E p \in Procs, f \in Files : CheckObject(p, f) \/ RemoveObject(p, f)
    \/ \E p \in Procs, r \in Resources : CommitFinalize(p, r) \/ BeginDelete(p, r) \/ BeginAdminDelete(p, r)
    \/ \E p \in Procs : \/ FailFinalize(p) \/ FailObject(p) \/ CloseSession(p)
                        \/ CommitDelete(p) \/ RefuseDelete(p) \/ CommitAdminDelete(p) \/ EndDelete(p)
                        \/ Die(p)
    \/ \E r \in Resources : ReportDelete(r)

Spec == Init /\ [][Next]_vars

-----------------------------------------------------------------------------
\* Properties

\* Every variable has its type.
TypeOK ==
    /\ session \in [Sessions -> {"unset", "set", "gone"}]
    /\ objects \subseteq Sessions \X Files
    /\ resource \in [Resources -> Row]
    /\ req \in [Procs -> Request]
    /\ reloads \in [Sessions -> Nat]
    /\ deletions \in [Resources -> Nat]
    /\ overtaken \in [Resources -> Nat]

\* A session makes one resource.  Nothing but the deletion of the session stops
\* a second finalize, so every further resource (and every further reward) needs
\* a request that loaded the session while another was at work on it, or after
\* one had succeeded and its deletion of the session had failed.
FinalizedPerLoad == \A s \in Sessions : Cardinality(MadeFrom(s)) <= 1 + reloads[s]

\* An approved resource can be downloaded, all its files are in the object
\* store, unless a request loaded its session while another was at work on it or
\* after it had been used up.
FilesLostOnlyByReuse ==
    \A r \in Resources :
        LET s == resource[r].session IN
        resource[r].status = "approved" /\ reloads[s] = 0 => ObjectsOf(s) \subseteq objects

\* A resource is deleted once, by its owner, an administrator or a resolved report.
\* Only administrators delete it again, who purge its files and tell the uploader a
\* second time, and of those only the ones who had read the row before it was
\* deleted: whoever comes later, and every owner, is refused.
DeletedPerReader == \A r \in Resources : deletions[r] <= 1 + overtaken[r]

=============================================================================
