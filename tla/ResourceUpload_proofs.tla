------------------------- MODULE ResourceUpload_proofs -------------------------
(***************************************************************************)
(* Proofs about ResourceUpload and UploadQuota, for any sessions, files    *)
(* and requests, any finite set of rows, whatever may fail and however     *)
(* often a session is loaded again.                                        *)
(***************************************************************************)
EXTENDS MCResourceUpload, FiniteSetTheorems, TLAPS

\* The stages at which a request is at work on a session, and on a row.
SessionStages == {"check", "discard", "abort", "close"}
RowStages == {"delete", "adminDelete", "purge"}

\* A request has what it works on, a row that is there has its session, and who deletes files has
\* seen their row deleted.
Referenced ==
    /\ \A p \in Procs :
        /\ req[p].stage \in SessionStages => req[p].session \in Sessions
        /\ req[p].stage \in RowStages => req[p].resource \in Resources
    /\ \A r \in Resources : resource[r].status # "none" <=> resource[r].session \in Sessions

Deleting ==
    \A p \in Procs :
        /\ req[p].stage \in {"delete", "adminDelete"} => resource[req[p].resource].status # "none"
        /\ req[p].stage = "purge" => resource[req[p].resource].status = "deleted"

\* The first deletion of row r counts the administrators who have read it; each of them may delete
\* it once more, and nobody joins them.
DeletedBy(r) ==
    /\ IsFiniteSet(AdminsAt(r))
    /\ resource[r].status # "deleted" => deletions[r] = 0
    /\ resource[r].status = "deleted" => deletions[r] + Cardinality(AdminsAt(r)) <= 1 + overtaken[r]

DeletionsCounted == \A r \in Resources : DeletedBy(r)

\* The finalizes that may still make a row from session s.
Finalizing(s) == {p \in Procs : req[p].stage = "check" /\ req[p].session = s}

\* Rows made and rows that may still be made need a load each.
Counted(s) ==
    /\ IsFiniteSet(Finalizing(s))
    /\ Cardinality(MadeFrom(s)) + Cardinality(Finalizing(s)) <= 1 + reloads[s]

LoadsCounted == \A s \in Sessions : Counted(s)

\* As long as session s was never loaded again: it has one request and one row, which is the last
\* thing a request makes of it; the objects a finalize has seen, and those of the row, are there.
UsedOnce(s) ==
    /\ \A p, q \in Using(s) : p = q
    /\ \A r, q \in MadeFrom(s) : r = q
    /\ \A p \in Using(s), r \in MadeFrom(s) : req[p].stage = "close"
    /\ \A p \in Using(s) : req[p].stage = "check" => {s} \X (Files \ req[p].todo) \subseteq objects
    /\ \A r \in MadeFrom(s) : resource[r].status = "approved" => ObjectsOf(s) \subseteq objects

UsedOnceOrReloaded == \A s \in Sessions : reloads[s] = 0 => UsedOnce(s)

UploadInv == TypeOK /\ Referenced /\ Deleting /\ DeletionsCounted /\ LoadsCounted /\ UsedOnceOrReloaded

-----------------------------------------------------------------------------
\* Types

\* Only request p changes.
Only(p) == \A q \in Procs \ {p} : req'[q] = req[q]

LEMMA RequestTypes ==
    ASSUME TypeOK, NEW p \in Procs
    PROVE  /\ req[p] \in Request /\ req[p].todo \subseteq Files /\ req[p].stage \in Stages
           /\ NoRequest \in Request /\ NoRequest.stage = "idle"
           /\ \A r \in Resources : resource[r] \in Row
           /\ \A s \in Sessions : reloads[s] \in Nat
  BY DEF TypeOK, Request, NoRequest, Stages

\* What a request that goes on is from now on.
LEMMA Goes ==
    ASSUME TypeOK, NEW p \in Procs, NEW stage \in Stages, NEW todo \in SUBSET Files, GoOn(p, stage, todo)
    PROVE  /\ req'[p].stage = stage /\ req'[p].todo = todo
           /\ req'[p].session = req[p].session /\ req'[p].resource = req[p].resource
           /\ Only(p) /\ req' \in [Procs -> Request]
  <1>1. PICK r \in Request : r = req[p]
    BY DEF TypeOK
  <1>2. PICK new : new = [r EXCEPT !.stage = stage, !.todo = todo]
    OBVIOUS
  <1>3. /\ new \in Request /\ new.stage = stage /\ new.todo = todo
        /\ new.session = r.session /\ new.resource = r.resource
    BY <1>2 DEF Request
  <1>4. req' = [req EXCEPT ![p] = new] /\ req \in [Procs -> Request]
    BY <1>1, <1>2 DEF GoOn, TypeOK
  <1> QED BY <1>1, <1>3, <1>4 DEF Only

LEMMA Answers ==
    ASSUME TypeOK, NEW p \in Procs, Answer(p)
    PROVE  req'[p] = NoRequest /\ req'[p].stage = "idle" /\ Only(p) /\ req' \in [Procs -> Request]
  BY RequestTypes DEF TypeOK, Answer, Only

\* What a deletion makes of the row and of its history.
LEMMA RowDeleted ==
    ASSUME TypeOK, NEW r \in Resources, NEW late, IsFiniteSet(late), DeleteRow(r, late)
    PROVE  /\ resource' \in [Resources -> Row] /\ deletions' \in [Resources -> Nat]
           /\ overtaken' \in [Resources -> Nat]
           /\ resource'[r].status = "deleted" /\ resource'[r].session = resource[r].session
           /\ deletions'[r] = deletions[r] + 1
           /\ overtaken'[r] = IF resource[r].status = "deleted" THEN overtaken[r] ELSE Cardinality(late)
           /\ \A q \in Resources \ {r} :
               resource'[q] = resource[q] /\ deletions'[q] = deletions[q] /\ overtaken'[q] = overtaken[q]
  <1>1. Cardinality(late) \in Nat
    BY FS_CardinalityType
  <1>2. \A q \in Resources : deletions[q] \in Nat /\ overtaken[q] \in Nat /\ resource[q] \in Row
    BY DEF TypeOK
  <1>3. resource' \in [Resources -> Row]
    BY <1>2 DEF TypeOK, DeleteRow, Row
  <1>4. deletions' \in [Resources -> Nat] /\ overtaken' \in [Resources -> Nat]
    BY <1>1, <1>2 DEF TypeOK, DeleteRow
  <1> QED BY <1>2, <1>3, <1>4 DEF TypeOK, DeleteRow, Row

LEMMA TypesKept == ASSUME TypeOK, Referenced, DeletionsCounted, Next PROVE TypeOK'
  <1>1. ASSUME NEW s \in Sessions, Prepare(s) PROVE TypeOK'
    BY <1>1 DEF TypeOK, Prepare, Row
  <1>2. ASSUME NEW s \in Sessions, Expire(s) PROVE TypeOK'
    BY <1>2 DEF TypeOK, Expire, Row
  <1>3. ASSUME NEW s \in Sessions, NEW f \in Files, PutObject(s, f) PROVE TypeOK'
    BY <1>3 DEF TypeOK, PutObject, Row
  <1>4. ASSUME NEW p \in Procs, NEW s \in Sessions, NEW stage \in {"check", "abort"}, Load(p, s,
               stage)
        PROVE  TypeOK'
    BY <1>4, RequestTypes, UploadAssumption DEF TypeOK, Load, Request, NoRequest, Stages
  <1>5. ASSUME NEW p \in Procs, NEW f \in Files, CheckObject(p, f) PROVE TypeOK'
    BY <1>5, RequestTypes, Goes DEF TypeOK, CheckObject, Row, Stages
  <1>6. ASSUME NEW p \in Procs, NEW f \in Files, RemoveObject(p, f) PROVE TypeOK'
    BY <1>6, RequestTypes, Goes DEF TypeOK, RemoveObject, Row, Stages
  <1>7. ASSUME NEW p \in Procs, NEW r \in Resources, CommitFinalize(p, r) PROVE TypeOK'
    BY <1>7, RequestTypes, Goes DEF TypeOK, CommitFinalize, Row, Stages, Referenced, SessionStages,
       RowStages
  <1>8. ASSUME NEW p \in Procs, NEW r \in Resources, BeginDelete(p, r) PROVE TypeOK'
    BY <1>8, RequestTypes, UploadAssumption DEF TypeOK, BeginDelete, Request, NoRequest, Stages
  <1>9. ASSUME NEW p \in Procs, FailFinalize(p) PROVE TypeOK'
    BY <1>9, RequestTypes, Goes DEF TypeOK, FailFinalize, Row, Stages
  <1>10. ASSUME NEW p \in Procs, FailObject(p) PROVE TypeOK'
    BY <1>10, RequestTypes, Goes, Answers DEF TypeOK, FailObject, Stages
  <1>11. ASSUME NEW p \in Procs, CloseSession(p) PROVE TypeOK'
    BY <1>11, Answers DEF TypeOK, CloseSession, Referenced, SessionStages
  <1>12. ASSUME NEW p \in Procs, CommitDelete(p) PROVE TypeOK'
    <2>1. req[p].resource \in Resources /\ IsFiniteSet(AdminsAt(req[p].resource))
      BY <1>12 DEF CommitDelete, Referenced, RowStages, DeletionsCounted, DeletedBy
    <2>2. req' \in [Procs -> Request]
      BY <1>12, Goes DEF CommitDelete, Stages
    <2> QED BY <1>12, <2>1, <2>2, RowDeleted DEF TypeOK, CommitDelete
  <1>13. ASSUME NEW p \in Procs, RefuseDelete(p) PROVE TypeOK'
    BY <1>13, Answers DEF TypeOK, RefuseDelete, Referenced, SessionStages
  <1>14. ASSUME NEW p \in Procs, EndDelete(p) PROVE TypeOK'
    BY <1>14, Answers DEF TypeOK, EndDelete, Referenced, SessionStages
  <1>15. ASSUME NEW p \in Procs, Die(p) PROVE TypeOK'
    BY <1>15, Answers DEF TypeOK, Die, Referenced, SessionStages
  <1>16. ASSUME NEW r \in Resources, ReportDelete(r) PROVE TypeOK'
    <2>1. IsFiniteSet(AdminsAt(r))
      BY DEF DeletionsCounted, DeletedBy
    <2> QED BY <1>16, <2>1, RowDeleted DEF TypeOK, ReportDelete
  <1>17. ASSUME NEW p \in Procs, NEW r \in Resources, BeginAdminDelete(p, r) PROVE TypeOK'
    BY <1>17, RequestTypes, UploadAssumption DEF TypeOK, BeginAdminDelete, Request, NoRequest, Stages
  <1>18. ASSUME NEW p \in Procs, CommitAdminDelete(p) PROVE TypeOK'
    <2>1. req[p].resource \in Resources /\ IsFiniteSet(AdminsAt(req[p].resource) \ {p})
      BY <1>18, FS_RemoveElement DEF CommitAdminDelete, Referenced, RowStages, DeletionsCounted, DeletedBy
    <2>2. req' \in [Procs -> Request]
      BY <1>18, Goes DEF CommitAdminDelete, Stages
    <2> QED BY <1>18, <2>1, <2>2, RowDeleted DEF TypeOK, CommitAdminDelete
  <1> QED BY <1>1, <1>2, <1>3, <1>4, <1>5, <1>6, <1>7, <1>8, <1>9, <1>10, <1>11, <1>12, <1>13,
             <1>14, <1>15, <1>16, <1>17, <1>18 DEF Next

\* An answered request refers to no row and no session.
LEMMA AnswerKeepsRows ==
    ASSUME TypeOK, Referenced, Deleting, NEW p \in Procs, Answer(p), UNCHANGED resource
    PROVE  Referenced' /\ Deleting'
  <1>1. req'[p].stage = "idle" /\ Only(p)
    BY Answers
  <1>2. Referenced'
    BY <1>1 DEF Referenced, Only, SessionStages, RowStages
  <1>3. Deleting'
    BY <1>1 DEF Deleting, Only
  <1> QED BY <1>2, <1>3

\* Whoever deletes a row goes on to purge its files; all other rows stay, and all sessions.
LEMMA Purges ==
    ASSUME TypeOK, Referenced, NEW p \in Procs, CommitDelete(p) \/ CommitAdminDelete(p)
    PROVE  /\ req[p].resource \in Resources
           /\ req[p].stage \in {"delete", "adminDelete"} /\ req'[p].stage = "purge" /\ Only(p)
           /\ reloads' = reloads
           /\ \A r \in Resources : resource'[r].session = resource[r].session
           /\ \A r \in Resources \ {req[p].resource} :
                 resource'[r] = resource[r] /\ deletions'[r] = deletions[r] /\ overtaken'[r] = overtaken[r]
  <1>1. req[p].stage \in {"delete", "adminDelete"} /\ reloads' = reloads /\ GoOn(p, "purge", Files)
    BY DEF CommitDelete, CommitAdminDelete
  <1>2. PICK row \in Resources : row = req[p].resource
    BY <1>1 DEF Referenced, RowStages
  <1>3. PICK late : DeleteRow(row, late)
    BY <1>2 DEF CommitDelete, CommitAdminDelete
  <1>4. req'[p].stage = "purge" /\ Only(p)
    BY <1>1, Goes DEF Stages
  <1>5. \A r \in Resources : resource'[r].session = resource[r].session
    BY <1>3 DEF DeleteRow, TypeOK, Row
  <1>6. \A r \in Resources \ {row} :
            resource'[r] = resource[r] /\ deletions'[r] = deletions[r] /\ overtaken'[r] = overtaken[r]
    BY <1>3 DEF DeleteRow, TypeOK
  <1> QED BY <1>1, <1>2, <1>4, <1>5, <1>6

\* A row goes from none to approved to deleted, in steps that ask for its status.
LEMMA RowsKept ==
    ASSUME TypeOK, Referenced, Deleting, Next
    PROVE  Referenced' /\ Deleting'
  <1>1. ASSUME NEW s \in Sessions, Prepare(s) PROVE Referenced' /\ Deleting'
    BY <1>1, UploadAssumption DEF TypeOK, Prepare, Referenced, Deleting, SessionStages,
       RowStages, Only, Row
  <1>2. ASSUME NEW s \in Sessions, Expire(s) PROVE Referenced' /\ Deleting'
    BY <1>2, UploadAssumption DEF TypeOK, Expire, Referenced, Deleting, SessionStages,
       RowStages, Only, Row
  <1>3. ASSUME NEW s \in Sessions, NEW f \in Files, PutObject(s, f)
        PROVE  Referenced' /\ Deleting'
    BY <1>3, UploadAssumption DEF TypeOK, PutObject, Referenced, Deleting,
       SessionStages, RowStages, Only, Row
  <1>4. ASSUME NEW p \in Procs, NEW s \in Sessions, NEW stage \in {"check", "abort"}, Load(p, s,
               stage)
        PROVE  Referenced' /\ Deleting'
    BY <1>4, RequestTypes DEF TypeOK, Load, Referenced, Deleting, SessionStages,
       RowStages, Only, Row, NoRequest
  <1>5. ASSUME NEW p \in Procs, NEW f \in Files, CheckObject(p, f)
        PROVE  Referenced' /\ Deleting'
    <2>1. req'[p].stage \in {"check", "discard"} /\ req[p].stage = "check" /\ resource' = resource
      BY <1>5, RequestTypes, Goes DEF CheckObject, Stages
    <2>2. req'[p].session = req[p].session /\ req'[p].resource = req[p].resource /\ Only(p)
      BY <1>5, RequestTypes, Goes DEF CheckObject, Stages
    <2>3. Referenced'
      BY <1>5, <2>1, <2>2 DEF CheckObject, TypeOK, Row, Referenced, Deleting, Only, SessionStages,
         RowStages
    <2>4. Deleting'
      BY <1>5, <2>1, <2>2 DEF CheckObject, TypeOK, Row, Referenced, Deleting, Only, SessionStages,
         RowStages
    <2> QED BY <2>3, <2>4
  <1>6. ASSUME NEW p \in Procs, NEW f \in Files, RemoveObject(p, f)
        PROVE  Referenced' /\ Deleting'
    <2>1. req'[p].stage = req[p].stage /\ resource' = resource
      BY <1>6, RequestTypes, Goes DEF RemoveObject, Stages
    <2>2. req'[p].session = req[p].session /\ req'[p].resource = req[p].resource /\ Only(p)
      BY <1>6, RequestTypes, Goes DEF RemoveObject, Stages
    <2>3. Referenced'
      BY <1>6, <2>1, <2>2 DEF RemoveObject, TypeOK, Row, Referenced, Deleting, Only, SessionStages,
         RowStages
    <2>4. Deleting'
      BY <1>6, <2>1, <2>2 DEF RemoveObject, TypeOK, Row, Referenced, Deleting, Only, SessionStages,
         RowStages
    <2> QED BY <2>3, <2>4
  <1>7. ASSUME NEW p \in Procs, NEW r \in Resources, CommitFinalize(p, r)
        PROVE  Referenced' /\ Deleting'
    <2>1. req[p].stage = "check" /\ req'[p].stage = "close"
      BY <1>7, RequestTypes, Goes DEF CommitFinalize, Stages
    <2>2. req'[p].session = req[p].session /\ req'[p].resource = req[p].resource /\ Only(p)
      BY <1>7, RequestTypes, Goes DEF CommitFinalize, Stages
    <2>3. Referenced'
      BY <1>7, <2>1, <2>2 DEF CommitFinalize, TypeOK, Row, Referenced, Deleting, Only,
         SessionStages, RowStages
    <2>4. Deleting'
      BY <1>7, <2>1, <2>2 DEF CommitFinalize, TypeOK, Row, Referenced, Deleting, Only,
         SessionStages, RowStages
    <2> QED BY <2>3, <2>4
  <1>8. ASSUME NEW p \in Procs, NEW r \in Resources, BeginDelete(p, r)
        PROVE  Referenced' /\ Deleting'
    BY <1>8, RequestTypes DEF TypeOK, BeginDelete, Referenced, Deleting, SessionStages,
       RowStages, Only, Row, NoRequest
  <1>9. ASSUME NEW p \in Procs, FailFinalize(p) PROVE Referenced' /\ Deleting'
    <2>1. /\ UNCHANGED <<session, objects, resource, reloads>> /\ Only(p)
          /\ req'[p].stage = "discard" /\ req[p].stage = "check"
          /\ req'[p].session = req[p].session
      BY <1>9, Goes DEF FailFinalize, Stages
    <2>2. Referenced'
      BY <2>1 DEF Referenced, Only, SessionStages, RowStages
    <2>3. Deleting'
      BY <2>1 DEF Deleting, Only
    <2> QED BY <2>2, <2>3
  <1>10. ASSUME NEW p \in Procs, FailObject(p) PROVE Referenced' /\ Deleting'
    <2>1. /\ resource' = resource /\ Only(p)
          /\ \/ /\ req[p].stage = "discard" /\ req'[p].stage = "close"
                /\ req'[p].session = req[p].session
             \/ req'[p].stage = "idle"
      BY <1>10, Goes, Answers DEF FailObject, Stages
    <2>2. Referenced'
      BY <2>1 DEF TypeOK, Row, Referenced, Only, SessionStages, RowStages
    <2>3. Deleting'
      BY <2>1 DEF TypeOK, Row, Deleting, Only, SessionStages, RowStages
    <2> QED BY <2>2, <2>3
  <1>11. ASSUME NEW p \in Procs, CloseSession(p) PROVE Referenced' /\ Deleting'
    BY <1>11, AnswerKeepsRows DEF CloseSession
  <1>12. ASSUME NEW p \in Procs, CommitDelete(p) PROVE Referenced' /\ Deleting'
    <2>1. PICK r \in Resources : r = req[p].resource
      BY <1>12 DEF CommitDelete, Referenced, RowStages
    <2>2. /\ resource' \in [Resources -> Row] /\ resource'[r].status = "deleted"
          /\ resource'[r].session = resource[r].session
          /\ \A q \in Resources \ {r} : resource'[q] = resource[q]
      BY <1>12, <2>1 DEF CommitDelete, DeleteRow, TypeOK, Row
    <2>3. req'[p].stage = "purge" /\ req'[p].resource = r /\ Only(p)
      BY <1>12, <2>1, Goes DEF CommitDelete, Stages
    <2>4. resource[r].status # "none"
      BY <1>12, <2>1 DEF CommitDelete, Deleting
    <2>5. Referenced'
      BY <2>1, <2>2, <2>3, <2>4 DEF Referenced, Only, SessionStages, RowStages
    <2>6. Deleting'
      BY <2>1, <2>2, <2>3 DEF Deleting, Only, Referenced, RowStages
    <2> QED BY <2>5, <2>6
  <1>13. ASSUME NEW p \in Procs, RefuseDelete(p) PROVE Referenced' /\ Deleting'
    BY <1>13, AnswerKeepsRows DEF RefuseDelete
  <1>14. ASSUME NEW p \in Procs, EndDelete(p) PROVE Referenced' /\ Deleting'
    BY <1>14, AnswerKeepsRows DEF EndDelete
  <1>15. ASSUME NEW p \in Procs, Die(p) PROVE Referenced' /\ Deleting'
    BY <1>15, AnswerKeepsRows DEF Die
  <1>16. ASSUME NEW r \in Resources, ReportDelete(r) PROVE Referenced' /\ Deleting'
    BY <1>16, UploadAssumption DEF TypeOK, ReportDelete, DeleteRow, Referenced, Deleting, SessionStages,
       RowStages, Only, Row
  <1>17. ASSUME NEW p \in Procs, NEW r \in Resources, BeginAdminDelete(p, r)
         PROVE  Referenced' /\ Deleting'
    BY <1>17, RequestTypes DEF TypeOK, BeginAdminDelete, Referenced, Deleting, SessionStages,
       RowStages, Only, Row, NoRequest
  <1>18. ASSUME NEW p \in Procs, CommitAdminDelete(p) PROVE Referenced' /\ Deleting'
    <2>1. PICK r \in Resources : r = req[p].resource
      BY <1>18 DEF CommitAdminDelete, Referenced, RowStages
    <2>2. /\ resource' \in [Resources -> Row] /\ resource'[r].status = "deleted"
          /\ resource'[r].session = resource[r].session
          /\ \A q \in Resources \ {r} : resource'[q] = resource[q]
      BY <1>18, <2>1 DEF CommitAdminDelete, DeleteRow, TypeOK, Row
    <2>3. req'[p].stage = "purge" /\ req'[p].resource = r /\ Only(p)
      BY <1>18, <2>1, Goes DEF CommitAdminDelete, Stages
    <2>4. resource[r].status # "none"
      BY <1>18, <2>1 DEF CommitAdminDelete, Deleting
    <2>5. Referenced'
      BY <2>1, <2>2, <2>3, <2>4 DEF Referenced, Only, SessionStages, RowStages
    <2>6. Deleting'
      BY <2>1, <2>2, <2>3 DEF Deleting, Only, Referenced, RowStages
    <2> QED BY <2>5, <2>6
  <1> QED BY <1>1, <1>2, <1>3, <1>4, <1>5, <1>6, <1>7, <1>8, <1>9, <1>10, <1>11, <1>12, <1>13,
             <1>14, <1>15, <1>16, <1>17, <1>18 DEF Next
-----------------------------------------------------------------------------
\* Rows and loads of a session

LEMMA RowsFinite ==
    \A s \in Sessions : IsFiniteSet(MadeFrom(s)) /\ Cardinality(MadeFrom(s)) \in Nat
  <1> TAKE s \in Sessions
  <1>1. MadeFrom(s) \subseteq Resources
    BY DEF MadeFrom
  <1> QED BY <1>1, UploadAssumption, FS_Subset, FS_CardinalityType

\* Session s makes no row in this step, and nobody begins to.
NoNewRow(s) ==
    MadeFrom(s)' = MadeFrom(s) /\ Finalizing(s)' \subseteq Finalizing(s) /\ reloads'[s] = reloads[s]

\* That is so unless a request loads a session or commits its finalize.
LEMMA NoNewRowElsewhere ==
    ASSUME TypeOK, Referenced, Next, NEW s \in Sessions,
           \A p \in Procs, t \in Sessions : ~Load(p, t, "check") /\ ~Load(p, t, "abort"),
           \A p \in Procs, r \in Resources : ~CommitFinalize(p, r)
    PROVE  NoNewRow(s)
  <1>1. ASSUME NEW t \in Sessions, Prepare(t) PROVE NoNewRow(s)
    BY <1>1 DEF Prepare, NoNewRow, TypeOK, Row, MadeFrom, Finalizing, Only
  <1>2. ASSUME NEW t \in Sessions, Expire(t) PROVE NoNewRow(s)
    BY <1>2 DEF Expire, NoNewRow, TypeOK, Row, MadeFrom, Finalizing, Only
  <1>3. ASSUME NEW t \in Sessions, NEW f \in Files, PutObject(t, f) PROVE NoNewRow(s)
    BY <1>3 DEF PutObject, NoNewRow, TypeOK, Row, MadeFrom, Finalizing, Only
  <1>4. ASSUME NEW p \in Procs, NEW f \in Files, CheckObject(p, f) PROVE NoNewRow(s)
    <2>1. \/ GoOn(p, "check", req[p].todo \ {f})
          \/ GoOn(p, "discard", Files)
      BY <1>4 DEF CheckObject
    <2>2. req[p].todo \ {f} \in SUBSET Files /\ Files \in SUBSET Files
      BY RequestTypes
    <2>3. /\ Only(p) /\ req'[p].session = req[p].session
          /\ req'[p].stage \in {"check", "discard"}
      BY <2>1, <2>2, Goes DEF Stages
    <2>4. UNCHANGED <<resource, reloads>> /\ req[p].stage = "check"
      BY <1>4 DEF CheckObject
    <2> QED BY <2>3, <2>4 DEF NoNewRow, MadeFrom, Finalizing, Only
  <1>5. ASSUME NEW p \in Procs, NEW f \in Files, RemoveObject(p, f) PROVE NoNewRow(s)
    <2>1. /\ req[p].stage \in {"discard", "abort", "purge"} /\ UNCHANGED <<resource, reloads>>
          /\ GoOn(p, req[p].stage, req[p].todo \ {f})
      BY <1>5 DEF RemoveObject
    <2>2. req'[p].stage \in {"discard", "abort", "purge"} /\ Only(p)
      BY <2>1, RequestTypes, Goes
    <2> QED BY <2>1, <2>2 DEF NoNewRow, MadeFrom, Finalizing, Only
  <1>6. ASSUME NEW p \in Procs, NEW r \in Resources, BeginDelete(p, r) PROVE NoNewRow(s)
    BY <1>6 DEF BeginDelete, NoNewRow, TypeOK, Row, MadeFrom, Finalizing, Only, NoRequest
  <1>7. ASSUME NEW p \in Procs, FailFinalize(p) PROVE NoNewRow(s)
    BY <1>7, RequestTypes, Goes DEF FailFinalize, NoNewRow, TypeOK, Row, MadeFrom, Finalizing,
       Only, Stages
  <1>8. ASSUME NEW p \in Procs, FailObject(p) PROVE NoNewRow(s)
    <2>1. /\ UNCHANGED <<session, objects, resource, reloads>> /\ Only(p)
          /\ \/ /\ req[p].stage = "discard" /\ req'[p].stage = "close"
                /\ req'[p].session = req[p].session
             \/ req'[p].stage = "idle"
      BY <1>8, Goes, Answers DEF FailObject, Stages
    <2> QED BY <2>1 DEF NoNewRow, MadeFrom, Finalizing, Only
  <1>9. ASSUME NEW p \in Procs, CloseSession(p) PROVE NoNewRow(s)
    BY <1>9, Answers DEF CloseSession, NoNewRow, TypeOK, Row, MadeFrom, Finalizing, Only
  <1>10. ASSUME NEW p \in Procs, CommitDelete(p) PROVE NoNewRow(s)
    BY <1>10, Purges DEF NoNewRow, MadeFrom, Finalizing, Only
  <1>11. ASSUME NEW p \in Procs, RefuseDelete(p) PROVE NoNewRow(s)
    BY <1>11, Answers DEF RefuseDelete, NoNewRow, TypeOK, Row, MadeFrom, Finalizing, Only
  <1>12. ASSUME NEW p \in Procs, EndDelete(p) PROVE NoNewRow(s)
    BY <1>12, Answers DEF EndDelete, NoNewRow, TypeOK, Row, MadeFrom, Finalizing, Only
  <1>13. ASSUME NEW p \in Procs, Die(p) PROVE NoNewRow(s)
    BY <1>13, Answers DEF Die, NoNewRow, TypeOK, Row, MadeFrom, Finalizing, Only
  <1>14. ASSUME NEW r \in Resources, ReportDelete(r) PROVE NoNewRow(s)
    BY <1>14 DEF ReportDelete, DeleteRow, NoNewRow, TypeOK, Row, MadeFrom, Finalizing, Only
  <1>15. ASSUME NEW p \in Procs, NEW r \in Resources, BeginAdminDelete(p, r) PROVE NoNewRow(s)
    BY <1>15 DEF BeginAdminDelete, NoNewRow, TypeOK, Row, MadeFrom, Finalizing, Only, NoRequest
  <1>16. ASSUME NEW p \in Procs, CommitAdminDelete(p) PROVE NoNewRow(s)
    BY <1>16, Purges DEF NoNewRow, MadeFrom, Finalizing, Only
  <1> QED BY <1>1, <1>2, <1>3, <1>4, <1>5, <1>6, <1>7, <1>8, <1>9, <1>10, <1>11, <1>12, <1>13,
             <1>14, <1>15, <1>16 DEF Next

LEMMA CountedStill ==
    ASSUME TypeOK, LoadsCounted, NEW s \in Sessions, NoNewRow(s)
    PROVE  Counted(s)'
  <1>1. IsFiniteSet(Finalizing(s)) /\ Cardinality(Finalizing(s)) \in Nat
    BY FS_CardinalityType DEF LoadsCounted, Counted
  <1>2. /\ IsFiniteSet(Finalizing(s)') /\ Cardinality(Finalizing(s)') \in Nat
        /\ Cardinality(Finalizing(s)') <= Cardinality(Finalizing(s))
    BY <1>1, FS_Subset, FS_CardinalityType DEF NoNewRow
  <1>3. Cardinality(MadeFrom(s)) + Cardinality(Finalizing(s)) <= 1 + reloads[s] /\ reloads[s] \in Nat
    BY RequestTypes DEF LoadsCounted, Counted, TypeOK
  <1> QED BY <1>1, <1>2, <1>3, RowsFinite DEF NoNewRow, Counted
LEMMA LoadCounted ==
    ASSUME TypeOK, Referenced, LoadsCounted, NEW s \in Sessions, NEW p \in Procs,
           NEW stage \in {"check", "abort"}, Load(p, s, stage)
    PROVE  Counted(s)'
  <1>1. MadeFrom(s)' = MadeFrom(s)
    BY DEF Load, MadeFrom
  <1>2. Finalizing(s)' \subseteq Finalizing(s) \cup {p}
    BY DEF Load, Finalizing, TypeOK
  <1>f. IsFiniteSet(Finalizing(s)) /\ Cardinality(Finalizing(s)) \in Nat
    BY FS_CardinalityType DEF LoadsCounted, Counted
  <1>3. /\ IsFiniteSet(Finalizing(s)) /\ Cardinality(Finalizing(s)) \in Nat
        /\ IsFiniteSet(Finalizing(s) \cup {p})
        /\ Cardinality(Finalizing(s) \cup {p}) <= Cardinality(Finalizing(s)) + 1
    <2>1. PICK F : F = Finalizing(s)
      OBVIOUS
    <2>2. IsFiniteSet(F) /\ Cardinality(F) \in Nat
      BY <1>f, <2>1
    <2>3. IsFiniteSet(F \cup {p}) /\ Cardinality(F \cup {p}) \in {Cardinality(F), Cardinality(F) + 1}
      BY <2>2, FS_AddElement
    <2> QED BY <2>1, <2>2, <2>3
  <1>4. /\ IsFiniteSet(Finalizing(s)') /\ Cardinality(Finalizing(s)') \in Nat
        /\ Cardinality(Finalizing(s)') <= Cardinality(Finalizing(s)) + 1
    BY <1>2, <1>3, FS_Subset, FS_CardinalityType
  <1>5. CASE Using(s) # {} \/ MadeFrom(s) # {}
    <2>1. reloads'[s] = reloads[s] + 1 /\ reloads[s] \in Nat
      BY <1>5 DEF Load, TypeOK
    <2>2. Cardinality(MadeFrom(s)) + Cardinality(Finalizing(s)) <= 1 + reloads[s]
      BY DEF LoadsCounted, Counted
    <2> QED BY <1>1, <1>3, <1>4, <2>1, <2>2, RowsFinite DEF Counted
  <1>6. CASE Using(s) = {} /\ MadeFrom(s) = {}
    <2>1. Finalizing(s) = {} /\ Cardinality(Finalizing(s)) = 0 /\ Cardinality(MadeFrom(s)) = 0
      <3>1. Finalizing(s) = {}
        BY <1>6 DEF Using, Finalizing
      <3> QED BY <1>6, <3>1, FS_EmptySet
    <2>2. reloads'[s] = reloads[s] /\ reloads[s] \in Nat
      BY <1>6 DEF Load, TypeOK
    <2> QED BY <1>1, <1>4, <2>1, <2>2 DEF Counted
  <1> QED BY <1>5, <1>6

LEMMA CommitCounted ==
    ASSUME TypeOK, Referenced, LoadsCounted, NEW p \in Procs, NEW r \in Resources, CommitFinalize(p, r),
           NEW s \in Sessions, req[p].session = s
    PROVE  Counted(s)'
  <1>1. req[p].stage = "check"
    BY DEF CommitFinalize
  <1>2. r \notin MadeFrom(s) /\ MadeFrom(s)' = MadeFrom(s) \cup {r}
    BY <1>1, Goes DEF CommitFinalize, MadeFrom, Referenced, TypeOK, Row, Stages
  <1>3. p \in Finalizing(s) /\ Finalizing(s)' = Finalizing(s) \ {p}
    BY <1>1, Goes DEF CommitFinalize, Finalizing, Only, Stages
  <1>4. Cardinality(MadeFrom(s)') = Cardinality(MadeFrom(s)) + 1 /\ Cardinality(MadeFrom(s)) \in Nat
    BY <1>1, <1>2, RowsFinite, FS_AddElement
  <1>5. /\ IsFiniteSet(Finalizing(s)') /\ Cardinality(Finalizing(s)) \in Nat
        /\ Cardinality(Finalizing(s)') = Cardinality(Finalizing(s)) - 1
    BY <1>1, <1>3, FS_RemoveElement, FS_CardinalityType DEF LoadsCounted, Counted
  <1>6. Cardinality(MadeFrom(s)') + Cardinality(Finalizing(s)') <= 1 + reloads'[s]
    BY <1>1, <1>4, <1>5 DEF LoadsCounted, Counted, TypeOK, CommitFinalize
  <1> QED BY <1>5, <1>6 DEF Counted

LEMMA LoadsCountedKept == ASSUME TypeOK, Referenced, LoadsCounted, Next PROVE LoadsCounted'
  <1> SUFFICES ASSUME NEW s \in Sessions PROVE Counted(s)'
    BY DEF LoadsCounted
  <1>1. ASSUME NEW p \in Procs, NEW t \in Sessions, NEW stage \in {"check", "abort"}, Load(p, t, stage)
        PROVE  Counted(s)'
    <2>1. CASE t # s
      <3>1. MadeFrom(s)' = MadeFrom(s)
        BY <1>1 DEF Load, MadeFrom
      <3>2. Finalizing(s)' \subseteq Finalizing(s)
        BY <1>1, <2>1 DEF Load, Finalizing, TypeOK
      <3>3. reloads'[s] = reloads[s]
        BY <1>1, <2>1 DEF Load, TypeOK
      <3>4. NoNewRow(s)
        BY <3>1, <3>2, <3>3 DEF NoNewRow
      <3> QED BY <3>4, CountedStill
    <2> QED BY <1>1, <2>1, LoadCounted
  <1>2. ASSUME NEW p \in Procs, NEW r \in Resources, CommitFinalize(p, r) PROVE Counted(s)'
    <2>1. CASE req[p].session # s
      <3>1. /\ req'[p].stage = "close" /\ Only(p) /\ reloads' = reloads
            /\ resource' = [resource EXCEPT ![r] = [session |-> req[p].session, status |-> "approved"]]
        BY <1>2, Goes DEF CommitFinalize, Stages
      <3>2. resource[r].session # s
        BY <1>2 DEF CommitFinalize, Referenced, TypeOK, Row
      <3>3. MadeFrom(s)' = MadeFrom(s)
        BY <2>1, <3>1, <3>2 DEF MadeFrom, TypeOK
      <3>4. Finalizing(s)' \subseteq Finalizing(s)
        BY <3>1 DEF Finalizing, Only
      <3>5. NoNewRow(s)
        BY <3>1, <3>3, <3>4 DEF NoNewRow
      <3> QED BY <3>5, CountedStill
    <2> QED BY <1>2, <2>1, CommitCounted
  <1>3. CASE /\ \A p \in Procs, t \in Sessions : ~Load(p, t, "check") /\ ~Load(p, t, "abort")
             /\ \A p \in Procs, r \in Resources : ~CommitFinalize(p, r)
    BY <1>3, NoNewRowElsewhere, CountedStill
  <1> QED BY <1>1, <1>2, <1>3
-----------------------------------------------------------------------------
\* The objects of a session that is used once

\* In this step session s gets no request and no row, no request of it goes back to its checks or
\* takes an object for seen that is not there, and none of its objects goes.
Calm(s) ==
    /\ Using(s)' \subseteq Using(s) /\ MadeFrom(s)' = MadeFrom(s) /\ reloads'[s] = reloads[s]
    /\ \A p \in Using(s)' :
        /\ req[p].stage = "close" => req'[p].stage = "close"
        /\ req'[p].stage = "check" =>
            /\ req[p].stage = "check"
            /\ \A f \in req[p].todo \ req'[p].todo : <<s, f>> \in objects
    /\ \A r \in MadeFrom(s) : resource'[r].status = "approved" => resource[r].status = "approved"
    /\ \A f \in Files : <<s, f>> \in objects => <<s, f>> \in objects'

LEMMA UsedOnceIfCalm ==
    ASSUME TypeOK, NEW s \in Sessions, Calm(s), UsedOnce(s)
    PROVE  UsedOnce(s)'
  <1>1. \A p, q \in Using(s)' : p = q
    BY DEF UsedOnce, Calm
  <1>2. \A r, q \in MadeFrom(s)' : r = q
    BY DEF UsedOnce, Calm
  <1>3. \A p \in Using(s)', r \in MadeFrom(s)' : req'[p].stage = "close"
    BY DEF UsedOnce, Calm
  <1>4. ASSUME NEW p \in Using(s)', req'[p].stage = "check"
        PROVE  {s} \X (Files \ req'[p].todo) \subseteq objects'
    BY <1>4 DEF UsedOnce, Calm
  <1>5. ASSUME NEW r \in MadeFrom(s)', resource'[r].status = "approved"
        PROVE  {s} \X Files \subseteq objects'
    BY <1>5 DEF UsedOnce, Calm, ObjectsOf
  <1> QED BY <1>1, <1>2, <1>3, <1>4, <1>5 DEF UsedOnce, ObjectsOf

LEMMA CalmElsewhere ==
    ASSUME TypeOK, Referenced, Deleting, Next, NEW s \in Sessions,
           \A p \in Procs, t \in Sessions : ~Load(p, t, "check") /\ ~Load(p, t, "abort"),
           \A p \in Procs, f \in Files : ~RemoveObject(p, f),
           \A p \in Procs, r \in Resources : ~CommitFinalize(p, r)
    PROVE  Calm(s)
  <1>1. ASSUME NEW t \in Sessions, Prepare(t) PROVE Calm(s)
    BY <1>1 DEF Prepare, Calm, Using, MadeFrom, TypeOK, Row, Only, SessionStages
  <1>2. ASSUME NEW t \in Sessions, Expire(t) PROVE Calm(s)
    BY <1>2 DEF Expire, Calm, Using, MadeFrom, TypeOK, Row, Only, SessionStages
  <1>3. ASSUME NEW t \in Sessions, NEW f \in Files, PutObject(t, f) PROVE Calm(s)
    BY <1>3 DEF PutObject, Calm, Using, MadeFrom, TypeOK, Row, Only, SessionStages
  <1>4. ASSUME NEW p \in Procs, NEW f \in Files, CheckObject(p, f) PROVE Calm(s)
    <2>1. CASE <<req[p].session, f>> \in objects
      <3>1. /\ req'[p].stage = "check" /\ req'[p].todo = req[p].todo \ {f} /\ req'[p].session = req[p].session
            /\ Only(p)
        BY <1>4, <2>1, RequestTypes, Goes DEF CheckObject, Stages
      <3>2. Using(s)' = Using(s) /\ MadeFrom(s)' = MadeFrom(s)
        BY <1>4, <3>1 DEF CheckObject, Using, MadeFrom, Only
      <3>3. \A q \in Using(s) : \A g \in req[q].todo \ req'[q].todo : <<s, g>> \in objects
        BY <1>4, <2>1, <3>1 DEF CheckObject, Using, Only
      <3>4. \A q \in Using(s) : req'[q].stage = req[q].stage
        BY <1>4, <3>1 DEF CheckObject, Using, Only
      <3> QED BY <1>4, <3>2, <3>3, <3>4 DEF CheckObject, Calm
    <2>2. CASE <<req[p].session, f>> \notin objects
      <3>1. req'[p].stage = "discard" /\ req'[p].session = req[p].session /\ Only(p)
        BY <1>4, <2>2, RequestTypes, Goes DEF CheckObject, Stages
      <3> QED BY <1>4, <3>1 DEF CheckObject, Calm, Using, MadeFrom, Only
    <2> QED BY <2>1, <2>2
  <1>5. ASSUME NEW p \in Procs, NEW r \in Resources, BeginDelete(p, r) PROVE Calm(s)
    BY <1>5, RequestTypes DEF BeginDelete, Calm, Using, MadeFrom, TypeOK, Row, Only, SessionStages,
       NoRequest
  <1>6. ASSUME NEW p \in Procs, FailFinalize(p) PROVE Calm(s)
    BY <1>6, RequestTypes, Goes DEF FailFinalize, Calm, Using, MadeFrom, TypeOK, Row, Only,
       SessionStages, Stages
  <1>7. ASSUME NEW p \in Procs, FailObject(p) PROVE Calm(s)
    <2>1. /\ UNCHANGED <<session, objects, resource, reloads>> /\ Only(p)
          /\ \/ /\ req[p].stage = "discard" /\ req'[p].stage = "close"
                /\ req'[p].session = req[p].session
             \/ req'[p].stage = "idle"
      BY <1>7, Goes, Answers DEF FailObject, Stages
    <2> QED BY <2>1 DEF Calm, Using, MadeFrom, Only
  <1>8. ASSUME NEW p \in Procs, CloseSession(p) PROVE Calm(s)
    BY <1>8, RequestTypes, Answers DEF CloseSession, Calm, Using, MadeFrom, TypeOK, Row, Only,
       SessionStages
  <1>9. ASSUME NEW p \in Procs, CommitDelete(p) PROVE Calm(s)
    <2>1. PICK r \in Resources : r = req[p].resource
      BY <1>9 DEF CommitDelete, Referenced, RowStages
    <2>2. /\ UNCHANGED <<session, objects, reloads>> /\ resource'[r].status = "deleted"
          /\ resource'[r].session = resource[r].session
          /\ \A q \in Resources \ {r} : resource'[q] = resource[q]
      BY <1>9, <2>1 DEF CommitDelete, DeleteRow, TypeOK, Row
    <2>3. req[p].stage \in RowStages /\ req'[p].stage = "purge" /\ Only(p)
      BY <1>9, Goes DEF CommitDelete, Stages, RowStages
    <2>4. Using(s)' = Using(s) /\ MadeFrom(s)' = MadeFrom(s)
      BY <2>2, <2>3 DEF Using, MadeFrom, Only, RowStages
    <2> QED BY <2>2, <2>3, <2>4 DEF Calm, Using, MadeFrom, Only, RowStages
  <1>10. ASSUME NEW p \in Procs, RefuseDelete(p) PROVE Calm(s)
    BY <1>10, RequestTypes, Answers DEF RefuseDelete, Calm, Using, MadeFrom, TypeOK, Row, Only,
       SessionStages
  <1>11. ASSUME NEW p \in Procs, EndDelete(p) PROVE Calm(s)
    BY <1>11, RequestTypes, Answers DEF EndDelete, Calm, Using, MadeFrom, TypeOK, Row, Only,
       SessionStages
  <1>12. ASSUME NEW p \in Procs, Die(p) PROVE Calm(s)
    BY <1>12, RequestTypes, Answers DEF Die, Calm, Using, MadeFrom, TypeOK, Row, Only, SessionStages
  <1>13. ASSUME NEW r \in Resources, ReportDelete(r) PROVE Calm(s)
    BY <1>13 DEF ReportDelete, DeleteRow, Calm, Using, MadeFrom, TypeOK, Row, Only, SessionStages
  <1>14. ASSUME NEW p \in Procs, NEW r \in Resources, BeginAdminDelete(p, r) PROVE Calm(s)
    BY <1>14, RequestTypes DEF BeginAdminDelete, Calm, Using, MadeFrom, TypeOK, Row, Only,
       SessionStages, NoRequest
  <1>15. ASSUME NEW p \in Procs, CommitAdminDelete(p) PROVE Calm(s)
    <2>1. PICK r \in Resources : r = req[p].resource
      BY <1>15 DEF CommitAdminDelete, Referenced, RowStages
    <2>2. /\ UNCHANGED <<session, objects, reloads>> /\ resource'[r].status = "deleted"
          /\ resource'[r].session = resource[r].session
          /\ \A q \in Resources \ {r} : resource'[q] = resource[q]
      BY <1>15, <2>1 DEF CommitAdminDelete, DeleteRow, TypeOK, Row
    <2>3. req[p].stage \in RowStages /\ req'[p].stage = "purge" /\ Only(p)
      BY <1>15, Goes DEF CommitAdminDelete, Stages, RowStages
    <2>4. Using(s)' = Using(s) /\ MadeFrom(s)' = MadeFrom(s)
      BY <2>2, <2>3 DEF Using, MadeFrom, Only, RowStages
    <2> QED BY <2>2, <2>3, <2>4 DEF Calm, Using, MadeFrom, Only, RowStages
  <1> QED BY <1>1, <1>2, <1>3, <1>4, <1>5, <1>6, <1>7, <1>8, <1>9, <1>10, <1>11, <1>12, <1>13,
             <1>14, <1>15 DEF Next

\* A session nobody has loaded before is as good as new.
LEMMA LoadUsesOnce ==
    ASSUME TypeOK, Referenced, NEW s \in Sessions, NEW t \in Sessions, NEW p \in Procs,
           NEW stage \in {"check", "abort"}, Load(p, t, stage), reloads[s] = 0 => UsedOnce(s)
    PROVE  reloads'[s] = 0 => UsedOnce(s)'
  <1>1. CASE s # t
    <2>1. Calm(s)
      BY <1>1 DEF Load, Calm, Using, MadeFrom, TypeOK
    <2> QED BY <2>1, UsedOnceIfCalm DEF Calm
  <1>2. CASE s = t /\ (Using(s) # {} \/ MadeFrom(s) # {})
    BY <1>2 DEF Load, TypeOK
  <1>3. CASE s = t /\ Using(s) = {} /\ MadeFrom(s) = {}
    <2>1. MadeFrom(s)' = {} /\ Using(s)' \subseteq {p}
      BY <1>3 DEF Load, MadeFrom, Using, TypeOK
    <2>2. req'[p].todo = Files
      BY DEF Load, TypeOK
    <2> QED BY <2>1, <2>2 DEF UsedOnce
  <1> QED BY <1>1, <1>2, <1>3

\* The one finalize of a session has seen all its objects when it makes the one row.
LEMMA CommitUsesOnce ==
    ASSUME TypeOK, Referenced, NEW s \in Sessions, NEW p \in Procs, NEW r \in Resources,
           CommitFinalize(p, r), UsedOnce(s)
    PROVE  UsedOnce(s)'
  <1>1. CASE req[p].session # s
    <2>1. /\ req[p].stage = "check" /\ req'[p].stage = "close" /\ req'[p].session = req[p].session /\ Only(p)
          /\ UNCHANGED <<session, objects, reloads>> /\ resource'[r].session = req[p].session
          /\ \A q \in Resources \ {r} : resource'[q] = resource[q]
      BY Goes DEF CommitFinalize, Stages, TypeOK
    <2>2. resource[r].session # s
      BY DEF CommitFinalize, Referenced
    <2>3. Using(s)' = Using(s) /\ MadeFrom(s)' = MadeFrom(s)
      BY <1>1, <2>1, <2>2 DEF Using, MadeFrom, Only
    <2>4. Calm(s)
      BY <1>1, <2>1, <2>2, <2>3 DEF Calm, Using, MadeFrom, Only
    <2> QED BY <2>4, UsedOnceIfCalm
  <1>2. CASE req[p].session = s
    <2>1. p \in Using(s) /\ MadeFrom(s) = {} /\ Using(s) = {p}
      BY <1>2 DEF CommitFinalize, Using, UsedOnce
    <2>2. {s} \X Files \subseteq objects
      BY <2>1 DEF CommitFinalize, UsedOnce
    <2>3. Using(s)' \subseteq {p} /\ req'[p].stage = "close"
      BY <2>1, Goes DEF CommitFinalize, Using, Only, Stages
    <2>4. MadeFrom(s)' = {r}
      BY <1>2, <2>1 DEF CommitFinalize, MadeFrom, TypeOK, Row
    <2> QED BY <2>2, <2>3, <2>4 DEF UsedOnce, CommitFinalize, ObjectsOf
  <1> QED BY <1>1, <1>2

\* Objects are deleted by the one request of a session that makes no row of it, or after its one
\* row is deleted.
LEMMA RemoveUsesOnce ==
    ASSUME TypeOK, Referenced, Deleting, NEW s \in Sessions, NEW p \in Procs, NEW f \in Files,
           RemoveObject(p, f), UsedOnce(s)
    PROVE  UsedOnce(s)'
  <1> DEFINE t == IF req[p].stage = "purge" THEN resource[req[p].resource].session ELSE req[p].session
  <1>1. req'[p].stage = req[p].stage /\ req'[p].session = req[p].session /\ Only(p)
    BY RequestTypes, Goes DEF RemoveObject, Stages
  <1>2. Using(s)' = Using(s) /\ MadeFrom(s)' = MadeFrom(s) /\ reloads' = reloads /\ resource' = resource
    BY <1>1 DEF RemoveObject, Using, MadeFrom, Only
  <1>3. objects' = objects \ {<<t, f>>}
    BY DEF RemoveObject
  <1>4. req[p].stage # "check" /\ req[p].stage # "close"
    BY DEF RemoveObject
  <1>5. CASE t # s
    <2>1. Calm(s)
      BY <1>1, <1>2, <1>3, <1>4, <1>5 DEF Calm, Using, Only
    <2> QED BY <2>1, UsedOnceIfCalm
  <1>6. CASE t = s /\ req[p].stage # "purge"
    <2>1. p \in Using(s) /\ Using(s) = {p} /\ MadeFrom(s) = {}
      BY <1>6 DEF RemoveObject, Using, UsedOnce
    <2> QED BY <1>1, <1>2, <1>4, <2>1 DEF UsedOnce
  <1>7. CASE t = s /\ req[p].stage = "purge"
    <2> DEFINE r == req[p].resource
    <2>1. r \in MadeFrom(s) /\ resource[r].status = "deleted"
      BY <1>7 DEF Referenced, RowStages, Deleting, MadeFrom
    <2>2. \A q \in MadeFrom(s) : resource'[q].status # "approved"
      BY <1>2, <2>1 DEF UsedOnce
    <2>3. \A q \in Using(s) : q # p /\ req[q].stage = "close"
      BY <1>7, <2>1 DEF UsedOnce, Using
    <2> QED BY <1>1, <1>2, <2>2, <2>3 DEF UsedOnce, Using, Only
  <1> QED BY <1>5, <1>6, <1>7

LEMMA UsedOnceKept ==
    ASSUME TypeOK, Referenced, Deleting, UsedOnceOrReloaded, Next PROVE UsedOnceOrReloaded'
  <1> SUFFICES ASSUME NEW s \in Sessions PROVE reloads'[s] = 0 => UsedOnce(s)'
    BY DEF UsedOnceOrReloaded
  <1>1. ASSUME NEW p \in Procs, NEW t \in Sessions, NEW stage \in {"check", "abort"}, Load(p, t, stage)
        PROVE  reloads'[s] = 0 => UsedOnce(s)'
    BY <1>1, LoadUsesOnce DEF UsedOnceOrReloaded
  <1>2. ASSUME NEW p \in Procs, NEW r \in Resources, CommitFinalize(p, r)
        PROVE  reloads'[s] = 0 => UsedOnce(s)'
    BY <1>2, CommitUsesOnce DEF UsedOnceOrReloaded, CommitFinalize
  <1>3. ASSUME NEW p \in Procs, NEW f \in Files, RemoveObject(p, f)
        PROVE  reloads'[s] = 0 => UsedOnce(s)'
    BY <1>3, RemoveUsesOnce DEF UsedOnceOrReloaded, RemoveObject
  <1>4. CASE /\ \A p \in Procs, t \in Sessions : ~Load(p, t, "check") /\ ~Load(p, t, "abort")
             /\ \A p \in Procs, f \in Files : ~RemoveObject(p, f)
             /\ \A p \in Procs, r \in Resources : ~CommitFinalize(p, r)
    <2>1. Calm(s)
      BY <1>4, CalmElsewhere
    <2> QED BY <2>1, UsedOnceIfCalm DEF UsedOnceOrReloaded, Calm
  <1> QED BY <1>1, <1>2, <1>3, <1>4
-----------------------------------------------------------------------------
\* How often a row is deleted

\* In this step row r is not deleted or made, and nobody begins to delete it.
Spared(r) ==
    /\ AdminsAt(r)' \subseteq AdminsAt(r)
    /\ resource'[r].status = "deleted" <=> resource[r].status = "deleted"
    /\ deletions'[r] = deletions[r] /\ overtaken'[r] = overtaken[r]

LEMMA DeletedBySpared ==
    ASSUME TypeOK, NEW r \in Resources, DeletedBy(r), Spared(r)
    PROVE  DeletedBy(r)'
  <1>1. IsFiniteSet(AdminsAt(r)) /\ Cardinality(AdminsAt(r)) \in Nat
    BY FS_CardinalityType DEF DeletedBy
  <1>2. /\ IsFiniteSet(AdminsAt(r)') /\ Cardinality(AdminsAt(r)') \in Nat
        /\ Cardinality(AdminsAt(r)') <= Cardinality(AdminsAt(r))
    BY <1>1, FS_Subset, FS_CardinalityType DEF Spared
  <1>3. deletions[r] \in Nat /\ overtaken[r] \in Nat
    BY DEF TypeOK
  <1> QED BY <1>1, <1>2, <1>3 DEF DeletedBy, Spared

\* A row is spared unless it is deleted or an administrator reads it.
LEMMA SparedElsewhere ==
    ASSUME TypeOK, Referenced, Next, NEW r \in Resources,
           \A p \in Procs : ~BeginAdminDelete(p, r),
           \A p \in Procs : req[p].resource = r => ~CommitDelete(p) /\ ~CommitAdminDelete(p),
           ~ReportDelete(r)
    PROVE  Spared(r)
  <1>1. ASSUME NEW t \in Sessions, Prepare(t) PROVE Spared(r)
    BY <1>1 DEF Prepare, Spared, AdminsAt
  <1>2. ASSUME NEW t \in Sessions, Expire(t) PROVE Spared(r)
    BY <1>2 DEF Expire, Spared, AdminsAt
  <1>3. ASSUME NEW t \in Sessions, NEW f \in Files, PutObject(t, f) PROVE Spared(r)
    BY <1>3 DEF PutObject, Spared, AdminsAt
  <1>4. ASSUME NEW p \in Procs, NEW t \in Sessions, NEW stage \in {"check", "abort"}, Load(p, t, stage)
        PROVE  Spared(r)
    BY <1>4 DEF Load, Spared, AdminsAt, TypeOK
  <1>5. ASSUME NEW p \in Procs, NEW f \in Files, CheckObject(p, f) PROVE Spared(r)
    BY <1>5, RequestTypes, Goes DEF CheckObject, Spared, AdminsAt, Only, Stages
  <1>6. ASSUME NEW p \in Procs, NEW f \in Files, RemoveObject(p, f) PROVE Spared(r)
    BY <1>6, RequestTypes, Goes DEF RemoveObject, Spared, AdminsAt, Only, Stages
  <1>7. ASSUME NEW p \in Procs, NEW q \in Resources, CommitFinalize(p, q) PROVE Spared(r)
    BY <1>7, Goes DEF CommitFinalize, Spared, AdminsAt, Only, Stages, TypeOK
  <1>8. ASSUME NEW p \in Procs, NEW q \in Resources, BeginDelete(p, q) PROVE Spared(r)
    BY <1>8 DEF BeginDelete, Spared, AdminsAt, TypeOK, NoRequest
  <1>9. ASSUME NEW p \in Procs, FailFinalize(p) PROVE Spared(r)
    BY <1>9, RequestTypes, Goes DEF FailFinalize, Spared, AdminsAt, Only, Stages
  <1>10. ASSUME NEW p \in Procs, FailObject(p) PROVE Spared(r)
    BY <1>10, RequestTypes, Goes, Answers DEF FailObject, Spared, AdminsAt, Only, Stages
  <1>11. ASSUME NEW p \in Procs, CloseSession(p) PROVE Spared(r)
    BY <1>11, Answers DEF CloseSession, Spared, AdminsAt, Only
  <1>12. ASSUME NEW p \in Procs, CommitDelete(p) PROVE Spared(r)
    BY <1>12, Purges DEF Spared, AdminsAt, Only
  <1>13. ASSUME NEW p \in Procs, RefuseDelete(p) PROVE Spared(r)
    BY <1>13, Answers DEF RefuseDelete, Spared, AdminsAt, Only
  <1>14. ASSUME NEW p \in Procs, EndDelete(p) PROVE Spared(r)
    BY <1>14, Answers DEF EndDelete, Spared, AdminsAt, Only
  <1>15. ASSUME NEW p \in Procs, Die(p) PROVE Spared(r)
    BY <1>15, Answers DEF Die, Spared, AdminsAt, Only
  <1>16. ASSUME NEW q \in Resources, ReportDelete(q) PROVE Spared(r)
    BY <1>16 DEF ReportDelete, DeleteRow, Spared, AdminsAt, TypeOK
  <1>17. ASSUME NEW p \in Procs, NEW q \in Resources, BeginAdminDelete(p, q) PROVE Spared(r)
    BY <1>17 DEF BeginAdminDelete, Spared, AdminsAt, TypeOK, NoRequest
  <1>18. ASSUME NEW p \in Procs, CommitAdminDelete(p) PROVE Spared(r)
    BY <1>18, Purges DEF Spared, AdminsAt, Only
  <1> QED BY <1>1, <1>2, <1>3, <1>4, <1>5, <1>6, <1>7, <1>8, <1>9, <1>10, <1>11, <1>12, <1>13,
             <1>14, <1>15, <1>16, <1>17, <1>18 DEF Next

\* Administrator p reads a row that nobody has deleted yet.
LEMMA AdminJoins ==
    ASSUME TypeOK, NEW r \in Resources, NEW p \in Procs, BeginAdminDelete(p, r), DeletedBy(r)
    PROVE  DeletedBy(r)'
  <1>1. AdminsAt(r)' \subseteq AdminsAt(r) \cup {p}
    BY DEF BeginAdminDelete, AdminsAt, TypeOK
  <1>2. IsFiniteSet(AdminsAt(r) \cup {p})
    BY FS_AddElement DEF DeletedBy
  <1>3. IsFiniteSet(AdminsAt(r)')
    BY <1>1, <1>2, FS_Subset
  <1> QED BY <1>3 DEF BeginAdminDelete, DeletedBy

\* Row r is deleted by somebody who leaves the administrators in late behind.
LEMMA LeftBehind ==
    ASSUME TypeOK, NEW r \in Resources, NEW late \in SUBSET AdminsAt(r), DeletedBy(r), DeleteRow(r, late),
           AdminsAt(r)' = late, resource[r].status = "deleted" => Cardinality(late) + 1 <= Cardinality(AdminsAt(r))
    PROVE  DeletedBy(r)'
  <1>1. PICK n \in Nat : n = Cardinality(late) /\ IsFiniteSet(late)
    BY FS_Subset, FS_CardinalityType DEF DeletedBy
  <1>2. PICK m \in Nat : m = Cardinality(AdminsAt(r))
    BY FS_CardinalityType DEF DeletedBy
  <1>3. deletions[r] \in Nat /\ overtaken[r] \in Nat
    BY DEF TypeOK
  <1>4. resource'[r].status = "deleted" /\ deletions'[r] = deletions[r] + 1
    BY <1>1, RowDeleted
  <1>5. deletions'[r] + n <= 1 + overtaken'[r]
    <2>1. CASE resource[r].status = "deleted"
      <3>1. overtaken'[r] = overtaken[r]
        BY <1>1, <2>1, RowDeleted
      <3>2. deletions[r] + m <= 1 + overtaken[r] /\ n + 1 <= m
        BY <1>1, <1>2, <2>1 DEF DeletedBy
      <3> QED BY <1>3, <1>4, <3>1, <3>2
    <2>2. CASE resource[r].status # "deleted"
      <3>1. overtaken'[r] = n
        BY <1>1, <2>2, RowDeleted
      <3>2. deletions[r] = 0
        BY <2>2 DEF DeletedBy
      <3> QED BY <1>4, <3>1, <3>2
    <2> QED BY <2>1, <2>2
  <1> QED BY <1>1, <1>4, <1>5 DEF DeletedBy

LEMMA DeletionsKept ==
    ASSUME TypeOK, Referenced, DeletionsCounted, Next PROVE DeletionsCounted'
  <1> SUFFICES ASSUME NEW r \in Resources PROVE DeletedBy(r)'
    BY DEF DeletionsCounted
  <1>1. DeletedBy(r)
    BY DEF DeletionsCounted
  <1>2. ASSUME NEW p \in Procs, BeginAdminDelete(p, r) PROVE DeletedBy(r)'
    BY <1>1, <1>2, AdminJoins
  <1>3. ASSUME NEW p \in Procs, req[p].resource = r, CommitDelete(p) PROVE DeletedBy(r)'
    <2>1. AdminsAt(r)' = AdminsAt(r)
      BY <1>3, Goes DEF CommitDelete, AdminsAt, Only, Stages
    <2>2. DeleteRow(r, AdminsAt(r)) /\ resource[r].status # "deleted"
      BY <1>3 DEF CommitDelete
    <2> QED BY <1>1, <2>1, <2>2, LeftBehind
  <1>4. ASSUME NEW p \in Procs, req[p].resource = r, CommitAdminDelete(p) PROVE DeletedBy(r)'
    <2>1. p \in AdminsAt(r) /\ AdminsAt(r)' = AdminsAt(r) \ {p}
      BY <1>4, Goes DEF CommitAdminDelete, AdminsAt, Only, Stages
    <2>2. DeleteRow(r, AdminsAt(r) \ {p})
      BY <1>4 DEF CommitAdminDelete
    <2>3. Cardinality(AdminsAt(r) \ {p}) + 1 <= Cardinality(AdminsAt(r))
      <3>1. IsFiniteSet(AdminsAt(r)) /\ Cardinality(AdminsAt(r)) \in Nat
        BY <1>1, FS_CardinalityType DEF DeletedBy
      <3>2. Cardinality(AdminsAt(r) \ {p}) = Cardinality(AdminsAt(r)) - 1
        BY <2>1, <3>1, FS_RemoveElement
      <3> QED BY <3>1, <3>2
    <2> QED BY <1>1, <2>1, <2>2, <2>3, LeftBehind
  <1>5. ASSUME ReportDelete(r) PROVE DeletedBy(r)'
    <2>1. AdminsAt(r)' = AdminsAt(r)
      BY <1>5 DEF ReportDelete, AdminsAt
    <2>2. DeleteRow(r, AdminsAt(r)) /\ resource[r].status # "deleted"
      BY <1>5 DEF ReportDelete
    <2> QED BY <1>1, <2>1, <2>2, LeftBehind
  <1>6. CASE /\ \A p \in Procs : ~BeginAdminDelete(p, r)
             /\ \A p \in Procs : req[p].resource = r => ~CommitDelete(p) /\ ~CommitAdminDelete(p)
             /\ ~ReportDelete(r)
    BY <1>1, <1>6, SparedElsewhere, DeletedBySpared
  <1> QED BY <1>2, <1>3, <1>4, <1>5, <1>6
-----------------------------------------------------------------------------
\* The invariant

LEMMA InitInv == ASSUME Init PROVE UploadInv
  <1> USE UploadAssumption
  <1>1. TypeOK
    BY DEF Init, TypeOK, Row, Request, NoRequest, Stages
  <1>2. Referenced /\ Deleting
    BY DEF Init, Referenced, Deleting, NoRequest, SessionStages, RowStages
  <1>3. LoadsCounted
    <2> SUFFICES ASSUME NEW s \in Sessions PROVE Counted(s)
      BY DEF LoadsCounted
    <2>1. MadeFrom(s) = {} /\ Finalizing(s) = {} /\ reloads[s] = 0
      BY DEF Init, MadeFrom, Finalizing, NoRequest
    <2> QED BY <2>1, FS_EmptySet DEF Counted
  <1>4. UsedOnceOrReloaded
    BY DEF Init, UsedOnceOrReloaded, UsedOnce, Using, MadeFrom, NoRequest
  <1>5. DeletionsCounted
    <2> SUFFICES ASSUME NEW r \in Resources PROVE DeletedBy(r)
      BY DEF DeletionsCounted
    <2>1. AdminsAt(r) = {} /\ deletions[r] = 0 /\ resource[r].status = "none"
      BY DEF Init, AdminsAt, NoRequest
    <2> QED BY <2>1, FS_EmptySet DEF DeletedBy
  <1> QED BY <1>1, <1>2, <1>3, <1>4, <1>5 DEF UploadInv

LEMMA NextInv == ASSUME UploadInv, [Next]_vars PROVE UploadInv'
  <1>1. CASE Next
    <2>1. TypeOK'
      BY <1>1, TypesKept DEF UploadInv
    <2>2. Referenced' /\ Deleting' /\ DeletionsCounted'
      BY <1>1, RowsKept, DeletionsKept DEF UploadInv
    <2>3. LoadsCounted' /\ UsedOnceOrReloaded'
      BY <1>1, LoadsCountedKept, UsedOnceKept DEF UploadInv
    <2> QED BY <2>1, <2>2, <2>3 DEF UploadInv
  <1>2. CASE UNCHANGED vars
    <2>1. TypeOK' /\ Referenced' /\ Deleting' /\ DeletionsCounted'
      BY <1>2 DEF UploadInv, vars, TypeOK, Referenced, Deleting, DeletionsCounted, DeletedBy, AdminsAt
    <2>2. \A s \in Sessions : MadeFrom(s)' = MadeFrom(s) /\ Using(s)' = Using(s) /\ Finalizing(s)' = Finalizing(s)
      BY <1>2 DEF vars, MadeFrom, Using, Finalizing
    <2>3. LoadsCounted' /\ UsedOnceOrReloaded'
      BY <1>2, <2>2 DEF UploadInv, vars, LoadsCounted, Counted, UsedOnceOrReloaded, UsedOnce
    <2> QED BY <2>1, <2>3 DEF UploadInv
  <1> QED BY <1>1, <1>2

LEMMA Invariant == Spec => []UploadInv
  BY InitInv, NextInv, PTL DEF Spec

-----------------------------------------------------------------------------
\* Theorems

\* Every variable keeps its type: no step of a request, of a client or of a failing service leaves
\* a row, a request or a session in a state the code does not name.
THEOREM Types == Spec => []TypeOK
  BY Invariant, PTL DEF UploadInv

\* FinalizeResourceUpload checks nothing but the session, and still makes at most one resource of
\* a session, and one more for every load of it while it was in use or after it was used up.
THEOREM OneResourcePerLoad == Spec => []FinalizedPerLoad
  <1>1. ASSUME UploadInv PROVE FinalizedPerLoad
    <2> SUFFICES ASSUME NEW s \in Sessions PROVE Cardinality(MadeFrom(s)) <= 1 + reloads[s]
      BY DEF FinalizedPerLoad
    <2>1. Cardinality(MadeFrom(s)) + Cardinality(Finalizing(s)) <= 1 + reloads[s]
      BY <1>1 DEF UploadInv, LoadsCounted, Counted
    <2>2. Cardinality(Finalizing(s)) \in Nat /\ reloads[s] \in Nat
      BY <1>1, FS_CardinalityType DEF UploadInv, LoadsCounted, Counted, TypeOK
    <2> QED BY <2>1, <2>2, RowsFinite
  <1> QED BY <1>1, Invariant, PTL

\* An approved resource has all its files in the object store, whatever call fails and wherever the
\* process ends, as long as its session was not loaded again.
THEOREM FilesKept == Spec => []FilesLostOnlyByReuse
  <1>1. ASSUME UploadInv PROVE FilesLostOnlyByReuse
    <2> SUFFICES ASSUME NEW r \in Resources, resource[r].status = "approved",
                        reloads[resource[r].session] = 0
                 PROVE  ObjectsOf(resource[r].session) \subseteq objects
      BY DEF FilesLostOnlyByReuse
    <2>1. resource[r].session \in Sessions
      BY <1>1 DEF UploadInv, Referenced
    <2>2. UsedOnce(resource[r].session)
      BY <1>1, <2>1 DEF UploadInv, UsedOnceOrReloaded
    <2>3. r \in MadeFrom(resource[r].session)
      BY DEF MadeFrom
    <2> QED BY <2>2, <2>3 DEF UsedOnce
  <1> QED BY <1>1, Invariant, PTL

\* The condition of SoftDeleteResource refuses every owner who comes second, and an administrator
\* deletes a deleted row once more only if he had read it before: the row, its files and the
\* uploader's notices go through one deletion and one more for each of those.
THEOREM RepeatedByOvertakenOnly == Spec => []DeletedPerReader
  <1>1. ASSUME UploadInv PROVE DeletedPerReader
    <2> SUFFICES ASSUME NEW r \in Resources PROVE deletions[r] <= 1 + overtaken[r]
      BY DEF DeletedPerReader
    <2>1. deletions[r] \in Nat /\ overtaken[r] \in Nat
      BY <1>1 DEF UploadInv, TypeOK
    <2>2. DeletedBy(r) /\ Cardinality(AdminsAt(r)) \in Nat
      BY <1>1, FS_CardinalityType DEF UploadInv, DeletionsCounted, DeletedBy
    <2> QED BY <2>1, <2>2 DEF DeletedBy
  <1> QED BY <1>1, Invariant, PTL

-----------------------------------------------------------------------------
\* The counters of UploadQuota

Client == [stage : {"idle", "count", "expire", "set"}, whole : BOOLEAN, meter : Meters,
           bytes : Nat, files : Nat, current : Nat, since : SUBSET Spoils]

QuotaTypes ==
    /\ counter \in [Meters -> Nat] /\ granted \in [Meters -> Nat] /\ asked \in [Meters -> Nat]
    /\ lasts \in [Meters -> {"ended", "for ever", "timed"}]
    /\ spoilt \in [Meters -> SUBSET Spoils] /\ broken \subseteq Meters
    /\ uploader \in [Uploaders -> Client]

\* The requests that have counted and may still set the counter.
Setting(q) == uploader[q].stage \in {"expire", "set"}

\* Unless something came in between, what is let in by then is less than what the request has read,
\* and what it will set the counter to was asked for.
ReadWell(q) ==
    /\ uploader[q].stage = "idle" => uploader[q] = AtRest
    /\ ~Setting(q) => uploader[q].since = {}
    /\ uploader[q].stage = "set" => uploader[q].meter # "calls"
    /\ Setting(q) => uploader[q].current >= 1
    /\ Setting(q) /\ uploader[q].meter # "calls" =>
        LET m == uploader[q].meter IN
        /\ "raced" \notin spoilt[m] \cup uploader[q].since => granted[m] <= uploader[q].current - 1
        /\ "outlived" \notin spoilt[m] \cup uploader[q].since => Raised(q) <= asked[m]

AllReadWell == \A q \in Uploaders : ReadWell(q)

GrantedCounted ==
    \A m \in Meters : "raced" \notin spoilt[m] => granted[m] <= counter[m] /\ granted[m] <= Limit[m]

QuotaInv == QuotaTypes /\ AllReadWell /\ GrantedCounted /\ NothingCountedTwice /\ CountersEnd

LEMMA LimitType == \A m \in Meters : Limit[m] \in Nat
  BY QuotaAssumption DEF Limit, Meters

LEMMA WeightType ==
    ASSUME QuotaTypes, NEW q \in Uploaders
    PROVE  Weight(q) \in Nat /\ uploader[q] \in Client /\ uploader[q].meter \in Meters
  BY DEF QuotaTypes, Weight, Client, Meters

LEMMA OnwardFacts ==
    ASSUME NEW now \in Client
    PROVE  /\ Onward(now) \in Client /\ Onward(now).stage \in {"idle", "count"}
           /\ Onward(now).stage = "idle" => Onward(now) = AtRest
           /\ Onward(now).since = {}
  <1>1. CASE ~now.whole \/ now.meter = "files"
    BY <1>1 DEF Onward, AtRest, Client, Meters
  <1>2. CASE now.whole /\ now.meter = "calls"
    BY <1>2 DEF Onward, Client, Meters
  <1>3. CASE now.whole /\ now.meter = "bytes"
    BY <1>3 DEF Onward, Client, Meters
  <1> QED BY <1>1, <1>2, <1>3 DEF Client, Meters

LEMMA JudgedFacts ==
    ASSUME NEW now \in Client
    PROVE  /\ Judged(now) \in Client /\ Judged(now).stage \in {"idle", "count", "set"}
           /\ Judged(now).stage = "idle" => Judged(now) = AtRest
           /\ Judged(now).stage # "set" => Judged(now).since = {}
           /\ Judged(now).stage = "set" => /\ Judged(now) = [now EXCEPT !.stage = "set"]
                                           /\ now.meter # "calls"
  <1>1. CASE now.meter = "calls" /\ Over("calls", now.current)
    BY <1>1 DEF Judged, AtRest, Client, Meters
  <1>2. CASE now.meter = "files" \/ (now.meter = "bytes" /\ now.bytes > 0)
    BY <1>2 DEF Judged, Client, Meters
  <1>3. CASE /\ ~(now.meter = "calls" /\ Over("calls", now.current))
             /\ ~(now.meter = "files" \/ (now.meter = "bytes" /\ now.bytes > 0))
    <2>1. Judged(now) = Onward(now)
      BY <1>3 DEF Judged
    <2> QED BY <2>1, OnwardFacts
  <1> QED BY <1>1, <1>2, <1>3

LEMMA NoticedFacts ==
    ASSUME QuotaTypes, NEW others \in SUBSET Uploaders, NEW m \in Meters, NEW event \in Spoils,
           NEW r \in Uploaders
    PROVE  /\ Noticed(others, m, event) \in [Uploaders -> Client]
           /\ LET now == Noticed(others, m, event)[r] IN
              /\ now.stage = uploader[r].stage /\ now.meter = uploader[r].meter
              /\ now.bytes = uploader[r].bytes /\ now.files = uploader[r].files
              /\ now.current = uploader[r].current /\ uploader[r].since \subseteq now.since
              /\ ~Setting(r) \/ r \notin others => now = uploader[r]
              /\ r \in others /\ Setting(r) /\ uploader[r].meter = m /\ m # "calls" => event \in now.since
  <1> DEFINE Hit(x) == x \in others /\ m # "calls" /\ uploader[x].meter = m /\ Setting(x)
  <1>1. Noticed(others, m, event) =
            [x \in Uploaders |-> IF Hit(x) THEN [uploader[x] EXCEPT !.since = @ \cup {event}] ELSE uploader[x]]
    BY DEF Noticed, Setting
  <1>2. \A x \in Uploaders :
            uploader[x] \in Client /\ [uploader[x] EXCEPT !.since = @ \cup {event}] \in Client
    BY DEF QuotaTypes, Client
  <1>3. Noticed(others, m, event) \in [Uploaders -> Client]
    BY <1>1, <1>2
  <1>4. CASE Hit(r)
    BY <1>1, <1>2, <1>3, <1>4 DEF Client
  <1>5. CASE ~Hit(r)
    BY <1>1, <1>2, <1>3, <1>5
  <1> QED BY <1>4, <1>5

\* A request whose own step this is not.
Bystander(r) ==
    /\ uploader'[r].stage = uploader[r].stage /\ uploader'[r].meter = uploader[r].meter
    /\ uploader'[r].bytes = uploader[r].bytes /\ uploader'[r].files = uploader[r].files
    /\ uploader'[r].current = uploader[r].current
    /\ uploader[r].since \subseteq uploader'[r].since
    /\ ~Setting(r) => uploader'[r] = uploader[r]

LEMMA Overheard ==
    ASSUME QuotaTypes, NEW others \in SUBSET Uploaders, NEW m \in Meters, NEW event \in Spoils,
           NEW r \in Uploaders, uploader'[r] = Noticed(others, m, event)[r]
    PROVE  /\ Bystander(r)
           /\ r \in others /\ Setting(r) /\ uploader[r].meter = m /\ m # "calls" =>
                  event \in uploader'[r].since
  <1> DEFINE heard == Noticed(others, m, event)
  <1>1. uploader'[r] = heard[r]
    OBVIOUS
  <1> HIDE DEF heard
  <1>2. /\ heard[r].stage = uploader[r].stage /\ heard[r].meter = uploader[r].meter
        /\ heard[r].bytes = uploader[r].bytes /\ heard[r].files = uploader[r].files
        /\ heard[r].current = uploader[r].current /\ uploader[r].since \subseteq heard[r].since
        /\ ~Setting(r) => heard[r] = uploader[r]
        /\ r \in others /\ Setting(r) /\ uploader[r].meter = m /\ m # "calls" => event \in heard[r].since
    BY NoticedFacts DEF heard
  <1> QED BY <1>1, <1>2 DEF Bystander

LEMMA StillReadWell ==
    ASSUME QuotaTypes, QuotaTypes', NEW r \in Uploaders, ReadWell(r), Bystander(r),
           Setting(r) /\ uploader[r].meter # "calls" =>
               LET m == uploader[r].meter IN
               /\ "raced" \notin spoilt'[m] \cup uploader'[r].since =>
                      granted'[m] = 0 \/ ("raced" \notin spoilt[m] /\ granted'[m] = granted[m])
               /\ "outlived" \notin spoilt'[m] \cup uploader'[r].since =>
                      "outlived" \notin spoilt[m] /\ asked[m] <= asked'[m]
    PROVE  ReadWell(r)'
  <1> DEFINE m == uploader[r].meter
  <1>1. uploader[r] \in Client /\ m \in Meters /\ granted[m] \in Nat /\ asked[m] \in Nat /\ asked'[m] \in Nat
    BY DEF QuotaTypes, Client
  <1>2. Weight(r) \in Nat /\ Weight(r)' = Weight(r) /\ Raised(r)' = Raised(r) /\ Raised(r) \in Int
    <2>1. Weight(r) \in Nat
      BY WeightType
    <2>2. Weight(r)' = Weight(r)
      BY DEF Bystander, Weight
    <2> QED BY <1>1, <2>1, <2>2 DEF Raised, Client, Bystander
  <1>3. Setting(r)' <=> Setting(r)
    BY DEF Setting, Bystander
  <1>4. CASE Setting(r) /\ m # "calls"
    <2>1. uploader'[r].current >= 1 /\ uploader'[r].stage # "idle" /\ m = uploader'[r].meter
      BY <1>4 DEF ReadWell, Bystander, Setting
    <2>2. "raced" \notin spoilt'[m] \cup uploader'[r].since => granted'[m] <= uploader'[r].current - 1
      BY <1>1, <1>4, <2>1 DEF ReadWell, Bystander, Client
    <2>3. "outlived" \notin spoilt'[m] \cup uploader'[r].since => Raised(r)' <= asked'[m]
      BY <1>1, <1>2, <1>4 DEF ReadWell, Bystander
    <2> QED BY <1>3, <1>4, <2>1, <2>2, <2>3 DEF ReadWell
  <1>5. CASE Setting(r) /\ m = "calls"
    BY <1>3, <1>5 DEF ReadWell, Bystander, Setting
  <1>6. CASE ~Setting(r)
    BY <1>3, <1>6 DEF ReadWell, Bystander, Setting
  <1> QED BY <1>4, <1>5, <1>6

LEMMA CountKept ==
    ASSUME QuotaTypes, AllReadWell, GrantedCounted, NothingCountedTwice, CountersEnd,
           NEW q \in Uploaders, CountCall(q)
    PROVE  QuotaInv'
  <1>1. PICK m \in Meters : m = uploader[q].meter
    BY WeightType
  <1>2. /\ counter \in [Meters -> Nat] /\ granted \in [Meters -> Nat] /\ asked \in [Meters -> Nat]
        /\ uploader[q] \in Client /\ uploader[q].stage = "count" /\ uploader[q].since = {}
    BY DEF CountCall, AllReadWell, ReadWell, Setting, QuotaTypes
  <1>3. PICK n \in Nat : n = counter[m] + 1
    <2>1. counter[m] + 1 \in Nat
      BY <1>2
    <2> QED BY <2>1
  <1>4. PICK w \in Nat : w = Weight(q)
    BY WeightType
  <1>5. PICK v \in Nat : v = (IF w = 0 THEN 1 ELSE w) /\ v >= 1 /\ v >= w
    OBVIOUS
  <1>6. PICK now \in Client : now = [uploader[q] EXCEPT !.current = n]
    BY <1>2 DEF Client
  <1>7. PICK after : after = IF n = 1 \/ lasts[m] # "timed" THEN [now EXCEPT !.stage = "expire"]
                             ELSE Judged(now)
    OBVIOUS
  <1>8. PICK heard : heard = Noticed(Uploaders \ {q}, m, "raced")
    OBVIOUS
  <1>9. /\ uploader' = [heard EXCEPT ![q] = after] /\ counter' = [counter EXCEPT ![m] = n]
        /\ spoilt' = spoilt /\ broken' = broken
    BY <1>1, <1>3, <1>6, <1>7, <1>8 DEF CountCall
  <1>10. lasts' = [lasts EXCEPT ![m] = IF @ = "ended" THEN "for ever" ELSE @]
    BY <1>1 DEF CountCall
  <1>11. granted' = [granted EXCEPT ![m] = IF m = "calls" /\ ~(n > Limit[m]) THEN @ + 1 ELSE @]
    BY <1>1, <1>3 DEF CountCall, Over
  <1>12. asked' = [asked EXCEPT ![m] = IF "outlived" \in spoilt[m] THEN 0 ELSE @ + v]
    BY <1>1, <1>4, <1>5 DEF CountCall
  <1>13. /\ after \in Client
         /\ after.stage = "idle" => after = AtRest
         /\ after.stage \notin {"expire", "set"} => after.since = {}
         /\ after.stage = "set" => m # "calls"
         /\ after.stage \in {"expire", "set"} =>
             /\ after.since = {} /\ after.meter = m /\ after.bytes = uploader[q].bytes
             /\ after.files = uploader[q].files /\ after.current = n
         /\ n = 1 \/ lasts[m] # "timed" => after.stage = "expire" /\ after.meter = m
    <2>1. CASE n = 1 \/ lasts[m] # "timed"
      BY <1>1, <1>2, <1>6, <1>7, <2>1 DEF Client
    <2>2. CASE ~(n = 1 \/ lasts[m] # "timed")
      BY <1>1, <1>2, <1>6, <1>7, <2>2, JudgedFacts DEF Client
    <2> QED BY <2>1, <2>2
  <1>14. /\ heard \in [Uploaders -> Client] /\ uploader'[q] = after
         /\ \A r \in Uploaders \ {q} : uploader'[r] = heard[r]
    BY <1>8, <1>9, NoticedFacts DEF Spoils
  <1>15. ASSUME NEW r \in Uploaders \ {q} PROVE Bystander(r)
    BY <1>8, <1>14, <1>15, Overheard DEF Spoils
  <1>16. QuotaTypes'
    <2>1. counter' \in [Meters -> Nat] /\ uploader' \in [Uploaders -> Client]
      BY <1>2, <1>9, <1>13, <1>14
    <2>2. granted' \in [Meters -> Nat]
      BY <1>2, <1>11
    <2>3. asked' \in [Meters -> Nat]
      BY <1>2, <1>12
    <2>4. lasts' \in [Meters -> {"ended", "for ever", "timed"}]
      BY <1>10 DEF QuotaTypes
    <2> QED BY <1>9, <2>1, <2>2, <2>3, <2>4 DEF QuotaTypes
  <1>17. GrantedCounted'
    <2> SUFFICES ASSUME NEW k \in Meters, "raced" \notin spoilt[k]
                 PROVE  granted'[k] <= counter'[k] /\ granted'[k] <= Limit[k]
      BY <1>9 DEF GrantedCounted
    <2>1. /\ granted[k] <= counter[k] /\ granted[k] <= Limit[k]
          /\ granted[k] \in Nat /\ counter[k] \in Nat /\ Limit[k] \in Nat
      BY <1>2, LimitType DEF GrantedCounted
    <2>2. counter'[k] = IF k = m THEN n ELSE counter[k]
      BY <1>2, <1>9
    <2>3. granted'[k] = IF k = m /\ m = "calls" /\ ~(n > Limit[m]) THEN granted[k] + 1 ELSE granted[k]
      BY <1>2, <1>11
    <2> QED BY <1>3, <2>1, <2>2, <2>3
  <1>18. /\ \A k \in Meters : k # "calls" => granted'[k] = granted[k]
         /\ \A k \in Meters : "outlived" \notin spoilt[k] => asked[k] <= asked'[k]
    <2>1. ASSUME NEW k \in Meters, "outlived" \notin spoilt[k] PROVE asked[k] <= asked'[k]
      BY <1>2, <1>12, <2>1
    <2> QED BY <1>2, <1>11, <2>1
  <1>19. "outlived" \notin spoilt[m] => counter[m] + w <= asked'[m] /\ n <= asked'[m]
    <2>1. "outlived" \notin spoilt[m] => counter[m] <= asked[m] /\ asked'[m] = asked[m] + v
      BY <1>2, <1>12 DEF NothingCountedTwice
    <2>2. counter[m] \in Nat /\ asked[m] \in Nat
      BY <1>2
    <2> QED BY <1>3, <1>5, <2>1, <2>2
  <1>20. NothingCountedTwice'
    <2> SUFFICES ASSUME NEW k \in Meters, "outlived" \notin spoilt[k] PROVE counter'[k] <= asked'[k]
      BY <1>9 DEF NothingCountedTwice
    <2>1. CASE k = m
      BY <1>2, <1>9, <1>19, <2>1
    <2>2. CASE k # m
      BY <1>2, <1>9, <1>12, <2>2 DEF NothingCountedTwice
    <2> QED BY <2>1, <2>2
  <1>21. ReadWell(q)'
    <2>1. CASE after.stage \in {"expire", "set"}
      <3>1. Weight(q)' = w /\ counter[m] \in Nat
        BY <1>1, <1>2, <1>4, <1>13, <1>14, <2>1 DEF Weight
      <3>2. Raised(q)' = counter[m] + w
        BY <1>3, <1>13, <1>14, <2>1, <3>1 DEF Raised
      <3>3. "raced" \notin spoilt[m] /\ m # "calls" => granted'[m] <= n - 1
        BY <1>2, <1>3, <1>18 DEF GrantedCounted
      <3>4. /\ uploader'[q].current = n /\ n >= 1 /\ uploader'[q].meter = m /\ uploader'[q].since = {}
            /\ Setting(q)'
            /\ uploader'[q].stage # "idle"
            /\ uploader'[q].stage = "set" => m # "calls"
        BY <1>2, <1>3, <1>13, <1>14, <2>1 DEF Setting
      <3> QED BY <1>9, <1>19, <3>2, <3>3, <3>4 DEF ReadWell
    <2>2. CASE after.stage \notin {"expire", "set"}
      BY <1>13, <1>14, <2>2 DEF ReadWell, Setting
    <2> QED BY <2>1, <2>2
  <1>22. ASSUME NEW r \in Uploaders \ {q} PROVE ReadWell(r)'
    BY <1>9, <1>15, <1>16, <1>18, <1>22, StillReadWell, WeightType DEF AllReadWell
  <1>23. CountersEnd'
    <2> SUFFICES ASSUME NEW k \in Meters, lasts'[k] = "for ever", k \notin broken
                 PROVE  \E r \in Uploaders : uploader'[r].meter = k /\ uploader'[r].stage = "expire"
      BY <1>9 DEF CountersEnd
    <2>1. CASE k = m /\ lasts[m] # "for ever"
      BY <1>10, <1>13, <1>14, <2>1 DEF QuotaTypes
    <2>2. CASE k # m \/ lasts[m] = "for ever"
      <3>1. PICK r \in Uploaders : uploader[r].meter = k /\ uploader[r].stage = "expire"
        BY <1>10, <2>2 DEF QuotaTypes, CountersEnd
      <3>2. r # q
        BY <1>2, <3>1
      <3> QED BY <1>15, <3>1, <3>2 DEF Bystander
    <2> QED BY <2>1, <2>2
  <1> QED BY <1>16, <1>17, <1>20, <1>21, <1>22, <1>23 DEF AllReadWell, QuotaInv

\* A request goes on to another counter or to its verdict, or ends, and changes no counter.
LEMMA GoesOnWell ==
    ASSUME QuotaTypes, AllReadWell, GrantedCounted, NothingCountedTwice, NEW q \in Uploaders,
           NEW after \in Client, uploader' = [uploader EXCEPT ![q] = after],
           UNCHANGED <<counter, granted, asked, spoilt>>,
           after.stage = "idle" => after = AtRest,
           after.stage \notin {"expire", "set"} => after.since = {},
           after.stage \in {"expire", "set"} =>
               /\ Setting(q) /\ uploader[q].meter # "calls"
               /\ after = [uploader[q] EXCEPT !.stage = "set"]
    PROVE  /\ uploader' \in [Uploaders -> Client] /\ AllReadWell'
           /\ GrantedCounted' /\ NothingCountedTwice'
  <1>1. /\ uploader' \in [Uploaders -> Client] /\ uploader'[q] = after /\ uploader[q] \in Client
        /\ \A r \in Uploaders \ {q} : uploader'[r] = uploader[r]
    BY DEF QuotaTypes
  <1>2. GrantedCounted' /\ NothingCountedTwice'
    BY DEF GrantedCounted, NothingCountedTwice
  <1>3. ReadWell(q)'
    <2>1. CASE after.stage \in {"expire", "set"}
      <3>1. /\ after.stage = "set" /\ after.meter = uploader[q].meter /\ after.since = uploader[q].since
            /\ after.current = uploader[q].current /\ after.bytes = uploader[q].bytes
            /\ after.files = uploader[q].files
        BY <1>1, <2>1 DEF Client
      <3>2. Weight(q)' = Weight(q) /\ Raised(q)' = Raised(q)
        BY <1>1, <3>1 DEF Weight, Raised
      <3>3. Setting(q)' /\ Setting(q) /\ uploader[q].meter # "calls"
        BY <1>1, <2>1 DEF Setting
      <3> QED BY <1>1, <3>1, <3>2, <3>3 DEF ReadWell, AllReadWell
    <2>2. CASE after.stage \notin {"expire", "set"}
      BY <1>1, <2>2 DEF ReadWell, Setting
    <2> QED BY <2>1, <2>2
  <1>4. ASSUME NEW r \in Uploaders \ {q} PROVE ReadWell(r)'
    BY <1>1, <1>4 DEF AllReadWell, ReadWell, Setting, Raised, Weight
  <1> QED BY <1>1, <1>2, <1>3, <1>4 DEF AllReadWell

LEMMA BeginKept ==
    ASSUME QuotaTypes, AllReadWell, GrantedCounted, NothingCountedTwice, CountersEnd, NEW q \in Uploaders,
           BeginCall(q) \/ \E batch \in Batches : BeginUpload(q, batch)
    PROVE  QuotaInv'
  <1>1. AtRest \in Client /\ uploader[q] = AtRest /\ uploader[q].stage = "idle"
    BY DEF AtRest, Client, Meters, BeginCall, BeginUpload, AllReadWell, ReadWell
  <1>2. PICK after \in Client : /\ uploader' = [uploader EXCEPT ![q] = after]
                                /\ after.stage = "count" /\ after.since = {}
    <2>1. CASE BeginCall(q)
      <3> DEFINE after == [AtRest EXCEPT !.stage = "count"]
      <3>1. after \in Client /\ after.stage = "count" /\ after.since = {}
        BY DEF AtRest, Client, Meters
      <3>2. uploader' = [uploader EXCEPT ![q] = after]
        BY <1>1, <2>1 DEF BeginCall
      <3> QED BY <3>1, <3>2
    <2>2. CASE \E batch \in Batches : BeginUpload(q, batch)
      <3>1. PICK batch \in Batches : BeginUpload(q, batch)
        BY <2>2
      <3> DEFINE after == [AtRest EXCEPT !.stage = "count", !.whole = TRUE,
                                         !.bytes = batch.bytes, !.files = batch.files]
      <3>2. after \in Client /\ after.stage = "count" /\ after.since = {}
        BY QuotaAssumption DEF AtRest, Client, Meters
      <3> QED BY <3>1, <3>2 DEF BeginUpload
    <2> QED BY <2>1, <2>2
  <1>3. UNCHANGED <<counter, lasts, granted, asked, spoilt, broken>>
    BY DEF BeginCall, BeginUpload
  <1>4. uploader' \in [Uploaders -> Client] /\ AllReadWell' /\ GrantedCounted' /\ NothingCountedTwice'
    BY <1>2, <1>3, GoesOnWell
  <1>5. CountersEnd'
    BY <1>1, <1>2, <1>3 DEF CountersEnd, QuotaTypes
  <1> QED BY <1>3, <1>4, <1>5 DEF QuotaInv, QuotaTypes

LEMMA FailKept ==
    ASSUME QuotaTypes, AllReadWell, GrantedCounted, NothingCountedTwice, CountersEnd,
           NEW q \in Uploaders, FailUpload(q)
    PROVE  QuotaInv'
  <1>1. AtRest \in Client /\ AtRest.stage = "idle" /\ AtRest.since = {} /\ uploader[q] \in Client
    BY DEF AtRest, Client, Meters, QuotaTypes
  <1>2. uploader' \in [Uploaders -> Client] /\ AllReadWell' /\ GrantedCounted' /\ NothingCountedTwice'
    BY <1>1, GoesOnWell DEF FailUpload
  <1>3. broken' \subseteq Meters /\ broken \subseteq broken'
    BY <1>1 DEF FailUpload, QuotaTypes, Client
  <1>4. CountersEnd'
    <2> SUFFICES ASSUME NEW k \in Meters, lasts[k] = "for ever", k \notin broken'
                 PROVE  \E r \in Uploaders : uploader'[r].meter = k /\ uploader'[r].stage = "expire"
      BY DEF CountersEnd, FailUpload
    <2>1. PICK r \in Uploaders : uploader[r].meter = k /\ uploader[r].stage = "expire"
      BY <1>3 DEF CountersEnd
    <2>2. r # q
      BY <2>1 DEF FailUpload
    <2> QED BY <2>1, <2>2 DEF FailUpload, QuotaTypes
  <1> QED BY <1>2, <1>3, <1>4 DEF QuotaInv, QuotaTypes, FailUpload

LEMMA ExpireKept ==
    ASSUME QuotaTypes, AllReadWell, GrantedCounted, NothingCountedTwice, CountersEnd,
           NEW q \in Uploaders, ExpireCounter(q)
    PROVE  QuotaInv'
  <1>1. PICK m \in Meters : m = uploader[q].meter
    BY WeightType
  <1>2. uploader[q] \in Client /\ uploader[q].stage = "expire" /\ Setting(q)
    BY DEF QuotaTypes, ExpireCounter, Setting
  <1>3. PICK after \in Client : after = Judged(uploader[q])
    BY <1>2, JudgedFacts
  <1>4. /\ after.stage \in {"idle", "count", "set"}
        /\ after.stage = "idle" => after = AtRest
        /\ after.stage # "set" => after.since = {}
        /\ after.stage = "set" => after = [uploader[q] EXCEPT !.stage = "set"] /\ m # "calls"
    BY <1>1, <1>2, <1>3, JudgedFacts
  <1>5. /\ uploader' = [uploader EXCEPT ![q] = after] /\ lasts' = [lasts EXCEPT ![m] = Timed(m)]
        /\ broken' = broken \ {m} /\ UNCHANGED <<counter, granted, asked, spoilt>>
    BY <1>1, <1>3 DEF ExpireCounter
  <1>6. uploader' \in [Uploaders -> Client] /\ AllReadWell' /\ GrantedCounted' /\ NothingCountedTwice'
    BY <1>1, <1>2, <1>4, <1>5, GoesOnWell
  <1>7. lasts' \in [Meters -> {"ended", "for ever", "timed"}] /\ lasts'[m] # "for ever"
    BY <1>5 DEF QuotaTypes, Timed
  <1>8. CountersEnd'
    <2> SUFFICES ASSUME NEW k \in Meters, lasts'[k] = "for ever", k \notin broken'
                 PROVE  \E r \in Uploaders : uploader'[r].meter = k /\ uploader'[r].stage = "expire"
      BY DEF CountersEnd
    <2>1. k # m /\ lasts[k] = "for ever" /\ k \notin broken
      BY <1>5, <1>7 DEF QuotaTypes
    <2>2. PICK r \in Uploaders : uploader[r].meter = k /\ uploader[r].stage = "expire"
      BY <2>1 DEF CountersEnd
    <2> QED BY <1>1, <1>5, <2>1, <2>2 DEF QuotaTypes
  <1> QED BY <1>5, <1>6, <1>7, <1>8 DEF QuotaInv, QuotaTypes

LEMMA SetKept ==
    ASSUME QuotaTypes, AllReadWell, GrantedCounted, NothingCountedTwice, CountersEnd,
           NEW q \in Uploaders, SetCounter(q)
    PROVE  QuotaInv'
  <1>1. PICK m \in Meters : m = uploader[q].meter
    BY WeightType
  <1>2. /\ counter \in [Meters -> Nat] /\ granted \in [Meters -> Nat] /\ asked \in [Meters -> Nat]
        /\ spoilt \in [Meters -> SUBSET Spoils]
        /\ uploader[q] \in Client /\ uploader[q].stage = "set" /\ Setting(q)
    BY DEF SetCounter, Setting, QuotaTypes
  <1>3. m # "calls" /\ uploader[q].current \in Nat /\ uploader[q].current >= 1
    BY <1>1, <1>2 DEF AllReadWell, ReadWell, Client
  <1>4. PICK w \in Nat : w = Weight(q)
    BY WeightType
  <1>5. PICK n \in Nat : n = Raised(q) /\ n = uploader[q].current - 1 + w
    <2>1. uploader[q].current - 1 + w \in Nat
      BY <1>3
    <2> QED BY <1>4, <2>1 DEF Raised
  <1>6. PICK spoils \in SUBSET Spoils : spoils = spoilt[m] \cup uploader[q].since
    BY <1>2 DEF Client
  <1>7. PICK heard : heard = Noticed(Uploaders \ {q}, m, "raced") /\ heard[q] = uploader[q]
    <2>1. Uploaders \ {q} \in SUBSET Uploaders /\ "raced" \in Spoils /\ q \notin Uploaders \ {q}
      BY DEF Spoils
    <2>2. Noticed(Uploaders \ {q}, m, "raced")[q] = uploader[q]
      <3>1. ~Setting(q) \/ q \notin Uploaders \ {q}
        BY <2>1
      <3> QED BY <2>1, <3>1, NoticedFacts, SMTT(20)
    <2> QED BY <2>2
  <1>8. PICK after : after = IF Over(m, n) THEN AtRest ELSE Onward(uploader[q])
    OBVIOUS
  <1>9. /\ uploader' = [heard EXCEPT ![q] = after] /\ counter' = [counter EXCEPT ![m] = n]
        /\ spoilt' = [spoilt EXCEPT ![m] = spoils] /\ lasts' = [lasts EXCEPT ![m] = "timed"]
        /\ broken' = broken \ {m}
    <2>1. uploader' = [heard EXCEPT ![q] = after]
      BY <1>1, <1>5, <1>7, <1>8 DEF SetCounter
    <2>2. counter' = [counter EXCEPT ![m] = n] /\ lasts' = [lasts EXCEPT ![m] = "timed"]
      BY <1>1, <1>5 DEF SetCounter
    <2>3. spoilt' = [spoilt EXCEPT ![m] = spoils] /\ broken' = broken \ {m}
      BY <1>1, <1>6 DEF SetCounter
    <2> QED BY <2>1, <2>2, <2>3
  <1>10. asked' = [asked EXCEPT ![m] = IF "outlived" \in spoils THEN 0 ELSE @]
    BY <1>1, <1>6 DEF SetCounter
  <1>11. granted' = [granted EXCEPT ![m] = IF "raced" \in spoils THEN 0 ELSE IF n > Limit[m] THEN @ ELSE @ + w]
    BY <1>1, <1>4, <1>5, <1>6 DEF SetCounter, Over
  <1>12. /\ after \in Client /\ after.stage \in {"idle", "count"} /\ after.since = {}
         /\ after.stage = "idle" => after = AtRest
    <2>1. AtRest \in Client /\ AtRest.stage = "idle" /\ AtRest.since = {}
      BY DEF AtRest, Client, Meters
    <2> QED BY <1>2, <1>8, <2>1, OnwardFacts
  <1>13. /\ heard \in [Uploaders -> Client] /\ uploader'[q] = after
         /\ \A r \in Uploaders \ {q} : uploader'[r] = heard[r]
    BY <1>7, <1>9, NoticedFacts DEF Spoils
  <1>14. ASSUME NEW r \in Uploaders \ {q}
         PROVE  /\ Bystander(r)
                /\ Setting(r) /\ uploader[r].meter = m => "raced" \in uploader'[r].since
    BY <1>3, <1>7, <1>13, <1>14, Overheard DEF Spoils
  <1>15. QuotaTypes'
    <2>1. /\ counter' \in [Meters -> Nat] /\ uploader' \in [Uploaders -> Client]
          /\ spoilt' \in [Meters -> SUBSET Spoils]
      BY <1>2, <1>9, <1>12, <1>13
    <2>2. granted' \in [Meters -> Nat]
      BY <1>2, <1>11
    <2>3. asked' \in [Meters -> Nat]
      BY <1>2, <1>10
    <2> QED BY <1>9, <2>1, <2>2, <2>3 DEF QuotaTypes
  <1>16. GrantedCounted'
    <2> SUFFICES ASSUME NEW k \in Meters, "raced" \notin spoilt'[k]
                 PROVE  granted'[k] <= counter'[k] /\ granted'[k] <= Limit[k]
      BY DEF GrantedCounted
    <2>1. CASE k = m
      <3>1. "raced" \notin spoils
        BY <1>2, <1>9, <2>1
      <3>2. granted[m] <= uploader[q].current - 1 /\ granted[m] <= Limit[m]
        BY <1>1, <1>2, <1>3, <1>6, <3>1 DEF AllReadWell, ReadWell, GrantedCounted
      <3>3. counter'[m] = n /\ granted[m] \in Nat /\ Limit[m] \in Nat
        BY <1>2, <1>9, LimitType
      <3>4. granted'[m] = IF n > Limit[m] THEN granted[m] ELSE granted[m] + w
        BY <1>2, <1>11, <3>1
      <3> QED BY <1>3, <1>5, <2>1, <3>2, <3>3, <3>4
    <2>2. CASE k # m
      BY <1>2, <1>9, <1>11, <2>2 DEF GrantedCounted
    <2> QED BY <2>1, <2>2
  <1>17. NothingCountedTwice'
    <2> SUFFICES ASSUME NEW k \in Meters, "outlived" \notin spoilt'[k] PROVE counter'[k] <= asked'[k]
      BY DEF NothingCountedTwice
    <2>1. CASE k = m
      <3>1. "outlived" \notin spoils
        BY <1>2, <1>9, <2>1
      <3>2. n <= asked[m]
        BY <1>1, <1>2, <1>3, <1>5, <1>6, <3>1 DEF AllReadWell, ReadWell
      <3> QED BY <1>2, <1>9, <1>10, <2>1, <3>1, <3>2
    <2>2. CASE k # m
      BY <1>2, <1>9, <1>10, <2>2 DEF NothingCountedTwice
    <2> QED BY <2>1, <2>2
  <1>18. ReadWell(q)'
    BY <1>12, <1>13 DEF ReadWell, Setting
  <1>19. ASSUME NEW r \in Uploaders \ {q} PROVE ReadWell(r)'
    <2>1. CASE Setting(r) /\ uploader[r].meter = m
      BY <1>2, <1>6, <1>9, <1>10, <1>14, <1>15, <2>1, StillReadWell DEF AllReadWell
    <2>2. CASE Setting(r) /\ uploader[r].meter # m
      <3>1. uploader[r].meter \in Meters
        BY WeightType
      <3>2. LET k == uploader[r].meter IN
            asked'[k] = asked[k] /\ granted'[k] = granted[k] /\ spoilt'[k] = spoilt[k] /\ asked[k] <= asked[k]
        BY <1>2, <1>9, <1>10, <1>11, <2>2, <3>1
      <3> QED BY <1>14, <1>15, <3>2, StillReadWell DEF AllReadWell
    <2>3. CASE ~Setting(r)
      BY <1>14, <1>15, <2>3, StillReadWell DEF AllReadWell
    <2> QED BY <2>1, <2>2, <2>3
  <1>20. CountersEnd'
    <2> SUFFICES ASSUME NEW k \in Meters, lasts'[k] = "for ever", k \notin broken'
                 PROVE  \E r \in Uploaders : uploader'[r].meter = k /\ uploader'[r].stage = "expire"
      BY DEF CountersEnd
    <2>1. k # m /\ lasts[k] = "for ever" /\ k \notin broken
      BY <1>9 DEF QuotaTypes
    <2>2. PICK r \in Uploaders : uploader[r].meter = k /\ uploader[r].stage = "expire"
      BY <2>1 DEF CountersEnd
    <2> QED BY <1>1, <1>14, <2>1, <2>2 DEF Bystander
  <1> QED BY <1>15, <1>16, <1>17, <1>18, <1>19, <1>20 DEF AllReadWell, QuotaInv

LEMMA EndKept ==
    ASSUME QuotaTypes, AllReadWell, GrantedCounted, NothingCountedTwice, CountersEnd,
           NEW m \in Meters, EndCounter(m)
    PROVE  QuotaInv'
  <1>1. /\ counter \in [Meters -> Nat] /\ granted \in [Meters -> Nat] /\ asked \in [Meters -> Nat]
        /\ spoilt \in [Meters -> SUBSET Spoils]
    BY DEF QuotaTypes
  <1>2. /\ counter' = [counter EXCEPT ![m] = 0] /\ granted' = [granted EXCEPT ![m] = 0]
        /\ asked' = [asked EXCEPT ![m] = 0] /\ spoilt' = [spoilt EXCEPT ![m] = {}]
        /\ lasts' = [lasts EXCEPT ![m] = "ended"] /\ broken' = broken \ {m}
        /\ uploader' = Noticed(Uploaders, m, "outlived")
    BY DEF EndCounter
  <1>3. uploader' \in [Uploaders -> Client]
    <2> SUFFICES Noticed(Uploaders, m, "outlived") \in [Uploaders -> Client]
      BY <1>2
    <2>1. CASE Uploaders = {}
      BY <2>1 DEF Noticed
    <2>2. CASE Uploaders # {}
      BY <2>2, NoticedFacts DEF Spoils
    <2> QED BY <2>1, <2>2
  <1>4. ASSUME NEW r \in Uploaders
        PROVE  /\ Bystander(r)
               /\ Setting(r) /\ uploader[r].meter = m /\ m # "calls" => "outlived" \in uploader'[r].since
    BY <1>2, <1>4, Overheard DEF Spoils
  <1>5. QuotaTypes'
    BY <1>1, <1>2, <1>3 DEF QuotaTypes
  <1>6. GrantedCounted'
    BY <1>1, <1>2, LimitType DEF GrantedCounted
  <1>7. NothingCountedTwice'
    BY <1>1, <1>2 DEF NothingCountedTwice
  <1>8. ASSUME NEW r \in Uploaders PROVE ReadWell(r)'
    <2>1. uploader[r].meter \in Meters
      BY WeightType
    <2>2. CASE Setting(r) /\ uploader[r].meter = m
      BY <1>1, <1>2, <1>4, <1>5, <2>2, StillReadWell DEF AllReadWell
    <2>3. CASE ~(Setting(r) /\ uploader[r].meter = m)
      <3>1. Setting(r) => LET k == uploader[r].meter IN
            asked'[k] = asked[k] /\ granted'[k] = granted[k] /\ spoilt'[k] = spoilt[k] /\ asked[k] <= asked[k]
        BY <1>1, <1>2, <2>1, <2>3
      <3> QED BY <1>4, <1>5, <3>1, StillReadWell DEF AllReadWell
    <2> QED BY <2>2, <2>3
  <1>9. CountersEnd'
    <2> SUFFICES ASSUME NEW k \in Meters, lasts'[k] = "for ever", k \notin broken'
                 PROVE  \E r \in Uploaders : uploader'[r].meter = k /\ uploader'[r].stage = "expire"
      BY DEF CountersEnd
    <2>1. k # m /\ lasts[k] = "for ever" /\ k \notin broken
      BY <1>2 DEF QuotaTypes
    <2>2. PICK r \in Uploaders : uploader[r].meter = k /\ uploader[r].stage = "expire"
      BY <2>1 DEF CountersEnd
    <2> QED BY <1>4, <2>2 DEF Bystander
  <1> QED BY <1>5, <1>6, <1>7, <1>8, <1>9 DEF AllReadWell, QuotaInv

LEMMA QuotaInvariant == QuotaSpec => []QuotaInv
  <1>1. ASSUME QuotaInit PROVE QuotaInv
    <2>1. AtRest \in Client
      BY DEF AtRest, Client, Meters
    <2>2. QuotaTypes
      BY <1>1, <2>1 DEF QuotaInit, QuotaTypes, Spoils
    <2>3. AllReadWell
      BY <1>1 DEF QuotaInit, AllReadWell, ReadWell, Setting, AtRest
    <2>4. GrantedCounted /\ NothingCountedTwice /\ CountersEnd
      BY <1>1, LimitType DEF QuotaInit, GrantedCounted, NothingCountedTwice, CountersEnd
    <2> QED BY <2>2, <2>3, <2>4 DEF QuotaInv
  <1>2. ASSUME QuotaInv, QuotaNext PROVE QuotaInv'
    BY <1>2, BeginKept, CountKept, ExpireKept, SetKept, FailKept, EndKept DEF QuotaNext, QuotaInv
  <1>3. ASSUME QuotaInv, UNCHANGED quotaVars PROVE QuotaInv'
    <2>1. QuotaTypes' /\ GrantedCounted' /\ NothingCountedTwice' /\ CountersEnd'
      BY <1>3 DEF quotaVars, QuotaInv, QuotaTypes, GrantedCounted, NothingCountedTwice, CountersEnd
    <2>2. AllReadWell'
      BY <1>3 DEF quotaVars, QuotaInv, AllReadWell, ReadWell, Setting, Raised, Weight
    <2> QED BY <2>1, <2>2 DEF QuotaInv
  <1> QED BY <1>1, <1>2, <1>3, PTL DEF QuotaSpec

\* Requests, rows and the quota keep their types; in the life of a counter no more is let in than
\* its limit unless requests raced to set it, nobody is refused for more than was asked for unless
\* the key ended in between, and a counter without an end has a request that is to give it one.
THEOREM UploadIsSound == Spec /\ QuotaSpec => []UploadSound
  <1>1. ASSUME QuotaInv PROVE QuotaSound
    <2>1. QuotaTypeOK
      <3>1. \A m \in Meters : counter[m] \in Nat /\ granted[m] \in Nat /\ asked[m] \in Nat
        BY <1>1 DEF QuotaInv, QuotaTypes
      <3>2. \A q \in Uploaders : uploader[q] \in Client
        BY <1>1 DEF QuotaInv, QuotaTypes
      <3> QED BY <1>1, <3>1, <3>2 DEF QuotaInv, QuotaTypes, QuotaTypeOK, Client
    <2>2. QuotaKept
      BY <1>1 DEF QuotaInv, GrantedCounted, QuotaKept
    <2> QED BY <1>1, <2>1, <2>2 DEF QuotaInv, QuotaSound
  <1> QED BY <1>1, Types, QuotaInvariant, PTL DEF UploadSound
=============================================================================
