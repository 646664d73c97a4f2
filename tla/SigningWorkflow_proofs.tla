----------------------- MODULE SigningWorkflow_proofs -----------------------
(***************************************************************************)
(* Proofs about SigningWorkflow, for every number of documents, attempts,  *)
(* requests and users, and for every bound.                                *)
(***************************************************************************)
EXTENDS SigningInvariant, SigningRefinement, FiniteSetTheorems, TLAPS

(***************************************************************************)
(* Type correctness, on either database.                                   *)
(***************************************************************************)

\* The vault of pin_vault.py only ever holds entries.
LEMMA VaultType ==
    ASSUME NEW h \in SUBSET Entry, NEW now \in Nat, NEW j \in Jobs
    PROVE  /\ Hold(h, now, j) \in SUBSET Entry
           /\ Take(h, now, j) \in SUBSET Entry
           /\ Discard(h, j) \in SUBSET Entry
  BY ForgetAfterAssumption DEF Hold, Take, Discard, ForgetStale, Entry

LEMMA TypeInit == Init => TypeInv
  BY WorkflowAssumption
  DEF Init, TypeInv, TypeOK, Shape, DocumentRow, JobRow, NoJob, RequestState,
      NoRequest, WorkerState, StartingWorker, DocStates, Present, Statuses,
      InFlight, WorkerSteps, BusySteps, SignSteps, HasRow, Entry, RequestSteps


\* A request that ends leaves no request and no lock behind.
LEMMA AnswerType ==
    ASSUME TypeOK, NEW r \in Requests, Answer(r)
    PROVE  /\ req' \in [Requests -> RequestState]
           /\ lock' \in [Documents -> Requests \cup {None}]
           /\ req'[r] = NoRequest
           /\ \A q \in Requests \ {r} : req'[q] = req[q]
<1>1. NoRequest \in RequestState
  BY DEF NoRequest, RequestState, DocStates
<1> QED
  BY <1>1 DEF TypeOK, Answer, Unlock

\* A request that goes on keeps everything but its place.
LEMMA AdvanceType ==
    ASSUME TypeOK, NEW r \in Requests, NEW step \in RequestSteps, Advance(r, step)
    PROVE  /\ req' \in [Requests -> RequestState]
           /\ req'[r].pc = step
           /\ req'[r].doc = req[r].doc /\ req'[r].job = req[r].job
           /\ req'[r].cascade = req[r].cascade /\ req'[r].version = req[r].version
           /\ \A q \in Requests \ {r} : req'[q] = req[q]
<1>1. req[r] \in RequestState /\ req'[r] = [req[r] EXCEPT !.pc = step]
  BY DEF TypeOK, Advance
<1>2. req'[r] \in RequestState
  BY <1>1 DEF RequestState
<1> QED
  BY <1>1, <1>2 DEF TypeOK, Advance, RequestState

\* A step of the worker that only moves it on.
LEMMA GotoType ==
    ASSUME TypeOK, NEW step \in WorkerSteps, Goto(step)
    PROVE  /\ worker' \in WorkerState
           /\ worker'.pc = step /\ worker'.job = worker.job
           /\ worker'.state = worker.state /\ worker'.version = worker.version
  BY DEF TypeOK, Goto, WorkerState

\* Either database: taking a row keeps the type of lock.
LEMMA LockType ==
    ASSUME TypeOK, NEW r \in Requests, NEW d, Lock(r, d)
    PROVE  lock' \in [Documents -> Requests \cup {None}]
  BY DEF TypeOK, Lock

LEMMA TypeAdministration == TypeInv /\ Administration => TypeInv'
<1> SUFFICES ASSUME TypeInv, Administration PROVE TypeInv'
  OBVIOUS
<1> USE DEF TypeInv, TypeOK, Shape, HasRow, memVars
<1>1. ASSUME NEW u \in Users, NEW d \in Documents, UploadDocument(u, d) PROVE TypeInv'
  BY <1>1 DEF UploadDocument, DocumentRow, DocStates, Present
<1>2. ASSUME NEW a \in Users, NEW u \in Users, NEW new \in Roles, UpdateRole(a, u, new)
      PROVE TypeInv'
  BY <1>2 DEF UpdateRole
<1>3. ASSUME NEW a \in Users, UpdateSavedPin(a) PROVE TypeInv'
  BY <1>3 DEF UpdateSavedPin
<1> QED
  BY <1>1, <1>2, <1>3 DEF Administration

LEMMA TypeArrive == ASSUME TypeInv, NEW r \in Requests, Arrive(r) PROVE TypeInv'
<1> USE DEF TypeInv, TypeOK, Shape, HasRow, dbVars, SignSteps
<1>1. ASSUME NEW u \in Users, NEW d \in Documents, NEW j \in Jobs, NEW card \in Cards,
             NEW pin \in BOOLEAN, CreateSignature(r, u, d, j, card, pin)
      PROVE TypeInv'
  <2>1. req' = [req EXCEPT ![r] = req'[r]] /\ req'[r] \in RequestState
        /\ req'[r].doc = d /\ req'[r].job = j
    BY <1>1 DEF CreateSignature, RequestState, NoRequest, RequestSteps, DocumentRow
  <2> QED
    BY <1>1, <2>1 DEF CreateSignature
<1>2. ASSUME NEW u \in Users, NEW d \in Documents, DeleteLock(r, u, d) PROVE TypeInv'
  <2>1. req' = [req EXCEPT ![r] = req'[r]] /\ req'[r] \in RequestState
        /\ req'[r].doc = d /\ req'[r].pc = "delete_locked"
    BY <1>2 DEF DeleteLock, RequestState, NoRequest, RequestSteps, DocStates
  <2> QED
    BY <1>2, <2>1, LockType DEF DeleteLock
<1>3. ASSUME NEW a \in Users, NEW u \in Users, NEW d \in Documents, OwnerLock(r, a, u, d)
      PROVE TypeInv'
  <2>1. req' = [req EXCEPT ![r] = req'[r]] /\ req'[r] \in RequestState
        /\ req'[r].doc = d /\ req'[r].pc = "owner_locked"
    BY <1>3 DEF OwnerLock, RequestState, NoRequest, RequestSteps, DocStates, DocumentRow
  <2> QED
    BY <1>3, <2>1, LockType DEF OwnerLock
<1> QED
  BY <1>1, <1>2, <1>3 DEF Arrive

LEMMA TypeEnqueueFirst ==
    ASSUME TypeInv, NEW r \in Requests, EnqueueFirst(r) PROVE TypeInv'
<1> USE DEF TypeInv, Shape, HasRow, dbVars, SignSteps
<1>1. CASE EnqueueLock(r)
  BY <1>1, AdvanceType, LockType DEF EnqueueLock, TypeOK, RequestSteps
<1>2. CASE EnqueueRefuse(r)
  BY <1>2, AnswerType DEF EnqueueRefuse, TypeOK, NoRequest
<1> QED
  BY <1>1, <1>2 DEF EnqueueFirst

LEMMA TypeProceed == ASSUME TypeInv, NEW r \in Requests, Proceed(r) PROVE TypeInv'
<1> USE DEF TypeInv, Shape, HasRow, dbVars, SignSteps
<1>1. CASE EnqueueNumber(r)
  <2>1. PICK last \in {0} \cup {job[j].attempt : j \in JobsOf(req[r].doc)} :
          req' = [req EXCEPT ![r].pc = "sign_numbered", ![r].attempt = last + 1]
    BY <1>1 DEF EnqueueNumber
  <2>2. last + 1 \in Nat
    BY <2>1 DEF TypeOK, JobRow, JobsOf
  <2>3. req'[r] = [req[r] EXCEPT !.pc = "sign_numbered", !.attempt = last + 1]
        /\ req' = [req EXCEPT ![r] = req'[r]]
    BY <2>1 DEF TypeOK
  <2>4. /\ req'[r] \in RequestState
        /\ req'[r].doc = req[r].doc /\ req'[r].job = req[r].job
    <3>1. req[r] \in RequestState
      BY DEF TypeOK
    <3> QED
      BY <3>1, <2>2, <2>3 DEF RequestState, RequestSteps
  <2> QED
    BY <1>1, <2>3, <2>4 DEF EnqueueNumber, TypeOK
<1>2. CASE EnqueueCommit(r)
  <2> DEFINE row == [status |-> "queued", doc |-> req[r].doc, operator |-> req[r].user,
                     card |-> req[r].card, attempt |-> req[r].attempt, created |-> clock]
  <2>1. row \in JobRow /\ row.doc \in Documents
    BY <1>2 DEF EnqueueCommit, TypeOK, JobRow, RequestState, Statuses, InFlight
  <2>3. job' = [job EXCEPT ![req[r].job] = row]
    BY <1>2 DEF EnqueueCommit
  <2> HIDE DEF row
  <2>4. /\ job' \in [Jobs -> JobRow]
        /\ \A j \in Jobs : HasRow(j)' => job'[j].doc \in Documents
    BY <2>1, <2>3 DEF TypeOK
  <2>2. held' \subseteq Entry
    BY <1>2, VaultType DEF EnqueueCommit, TypeOK
  <2> QED
    BY <1>2, <2>2, <2>4, AnswerType DEF EnqueueCommit, TypeOK, NoRequest
<1>3. CASE EnqueueRollback(r)
  <2>2. Hold(held, clock, req[r].job) \subseteq Entry
    BY <1>3, VaultType DEF EnqueueRollback, TypeOK
  <2>1. held' \subseteq Entry
    BY <1>3, <2>2 DEF EnqueueRollback, TypeOK
  <2> QED
    BY <1>3, <2>1, AnswerType DEF EnqueueRollback, TypeOK, NoRequest
<1>4. CASE DeleteCheck(r)
  BY <1>4, AdvanceType DEF DeleteCheck, TypeOK, RequestSteps
<1>5. CASE DeleteCascade(r)
  <2>1. /\ req' = [req EXCEPT ![r] = req'[r]] /\ req'[r] \in RequestState
        /\ req'[r].doc = req[r].doc /\ req'[r].pc = "delete_loaded"
    <3>0. JobsOf(req[r].doc) \subseteq Jobs
      BY DEF JobsOf
    <3>1. req[r] \in RequestState /\ JobsOf(req[r].doc) \in SUBSET Jobs
      BY <3>0 DEF TypeOK
    <3>2. req' = [req EXCEPT ![r] = [req[r] EXCEPT !.pc = "delete_loaded",
                                                   !.cascade = JobsOf(req[r].doc)]]
      BY <1>5 DEF DeleteCascade
    <3>3. req'[r] = [req[r] EXCEPT !.pc = "delete_loaded", !.cascade = JobsOf(req[r].doc)]
      BY <3>2 DEF TypeOK
    <3>4. req' = [req EXCEPT ![r] = req'[r]]
      BY <3>2, <3>3
    <3>5. /\ req'[r] \in RequestState
          /\ req'[r].doc = req[r].doc /\ req'[r].pc = "delete_loaded"
      <4> HIDE DEF TypeInv, Shape
      <4> QED
        BY <3>1, <3>3 DEF RequestState, RequestSteps
    <3> QED
      BY <3>4, <3>5
  <2> QED
    BY <1>5, <2>1 DEF DeleteCascade, TypeOK
<1>6. CASE DeleteCommit(r)
  <2>1. [NoJob EXCEPT !.status = "gone"] \in JobRow
    BY DEF NoJob, JobRow, Statuses
  <2>2. job' \in [Jobs -> JobRow]
        /\ \A j \in Jobs : job'[j].status = "gone" \/ job'[j] = job[j]
    BY <1>6, <2>1 DEF DeleteCommit, TypeOK, NoJob
  <2>3. doc' \in [Documents -> DocumentRow]
    BY <1>6 DEF DeleteCommit, TypeOK, DocumentRow, DocStates
  <2> QED
    BY <1>6, <2>2, <2>3, AnswerType DEF DeleteCommit, TypeOK, NoRequest
<1>7. CASE OwnerCheck(r)
  BY <1>7, AdvanceType DEF OwnerCheck, TypeOK, RequestSteps
<1>8. CASE OwnerCommit(r)
  <2>1. doc' \in [Documents -> DocumentRow]
    BY <1>8 DEF OwnerCommit, TypeOK, DocumentRow, RequestState
  <2> QED
    BY <1>8, <2>1, AnswerType DEF OwnerCommit, TypeOK, NoRequest
<1>9. CASE LockedRefuse(r)
  BY <1>9, AnswerType DEF LockedRefuse, TypeOK, NoRequest
<1> QED
  BY <1>1, <1>2, <1>3, <1>4, <1>5, <1>6, <1>7, <1>8, <1>9 DEF Proceed

LEMMA TypeWork == TypeInv /\ Work => TypeInv'
<1> SUFFICES ASSUME TypeInv, Work PROVE TypeInv'
  OBVIOUS
<1> USE DEF TypeInv, Shape, HasRow, dbVars, BusySteps, WorkerSteps
<1>1. CASE ReleaseOrphansFails
  BY <1>1, GotoType DEF ReleaseOrphansFails, TypeOK
<1>2. ASSUME NEW j \in Jobs, ClaimNextSignature(j) PROVE TypeInv'
  <2>1. worker' \in WorkerState /\ worker'.job = j
    BY <1>2 DEF ClaimNextSignature, WorkerState, StartingWorker, DocStates
  <2>2. job' \in [Jobs -> JobRow] /\ \A k \in Jobs : job'[k].doc = job[k].doc
    BY <1>2 DEF ClaimNextSignature, TypeOK, JobRow, Statuses, InFlight
  <2> QED
    BY <1>2, <2>1, <2>2 DEF ClaimNextSignature, TypeOK, Statuses
<1>3. CASE LoadAttempt
  <2>1. Mine \in Jobs /\ job[Mine].doc \in Documents
    BY <1>3 DEF LoadAttempt, Mine
  <2>2. doc[job[Mine].doc].state \in DocStates /\ doc[job[Mine].doc].version \in Nat
        /\ job[Mine].card \in Cards \cup {None}
    BY <2>1 DEF TypeOK, DocumentRow, JobRow
  <2>3. CASE Goto("recover")
    BY <1>3, <2>3, GotoType DEF LoadAttempt, TypeOK
  <2>4. CASE ~Goto("recover")
    <3>1. worker' \in WorkerState /\ worker'.job = worker.job
      BY <1>3, <2>2, <2>4 DEF LoadAttempt, TypeOK, WorkerState
    <3> QED
      BY <1>3, <2>1, <3>1 DEF LoadAttempt, TypeOK, Mine
  <2> QED
    BY <2>3, <2>4
<1>4. CASE LoadNothing
  <2>1. worker' \in WorkerState /\ worker'.pc = "idle"
    BY <1>4 DEF LoadNothing, WorkerState, StartingWorker, DocStates
  <2> QED
    BY <1>4, <2>1 DEF LoadNothing, TypeOK
<1>5. CASE AcquireIdentity
  <2>1. Take(held, clock, Mine) \subseteq Entry
    BY <1>5, VaultType DEF AcquireIdentity, TypeOK, Mine
  <2> QED
    BY <1>5, <2>1, GotoType DEF AcquireIdentity, TypeOK
<1>6. CASE CardSigns
  BY <1>6, GotoType DEF CardSigns, TypeOK
<1>7. CASE StoreResult
  BY <1>7, GotoType DEF StoreResult, TypeOK
<1>8. CASE RecoverFails
  BY <1>8, GotoType DEF RecoverFails, TypeOK
<1>9. CASE ReleaseAttempt
  <2>1. worker' \in WorkerState /\ worker'.pc = "idle"
    BY <1>9 DEF ReleaseAttempt, WorkerState, StartingWorker, DocStates
  <2>2. Discard(held, Mine) \subseteq Entry
    BY DEF Discard, TypeOK
  <2> QED
    BY <1>9, <2>1, <2>2 DEF ReleaseAttempt, TypeOK
<1> QED
  BY <1>1, <1>2, <1>3, <1>4, <1>5, <1>6, <1>7, <1>8, <1>9 DEF Work, Load

\* A failed attempt keeps the row of its document well formed.
LEMMA FailedDocumentType ==
    ASSUME NEW row \in DocumentRow
    PROVE  /\ FailedDocument(row) \in DocumentRow
           /\ FailedDocument(row).owner = row.owner
           /\ FailedDocument(row).state \in Present <=> row.state \in Present
           /\ FailedDocument(row).state = "signed" <=> row.state = "signed"
<1>1. CASE row.state \in Present \ {"signed"}
  <2>1. FailedDocument(row) = [row EXCEPT !.state = "signing_failed", !.version = @ + 1]
    BY <1>1 DEF FailedDocument
  <2>2. FailedDocument(row) = [state |-> "signing_failed", owner |-> row.owner,
                               version |-> row.version + 1]
    BY <2>1 DEF DocumentRow
  <2>3. "signing_failed" \in Present \cap DocStates
    BY DEF Present, DocStates
  <2> QED
    BY <1>1, <2>2, <2>3 DEF DocumentRow
<1>2. CASE row.state \notin Present \ {"signed"}
  BY <1>2 DEF FailedDocument
<1> QED
  BY <1>1, <1>2

LEMMA TypeSettle == TypeInv /\ Settle => TypeInv'
<1> SUFFICES ASSUME TypeInv, Settle PROVE TypeInv'
  OBVIOUS
<1> USE DEF TypeInv, Shape, HasRow, BusySteps, WorkerSteps
<1>1. CASE ReleaseOrphans
  <2>1. job' \in [Jobs -> JobRow]
    <3>1. job \in [Jobs -> JobRow]
      BY DEF TypeOK
    <3>2. ASSUME NEW j \in Jobs PROVE [job[j] EXCEPT !.status = "failed"] \in JobRow
      BY <3>1 DEF JobRow, Statuses
    <3>3. job' = [j \in Jobs |-> IF job[j].status = "running"
                                 THEN [job[j] EXCEPT !.status = "failed"] ELSE job[j]]
      BY <1>1 DEF ReleaseOrphans
    <3> QED
      BY <3>1, <3>2, <3>3
  <2>2. \A j \in Jobs : job'[j].doc = job[j].doc
                     /\ (job'[j].status = job[j].status \/ job[j].status = "running")
    BY <1>1 DEF ReleaseOrphans, TypeOK, JobRow
  <2>3. doc' \in [Documents -> DocumentRow]
    BY <1>1, FailedDocumentType DEF ReleaseOrphans, TypeOK
  <2>4. worker' \in WorkerState /\ worker'.pc = "idle"
    BY <1>1, GotoType DEF ReleaseOrphans, TypeOK
  <2>5. TypeOK'
    BY <1>1, <2>1, <2>3, <2>4 DEF ReleaseOrphans, TypeOK
  <2>6. Shape'
    BY <1>1, <2>2, <2>4 DEF ReleaseOrphans
  <2> QED
    BY <2>5, <2>6
<1>2. CASE FinalizeCommit
  <2>1. HasRow(Mine) /\ Mine \in Jobs /\ job[Mine].doc \in Documents
    BY <1>2 DEF FinalizeCommit, MayFinalize, Mine
  <2>2. /\ job' \in [Jobs -> JobRow]
        /\ \A j \in Jobs : job'[j].doc = job[j].doc
        /\ \A j \in Jobs : j # Mine => job'[j] = job[j]
    <3>1. job \in [Jobs -> JobRow] /\ job' = [job EXCEPT ![Mine].status = "completed"]
      BY <1>2 DEF FinalizeCommit, TypeOK
    <3>2. [job[Mine] EXCEPT !.status = "completed"] \in JobRow
      BY <2>1, <3>1 DEF JobRow, Statuses
    <3>3. \A j \in Jobs : job'[j].doc = job[j].doc
      BY <2>1, <3>1 DEF JobRow
    <3> QED
      BY <2>1, <3>1, <3>2, <3>3
  <2>3. doc' \in [Documents -> DocumentRow]
    BY <1>2, <2>1 DEF FinalizeCommit, TypeOK, DocumentRow, WorkerState, DocStates, Present
  <2>4. artifacts' \subseteq [doc : Documents, job : Jobs]
    BY <1>2, <2>1 DEF FinalizeCommit, TypeOK
  <2> QED
    BY <1>2, <2>1, <2>2, <2>3, <2>4, GotoType DEF FinalizeCommit, TypeOK
<1>3. CASE FinalizeRefused
  BY <1>3, GotoType DEF FinalizeRefused, TypeOK, dbVars
<1>4. CASE RecoverCommit
  <2>1. CASE job[Mine].status = "running"
    <3>1. Mine \in Jobs
      BY <1>4 DEF RecoverCommit, Mine
    <3>2. /\ job' \in [Jobs -> JobRow]
          /\ \A j \in Jobs : job'[j].doc = job[j].doc
          /\ \A j \in Jobs : j # Mine => job'[j] = job[j]
      BY <1>4, <2>1, <3>1 DEF RecoverCommit, TypeOK, JobRow, Statuses
    <3>3. doc' \in [Documents -> DocumentRow]
      BY <1>4, <2>1, FailedDocumentType DEF RecoverCommit, TypeOK
    <3> QED
      BY <1>4, <2>1, <3>1, <3>2, <3>3, GotoType DEF RecoverCommit, TypeOK
  <2>2. CASE job[Mine].status # "running"
    BY <1>4, <2>2, GotoType DEF RecoverCommit, TypeOK
  <2> QED
    BY <2>1, <2>2
<1> QED
  BY <1>1, <1>2, <1>3, <1>4 DEF Settle

LEMMA TypeEnvironment == TypeInv /\ (Tick \/ Restart \/ UNCHANGED vars) => TypeInv'
<1> SUFFICES ASSUME TypeInv, Tick \/ Restart \/ UNCHANGED vars PROVE TypeInv'
  OBVIOUS
<1> USE DEF TypeInv, TypeOK, Shape, HasRow, dbVars, memVars
<1>1. CASE Tick
  BY <1>1 DEF Tick
<1>2. CASE Restart
  <2>1. NoRequest \in RequestState /\ StartingWorker \in WorkerState
    BY DEF NoRequest, RequestState, StartingWorker, WorkerState, WorkerSteps, DocStates
  <2> QED
    BY <1>2, <2>1 DEF Restart, NoRequest, StartingWorker, BusySteps, SignSteps
<1>3. CASE UNCHANGED vars
  BY <1>3 DEF vars
<1> QED
  BY <1>1, <1>2, <1>3

\* Whatever the database, the tables and the threads keep their types, and no
\* step uses an id that was not set (models.py, signature_service.py).
THEOREM TypeCorrect == Spec => []TypeOK
<1>1. TypeInv /\ [Next]_vars => TypeInv'
  BY TypeAdministration, TypeArrive, TypeEnqueueFirst, TypeProceed, TypeWork,
     TypeSettle, TypeEnvironment DEF Next
<1>2. TypeInv => TypeOK
  BY DEF TypeInv
<1> QED
  BY TypeInit, <1>1, <1>2, PTL DEF Spec

(***************************************************************************)
(* Safety, when FOR UPDATE locks the row.  An attempt is queued, a         *)
(* document deleted or given away under the lock of its row, after no      *)
(* active attempt was found; the worker alone closes an active attempt.    *)
(* So what a transaction checked still holds when it commits.              *)
(***************************************************************************)

LEMMA SafetyInit == Init => SafetyInv
<1> SUFFICES ASSUME Init PROVE SafetyInv
  OBVIOUS
<1>1. TypeInv
  BY TypeInit
<1>2. FreshIds /\ LockProtocol /\ WorkerView
  BY DEF Init, FreshIds, LockProtocol, Protected, WorkerView, NoRequest, StartingWorker,
     SignSteps, DeleteSteps, OwnerSteps, LockedSteps, CheckedSteps, RequestSteps,
     RunningSteps, BusySteps, LoadedSteps
<1>3. RowsInv
  BY DEF Init, RowsInv, OneActiveAttempt, NoOrphanAttempt, SignedConsistently, NoJob,
     Active, InFlight
<1> QED
  BY <1>1, <1>2, <1>3 DEF SafetyInv

\* A request is protected as long as its own state, its lock and the rows of
\* its document do not change.
LEMMA ProtectedFrame ==
    ASSUME TypeInv, NEW q \in Requests, Protected(q),
           req'[q] = req[q],
           req[q].pc \in LockedSteps => lock'[req[q].doc] = lock[req[q].doc],
           doc'[req[q].doc].state = doc[req[q].doc].state,
           doc'[req[q].doc].version = doc[req[q].doc].version,
           JobsOf(req[q].doc)' = JobsOf(req[q].doc),
           ActiveOn(req[q].doc)' = ActiveOn(req[q].doc)
    PROVE  Protected(q)'
  BY DEF Protected, Exists, LockedSteps, CheckedSteps, DeleteSteps, OwnerSteps

\* The rows are safe in a step that writes none.
LEMMA RowsFrame ==
    RowsInv /\ UNCHANGED <<doc, job, artifacts>> => RowsInv'
  BY DEF RowsInv, OneActiveAttempt, NoOrphanAttempt, SignedConsistently, Active, Exists

\* Answering and locking leave the locks of the other requests alone.
LEMMA OthersKeepLocks ==
    ASSUME RowLocks, TypeInv, NEW r \in Requests, NEW q \in Requests \ {r}, Protected(q),
           req[q].pc \in LockedSteps,
           Answer(r) \/ (\E d \in Documents : CanLock(d) /\ Lock(r, d))
    PROVE  lock'[req[q].doc] = lock[req[q].doc]
<1>1. req[q].doc \in Documents /\ lock[req[q].doc] = q /\ q # None
  BY WorkflowAssumption DEF Protected, TypeInv, Shape, LockedSteps, RequestSteps
<1> QED
  BY <1>1 DEF Answer, Unlock, Lock, CanLock, TypeInv, TypeOK

\* The id of an attempt stays fresh when a request keeps it or lets it go.
LEMMA FreshFrame ==
    ASSUME TypeInv, FreshIds, NEW r \in Requests,
           \A q \in Requests \ {r} : req'[q] = req[q],
           \/ req'[r].pc \notin SignSteps
           \/ req[r].pc \in SignSteps /\ req'[r].job = req[r].job,
           \A q \in Requests : req'[q].pc \in SignSteps =>
               job'[req'[q].job].status = job[req'[q].job].status
    PROVE  FreshIds'
  BY DEF FreshIds, TypeInv, Shape

\* A step of one request that writes no row keeps the invariant if the request
\* is protected after it.
LEMMA QuietRequest ==
    ASSUME SafetyInv, TypeInv', NEW r \in Requests,
           UNCHANGED <<doc, job, artifacts, worker>>,
           \A q \in Requests \ {r} :
              /\ req'[q] = req[q]
              /\ req[q].pc \in LockedSteps => lock'[req[q].doc] = lock[req[q].doc],
           Protected(r)', FreshIds'
    PROVE  SafetyInv'
<1>1. \A d \in Documents : JobsOf(d)' = JobsOf(d) /\ ActiveOn(d)' = ActiveOn(d)
  BY DEF JobsOf, ActiveOn, Active, HasRow
<1>2. ASSUME NEW q \in Requests PROVE Protected(q)'
  <2>1. CASE q = r
    BY <2>1
  <2>2. CASE q # r
    <3>1. CASE req[q].pc = "idle"
      BY <2>2, <3>1 DEF Protected, LockedSteps, CheckedSteps, DeleteSteps, OwnerSteps, RequestSteps
    <3>2. CASE req[q].pc # "idle"
      <4>1. req[q].doc \in Documents
        BY <3>2 DEF SafetyInv, TypeInv, Shape
      <4> QED
        BY <1>1, <2>2, <4>1, ProtectedFrame DEF SafetyInv, LockProtocol
    <3> QED
      BY <3>1, <3>2
  <2> QED
    BY <2>1, <2>2
<1>3. WorkerView'
  BY DEF SafetyInv, WorkerView
<1>4. RowsInv'
  BY RowsFrame DEF SafetyInv
<1> QED
  BY <1>2, <1>3, <1>4 DEF SafetyInv, LockProtocol

\* A request may end at any point without having written a row.
LEMMA SafeAnswer ==
    ASSUME RowLocks, SafetyInv, TypeInv', NEW r \in Requests, Answer(r),
           UNCHANGED <<doc, job, artifacts, worker>>
    PROVE  SafetyInv'
<1> USE DEF SignSteps, LockedSteps, CheckedSteps, DeleteSteps, OwnerSteps, RequestSteps
<1>0. TypeInv
  BY DEF SafetyInv
<1>1. req'[r].pc = "idle" /\ \A q \in Requests \ {r} : req'[q] = req[q]
  BY <1>0, AnswerType DEF TypeInv, NoRequest
<1>2. Protected(r)'
  BY <1>1 DEF Protected
<1>3. FreshIds'
  BY <1>0, <1>1, FreshFrame DEF SafetyInv
<1>4. ASSUME NEW q \in Requests \ {r}, req[q].pc \in LockedSteps
      PROVE lock'[req[q].doc] = lock[req[q].doc]
  BY <1>0, <1>4, OthersKeepLocks DEF SafetyInv, LockProtocol
<1> QED
  BY <1>0, <1>1, <1>2, <1>3, <1>4, QuietRequest

LEMMA SafeArrive ==
    ASSUME RowLocks, SafetyInv, NEW r \in Requests, Arrive(r) PROVE SafetyInv'
<1>0. TypeInv /\ TypeInv'
  BY TypeArrive DEF SafetyInv
<1> USE DEF SignSteps, LockedSteps, CheckedSteps, DeleteSteps, OwnerSteps, RequestSteps
<1>1. ASSUME NEW u \in Users, NEW d \in Documents, NEW j \in Jobs, NEW card \in Cards,
             NEW pin \in BOOLEAN, CreateSignature(r, u, d, j, card, pin)
      PROVE SafetyInv'
  <2>1. req'[r].pc = "sign_read" /\ req'[r].job = j /\ job[j].status = "none"
        /\ (\A q \in Requests \ {r} : req'[q] = req[q] /\ req[q].job # j)
    BY <1>0, <1>1 DEF CreateSignature, NoRequest, TypeInv, TypeOK
  <2>2. Protected(r)'
    BY <2>1 DEF Protected
  <2>3. FreshIds'
    BY <1>0, <1>1, <2>1 DEF FreshIds, SafetyInv, TypeInv, Shape, CreateSignature, dbVars
  <2> QED
    BY <1>0, <1>1, <2>1, <2>2, <2>3, QuietRequest DEF CreateSignature, dbVars
<1>2. ASSUME NEW u \in Users, NEW d \in Documents, DeleteLock(r, u, d) PROVE SafetyInv'
  <2>1. req'[r].pc = "delete_locked" /\ req'[r].doc = d
        /\ \A q \in Requests \ {r} : req'[q] = req[q]
    BY <1>0, <1>2 DEF DeleteLock, NoRequest, TypeInv, TypeOK
  <2>2. Protected(r)'
    BY <1>0, <1>2, <2>1 DEF Protected, DeleteLock, Lock, dbVars, Exists, TypeInv, TypeOK
  <2>3. FreshIds'
    BY <1>0, <1>2, <2>1, FreshFrame DEF SafetyInv, DeleteLock, dbVars
  <2>4. ASSUME NEW q \in Requests \ {r}, req[q].pc \in LockedSteps
        PROVE lock'[req[q].doc] = lock[req[q].doc]
    BY <1>0, <1>2, <2>4, OthersKeepLocks DEF DeleteLock, SafetyInv, LockProtocol
  <2> QED
    BY <1>0, <1>2, <2>1, <2>2, <2>3, <2>4, QuietRequest DEF DeleteLock, dbVars
<1>3. ASSUME NEW a \in Users, NEW u \in Users, NEW d \in Documents, OwnerLock(r, a, u, d)
      PROVE SafetyInv'
  <2>1. req'[r].pc = "owner_locked" /\ req'[r].doc = d /\ req'[r].version = doc[d].version
        /\ \A q \in Requests \ {r} : req'[q] = req[q]
    BY <1>0, <1>3 DEF OwnerLock, NoRequest, TypeInv, TypeOK
  <2>2. Protected(r)'
    BY <1>0, <1>3, <2>1 DEF Protected, OwnerLock, Lock, dbVars, Exists, TypeInv, TypeOK
  <2>3. FreshIds'
    BY <1>0, <1>3, <2>1, FreshFrame DEF SafetyInv, OwnerLock, dbVars
  <2>4. ASSUME NEW q \in Requests \ {r}, req[q].pc \in LockedSteps
        PROVE lock'[req[q].doc] = lock[req[q].doc]
    BY <1>0, <1>3, <2>4, OthersKeepLocks DEF OwnerLock, SafetyInv, LockProtocol
  <2> QED
    BY <1>0, <1>3, <2>1, <2>2, <2>3, <2>4, QuietRequest DEF OwnerLock, dbVars
<1> QED
  BY <1>1, <1>2, <1>3 DEF Arrive

LEMMA SafeEnqueueFirst ==
    ASSUME RowLocks, SafetyInv, NEW r \in Requests, EnqueueFirst(r) PROVE SafetyInv'
<1>0. TypeInv /\ TypeInv'
  BY TypeEnqueueFirst DEF SafetyInv
<1> USE DEF SignSteps, LockedSteps, CheckedSteps, DeleteSteps, OwnerSteps, RequestSteps
<1>1. CASE EnqueueLock(r)
  <2>1. req'[r].pc = "sign_checked" /\ req'[r].doc = req[r].doc /\ req'[r].job = req[r].job
        /\ \A q \in Requests \ {r} : req'[q] = req[q]
    BY <1>0, <1>1, AdvanceType DEF EnqueueLock, TypeInv
  <2>2. req[r].doc \in Documents
    BY <1>0, <1>1 DEF EnqueueLock, TypeInv, Shape
  <2>3. Protected(r)'
    BY <1>0, <1>1, <2>1, <2>2
    DEF Protected, EnqueueLock, Lock, dbVars, Exists, ActiveOn, JobsOf, HasRow, Active,
        TypeInv, TypeOK
  <2>4. FreshIds'
    BY <1>0, <1>1, <2>1, FreshFrame DEF SafetyInv, EnqueueLock, dbVars
  <2>5. ASSUME NEW q \in Requests \ {r}, req[q].pc \in LockedSteps
        PROVE lock'[req[q].doc] = lock[req[q].doc]
    BY <1>0, <1>1, <2>2, <2>5, OthersKeepLocks DEF EnqueueLock, SafetyInv, LockProtocol
  <2> QED
    BY <1>0, <1>1, <2>1, <2>3, <2>4, <2>5, QuietRequest DEF EnqueueLock, dbVars
<1>2. CASE EnqueueRefuse(r)
  BY <1>0, <1>2, SafeAnswer DEF EnqueueRefuse, dbVars
<1> QED
  BY <1>1, <1>2 DEF EnqueueFirst

\* Two requests past their FOR UPDATE are on different documents.
LEMMA OneHolder ==
    ASSUME SafetyInv, NEW r \in Requests, NEW q \in Requests \ {r},
           req[r].pc \in LockedSteps, req[q].pc \in LockedSteps
    PROVE  req[r].doc # req[q].doc
  BY DEF SafetyInv, LockProtocol, Protected

\* What a commit leaves to the other requests: the rows of one document change
\* under the lock of the request that answers.
LEMMA OthersProtected ==
    ASSUME RowLocks, SafetyInv, TypeInv', NEW r \in Requests, Answer(r),
           req[r].pc \in LockedSteps,
           \A d \in Documents \ {req[r].doc} :
              doc'[d] = doc[d] /\ JobsOf(d)' = JobsOf(d) /\ ActiveOn(d)' = ActiveOn(d)
    PROVE  LockProtocol'
<1> USE DEF SignSteps, LockedSteps, CheckedSteps, DeleteSteps, OwnerSteps, RequestSteps
<1>0. TypeInv
  BY DEF SafetyInv
<1>1. req'[r].pc = "idle" /\ \A q \in Requests \ {r} : req'[q] = req[q]
  BY <1>0, AnswerType DEF TypeInv, NoRequest
<1>2. ASSUME NEW q \in Requests PROVE Protected(q)'
  <2>1. CASE req'[q].pc \notin LockedSteps
    BY <2>1 DEF Protected
  <2>2. CASE req'[q].pc \in LockedSteps
    <3>1. q # r /\ req'[q] = req[q] /\ req[q].pc \in LockedSteps
      BY <1>1, <2>2
    <3>2. req[q].doc \in Documents \ {req[r].doc}
      BY <1>0, <3>1, OneHolder DEF TypeInv, Shape
    <3>3. lock'[req[q].doc] = lock[req[q].doc] /\ Protected(q)
      BY <1>0, <3>1, OthersKeepLocks DEF SafetyInv, LockProtocol
    <3> QED
      BY <1>0, <3>1, <3>2, <3>3, ProtectedFrame
  <2> QED
    BY <2>1, <2>2
<1> QED
  BY <1>2 DEF LockProtocol

LEMMA SafeEnqueueCommit ==
    ASSUME RowLocks, SafetyInv, TypeInv', NEW r \in Requests, EnqueueCommit(r)
    PROVE  SafetyInv'
<1> DEFINE d == req[r].doc
           j == req[r].job
<1>0. /\ TypeInv /\ d \in Documents /\ j \in Jobs /\ job[j].status = "none"
      /\ req[r].pc \in LockedSteps /\ Exists(d) /\ ActiveOn(d) = {}
  BY DEF SafetyInv, TypeInv, Shape, FreshIds, LockProtocol, Protected, EnqueueCommit,
         SignSteps, LockedSteps, CheckedSteps, RequestSteps
<1>1. /\ job'[j].status = "queued" /\ job'[j].doc = d
      /\ \A k \in Jobs \ {j} : job'[k] = job[k]
      /\ UNCHANGED <<doc, artifacts, worker>>
  BY <1>0 DEF EnqueueCommit, TypeInv, TypeOK
<1>2. req'[r].pc = "idle" /\ \A q \in Requests \ {r} : req'[q] = req[q]
  BY <1>0, AnswerType DEF TypeInv, NoRequest, EnqueueCommit
<1> HIDE DEF d, j
<1>3. FreshIds'
  BY <1>0, <1>1, <1>2 DEF d, j, SafetyInv, FreshIds, TypeInv, Shape, SignSteps, EnqueueCommit
<1>4. LockProtocol'
  <2>1. ASSUME NEW e \in Documents \ {d}
        PROVE doc'[e] = doc[e] /\ JobsOf(e)' = JobsOf(e) /\ ActiveOn(e)' = ActiveOn(e)
    BY <1>0, <1>1 DEF JobsOf, ActiveOn, Active, HasRow
  <2> QED
    BY <1>0, <2>1, OthersProtected DEF d, EnqueueCommit
<1>5. WorkerView'
  BY <1>0, <1>1 DEF SafetyInv, WorkerView, TypeInv, Shape, RunningSteps, LoadedSteps,
     BusySteps, WorkerSteps
<1>6. RowsInv'
  <2>1. OneActiveAttempt' /\ NoOrphanAttempt'
    BY <1>0, <1>1 DEF SafetyInv, RowsInv, OneActiveAttempt, NoOrphanAttempt, Active, Exists,
       ActiveOn, JobsOf, HasRow, InFlight
  <2>2. SignedConsistently'
    BY <1>0, <1>1 DEF SafetyInv, RowsInv, SignedConsistently, TypeInv, TypeOK
  <2> QED
    BY <2>1, <2>2 DEF RowsInv
<1> QED
  BY <1>3, <1>4, <1>5, <1>6 DEF SafetyInv

LEMMA SafeDeleteCommit ==
    ASSUME RowLocks, SafetyInv, TypeInv', NEW r \in Requests, DeleteCommit(r)
    PROVE  SafetyInv'
<1> DEFINE d == req[r].doc
<1>0. /\ TypeInv /\ d \in Documents /\ req[r].pc \in LockedSteps
      /\ doc[d].state # "signed" /\ ActiveOn(d) = {} /\ req[r].cascade = JobsOf(d)
  BY DEF SafetyInv, TypeInv, Shape, LockProtocol, Protected, DeleteCommit,
         LockedSteps, CheckedSteps, DeleteSteps, RequestSteps
<1>1. /\ \A j \in JobsOf(d) : job'[j].status = "gone"
      /\ \A j \in Jobs \ JobsOf(d) : job'[j] = job[j]
      /\ doc'[d].state = "deleted"
      /\ \A e \in Documents \ {d} : doc'[e] = doc[e]
      /\ worker' = worker
  BY <1>0 DEF DeleteCommit, TypeInv, TypeOK, NoJob, JobsOf, DocumentRow
<1>2. \A a \in artifacts : a.doc # d /\ a.job \notin JobsOf(d)
  BY <1>0 DEF SafetyInv, RowsInv, SignedConsistently, JobsOf
<1>3. artifacts' = artifacts
  BY <1>0, <1>2 DEF DeleteCommit
<1>4. req'[r].pc = "idle" /\ \A q \in Requests \ {r} : req'[q] = req[q]
  BY <1>0, AnswerType DEF TypeInv, NoRequest, DeleteCommit
<1> HIDE DEF d
<1>5. FreshIds'
  BY <1>0, <1>1, <1>4 DEF SafetyInv, FreshIds, TypeInv, Shape, SignSteps, JobsOf, HasRow
<1>6. LockProtocol'
  <2>1. ASSUME NEW e \in Documents \ {d}
        PROVE doc'[e] = doc[e] /\ JobsOf(e)' = JobsOf(e) /\ ActiveOn(e)' = ActiveOn(e)
    BY <1>0, <1>1 DEF JobsOf, ActiveOn, Active, HasRow, InFlight
  <2> QED
    BY <1>0, <2>1, OthersProtected DEF d, DeleteCommit
<1>7. WorkerView'
  <2>1. worker.pc \in RunningSteps =>
          /\ worker.job \in Jobs /\ job[worker.job].status = "running"
          /\ job[worker.job].doc \in Documents \ {d} /\ worker.job \notin JobsOf(d)
    BY <1>0 DEF SafetyInv, WorkerView, TypeInv, Shape, RunningSteps, BusySteps,
       ActiveOn, JobsOf, HasRow, Active, InFlight
  <2> QED
    BY <1>1, <2>1 DEF SafetyInv, WorkerView, RunningSteps, LoadedSteps, BusySteps, WorkerSteps
<1>8. RowsInv'
  <2>1. \A j \in Jobs : job'[j].status \in {"queued", "running", "completed"} =>
           job'[j] = job[j] /\ job[j].doc # d
    <3>1. ASSUME NEW j \in Jobs, job'[j].status \in {"queued", "running", "completed"}
          PROVE job'[j] = job[j] /\ job[j].doc # d
      BY <1>0, <1>1, <3>1 DEF JobsOf, HasRow
    <3> QED
      BY <3>1
  <2>2. OneActiveAttempt' /\ NoOrphanAttempt'
    BY <1>1, <2>1 DEF SafetyInv, RowsInv, OneActiveAttempt, NoOrphanAttempt, Active, Exists,
       InFlight, TypeInv, Shape, HasRow
  <2>3. SignedConsistently'
    BY <1>0, <1>1, <1>2, <1>3, <2>1 DEF SafetyInv, RowsInv, SignedConsistently, TypeInv, TypeOK
  <2> QED
    BY <2>2, <2>3 DEF RowsInv
<1> QED
  BY <1>5, <1>6, <1>7, <1>8 DEF SafetyInv

LEMMA SafeOwnerCommit ==
    ASSUME RowLocks, SafetyInv, TypeInv', NEW r \in Requests, OwnerCommit(r)
    PROVE  SafetyInv'
<1> DEFINE d == req[r].doc
<1>0. /\ TypeInv /\ d \in Documents /\ req[r].pc \in LockedSteps /\ ActiveOn(d) = {}
  BY DEF SafetyInv, TypeInv, Shape, LockProtocol, Protected, OwnerCommit,
         LockedSteps, CheckedSteps, RequestSteps
<1>1. /\ doc'[d].state = doc[d].state
      /\ \A e \in Documents \ {d} : doc'[e] = doc[e]
      /\ UNCHANGED <<job, artifacts, worker>>
  BY <1>0 DEF OwnerCommit, TypeInv, TypeOK, DocumentRow
<1>2. req'[r].pc = "idle" /\ \A q \in Requests \ {r} : req'[q] = req[q]
  BY <1>0, AnswerType DEF TypeInv, NoRequest, OwnerCommit
<1> HIDE DEF d
<1>3. FreshIds'
  BY <1>0, <1>1, <1>2, FreshFrame DEF SafetyInv, SignSteps
<1>4. LockProtocol'
  <2>1. ASSUME NEW e \in Documents \ {d}
        PROVE doc'[e] = doc[e] /\ JobsOf(e)' = JobsOf(e) /\ ActiveOn(e)' = ActiveOn(e)
    BY <1>0, <1>1 DEF JobsOf, ActiveOn, Active, HasRow
  <2> QED
    BY <1>0, <2>1, OthersProtected DEF d, OwnerCommit
<1>5. WorkerView'
  <2>1. worker.pc \in RunningSteps =>
          /\ job[worker.job].status = "running" /\ job[worker.job].doc \in Documents \ {d}
    BY <1>0 DEF SafetyInv, WorkerView, TypeInv, Shape, RunningSteps, BusySteps,
       ActiveOn, JobsOf, HasRow, Active, InFlight
  <2> QED
    BY <1>1, <2>1 DEF SafetyInv, WorkerView, RunningSteps, LoadedSteps, BusySteps, WorkerSteps
<1>6. RowsInv'
  <2>1. \A e \in Documents : doc'[e].state = doc[e].state
    BY <1>1
  <2> QED
    BY <1>0, <1>1, <2>1 DEF SafetyInv, RowsInv, OneActiveAttempt, NoOrphanAttempt,
       SignedConsistently, Active, Exists, TypeInv, TypeOK, Shape, HasRow, InFlight
<1> QED
  BY <1>3, <1>4, <1>5, <1>6 DEF SafetyInv

LEMMA SafeProceed ==
    ASSUME RowLocks, SafetyInv, NEW r \in Requests, Proceed(r) PROVE SafetyInv'
<1>0. TypeInv /\ TypeInv'
  BY TypeProceed DEF SafetyInv
<1> USE DEF SignSteps, LockedSteps, CheckedSteps, DeleteSteps, OwnerSteps, RequestSteps
<1>1. CASE EnqueueNumber(r)
  <2>0. PICK n : req' = [req EXCEPT ![r] = [@ EXCEPT !.pc = "sign_numbered", !.attempt = n]]
    BY <1>1 DEF EnqueueNumber
  <2>5. req \in [Requests -> RequestState] /\ req[r] \in RequestState
    BY <1>0 DEF TypeInv, TypeOK
  <2>1. /\ req'[r].pc = "sign_numbered"
        /\ req[r].pc = "sign_checked" /\ req'[r].doc = req[r].doc /\ req'[r].job = req[r].job
        /\ \A q \in Requests \ {r} : req'[q] = req[q]
    BY <1>1, <2>0, <2>5 DEF EnqueueNumber, RequestState
  <2>2. Protected(r)'
    <3>1. Protected(r) /\ UNCHANGED <<doc, job, lock>>
      BY <1>1 DEF SafetyInv, LockProtocol, EnqueueNumber, dbVars
    <3> QED
      BY <1>1, <2>1, <3>1 DEF Protected, EnqueueNumber, Exists, ActiveOn, JobsOf, HasRow, Active
  <2>3. FreshIds'
    BY <1>0, <1>1, <2>1, FreshFrame DEF SafetyInv, EnqueueNumber, dbVars
  <2> QED
    BY <1>0, <1>1, <2>1, <2>2, <2>3, QuietRequest DEF EnqueueNumber, dbVars
<1>2. CASE EnqueueCommit(r)
  BY <1>0, <1>2, SafeEnqueueCommit
<1>3. CASE EnqueueRollback(r)
  BY <1>0, <1>3, SafeAnswer DEF EnqueueRollback, dbVars
<1>4. CASE DeleteCheck(r)
  <2>1. /\ req'[r].pc = "delete_checked" /\ req[r].pc = "delete_locked"
        /\ req'[r].doc = req[r].doc
        /\ \A q \in Requests \ {r} : req'[q] = req[q]
    BY <1>0, <1>4, AdvanceType DEF DeleteCheck, TypeInv
  <2>2. Protected(r)'
    <3>1. Protected(r) /\ UNCHANGED <<doc, job, lock>>
      BY <1>4 DEF SafetyInv, LockProtocol, DeleteCheck, dbVars
    <3> QED
      BY <1>4, <2>1, <3>1 DEF Protected, DeleteCheck, Exists, ActiveOn, JobsOf, HasRow, Active
  <2>3. FreshIds'
    BY <1>0, <1>4, <2>1, FreshFrame DEF SafetyInv, DeleteCheck, dbVars
  <2> QED
    BY <1>0, <1>4, <2>1, <2>2, <2>3, QuietRequest DEF DeleteCheck, dbVars
<1>5. CASE DeleteCascade(r)
  <2>1. /\ req'[r].pc = "delete_loaded" /\ req[r].pc = "delete_checked"
        /\ req'[r].doc = req[r].doc /\ req'[r].cascade = JobsOf(req[r].doc)
        /\ \A q \in Requests \ {r} : req'[q] = req[q]
    <3>1. req \in [Requests -> RequestState] /\ req[r] \in RequestState
      BY <1>0 DEF TypeInv, TypeOK
    <3> QED
      BY <1>5, <3>1 DEF DeleteCascade, RequestState
  <2>2. Protected(r)'
    <3>1. Protected(r) /\ UNCHANGED <<doc, job, lock>>
      BY <1>5 DEF SafetyInv, LockProtocol, DeleteCascade, dbVars
    <3> QED
      BY <1>5, <2>1, <3>1 DEF Protected, DeleteCascade, Exists, ActiveOn, JobsOf, HasRow, Active
  <2>3. FreshIds'
    BY <1>0, <1>5, <2>1, FreshFrame DEF SafetyInv, DeleteCascade, dbVars
  <2> QED
    BY <1>0, <1>5, <2>1, <2>2, <2>3, QuietRequest DEF DeleteCascade, dbVars
<1>6. CASE DeleteCommit(r)
  BY <1>0, <1>6, SafeDeleteCommit
<1>7. CASE OwnerCheck(r)
  <2>1. /\ req'[r].pc = "owner_checked" /\ req[r].pc = "owner_locked"
        /\ req'[r].doc = req[r].doc /\ req'[r].version = req[r].version
        /\ \A q \in Requests \ {r} : req'[q] = req[q]
    BY <1>0, <1>7, AdvanceType DEF OwnerCheck, TypeInv
  <2>2. Protected(r)'
    <3>1. Protected(r) /\ UNCHANGED <<doc, job, lock>>
      BY <1>7 DEF SafetyInv, LockProtocol, OwnerCheck, dbVars
    <3> QED
      BY <1>7, <2>1, <3>1 DEF Protected, OwnerCheck, Exists, ActiveOn, JobsOf, HasRow, Active
  <2>3. FreshIds'
    BY <1>0, <1>7, <2>1, FreshFrame DEF SafetyInv, OwnerCheck, dbVars
  <2> QED
    BY <1>0, <1>7, <2>1, <2>2, <2>3, QuietRequest DEF OwnerCheck, dbVars
<1>8. CASE OwnerCommit(r)
  BY <1>0, <1>8, SafeOwnerCommit
<1>9. CASE LockedRefuse(r)
  BY <1>0, <1>9, SafeAnswer DEF LockedRefuse, dbVars
<1> QED
  BY <1>1, <1>2, <1>3, <1>4, <1>5, <1>6, <1>7, <1>8, <1>9 DEF Proceed

LEMMA SafeAdministration == SafetyInv /\ Administration => SafetyInv'
<1> SUFFICES ASSUME SafetyInv, Administration PROVE SafetyInv'
  OBVIOUS
<1>0. TypeInv /\ TypeInv'
  BY TypeAdministration DEF SafetyInv
<1>1. ASSUME NEW u \in Users, NEW d \in Documents, UploadDocument(u, d) PROVE SafetyInv'
  <2>1. /\ ~Exists(d) /\ doc[d].state = "unborn" /\ doc'[d].state = "to_sign"
        /\ \A e \in Documents \ {d} : doc'[e] = doc[e]
        /\ UNCHANGED <<job, artifacts, worker, req, lock>>
    <3>1. doc \in [Documents -> DocumentRow] /\ doc[d].state = "unborn"
          /\ UNCHANGED <<job, artifacts, memVars>>
      BY <1>0, <1>1 DEF UploadDocument, TypeInv, TypeOK
    <3>2. /\ doc'[d].state = "to_sign"
          /\ \A e \in Documents \ {d} : doc'[e] = doc[e]
      BY <1>1, <3>1 DEF UploadDocument
    <3> QED
      BY <3>1, <3>2 DEF memVars, Exists, Present
  <2>2. FreshIds'
    BY <2>1 DEF SafetyInv, FreshIds
  <2>3. LockProtocol'
    <3>1. ASSUME NEW q \in Requests PROVE Protected(q)'
      <4>1. Protected(q) /\ req'[q] = req[q] /\ lock' = lock
        BY <2>1 DEF SafetyInv, LockProtocol
      <4>2. CASE req[q].pc \notin LockedSteps
        BY <4>1, <4>2 DEF Protected, LockedSteps, CheckedSteps, DeleteSteps, OwnerSteps,
           RequestSteps
      <4>3. CASE req[q].pc \in LockedSteps
        <5>1. req[q].doc \in Documents \ {d}
          BY <1>0, <2>1, <4>1, <4>3 DEF Protected, TypeInv, Shape, LockedSteps, RequestSteps
        <5>2. JobsOf(req[q].doc)' = JobsOf(req[q].doc) /\ ActiveOn(req[q].doc)' = ActiveOn(req[q].doc)
          BY <2>1, <4>1 DEF JobsOf, ActiveOn, Active, HasRow
        <5> QED
          BY <1>0, <2>1, <4>1, <5>1, <5>2, ProtectedFrame
      <4> QED
        BY <4>2, <4>3
    <3> QED
      BY <3>1 DEF LockProtocol
  <2>4. \A j \in Jobs : Active(j) => job[j].doc \in Documents \ {d}
    BY <1>0, <2>1 DEF SafetyInv, RowsInv, NoOrphanAttempt, TypeInv, Shape, Active, HasRow,
       InFlight
  <2>5. WorkerView'
    BY <1>0, <2>1, <2>4 DEF SafetyInv, WorkerView, Active, InFlight, LoadedSteps,
       RunningSteps, BusySteps, WorkerSteps, TypeInv, Shape
  <2>6. RowsInv'
    BY <1>0, <2>1, <2>4 DEF SafetyInv, RowsInv, OneActiveAttempt, NoOrphanAttempt,
       SignedConsistently, Active, Exists, TypeInv, TypeOK
  <2> QED
    BY <1>0, <2>2, <2>3, <2>5, <2>6 DEF SafetyInv
<1>2. ASSUME UNCHANGED <<doc, job, artifacts, memVars>> PROVE SafetyInv'
  <2>1. FreshIds' /\ LockProtocol' /\ WorkerView' /\ RowsInv'
    BY <1>2, RowsFrame DEF SafetyInv, FreshIds, LockProtocol, Protected, WorkerView, memVars,
       Exists, ActiveOn, JobsOf, HasRow, Active
  <2> QED
    BY <1>0, <2>1 DEF SafetyInv
<1> QED
  BY <1>1, <1>2 DEF Administration, UpdateRole, UpdateSavedPin

\* A step of the worker that writes no row and takes no attempt.
LEMMA QuietWork ==
    ASSUME SafetyInv, TypeInv', UNCHANGED <<doc, job, artifacts, lock, req>>, WorkerView'
    PROVE  SafetyInv'
  BY RowsFrame DEF SafetyInv, FreshIds, LockProtocol, Protected, Exists, ActiveOn, JobsOf,
     HasRow, Active

LEMMA SafeWork == SafetyInv /\ Work => SafetyInv'
<1> SUFFICES ASSUME SafetyInv, Work PROVE SafetyInv'
  OBVIOUS
<1>0. TypeInv /\ TypeOK /\ TypeInv'
  BY TypeWork DEF SafetyInv, TypeInv
<1> USE DEF RunningSteps, LoadedSteps, BusySteps, WorkerSteps
<1>1. CASE ReleaseOrphansFails
  BY <1>0, <1>1, GotoType, QuietWork DEF ReleaseOrphansFails, WorkerView, dbVars
<1>2. ASSUME NEW j \in Jobs, ClaimNextSignature(j) PROVE SafetyInv'
  <2>1. /\ job[j].status = "queued" /\ job'[j].status = "running" /\ job'[j].doc = job[j].doc
        /\ \A k \in Jobs \ {j} : job'[k] = job[k]
        /\ worker'.pc = "claimed" /\ worker'.job = j
        /\ UNCHANGED <<doc, artifacts, lock, req>>
    BY <1>0, <1>2 DEF ClaimNextSignature, TypeOK, JobRow, StartingWorker
  <2>2. \A k \in Jobs : (Active(k)' <=> Active(k)) /\ (HasRow(k)' <=> HasRow(k))
                     /\ job'[k].doc = job[k].doc
                     /\ (job'[k].status = "completed" <=> job[k].status = "completed")
    BY <2>1 DEF Active, HasRow, InFlight
  <2>3. FreshIds'
    BY <1>0, <2>1 DEF SafetyInv, FreshIds, TypeInv, Shape
  <2>4. \A d : JobsOf(d)' = JobsOf(d) /\ ActiveOn(d)' = ActiveOn(d)
    BY <2>2 DEF JobsOf, ActiveOn
  <2>5. LockProtocol'
    BY <2>1, <2>4 DEF SafetyInv, LockProtocol, Protected, Exists
  <2>6. WorkerView'
    BY <2>1 DEF WorkerView
  <2>7. RowsInv'
    BY <1>0, <2>1, <2>2 DEF SafetyInv, RowsInv, OneActiveAttempt, NoOrphanAttempt,
       SignedConsistently, Exists, TypeOK
  <2> QED
    BY <1>0, <2>3, <2>5, <2>6, <2>7 DEF SafetyInv
<1>3. CASE LoadAttempt
  <2>1. WorkerView'
    <3>1. CASE Goto("recover")
      BY <1>0, <1>3, <3>1, GotoType DEF LoadAttempt, SafetyInv, WorkerView, dbVars
    <3>2. CASE ~Goto("recover")
      <4>1. /\ worker'.job = worker.job
            /\ worker'.state = doc[job[worker.job].doc].state
            /\ worker'.version = doc[job[worker.job].doc].version
        BY <1>0, <1>3, <3>2 DEF LoadAttempt, TypeOK, WorkerState, Mine
      <4>2. job[worker.job].status = "running" /\ UNCHANGED <<doc, job>>
        BY <1>3 DEF LoadAttempt, Mine, dbVars
      <4> QED
        BY <4>1, <4>2 DEF WorkerView
    <3> QED
      BY <3>1, <3>2
  <2> QED
    BY <1>0, <1>3, <2>1, QuietWork DEF LoadAttempt, dbVars
<1>4. CASE LoadNothing
  BY <1>0, <1>4, QuietWork DEF LoadNothing, StartingWorker, WorkerView, dbVars
<1>5. CASE AcquireIdentity
  <2>1. WorkerView'
    BY <1>0, <1>5, GotoType DEF AcquireIdentity, SafetyInv, WorkerView, dbVars
  <2> QED
    BY <1>0, <1>5, <2>1, QuietWork DEF AcquireIdentity, dbVars
<1>6. CASE CardSigns
  <2>1. WorkerView'
    BY <1>0, <1>6, GotoType DEF CardSigns, SafetyInv, WorkerView, dbVars
  <2> QED
    BY <1>0, <1>6, <2>1, QuietWork DEF CardSigns, dbVars
<1>7. CASE StoreResult
  <2>1. WorkerView'
    BY <1>0, <1>7, GotoType DEF StoreResult, SafetyInv, WorkerView, dbVars
  <2> QED
    BY <1>0, <1>7, <2>1, QuietWork DEF StoreResult, dbVars
<1>8. CASE RecoverFails
  <2>1. WorkerView'
    BY <1>0, <1>8, GotoType DEF RecoverFails, WorkerView, dbVars
  <2> QED
    BY <1>0, <1>8, <2>1, QuietWork DEF RecoverFails, dbVars
<1>9. CASE ReleaseAttempt
  BY <1>0, <1>9, QuietWork DEF ReleaseAttempt, StartingWorker, WorkerView, dbVars
<1> QED
  BY <1>1, <1>2, <1>3, <1>4, <1>5, <1>6, <1>7, <1>8, <1>9 DEF Work, Load

\* The worker writes the rows of documents that no request holds.
LEMMA UnlockedRows ==
    ASSUME RowLocks, SafetyInv, UNCHANGED <<req, lock>>, NEW D,
           \A d \in D : CanLock(d),
           \A d \in Documents \ D :
              doc'[d] = doc[d] /\ JobsOf(d)' = JobsOf(d) /\ ActiveOn(d)' = ActiveOn(d)
    PROVE  LockProtocol'
<1> USE DEF LockedSteps, CheckedSteps, DeleteSteps, OwnerSteps, RequestSteps
<1>1. ASSUME NEW q \in Requests PROVE Protected(q)'
  <2>1. Protected(q) /\ req'[q] = req[q] /\ lock' = lock /\ TypeInv
    BY DEF SafetyInv, LockProtocol
  <2>2. CASE req[q].pc \notin LockedSteps
    BY <2>1, <2>2 DEF Protected
  <2>3. CASE req[q].pc \in LockedSteps
    <3>1. req[q].doc \in Documents /\ lock[req[q].doc] = q /\ q # None
      BY <2>1, <2>3, WorkflowAssumption DEF Protected, TypeInv, Shape
    <3>2. req[q].doc \notin D
      BY <3>1 DEF CanLock
    <3> QED
      BY <2>1, <3>1, <3>2, ProtectedFrame
  <2> QED
    BY <2>2, <2>3
<1> QED
  BY <1>1 DEF LockProtocol

\* The same for a step that takes the row of one document.
LEMMA UnlockedRow ==
    ASSUME RowLocks, SafetyInv, UNCHANGED <<req, lock>>, NEW d, CanLock(d),
           \A e \in Documents \ {d} :
              doc'[e] = doc[e] /\ JobsOf(e)' = JobsOf(e) /\ ActiveOn(e)' = ActiveOn(e)
    PROVE  LockProtocol'
<1> DEFINE D == {d}
<1>1. \A e \in D : CanLock(e)
  OBVIOUS
<1>2. \A e \in Documents \ D :
         doc'[e] = doc[e] /\ JobsOf(e)' = JobsOf(e) /\ ActiveOn(e)' = ActiveOn(e)
  OBVIOUS
<1> HIDE DEF D
<1> QED
  BY <1>1, <1>2, UnlockedRows

LEMMA SafeReleaseOrphans ==
    ASSUME RowLocks, SafetyInv, TypeInv', ReleaseOrphans PROVE SafetyInv'
<1> DEFINE orphans == {j \in Jobs : job[j].status = "running"}
           hit     == {d \in Documents : \E j \in orphans : job[j].doc = d}
<1>0. TypeInv /\ TypeOK
  BY DEF SafetyInv, TypeInv
<1>1. /\ \A j \in orphans : job'[j].status = "failed" /\ job'[j].doc = job[j].doc
      /\ \A j \in Jobs \ orphans : job'[j] = job[j]
      /\ \A d \in Documents \ hit : doc'[d] = doc[d]
      /\ \A d \in Documents : doc'[d].state = "signed" <=> doc[d].state = "signed"
      /\ \A d \in Documents : Exists(d)' <=> Exists(d)
      /\ worker'.pc = "idle"
      /\ UNCHANGED <<artifacts, req, lock>>
      /\ \A d \in hit : CanLock(d)
  <2>1. \A j \in orphans : job'[j].status = "failed" /\ job'[j].doc = job[j].doc
    BY <1>0 DEF ReleaseOrphans, TypeOK, JobRow
  <2>2. \A d \in Documents : doc'[d] = IF d \in hit THEN FailedDocument(doc[d]) ELSE doc[d]
    BY DEF ReleaseOrphans
  <2>3. \A d \in Documents : doc[d] \in DocumentRow
    BY <1>0 DEF TypeOK
  <2>4. \A d \in Documents : (doc'[d].state = "signed" <=> doc[d].state = "signed")
                          /\ (doc'[d].state \in Present <=> doc[d].state \in Present)
    BY <2>2, <2>3, FailedDocumentType
  <2> QED
    BY <1>0, <2>1, <2>2, <2>4, GotoType DEF ReleaseOrphans, Exists, WorkerSteps
<1>2. \A j \in Jobs : /\ job'[j].doc = job[j].doc
                      /\ HasRow(j)' <=> HasRow(j)
                      /\ Active(j)' => Active(j)
                      /\ job'[j].status \in {"none", "completed"} <=>
                         job[j].status \in {"none", "completed"}
                      /\ job'[j].status = "none" <=> job[j].status = "none"
  BY <1>1 DEF HasRow, Active, InFlight
<1>3. FreshIds'
  BY <1>0, <1>1, <1>2 DEF SafetyInv, FreshIds, TypeInv, Shape
<1>4. LockProtocol'
  <2>1. ASSUME NEW d \in Documents \ hit
        PROVE doc'[d] = doc[d] /\ JobsOf(d)' = JobsOf(d) /\ ActiveOn(d)' = ActiveOn(d)
    BY <1>1, <1>2 DEF JobsOf, ActiveOn, Active
  <2> HIDE DEF hit
  <2> QED
    BY <1>1, <2>1, UnlockedRows
<1>5. WorkerView'
  BY <1>1 DEF WorkerView, RunningSteps, LoadedSteps, BusySteps, WorkerSteps
<1>6. RowsInv'
  <2>1. OneActiveAttempt' /\ NoOrphanAttempt'
    BY <1>0, <1>1, <1>2 DEF SafetyInv, RowsInv, OneActiveAttempt, NoOrphanAttempt, TypeInv,
       Shape, Active, HasRow, InFlight
  <2>2. SignedConsistently'
    BY <1>0, <1>1, <1>2 DEF SafetyInv, RowsInv, SignedConsistently, TypeOK
  <2> QED
    BY <2>1, <2>2 DEF RowsInv
<1> QED
  BY <1>3, <1>4, <1>5, <1>6 DEF SafetyInv

LEMMA SafeFinalizeCommit ==
    ASSUME RowLocks, SafetyInv, TypeInv', FinalizeCommit PROVE SafetyInv'
<1> DEFINE d == job[Mine].doc
<1>0. TypeInv /\ TypeOK
  BY DEF SafetyInv, TypeInv
<1>1. /\ Mine \in Jobs /\ job[Mine].status = "running" /\ d \in Documents /\ Exists(d)
      /\ doc[d].state # "signed" /\ CanLock(d) /\ \A a \in artifacts : a.doc # d /\ a.job # Mine
  BY <1>0 DEF FinalizeCommit, MayFinalize, SafetyInv, WorkerView, RowsInv, SignedConsistently,
     TypeInv, Shape, Mine, RunningSteps, LoadedSteps, BusySteps, WorkerSteps
<1>2. /\ job'[Mine].status = "completed" /\ job'[Mine].doc = d
      /\ \A j \in Jobs \ {Mine} : job'[j] = job[j]
      /\ doc'[d].state = "signed"
      /\ \A e \in Documents \ {d} : doc'[e] = doc[e]
      /\ artifacts' = artifacts \cup {[doc |-> d, job |-> Mine]}
      /\ worker'.pc = "release"
      /\ UNCHANGED <<req, lock>>
  <2>1. job'[Mine].status = "completed" /\ job'[Mine].doc = d
        /\ \A j \in Jobs \ {Mine} : job'[j] = job[j]
    BY <1>0, <1>1 DEF FinalizeCommit, TypeOK, JobRow
  <2>2. doc'[d].state = "signed" /\ \A e \in Documents \ {d} : doc'[e] = doc[e]
    BY <1>0, <1>1 DEF FinalizeCommit, TypeOK, DocumentRow
  <2>3. worker'.pc = "release"
    BY <1>0, GotoType DEF FinalizeCommit, WorkerSteps
  <2> QED
    BY <2>1, <2>2, <2>3 DEF FinalizeCommit
<1> HIDE DEF d
<1>3. FreshIds'
  BY <1>0, <1>1, <1>2 DEF SafetyInv, FreshIds, TypeInv, Shape
<1>4. LockProtocol'
  <2>1. ASSUME NEW e \in Documents \ {d}
        PROVE doc'[e] = doc[e] /\ JobsOf(e)' = JobsOf(e) /\ ActiveOn(e)' = ActiveOn(e)
    BY <1>1, <1>2 DEF d, JobsOf, ActiveOn, Active, HasRow
  <2> QED
    BY <1>1, <1>2, <2>1, UnlockedRow
<1>5. WorkerView'
  BY <1>2 DEF WorkerView, RunningSteps, LoadedSteps, BusySteps, WorkerSteps
<1>6. RowsInv'
  <2>1. OneActiveAttempt' /\ NoOrphanAttempt'
    BY <1>0, <1>1, <1>2 DEF SafetyInv, RowsInv, OneActiveAttempt, NoOrphanAttempt, TypeInv,
       Shape, Active, HasRow, InFlight, Exists, Present
  <2>2. SignedConsistently'
    <3>0. /\ [doc |-> d, job |-> Mine] \in artifacts'
          /\ \A a \in artifacts' : a \in artifacts \/ (a.doc = d /\ a.job = Mine)
          /\ artifacts \subseteq artifacts'
      BY <1>2
    <3>1. \A e \in Documents : doc'[e].state = "signed" <=> \E a \in artifacts' : a.doc = e
      <4>1. ASSUME NEW e \in Documents \ {d}
            PROVE doc'[e].state = "signed" <=> \E a \in artifacts' : a.doc = e
        <5>1. doc[e].state = "signed" <=> \E a \in artifacts : a.doc = e
          BY DEF SafetyInv, RowsInv, SignedConsistently
        <5> QED
          BY <1>2, <3>0, <5>1
      <4>2. doc'[d].state = "signed" /\ \E a \in artifacts' : a.doc = d
        BY <1>2, <3>0
      <4> QED
        BY <4>1, <4>2
    <3>2. \A a, b \in artifacts' : a.doc = b.doc => a = b
      BY <1>1, <1>2 DEF SafetyInv, RowsInv, SignedConsistently
    <3>3. \A a \in artifacts' : job'[a.job].doc = a.doc
      <4>1. \A a \in artifacts : a.job \in Jobs \ {Mine}
        BY <1>0, <1>1 DEF TypeOK
      <4> QED
        BY <1>1, <1>2, <4>1 DEF SafetyInv, RowsInv, SignedConsistently
    <3>4. \A j \in Jobs : job'[j].status = "completed" <=> \E a \in artifacts' : a.job = j
      <4>1. ASSUME NEW j \in Jobs \ {Mine}
            PROVE job'[j].status = "completed" <=> \E a \in artifacts' : a.job = j
        <5>1. job[j].status = "completed" <=> \E a \in artifacts : a.job = j
          BY DEF SafetyInv, RowsInv, SignedConsistently
        <5> QED
          BY <1>2, <3>0, <5>1
      <4>2. job'[Mine].status = "completed" /\ \E a \in artifacts' : a.job = Mine
        BY <1>2, <3>0
      <4> QED
        BY <4>1, <4>2
    <3> QED
      BY <3>1, <3>2, <3>3, <3>4 DEF SignedConsistently
  <2> QED
    BY <2>1, <2>2 DEF RowsInv
<1> QED
  BY <1>3, <1>4, <1>5, <1>6 DEF SafetyInv

LEMMA SafeRecoverCommit ==
    ASSUME RowLocks, SafetyInv, TypeInv', RecoverCommit PROVE SafetyInv'
<1> DEFINE d == job[Mine].doc
<1>0. /\ TypeInv /\ TypeOK
      /\ Mine \in Jobs /\ job[Mine].status = "running" /\ d \in Documents /\ CanLock(d)
  BY DEF SafetyInv, TypeInv, Shape, RecoverCommit, WorkerView, HasRow, Mine,
     RunningSteps, BusySteps, WorkerSteps
<1>1. /\ job'[Mine].status = "failed" /\ job'[Mine].doc = d
      /\ \A j \in Jobs \ {Mine} : job'[j] = job[j]
      /\ \A e \in Documents \ {d} : doc'[e] = doc[e]
      /\ \A e \in Documents : doc'[e].state = "signed" <=> doc[e].state = "signed"
      /\ \A e \in Documents : Exists(e)' <=> Exists(e)
      /\ worker'.pc = "release"
      /\ UNCHANGED <<artifacts, req, lock>>
  <2>1. /\ job'[Mine].status = "failed" /\ job'[Mine].doc = d
        /\ \A j \in Jobs \ {Mine} : job'[j] = job[j]
    BY <1>0 DEF RecoverCommit, TypeOK, JobRow
  <2>2. doc[d] \in DocumentRow /\ doc'[d] = FailedDocument(doc[d])
        /\ \A e \in Documents \ {d} : doc'[e] = doc[e]
    BY <1>0 DEF RecoverCommit, TypeOK
  <2>3. /\ doc'[d].state = "signed" <=> doc[d].state = "signed"
        /\ doc'[d].state \in Present <=> doc[d].state \in Present
    BY <2>2, FailedDocumentType
  <2>4. worker'.pc = "release"
    BY <1>0, GotoType DEF RecoverCommit, WorkerSteps
  <2> QED
    BY <2>1, <2>2, <2>3, <2>4 DEF RecoverCommit, Exists
<1> HIDE DEF d
<1>2. \A j \in Jobs : /\ job'[j].doc = job[j].doc
                      /\ HasRow(j)' <=> HasRow(j)
                      /\ Active(j)' => Active(j)
                      /\ job'[j].status = "completed" <=> job[j].status = "completed"
                      /\ job'[j].status = "none" <=> job[j].status = "none"
  BY <1>0, <1>1 DEF d, HasRow, Active, InFlight
<1>3. FreshIds'
  BY <1>0, <1>1, <1>2 DEF SafetyInv, FreshIds, TypeInv, Shape
<1>4. LockProtocol'
  <2>1. ASSUME NEW e \in Documents \ {d}
        PROVE doc'[e] = doc[e] /\ JobsOf(e)' = JobsOf(e) /\ ActiveOn(e)' = ActiveOn(e)
    BY <1>0, <1>1 DEF d, JobsOf, ActiveOn, Active, HasRow
  <2>2. CanLock(d) /\ UNCHANGED <<req, lock>>
    BY <1>0, <1>1
  <2>4. \A e \in Documents \ {d} :
           doc'[e] = doc[e] /\ JobsOf(e)' = JobsOf(e) /\ ActiveOn(e)' = ActiveOn(e)
    BY <2>1
  <2> QED
    BY <2>2, <2>4, UnlockedRow
<1>5. WorkerView'
  BY <1>1 DEF WorkerView, RunningSteps, LoadedSteps, BusySteps, WorkerSteps
<1>6. RowsInv'
  <2>1. OneActiveAttempt' /\ NoOrphanAttempt'
    BY <1>0, <1>1, <1>2 DEF SafetyInv, RowsInv, OneActiveAttempt, NoOrphanAttempt, TypeInv,
       Shape, Active, HasRow, InFlight
  <2>2. SignedConsistently'
    BY <1>0, <1>1, <1>2 DEF SafetyInv, RowsInv, SignedConsistently, TypeOK
  <2> QED
    BY <2>1, <2>2 DEF RowsInv
<1> QED
  BY <1>3, <1>4, <1>5, <1>6 DEF SafetyInv

LEMMA SafeSettle == ASSUME RowLocks, SafetyInv, Settle PROVE SafetyInv'
<1>0. TypeInv /\ TypeOK /\ TypeInv'
  BY TypeSettle DEF SafetyInv, TypeInv
<1>1. CASE FinalizeRefused
  <2>1. WorkerView'
    BY <1>0, <1>1, GotoType DEF FinalizeRefused, SafetyInv, WorkerView, dbVars,
       RunningSteps, LoadedSteps, BusySteps, WorkerSteps
  <2> QED
    BY <1>0, <1>1, <2>1, QuietWork DEF FinalizeRefused, dbVars
<1> QED
  BY <1>0, <1>1, SafeReleaseOrphans, SafeFinalizeCommit, SafeRecoverCommit DEF Settle

LEMMA SafeEnvironment ==
    SafetyInv /\ (Tick \/ Restart \/ UNCHANGED vars) => SafetyInv'
<1> SUFFICES ASSUME SafetyInv, Tick \/ Restart \/ UNCHANGED vars PROVE SafetyInv'
  OBVIOUS
<1>0. TypeInv'
  BY TypeEnvironment DEF SafetyInv
<1>1. CASE Restart
  <2>1. FreshIds' /\ LockProtocol' /\ WorkerView'
    BY <1>1 DEF Restart, FreshIds, LockProtocol, Protected, WorkerView, NoRequest,
       StartingWorker, SignSteps, DeleteSteps, OwnerSteps, LockedSteps, CheckedSteps,
       RequestSteps, RunningSteps, BusySteps, LoadedSteps
  <2> QED
    BY <1>0, <1>1, <2>1, RowsFrame DEF SafetyInv, Restart, dbVars
<1>2. CASE Tick \/ UNCHANGED vars
  <2>1. UNCHANGED <<doc, job, artifacts, lock, req, worker>>
    BY <1>2 DEF Tick, vars, dbVars, memVars
  <2>2. WorkerView'
    BY <2>1 DEF SafetyInv, WorkerView
  <2> QED
    BY <1>0, <2>1, <2>2, QuietWork
<1> QED
  BY <1>1, <1>2

\* With the rows locked, the requests of enqueue_signature, delete_document and
\* update_document_owner, the worker and the restarts keep SafetyInv.
THEOREM Safety == ASSUME RowLocks PROVE Spec => []SafetyInv
<1>1. SafetyInv /\ [Next]_vars => SafetyInv'
  BY SafeAdministration, SafeArrive, SafeEnqueueFirst, SafeProceed, SafeWork, SafeSettle,
     SafeEnvironment DEF Next
<1> QED
  BY SafetyInit, <1>1, PTL DEF Spec

\* No interleaving leaves two attempts in flight on one document, nor an
\* attempt in flight without its document; and a document is signed exactly
\* when one completed attempt left one result for it.
THEOREM AttemptsAreExclusive ==
    ASSUME RowLocks PROVE Spec => [](OneActiveAttempt /\ NoOrphanAttempt)
<1>1. SafetyInv => OneActiveAttempt /\ NoOrphanAttempt
  BY DEF SafetyInv, RowsInv
<1> QED
  BY Safety, <1>1, PTL

\* A document is signed exactly when one completed attempt left one result.
THEOREM SignedOnce == ASSUME RowLocks PROVE Spec => []SignedConsistently
<1>1. SafetyInv => SignedConsistently
  BY DEF SafetyInv, RowsInv
<1> QED
  BY Safety, <1>1, PTL

(***************************************************************************)
(* What a step does to the rows.  With row locks a step writes no row, or  *)
(* it is one of the seven transactions below, and each finds the rows as   *)
(* the lock of the request and the view of the worker promise.             *)
(***************************************************************************)

Uploaded(u, d) ==
    /\ doc[d].state = "unborn"
    /\ doc' = [doc EXCEPT ![d] = [state |-> "to_sign", owner |-> u, version |-> 1]]
    /\ UNCHANGED <<job, artifacts>>

\* The request holds a row that nobody is signing.
Serves(r) ==
    /\ req[r].pc \in LockedSteps
    /\ req[r].doc \in Documents /\ Exists(req[r].doc) /\ ActiveOn(req[r].doc) = {}

Queued(r) ==
    LET j == req[r].job IN
    /\ Serves(r) /\ req[r].pc = "sign_numbered" /\ req'[r] = NoRequest
    /\ j \in Jobs /\ job[j].status = "none"
    /\ job'[j].status = "queued" /\ job'[j].doc = req[r].doc
    /\ job'[j].attempt = req[r].attempt
    /\ \A k \in Jobs \ {j} : job'[k] = job[k]
    /\ UNCHANGED <<doc, artifacts>>

Deleted(r) ==
    LET d == req[r].doc IN
    /\ Serves(r) /\ doc[d].state # "signed" /\ req'[r] = NoRequest
    /\ doc'[d].state = "deleted" /\ doc'[d].owner = doc[d].owner
    /\ \A e \in Documents \ {d} : doc'[e] = doc[e]
    /\ \A j \in JobsOf(d) : job'[j].status = "gone"
    /\ \A j \in Jobs \ JobsOf(d) : job'[j] = job[j]
    /\ artifacts' = artifacts

GivenAway(r) ==
    LET d == req[r].doc IN
    /\ Serves(r) /\ req[r].pc = "owner_checked"
    /\ doc'[d].state = doc[d].state /\ doc'[d].owner = req[r].user
    /\ doc'[d].version = doc[d].version + 1
    /\ \A e \in Documents \ {d} : doc'[e] = doc[e]
    /\ UNCHANGED <<job, artifacts>>

Claimed(j) ==
    /\ job[j].status = "queued" /\ job'[j].status = "running"
    /\ job'[j].doc = job[j].doc /\ job'[j].attempt = job[j].attempt
    /\ \A k \in Jobs \ {j} : job'[k] = job[k]
    /\ UNCHANGED <<doc, artifacts>>

Signed(j, d) ==
    /\ job[j].status = "running" /\ job[j].doc = d
    /\ Exists(d) /\ doc[d].state # "signed"
    /\ job'[j].status = "completed" /\ job'[j].doc = d /\ job'[j].attempt = job[j].attempt
    /\ \A k \in Jobs \ {j} : job'[k] = job[k]
    /\ doc'[d].state = "signed" /\ doc'[d].owner = doc[d].owner
    /\ doc'[d].version = doc[d].version + 1
    /\ \A e \in Documents \ {d} : doc'[e] = doc[e]
    /\ artifacts \subseteq artifacts'

\* The attempts O end badly: one that the worker gives up, or all those that a
\* restart left running.
ClosedAll(O) ==
    /\ \A j \in O : /\ job[j].status = "running" /\ job'[j].status = "failed"
                    /\ job'[j].doc = job[j].doc /\ job'[j].attempt = job[j].attempt
    /\ \A j \in Jobs \ O : job'[j] = job[j]
    /\ \A d \in Documents :
          doc'[d] = IF \E j \in O : job[j].doc = d THEN FailedDocument(doc[d]) ELSE doc[d]
    /\ artifacts' = artifacts

RowStep ==
    \/ UNCHANGED <<doc, job, artifacts>>
    \/ \E u \in Users, d \in Documents : Uploaded(u, d)
    \/ \E r \in Requests : Queued(r) \/ Deleted(r) \/ GivenAway(r)
    \/ \E j \in Jobs : Claimed(j)
    \/ \E j \in Jobs, d \in Documents : Signed(j, d)
    \/ \E O \in SUBSET Jobs : ClosedAll(O)

\* A request that commits holds its row, and found nobody signing it.
LEMMA ServesRow ==
    ASSUME SafetyInv, NEW r \in Requests,
           req[r].pc \in {"sign_numbered", "delete_loaded", "owner_checked"}
    PROVE  /\ Serves(r)
           /\ req[r].pc = "sign_numbered" => req[r].job \in Jobs /\ job[req[r].job].status = "none"
           /\ req[r].pc = "delete_loaded" =>
                 doc[req[r].doc].state # "signed" /\ req[r].cascade = JobsOf(req[r].doc)
           /\ req[r].pc = "owner_checked" => req[r].version = doc[req[r].doc].version
BY DEF Serves, SafetyInv, TypeInv, Shape, FreshIds, LockProtocol, Protected, SignSteps,
       LockedSteps, CheckedSteps, DeleteSteps, OwnerSteps, RequestSteps

LEMMA RequestRows ==
    ASSUME SafetyInv, NEW r \in Requests, EnqueueCommit(r) \/ DeleteCommit(r) \/ OwnerCommit(r)
    PROVE  Queued(r) \/ Deleted(r) \/ GivenAway(r)
<1>0. TypeOK /\ \A d \in Documents : doc[d] \in DocumentRow
  BY DEF SafetyInv, TypeInv, TypeOK
<1>1. CASE EnqueueCommit(r)
  <2>1. Serves(r) /\ req[r].pc = "sign_numbered"
        /\ req[r].job \in Jobs /\ job[req[r].job].status = "none"
    BY <1>1, ServesRow DEF EnqueueCommit
  <2> QED
    BY <1>0, <1>1, <2>1, AnswerType DEF EnqueueCommit, Queued, TypeOK
<1>2. CASE DeleteCommit(r)
  <2>1. PICK d \in Documents : d = req[r].doc
    BY <1>2, ServesRow DEF DeleteCommit, Serves
  <2>2. Serves(r) /\ doc[d].state # "signed" /\ req[r].cascade = JobsOf(d)
    BY <1>2, <2>1, ServesRow DEF DeleteCommit
  <2>3. /\ \A j \in JobsOf(d) : job'[j].status = "gone"
        /\ \A j \in Jobs \ JobsOf(d) : job'[j] = job[j]
    BY <1>0, <1>2, <2>2 DEF DeleteCommit, NoJob, JobsOf
  <2>4. /\ doc'[d].state = "deleted" /\ doc'[d].owner = doc[d].owner
        /\ \A e \in Documents \ {d} : doc'[e] = doc[e]
    BY <1>0, <1>2, <2>1 DEF DeleteCommit, TypeOK, DocumentRow
  <2>5. \A a \in artifacts : a.job \notin JobsOf(d)
    BY <2>2 DEF SafetyInv, RowsInv, SignedConsistently, JobsOf
  <2>6. artifacts' = artifacts /\ req'[r] = NoRequest
    BY <1>0, <1>2, <2>2, <2>5, AnswerType DEF DeleteCommit
  <2> QED
    BY <2>1, <2>2, <2>3, <2>4, <2>6 DEF Deleted
<1>3. CASE OwnerCommit(r)
  <2>1. PICK d \in Documents : d = req[r].doc
    BY <1>3, ServesRow DEF OwnerCommit, Serves
  <2>2. Serves(r) /\ req[r].version = doc[d].version
    BY <1>3, <2>1, ServesRow DEF OwnerCommit
  <2>3. /\ doc'[d].state = doc[d].state /\ doc'[d].owner = req[r].user
        /\ doc'[d].version = req[r].version + 1
        /\ \A e \in Documents \ {d} : doc'[e] = doc[e]
    BY <1>0, <1>3, <2>1 DEF OwnerCommit, TypeOK, DocumentRow
  <2> QED
    BY <1>3, <2>1, <2>2, <2>3 DEF GivenAway, OwnerCommit
<1> QED
  BY <1>1, <1>2, <1>3

LEMMA WorkerRows ==
    ASSUME SafetyInv, Settle
    PROVE  \/ UNCHANGED <<doc, job, artifacts>>
           \/ \E j \in Jobs, d \in Documents : Signed(j, d)
           \/ \E O \in SUBSET Jobs : ClosedAll(O)
<1>0. TypeOK /\ \A j \in Jobs : job[j] \in JobRow
  BY DEF SafetyInv, TypeInv, TypeOK
<1>1. CASE ReleaseOrphans
  <2>1. PICK O \in SUBSET Jobs : O = {j \in Jobs : job[j].status = "running"}
    OBVIOUS
  <2>2. /\ job' = [j \in Jobs |-> IF j \in O THEN [job[j] EXCEPT !.status = "failed"] ELSE job[j]]
        /\ doc' = [d \in Documents |->
              IF \E j \in O : job[j].doc = d THEN FailedDocument(doc[d]) ELSE doc[d]]
        /\ artifacts' = artifacts
    BY <1>1, <2>1 DEF ReleaseOrphans
  <2>3. \A j \in O : /\ job[j].status = "running" /\ job'[j].status = "failed"
                     /\ job'[j].doc = job[j].doc /\ job'[j].attempt = job[j].attempt
    BY <1>0, <2>1, <2>2 DEF JobRow
  <2> QED
    BY <2>2, <2>3 DEF ClosedAll
<1>2. CASE FinalizeCommit
  <2>1. PICK j \in Jobs : j = worker.job /\ job[j].status = "running"
    BY <1>2 DEF FinalizeCommit, SafetyInv, TypeInv, Shape, WorkerView,
       RunningSteps, LoadedSteps, BusySteps, WorkerSteps
  <2>2. PICK d \in Documents : d = job[j].doc
    BY <2>1 DEF SafetyInv, TypeInv, Shape, HasRow
  <2>3. /\ Exists(d) /\ doc[d].state # "signed" /\ worker.version = doc[d].version
    BY <1>2, <2>1, <2>2 DEF FinalizeCommit, MayFinalize, SafetyInv, WorkerView, Mine,
       LoadedSteps, RowsInv, SignedConsistently
  <2>4. /\ job' = [job EXCEPT ![j].status = "completed"]
        /\ doc' = [doc EXCEPT ![d].state = "signed", ![d].version = worker.version + 1]
        /\ artifacts \subseteq artifacts'
    BY <1>2, <2>1, <2>2 DEF FinalizeCommit, Mine
  <2>5. /\ job'[j].status = "completed" /\ job'[j].doc = d /\ job'[j].attempt = job[j].attempt
        /\ \A k \in Jobs \ {j} : job'[k] = job[k]
    BY <1>0, <2>2, <2>4 DEF TypeOK, JobRow
  <2>6. /\ doc'[d].state = "signed" /\ doc'[d].owner = doc[d].owner
        /\ doc'[d].version = doc[d].version + 1
        /\ \A e \in Documents \ {d} : doc'[e] = doc[e]
    BY <1>0, <2>3, <2>4 DEF TypeOK, DocumentRow
  <2>7. Signed(j, d)
    BY <2>1, <2>2, <2>3, <2>4, <2>5, <2>6 DEF Signed
  <2> QED
    BY <2>7
<1>3. CASE FinalizeRefused
  BY <1>3 DEF FinalizeRefused, dbVars
<1>4. CASE RecoverCommit
  <2>1. CASE job[worker.job].status # "running"
    BY <1>4, <2>1 DEF RecoverCommit, Mine
  <2>2. CASE job[worker.job].status = "running"
    <3>1. PICK j \in Jobs : j = worker.job
      BY <1>4 DEF RecoverCommit, SafetyInv, TypeInv, Shape, BusySteps, WorkerSteps
    <3>2. PICK d \in Documents : d = job[j].doc
      BY <2>2, <3>1 DEF SafetyInv, TypeInv, Shape, HasRow
    <3>3. /\ job' = [job EXCEPT ![j].status = "failed"]
          /\ doc' = [doc EXCEPT ![d] = FailedDocument(@)]
          /\ artifacts' = artifacts
      BY <1>4, <2>2, <3>1, <3>2 DEF RecoverCommit, Mine
    <3>4. /\ job'[j].status = "failed" /\ job'[j].doc = d /\ job'[j].attempt = job[j].attempt
          /\ \A k \in Jobs \ {j} : job'[k] = job[k]
      BY <1>0, <3>2, <3>3 DEF TypeOK, JobRow
    <3>5. doc'[d] = FailedDocument(doc[d]) /\ \A e \in Documents \ {d} : doc'[e] = doc[e]
      BY <1>0, <3>3 DEF TypeOK
    <3>6. ClosedAll({j})
      BY <2>2, <3>1, <3>2, <3>3, <3>4, <3>5 DEF ClosedAll
    <3> QED
      BY <3>6
  <2> QED
    BY <2>1, <2>2
<1> QED
  BY <1>1, <1>2, <1>3, <1>4 DEF Settle

LEMMA RowsStep ==
    ASSUME SafetyInv, [Next]_vars PROVE RowStep
<1>1. ASSUME NEW u \in Users, NEW d \in Documents, UploadDocument(u, d) PROVE RowStep
  BY <1>1 DEF RowStep, Uploaded, UploadDocument
<1>2. CASE Administration
  BY <1>1, <1>2 DEF Administration, UpdateRole, UpdateSavedPin, RowStep
<1>3. ASSUME NEW r \in Requests, Arrive(r) \/ EnqueueFirst(r) PROVE RowStep
  BY <1>3 DEF Arrive, EnqueueFirst, CreateSignature, DeleteLock, OwnerLock, EnqueueLock,
     EnqueueRefuse, dbVars, RowStep
<1>4. ASSUME NEW r \in Requests, Proceed(r) PROVE RowStep
  <2>1. CASE EnqueueCommit(r) \/ DeleteCommit(r) \/ OwnerCommit(r)
    BY <2>1, RequestRows DEF RowStep
  <2>2. CASE EnqueueNumber(r) \/ EnqueueRollback(r) \/ DeleteCheck(r) \/ DeleteCascade(r)
             \/ OwnerCheck(r) \/ LockedRefuse(r)
    BY <2>2 DEF EnqueueNumber, EnqueueRollback, DeleteCheck, DeleteCascade, OwnerCheck,
       LockedRefuse, dbVars, RowStep
  <2> QED
    BY <1>4, <2>1, <2>2 DEF Proceed
<1>5. ASSUME NEW j \in Jobs, ClaimNextSignature(j) PROVE RowStep
  <2>1. job[j] \in JobRow /\ job \in [Jobs -> JobRow]
    BY DEF SafetyInv, TypeInv, TypeOK
  <2>2. Claimed(j)
    BY <1>5, <2>1 DEF ClaimNextSignature, Claimed, JobRow
  <2> QED
    BY <2>2 DEF RowStep
<1>6. CASE Work
  BY <1>5, <1>6 DEF Work, ReleaseOrphansFails, Load, LoadAttempt, LoadNothing, AcquireIdentity,
     CardSigns, StoreResult, RecoverFails, ReleaseAttempt, dbVars, RowStep
<1>7. CASE Settle
  BY <1>7, WorkerRows DEF RowStep
<1>8. CASE Tick \/ Restart \/ UNCHANGED vars
  BY <1>8 DEF Tick, Restart, vars, dbVars, RowStep
<1> QED
  BY <1>2, <1>3, <1>4, <1>6, <1>7, <1>8 DEF Next

(***************************************************************************)
(* What no step does, from the transactions.                               *)
(***************************************************************************)

\* A failed attempt counts as a change of its document, unless it is signed.
LEMMA FailedDocumentEffect ==
    ASSUME NEW row \in DocumentRow
    PROVE  /\ FailedDocument(row) # row => FailedDocument(row).version = row.version + 1
           /\ FailedDocument(row).state =
                 IF row.state \in Present \ {"signed"} THEN "signing_failed" ELSE row.state
<1>1. CASE row.state \in Present \ {"signed"}
  <2>1. FailedDocument(row) = [state |-> "signing_failed", owner |-> row.owner,
                               version |-> row.version + 1]
    BY <1>1 DEF FailedDocument, DocumentRow
  <2> QED
    BY <1>1, <2>1
<1>2. CASE row.state \notin Present \ {"signed"}
  BY <1>2 DEF FailedDocument
<1> QED
  BY <1>1, <1>2

LEMMA SignedStep ==
    ASSUME TypeOK, RowStep
    PROVE  /\ artifacts \subseteq artifacts'
           /\ \A d \in Documents : doc[d].state = "signed" => doc'[d].state = "signed"
<1>1. \A d \in Documents : doc[d] \in DocumentRow
  BY DEF TypeOK
<1>2. ASSUME NEW u \in Users, NEW d \in Documents, Uploaded(u, d)
      PROVE  \A e \in Documents : doc[e].state = "signed" => doc'[e].state = "signed"
  <2>1. doc[d].state # "signed" /\ \A e \in Documents \ {d} : doc'[e] = doc[e]
    BY <1>2 DEF Uploaded, TypeOK
  <2> QED
    BY <2>1
<1>3. ASSUME NEW O \in SUBSET Jobs, ClosedAll(O)
      PROVE  \A e \in Documents : doc[e].state = "signed" => doc'[e].state = "signed"
  BY <1>1, <1>3, FailedDocumentType DEF ClosedAll
<1> QED
  BY <1>2, <1>3 DEF RowStep, Uploaded, Queued, Deleted, GivenAway, Claimed, Signed, ClosedAll

LEMMA SettledStep ==
    ASSUME RowStep
    PROVE  \A j \in Jobs : job[j].status \in {"completed", "failed", "gone"} =>
              job'[j].status \in {job[j].status, "gone"}
<1> SUFFICES ASSUME NEW j \in Jobs, job[j].status \in {"completed", "failed", "gone"}
             PROVE  job'[j].status \in {job[j].status, "gone"}
  OBVIOUS
<1>1. ASSUME NEW r \in Requests, Deleted(r) PROVE job'[j].status \in {job[j].status, "gone"}
  <2>1. job'[j].status = "gone" \/ job'[j] = job[j]
    BY <1>1 DEF Deleted
  <2> QED
    BY <2>1
<1>2. ASSUME NEW O \in SUBSET Jobs, ClosedAll(O)
      PROVE  job'[j].status \in {job[j].status, "gone"}
  BY <1>2 DEF ClosedAll
<1>3. ASSUME NEW r \in Requests, Queued(r) PROVE job'[j].status \in {job[j].status, "gone"}
  BY <1>3 DEF Queued
<1>4. ASSUME NEW k \in Jobs, Claimed(k) \/ \E d \in Documents : Signed(k, d)
      PROVE  job'[j].status \in {job[j].status, "gone"}
  BY <1>4 DEF Claimed, Signed
<1> QED
  BY <1>1, <1>2, <1>3, <1>4 DEF RowStep, Uploaded, GivenAway

LEMMA VersionStep ==
    ASSUME TypeOK, RowStep
    PROVE  \A d \in Documents :
              Exists(d) /\ Exists(d)' /\ doc'[d] # doc[d] => doc'[d].version = doc[d].version + 1
<1> SUFFICES ASSUME NEW d \in Documents, Exists(d), Exists(d)', doc'[d] # doc[d]
             PROVE  doc'[d].version = doc[d].version + 1
  OBVIOUS
<1>1. doc[d] \in DocumentRow /\ doc[d].state \in Present /\ doc'[d].state \in Present
  BY DEF TypeOK, Exists
<1>2. ASSUME NEW u \in Users, NEW e \in Documents, Uploaded(u, e)
      PROVE  doc'[d].version = doc[d].version + 1
  <2>1. doc[e].state = "unborn" /\ (e # d => doc'[d] = doc[d])
    BY <1>2 DEF Uploaded, TypeOK
  <2> QED
    BY <1>1, <2>1 DEF Present
<1>3. ASSUME NEW r \in Requests, Queued(r) \/ Deleted(r) \/ GivenAway(r)
      PROVE  doc'[d].version = doc[d].version + 1
  BY <1>1, <1>3 DEF Queued, Deleted, GivenAway, Present
<1>4. ASSUME NEW j \in Jobs, NEW e \in Documents, Signed(j, e)
      PROVE  doc'[d].version = doc[d].version + 1
  BY <1>4 DEF Signed
<1>5. ASSUME NEW O \in SUBSET Jobs, ClosedAll(O)
      PROVE  doc'[d].version = doc[d].version + 1
  BY <1>1, <1>5, FailedDocumentEffect DEF ClosedAll
<1> QED
  BY <1>2, <1>3, <1>4, <1>5 DEF RowStep, Claimed

LEMMA OwnerStep ==
    ASSUME TypeOK, NoOrphanAttempt, RowStep
    PROVE  \A d \in Documents : ActiveOn(d) # {} => doc'[d].owner = doc[d].owner
<1> SUFFICES ASSUME NEW d \in Documents, ActiveOn(d) # {} PROVE doc'[d].owner = doc[d].owner
  OBVIOUS
<1>1. doc[d] \in DocumentRow
  BY DEF TypeOK
<1>2. ASSUME NEW u \in Users, NEW e \in Documents, Uploaded(u, e)
      PROVE  doc'[d].owner = doc[d].owner
  <2>1. doc[e].state = "unborn" /\ (e # d => doc'[d] = doc[d])
    BY <1>2 DEF Uploaded, TypeOK
  <2>2. Exists(d)
    BY DEF NoOrphanAttempt, ActiveOn, JobsOf
  <2> QED
    BY <2>1, <2>2 DEF Exists, Present
<1>3. ASSUME NEW r \in Requests, Queued(r) \/ Deleted(r) \/ GivenAway(r)
      PROVE  doc'[d].owner = doc[d].owner
  BY <1>3 DEF Queued, Deleted, GivenAway, Serves
<1>4. ASSUME NEW j \in Jobs, NEW e \in Documents, Signed(j, e)
      PROVE  doc'[d].owner = doc[d].owner
  BY <1>4 DEF Signed
<1>5. ASSUME NEW O \in SUBSET Jobs, ClosedAll(O)
      PROVE  doc'[d].owner = doc[d].owner
  BY <1>1, <1>5, FailedDocumentType DEF ClosedAll
<1> QED
  BY <1>2, <1>3, <1>4, <1>5 DEF RowStep, Claimed

\* A signed document stays signed and keeps the result it got, whatever is
\* retried, deleted or interrupted afterwards (process_claimed_signature).
THEOREM SignedForGood == ASSUME RowLocks PROVE Spec => SignedIsFinal
<1>1. SafetyInv /\ [Next]_vars =>
         /\ artifacts \subseteq artifacts'
         /\ \A d \in Documents : doc[d].state = "signed" => doc'[d].state = "signed"
  BY RowsStep, SignedStep DEF SafetyInv, TypeInv
<1> QED
  BY Safety, <1>1, PTL DEF Spec, SignedIsFinal

\* An attempt once closed is never opened, signed or closed again by the sweep,
\* the worker or a later request (release_orphaned_signatures, run_once).
THEOREM SettledForGood == ASSUME RowLocks PROVE Spec => SettledIsFinal
<1>1. SafetyInv /\ [Next]_vars =>
         \A j \in Jobs : job[j].status \in {"completed", "failed", "gone"} =>
            job'[j].status \in {job[j].status, "gone"}
  BY RowsStep, SettledStep
<1> QED
  BY Safety, <1>1, PTL DEF Spec, SettledIsFinal

\* Document.version counts the changes of state and owner: nobody counts
\* between the worker's load and its commit, which writes that version plus one.
THEOREM VersionsCount == ASSUME RowLocks PROVE Spec => VersionCountsChanges
<1>1. SafetyInv /\ [Next]_vars =>
         \A d \in Documents :
            Exists(d) /\ Exists(d)' /\ doc'[d] # doc[d] => doc'[d].version = doc[d].version + 1
  BY RowsStep, VersionStep DEF SafetyInv, TypeInv
<1> QED
  BY Safety, <1>1, PTL DEF Spec, VersionCountsChanges

\* update_document_owner: the owner does not change during an attempt, which
\* signs in the name of somebody who may act on the document.
THEOREM OwnerStaysDuringAttempt == ASSUME RowLocks PROVE Spec => OwnerKeptDuringAttempt
<1>1. SafetyInv /\ [Next]_vars =>
         \A d \in Documents : ActiveOn(d) # {} => doc'[d].owner = doc[d].owner
  BY RowsStep, OwnerStep DEF SafetyInv, TypeInv, RowsInv
<1> QED
  BY Safety, <1>1, PTL DEF Spec, OwnerKeptDuringAttempt

(***************************************************************************)
(* The refinement: read as a DocumentLifecycle, each transaction is one    *)
(* step of it, and every other step of the workflow is none.               *)
(***************************************************************************)

\* The only steps after which a request is at the steps named here.
LEMMA RequestMoves ==
    ASSUME TypeInv, [Next]_vars, NEW q \in Requests
    PROVE  \/ req'[q] = req[q]
           \/ req'[q].pc \notin OwnerSteps \cup {"sign_numbered"}
           \/ EnqueueNumber(q)
           \/ OwnerCheck(q)
           \/ \E a \in Users, u \in Users, d \in Documents : OwnerLock(q, a, u, d)
<1> USE DEF TypeInv, TypeOK, OwnerSteps
<1>1. ASSUME NEW r \in Requests, r # q, Arrive(r) \/ EnqueueFirst(r) \/ Proceed(r)
      PROVE  req'[q] = req[q]
  BY <1>1 DEF Arrive, EnqueueFirst, Proceed, CreateSignature, DeleteLock, OwnerLock,
     EnqueueLock, EnqueueRefuse, EnqueueNumber, EnqueueCommit, EnqueueRollback, DeleteCheck,
     DeleteCascade, DeleteCommit, OwnerCheck, OwnerCommit, LockedRefuse, Advance, Answer
<1>2. CASE Administration \/ Work \/ Settle \/ Tick \/ UNCHANGED vars
  BY <1>2 DEF Administration, UploadDocument, UpdateRole, UpdateSavedPin, memVars, Work,
     ReleaseOrphansFails, ClaimNextSignature, Load, LoadAttempt, LoadNothing, AcquireIdentity,
     CardSigns, StoreResult, RecoverFails, ReleaseAttempt, Settle, ReleaseOrphans,
     FinalizeCommit, FinalizeRefused, RecoverCommit, Tick, vars
<1>3. CASE Restart
  BY <1>3 DEF Restart, NoRequest
<1>4. CASE Arrive(q)
  <2>1. ASSUME NEW u \in Users, NEW d \in Documents, NEW j \in Jobs, NEW card \in Cards,
               NEW pin \in BOOLEAN, CreateSignature(q, u, d, j, card, pin)
        PROVE  req'[q].pc = "sign_read"
    BY <2>1 DEF CreateSignature, NoRequest
  <2>2. ASSUME NEW u \in Users, NEW d \in Documents, DeleteLock(q, u, d)
        PROVE  req'[q].pc = "delete_locked"
    BY <2>2 DEF DeleteLock, NoRequest
  <2> QED
    BY <1>4, <2>1, <2>2 DEF Arrive
<1>5. ASSUME Answer(q) PROVE req'[q].pc = "idle"
  BY <1>5 DEF Answer, NoRequest
<1>6. CASE EnqueueFirst(q)
  <2>1. CASE EnqueueLock(q)
    <3>1. req'[q].pc = "sign_checked"
      BY <2>1, AdvanceType DEF EnqueueLock, RequestSteps
    <3> QED
      BY <3>1
  <2> QED
    BY <1>5, <1>6, <2>1 DEF EnqueueFirst, EnqueueRefuse
<1>7. CASE Proceed(q)
  <2>1. CASE DeleteCheck(q)
    <3>1. req'[q].pc = "delete_checked"
      BY <2>1, AdvanceType DEF DeleteCheck, RequestSteps
    <3> QED
      BY <3>1
  <2>2. CASE DeleteCascade(q)
    <3>1. req[q] \in RequestState
      OBVIOUS
    <3>2. req'[q].pc = "delete_loaded"
      BY <2>2, <3>1 DEF DeleteCascade, RequestState
    <3> QED
      BY <3>2
  <2> QED
    BY <1>5, <1>7, <2>1, <2>2 DEF Proceed, EnqueueCommit, EnqueueRollback, DeleteCommit,
       OwnerCommit, LockedRefuse
<1> QED
  BY <1>1, <1>2, <1>3, <1>4, <1>6, <1>7 DEF Next

\* A document is given to somebody.
NewOwners == \A r \in Requests : req[r].pc \in OwnerSteps => req[r].user \in Users

LEMMA NewOwnersInit == Init => NewOwners
BY DEF Init, NewOwners, NoRequest, OwnerSteps

LEMMA NewOwnersStep ==
    ASSUME TypeInv, NewOwners, [Next]_vars PROVE NewOwners'
<1>1. ASSUME NEW q \in Requests, req'[q].pc \in OwnerSteps PROVE req'[q].user \in Users
  <2>1. req \in [Requests -> RequestState] /\ req[q] \in RequestState
    BY DEF TypeInv, TypeOK
  <2>2. CASE req'[q] = req[q]
    BY <1>1, <2>2 DEF NewOwners
  <2>3. CASE EnqueueNumber(q)
    <3>1. req'[q].pc = "sign_numbered"
      BY <2>1, <2>3 DEF EnqueueNumber, RequestState
    <3> QED
      BY <1>1, <3>1 DEF OwnerSteps
  <2>4. CASE OwnerCheck(q)
    <3>1. req'[q].user = req[q].user /\ req[q].pc \in OwnerSteps
      BY <2>1, <2>4 DEF OwnerCheck, Advance, RequestState, OwnerSteps
    <3> QED
      BY <3>1 DEF NewOwners
  <2>5. ASSUME NEW a \in Users, NEW u \in Users, NEW d \in Documents, OwnerLock(q, a, u, d)
        PROVE  req'[q].user \in Users
    BY <2>1, <2>5 DEF OwnerLock, NoRequest
  <2> QED
    BY <1>1, <2>2, <2>3, <2>4, <2>5, RequestMoves
<1> QED
  BY <1>1 DEF NewOwners

\* The attempts of a document as DocumentLifecycle sees them.
LEMMA AttemptKept ==
    ASSUME NEW d,
           \A j \in Jobs : (HasRow(j) /\ job[j].doc = d) \/ (HasRow(j)' /\ job'[j].doc = d)
              => job'[j] = job[j]
    PROVE  AttemptOf(d)' = AttemptOf(d)
<1>1. \A j \in Jobs : j \in JobsOf(d)' <=> j \in JobsOf(d)
  BY DEF JobsOf, HasRow
<1>2. \A j \in JobsOf(d) : job'[j] = job[j]
  BY DEF JobsOf
<1>3. JobsOf(d)' = JobsOf(d)
  BY <1>1 DEF JobsOf
<1>4. ActiveOn(d)' = ActiveOn(d)
  BY <1>2, <1>3 DEF ActiveOn, Active
<1> QED
  BY <1>2, <1>3, <1>4 DEF AttemptOf

LEMMA AttemptValues ==
    ASSUME OneActiveAttempt, NEW d
    PROVE  /\ ActiveOn(d) = {} => AttemptOf(d) = "none"
           /\ \A j \in Jobs : job[j].doc = d /\ job[j].status = "running" => AttemptOf(d) = "running"
           /\ \A j \in Jobs : job[j].doc = d /\ job[j].status = "queued" => AttemptOf(d) = "queued"
BY DEF AttemptOf, OneActiveAttempt, JobsOf, ActiveOn, Active, HasRow, InFlight

LEMMA AttemptValuesNext ==
    ASSUME OneActiveAttempt', NEW d
    PROVE  /\ ActiveOn(d)' = {} => AttemptOf(d)' = "none"
           /\ \A j \in Jobs : job'[j].doc = d /\ job'[j].status = "running" => AttemptOf(d)' = "running"
           /\ \A j \in Jobs : job'[j].doc = d /\ job'[j].status = "queued" => AttemptOf(d)' = "queued"
BY DEF AttemptOf, OneActiveAttempt, JobsOf, ActiveOn, Active, HasRow, InFlight

LEMMA LifecycleInit == Init => Lifecycle!Init
<1> SUFFICES ASSUME Init PROVE Lifecycle!Init
  OBVIOUS
<1>1. \A d \in Documents : doc[d].state = "unborn" /\ doc[d].owner = None
  BY DEF Init
<1>2. \A d \in Documents : AttemptOf(d) = "none"
  BY DEF Init, AttemptOf, JobsOf, ActiveOn, HasRow, NoJob
<1> QED
  BY <1>1, <1>2 DEF Lifecycle!Init

LEMMA SameRows ==
    ASSUME UNCHANGED <<doc, job>> PROVE UNCHANGED Lifecycle!vars
<1>1. \A d \in Documents : AttemptOf(d)' = AttemptOf(d)
  BY AttemptKept
<1> QED
  BY <1>1 DEF Lifecycle!vars

LEMMA UploadRefines ==
    ASSUME NEW u \in Users, NEW d \in Documents, TypeOK, Uploaded(u, d)
    PROVE  Lifecycle!Upload(d, u)
<1>1. /\ doc[d].state = "unborn" /\ doc'[d].state = "to_sign" /\ doc'[d].owner = u
      /\ \A e \in Documents \ {d} : doc'[e] = doc[e]
      /\ job' = job
  BY DEF Uploaded, TypeOK
<1>2. \A e \in Documents : AttemptOf(e)' = AttemptOf(e)
  BY <1>1, AttemptKept
<1> QED
  BY <1>1, <1>2 DEF Lifecycle!Upload

LEMMA QueueRefines ==
    ASSUME NEW r \in Requests, OneActiveAttempt, OneActiveAttempt', Queued(r)
    PROVE  \E d \in Documents : Lifecycle!Request(d)
<1>1. PICK d \in Documents : d = req[r].doc
  BY DEF Queued, Serves
<1>2. PICK j \in Jobs : j = req[r].job
  BY DEF Queued
<1>3. /\ doc[d].state \in Present /\ ActiveOn(d) = {} /\ doc' = doc
      /\ job[j].status = "none" /\ job'[j].status = "queued" /\ job'[j].doc = d
      /\ \A k \in Jobs \ {j} : job'[k] = job[k]
  BY <1>1, <1>2 DEF Queued, Serves, Exists
<1>4. AttemptOf(d) = "none" /\ AttemptOf(d)' = "queued"
  BY <1>3, AttemptValues, AttemptValuesNext
<1>5. ASSUME NEW e \in Documents \ {d} PROVE AttemptOf(e)' = AttemptOf(e)
  BY <1>3, AttemptKept DEF HasRow
<1>6. Lifecycle!Request(d)
  BY <1>3, <1>4, <1>5 DEF Lifecycle!Request, Lifecycle!Free, Lifecycle!Here, Present
<1> QED
  BY <1>6

LEMMA DeleteRefines ==
    ASSUME NEW r \in Requests, OneActiveAttempt, OneActiveAttempt', Deleted(r)
    PROVE  \E d \in Documents : Lifecycle!Delete(d)
<1>1. PICK d \in Documents : d = req[r].doc
  BY DEF Deleted, Serves
<1>2. /\ doc[d].state \in Present /\ doc[d].state # "signed" /\ ActiveOn(d) = {}
      /\ doc'[d].state = "deleted" /\ doc'[d].owner = doc[d].owner
      /\ \A e \in Documents \ {d} : doc'[e] = doc[e]
      /\ \A j \in JobsOf(d) : job'[j].status = "gone"
      /\ \A j \in Jobs \ JobsOf(d) : job'[j] = job[j]
  BY <1>1 DEF Deleted, Serves, Exists
<1>3. ActiveOn(d)' = {}
  BY <1>2 DEF ActiveOn, JobsOf, HasRow
<1>4. AttemptOf(d) = "none" /\ AttemptOf(d)' = "none"
  BY <1>2, <1>3, AttemptValues, AttemptValuesNext
<1>5. ASSUME NEW e \in Documents \ {d} PROVE AttemptOf(e)' = AttemptOf(e)
  BY <1>2, AttemptKept DEF HasRow, JobsOf
<1>6. Lifecycle!Delete(d)
  BY <1>2, <1>4, <1>5 DEF Lifecycle!Delete, Lifecycle!Free, Lifecycle!Here, Present
<1> QED
  BY <1>6

LEMMA GiveRefines ==
    ASSUME NEW r \in Requests, NewOwners, OneActiveAttempt, GivenAway(r)
    PROVE  \E d \in Documents, u \in Users : Lifecycle!Reassign(d, u)
<1>1. PICK d \in Documents : d = req[r].doc
  BY DEF GivenAway, Serves
<1>2. PICK u \in Users : u = req[r].user
  BY DEF GivenAway, NewOwners, OwnerSteps
<1>3. /\ doc[d].state \in Present /\ ActiveOn(d) = {}
      /\ doc'[d].state = doc[d].state /\ doc'[d].owner = u
      /\ \A e \in Documents \ {d} : doc'[e] = doc[e]
      /\ job' = job
  BY <1>1, <1>2 DEF GivenAway, Serves, Exists
<1>4. AttemptOf(d) = "none" /\ \A e \in Documents : AttemptOf(e)' = AttemptOf(e)
  BY <1>3, AttemptValues, AttemptKept
<1>5. Lifecycle!Reassign(d, u)
  BY <1>3, <1>4 DEF Lifecycle!Reassign, Lifecycle!Free, Lifecycle!Here, Present
<1> QED
  BY <1>5

LEMMA ClaimRefines ==
    ASSUME NEW j \in Jobs, Shape, OneActiveAttempt, OneActiveAttempt', Claimed(j)
    PROVE  \E d \in Documents : Lifecycle!Start(d)
<1>1. PICK d \in Documents : d = job[j].doc
  BY DEF Claimed, Shape, HasRow
<1>2. /\ doc' = doc /\ job[j].status = "queued"
      /\ job'[j].status = "running" /\ job'[j].doc = d
      /\ \A k \in Jobs \ {j} : job'[k] = job[k]
  BY <1>1 DEF Claimed
<1>3. AttemptOf(d) = "queued" /\ AttemptOf(d)' = "running"
  BY <1>1, <1>2, AttemptValues, AttemptValuesNext
<1>4. ASSUME NEW e \in Documents \ {d} PROVE AttemptOf(e)' = AttemptOf(e)
  BY <1>1, <1>2, AttemptKept DEF HasRow
<1>5. Lifecycle!Start(d)
  BY <1>2, <1>3, <1>4 DEF Lifecycle!Start
<1> QED
  BY <1>5

LEMMA SignRefines ==
    ASSUME NEW j \in Jobs, NEW d \in Documents, OneActiveAttempt, OneActiveAttempt', Signed(j, d)
    PROVE  Lifecycle!Succeed(d)
<1>1. /\ job[j].status = "running" /\ job[j].doc = d /\ doc[d].state # "signed"
      /\ job'[j].status = "completed" /\ job'[j].doc = d
      /\ \A k \in Jobs \ {j} : job'[k] = job[k]
      /\ doc'[d].state = "signed" /\ doc'[d].owner = doc[d].owner
      /\ \A e \in Documents \ {d} : doc'[e] = doc[e]
  BY DEF Signed
<1>2. ActiveOn(d)' = {}
  <2>1. ASSUME NEW k \in Jobs, job'[k].doc = d, job'[k].status \in {"queued", "running"}
        PROVE  FALSE
    BY <1>1, <2>1 DEF OneActiveAttempt, Active, InFlight
  <2> QED
    BY <2>1 DEF ActiveOn, JobsOf, Active, InFlight
<1>3. AttemptOf(d) = "running" /\ AttemptOf(d)' = "none"
  BY <1>1, <1>2, AttemptValues, AttemptValuesNext
<1>4. ASSUME NEW e \in Documents \ {d} PROVE AttemptOf(e)' = AttemptOf(e)
  BY <1>1, AttemptKept DEF HasRow
<1> QED
  BY <1>1, <1>3, <1>4 DEF Lifecycle!Succeed

LEMMA CloseRefines ==
    ASSUME NEW O \in SUBSET Jobs, TypeOK, Shape, NoOrphanAttempt,
           OneActiveAttempt, OneActiveAttempt', ClosedAll(O)
    PROVE  \E D \in SUBSET Documents : Lifecycle!Fail(D)
<1>1. PICK D \in SUBSET Documents : D = {d \in Documents : \E j \in O : job[j].doc = d}
  OBVIOUS
<1>2. /\ \A j \in O : job[j].status = "running" /\ job'[j].status = "failed" /\ job'[j].doc = job[j].doc
      /\ \A j \in Jobs \ O : job'[j] = job[j]
      /\ \A d \in Documents : doc'[d] = IF d \in D THEN FailedDocument(doc[d]) ELSE doc[d]
  BY <1>1 DEF ClosedAll
<1>3. ASSUME NEW d \in Documents
      PROVE  /\ doc'[d].state = IF d \in D /\ doc[d].state # "signed"
                                THEN "signing_failed" ELSE doc[d].state
             /\ doc'[d].owner = doc[d].owner
             /\ AttemptOf(d)' = IF d \in D THEN "none" ELSE AttemptOf(d)
             /\ d \in D => AttemptOf(d) = "running"
  <2>1. doc[d] \in DocumentRow
    BY DEF TypeOK
  <2>2. CASE d \in D
    <3>1. PICK j \in O : job[j].doc = d /\ job[j].status = "running" /\ job'[j].status = "failed"
      BY <1>1, <1>2, <2>2
    <3>2. doc[d].state \in Present
      BY <3>1 DEF NoOrphanAttempt, Active, InFlight, Exists
    <3>3. ActiveOn(d)' = {}
      <4>1. ASSUME NEW k \in Jobs, job'[k].doc = d, job'[k].status \in {"queued", "running"}
            PROVE  FALSE
        BY <1>2, <3>1, <4>1 DEF OneActiveAttempt, Active, InFlight
      <4> QED
        BY <4>1 DEF ActiveOn, JobsOf, Active, InFlight
    <3>4. AttemptOf(d) = "running" /\ AttemptOf(d)' = "none"
      BY <3>1, <3>3, AttemptValues, AttemptValuesNext
    <3> QED
      BY <1>2, <2>1, <2>2, <3>2, <3>4, FailedDocumentType, FailedDocumentEffect
  <2>3. CASE d \notin D
    <3>1. \A j \in O : job[j].doc # d
      BY <1>1, <2>3
    <3>2. AttemptOf(d)' = AttemptOf(d)
      BY <1>2, <3>1, AttemptKept DEF HasRow
    <3> QED
      BY <1>2, <2>3, <3>2
  <2> QED
    BY <2>2, <2>3
<1>4. Lifecycle!Fail(D)
  BY <1>3 DEF Lifecycle!Fail
<1> QED
  BY <1>4

LEMMA LifecycleStep ==
    ASSUME SafetyInv, SafetyInv', NewOwners, [Next]_vars
    PROVE  [Lifecycle!Next]_(Lifecycle!vars)
<1>1. TypeOK /\ Shape /\ NoOrphanAttempt /\ OneActiveAttempt /\ OneActiveAttempt'
  BY DEF SafetyInv, TypeInv, RowsInv
<1>2. RowStep
  BY RowsStep
<1>3. CASE UNCHANGED <<doc, job, artifacts>>
  BY <1>3, SameRows
<1>4. ASSUME NEW u \in Users, NEW d \in Documents, Uploaded(u, d) PROVE Lifecycle!Next
  BY <1>1, <1>4, UploadRefines DEF Lifecycle!Next
<1>5. ASSUME NEW r \in Requests, Queued(r) \/ Deleted(r) \/ GivenAway(r) PROVE Lifecycle!Next
  BY <1>1, <1>5, QueueRefines, DeleteRefines, GiveRefines DEF Lifecycle!Next
<1>6. ASSUME NEW j \in Jobs, Claimed(j) PROVE Lifecycle!Next
  BY <1>1, <1>6, ClaimRefines DEF Lifecycle!Next
<1>7. ASSUME NEW j \in Jobs, NEW d \in Documents, Signed(j, d) PROVE Lifecycle!Next
  BY <1>1, <1>7, SignRefines DEF Lifecycle!Next
<1>8. ASSUME NEW O \in SUBSET Jobs, ClosedAll(O) PROVE Lifecycle!Next
  BY <1>1, <1>8, CloseRefines DEF Lifecycle!Next
<1> QED
  BY <1>2, <1>3, <1>4, <1>5, <1>6, <1>7, <1>8 DEF RowStep

\* The requests, the worker and the restarts, with the rows locked, do nothing
\* to a document but what DocumentLifecycle allows: one attempt at a time, a
\* signature for ever, no deletion and no new owner during an attempt.
THEOREM Refinement == ASSUME RowLocks PROVE Spec => ImplementsLifecycle
<1>1. Init => NewOwners
  BY NewOwnersInit
<1>2. SafetyInv /\ NewOwners /\ [Next]_vars => NewOwners'
  BY NewOwnersStep DEF SafetyInv
<1>3. SafetyInv /\ SafetyInv' /\ NewOwners /\ [Next]_vars => [Lifecycle!Next]_(Lifecycle!vars)
  BY LifecycleStep
<1> QED
  BY Safety, LifecycleInit, <1>1, <1>2, <1>3, PTL DEF Spec, ImplementsLifecycle, Lifecycle!Spec

(***************************************************************************)
(* The numbers of the attempts: under the lock of its document a request   *)
(* that has read the last number finds the same attempts when it commits.  *)
(***************************************************************************)

Numbered(d) ==
    /\ IsFiniteSet(JobsOf(d))
    /\ {job[j].attempt : j \in JobsOf(d)} = 1 .. Cardinality(JobsOf(d))

NumberInv ==
    /\ \A d \in Documents : Numbered(d)
    /\ \A r \in Requests : req[r].pc = "sign_numbered" =>
          req[r].attempt = Cardinality(JobsOf(req[r].doc)) + 1

LEMMA NumberInit == Init => NumberInv
<1> SUFFICES ASSUME Init PROVE NumberInv
  OBVIOUS
<1>1. \A d \in Documents : JobsOf(d) = {}
  BY DEF Init, JobsOf, HasRow, NoJob
<1>2. IsFiniteSet({}) /\ Cardinality({}) = 0
  BY FS_EmptySet
<1>3. \A d \in Documents : {job[j].attempt : j \in JobsOf(d)} = {}
  BY <1>1
<1>4. 1 .. 0 = {}
  OBVIOUS
<1>5. \A r \in Requests : req[r].pc = "idle"
  BY DEF Init, NoRequest
<1> QED
  BY <1>1, <1>2, <1>3, <1>4, <1>5 DEF NumberInv, Numbered

\* A transaction leaves the attempts of d alone, deletes them all, or adds one.
LEMMA JobsEffect ==
    ASSUME RowStep, NEW d \in Documents
    PROVE  \/ /\ JobsOf(d)' = JobsOf(d)
              /\ \A j \in JobsOf(d) : job'[j].attempt = job[j].attempt
           \/ JobsOf(d)' = {} /\ \E r \in Requests : Deleted(r) /\ req[r].doc = d
           \/ \E r \in Requests, j \in Jobs :
                 /\ Queued(r) /\ req[r].doc = d /\ req[r].job = j
                 /\ j \notin JobsOf(d) /\ JobsOf(d)' = JobsOf(d) \cup {j}
                 /\ job'[j].attempt = req[r].attempt
                 /\ \A k \in JobsOf(d) : job'[k].attempt = job[k].attempt
<1>1. ASSUME \A j \in Jobs : /\ job'[j].doc = job[j].doc /\ job'[j].attempt = job[j].attempt
                             /\ HasRow(j)' <=> HasRow(j)
      PROVE  /\ JobsOf(d)' = JobsOf(d)
             /\ \A j \in JobsOf(d) : job'[j].attempt = job[j].attempt
  BY <1>1 DEF JobsOf
<1>2. ASSUME UNCHANGED job
      PROVE  \A j \in Jobs : /\ job'[j].doc = job[j].doc /\ job'[j].attempt = job[j].attempt
                             /\ HasRow(j)' <=> HasRow(j)
  BY <1>2 DEF HasRow
<1>3. ASSUME NEW k \in Jobs, Claimed(k) \/ \E e \in Documents : Signed(k, e)
      PROVE  \A j \in Jobs : /\ job'[j].doc = job[j].doc /\ job'[j].attempt = job[j].attempt
                             /\ HasRow(j)' <=> HasRow(j)
  BY <1>3 DEF Claimed, Signed, HasRow
<1>4. ASSUME NEW O \in SUBSET Jobs, ClosedAll(O)
      PROVE  \A j \in Jobs : /\ job'[j].doc = job[j].doc /\ job'[j].attempt = job[j].attempt
                             /\ HasRow(j)' <=> HasRow(j)
  BY <1>4 DEF ClosedAll, HasRow
<1>5. ASSUME NEW r \in Requests, Deleted(r), req[r].doc = d PROVE JobsOf(d)' = {}
  BY <1>5 DEF Deleted, JobsOf, HasRow
<1>6. ASSUME NEW r \in Requests, Deleted(r), req[r].doc # d
      PROVE  /\ JobsOf(d)' = JobsOf(d)
             /\ \A j \in JobsOf(d) : job'[j].attempt = job[j].attempt
  BY <1>6 DEF Deleted, JobsOf, HasRow
<1>7. ASSUME NEW r \in Requests, Queued(r), req[r].doc = d
      PROVE  \E j \in Jobs :
                 /\ req[r].job = j
                 /\ j \notin JobsOf(d) /\ JobsOf(d)' = JobsOf(d) \cup {j}
                 /\ job'[j].attempt = req[r].attempt
                 /\ \A k \in JobsOf(d) : job'[k].attempt = job[k].attempt
  <2>1. PICK j \in Jobs : j = req[r].job
    BY <1>7 DEF Queued
  <2>2. /\ job[j].status = "none" /\ job'[j].status = "queued" /\ job'[j].doc = d
        /\ job'[j].attempt = req[r].attempt
        /\ \A k \in Jobs \ {j} : job'[k] = job[k]
    BY <1>7, <2>1 DEF Queued
  <2>3. j \notin JobsOf(d) /\ JobsOf(d)' = JobsOf(d) \cup {j}
    BY <2>2 DEF JobsOf, HasRow
  <2> QED
    BY <2>1, <2>2, <2>3 DEF JobsOf
<1>8. ASSUME NEW r \in Requests, Queued(r), req[r].doc # d
      PROVE  /\ JobsOf(d)' = JobsOf(d)
             /\ \A j \in JobsOf(d) : job'[j].attempt = job[j].attempt
  BY <1>8 DEF Queued, JobsOf, HasRow
<1>9. CASE UNCHANGED job
  BY <1>1, <1>2, <1>9
<1>10. CASE \E r \in Requests : Deleted(r)
  BY <1>5, <1>6, <1>10
<1>11. CASE \E r \in Requests : Queued(r)
  BY <1>7, <1>8, <1>11
<1> QED
  BY <1>1, <1>3, <1>4, <1>9, <1>10, <1>11 DEF RowStep, Uploaded, GivenAway

LEMMA NumberedStep ==
    ASSUME NumberInv, RowStep, NEW d \in Documents PROVE Numbered(d)'
<1>1. Numbered(d)
  BY DEF NumberInv
<1>2. CASE /\ JobsOf(d)' = JobsOf(d)
           /\ \A j \in JobsOf(d) : job'[j].attempt = job[j].attempt
  BY <1>1, <1>2 DEF Numbered
<1>3. CASE JobsOf(d)' = {}
  <2>1. IsFiniteSet({}) /\ Cardinality({}) = 0 /\ 1 .. 0 = {}
    BY FS_EmptySet
  <2> QED
    BY <1>3, <2>1 DEF Numbered
<1>4. ASSUME NEW r \in Requests, NEW j \in Jobs, Queued(r), req[r].doc = d,
             j \notin JobsOf(d), JobsOf(d)' = JobsOf(d) \cup {j},
             job'[j].attempt = req[r].attempt,
             \A k \in JobsOf(d) : job'[k].attempt = job[k].attempt
      PROVE  Numbered(d)'
  <2>1. PICK S : S = JobsOf(d)
    OBVIOUS
  <2>2. PICK n : n = Cardinality(S)
    OBVIOUS
  <2>3. IsFiniteSet(S) /\ {job[k].attempt : k \in S} = 1 .. n
    BY <1>1, <2>1, <2>2 DEF Numbered
  <2>4. n \in Nat /\ IsFiniteSet(S \cup {j}) /\ Cardinality(S \cup {j}) = n + 1
    BY <1>4, <2>1, <2>2, <2>3, FS_AddElement, FS_CardinalityType
  <2>5. req[r].attempt = n + 1
    BY <1>4, <2>1, <2>2 DEF NumberInv, Queued
  <2>6. {job'[k].attempt : k \in S \cup {j}} = (1 .. n) \cup {n + 1}
    BY <1>4, <2>1, <2>3, <2>5
  <2>7. (1 .. n) \cup {n + 1} = 1 .. (n + 1)
    BY <2>4
  <2> QED
    BY <1>4, <2>1, <2>4, <2>6, <2>7 DEF Numbered
<1> QED
  BY <1>2, <1>3, <1>4, JobsEffect

LEMMA NumberStep ==
    ASSUME SafetyInv, NumberInv, [Next]_vars PROVE NumberInv'
<1>1. RowStep /\ TypeInv
  BY RowsStep DEF SafetyInv
<1>2. \A d \in Documents : Numbered(d)'
  BY <1>1, NumberedStep
<1>3. ASSUME NEW q \in Requests, req'[q].pc = "sign_numbered",
             NEW d, req'[q].doc = d
      PROVE  req'[q].attempt = Cardinality(JobsOf(d)') + 1
  <2>1. req \in [Requests -> RequestState] /\ req[q] \in RequestState
    BY <1>1 DEF TypeInv, TypeOK
  <2>2. CASE req'[q] = req[q]
    <3>1. d \in Documents /\ d = req[q].doc
      BY <1>1, <1>3, <2>2 DEF TypeInv, Shape
    <3>2. req[q].attempt = Cardinality(JobsOf(d)) + 1 /\ req[q].pc \in LockedSteps
      BY <1>3, <2>2, <3>1 DEF NumberInv, LockedSteps, RequestSteps
    <3>3. ASSUME NEW r \in Requests, Deleted(r) \/ Queued(r), req[r].doc = d
          PROVE  FALSE
      <4>1. r # q
        BY <1>3, <2>2, <3>3 DEF Deleted, Queued, NoRequest
      <4>2. req[r].pc \in LockedSteps
        BY <3>3 DEF Deleted, Queued, Serves
      <4> QED
        BY <3>1, <3>2, <3>3, <4>1, <4>2, OneHolder
    <3>4. JobsOf(d)' = JobsOf(d)
      BY <1>1, <3>1, <3>3, JobsEffect
    <3> QED
      BY <2>2, <3>1, <3>2, <3>4
  <2>3. CASE EnqueueNumber(q)
    <3>1. d \in Documents /\ d = req[q].doc
      <4>1. req'[q].doc = req[q].doc
        BY <2>1, <2>3 DEF EnqueueNumber, RequestState
      <4> QED
        BY <1>1, <1>3, <2>3, <4>1 DEF EnqueueNumber, TypeInv, Shape
    <3>2. PICK n : n = Cardinality(JobsOf(d))
      OBVIOUS
    <3>3. n \in Nat /\ {job[j].attempt : j \in JobsOf(d)} = 1 .. n
      BY <3>1, <3>2, FS_CardinalityType DEF NumberInv, Numbered
    <3>4. PICK last \in {0} \cup 1 .. n :
             /\ \A m \in {0} \cup 1 .. n : m <= last
             /\ req' = [req EXCEPT ![q].pc = "sign_numbered", ![q].attempt = last + 1]
      BY <2>3, <3>1, <3>3 DEF EnqueueNumber
    <3>5. last = n
      BY <3>3, <3>4
    <3>6. req'[q].attempt = last + 1
      BY <2>1, <3>4 DEF RequestState
    <3>7. JobsOf(d)' = JobsOf(d)
      BY <2>3 DEF EnqueueNumber, dbVars, JobsOf, HasRow
    <3> QED
      BY <3>2, <3>5, <3>6, <3>7
  <2>4. CASE OwnerCheck(q)
    BY <1>1, <1>3, <2>4, AdvanceType DEF OwnerCheck, RequestSteps, TypeInv
  <2>5. ASSUME NEW a \in Users, NEW u \in Users, NEW e \in Documents, OwnerLock(q, a, u, e)
        PROVE  FALSE
    BY <1>3, <2>1, <2>5 DEF OwnerLock, NoRequest
  <2> QED
    BY <1>1, <1>3, <2>2, <2>3, <2>4, <2>5, RequestMoves
<1> QED
  BY <1>2, <1>3 DEF NumberInv

\* attempt_number is max + 1 under the lock: the attempts of a document are
\* numbered without a gap or a repetition (enqueue_signature).
THEOREM NumbersHaveNoGap == ASSUME RowLocks PROVE Spec => []AttemptsNumbered
<1>1. NumberInv => AttemptsNumbered
  BY DEF NumberInv, Numbered, AttemptsNumbered
<1>2. SafetyInv /\ NumberInv /\ [Next]_vars => NumberInv'
  BY NumberStep
<1> QED
  BY Safety, NumberInit, <1>1, <1>2, PTL DEF Spec

(***************************************************************************)
(* What the worker has in hand, when no commit fails: an attempt is        *)
(* RUNNING only in its hands, and the vault serves the attempts in flight. *)
(***************************************************************************)

\* The steps of the requests, of the administration and of the clock.
NotTheWorker ==
    \/ Administration
    \/ \E r \in Requests : Arrive(r) \/ EnqueueFirst(r) \/ Proceed(r)
    \/ Tick \/ UNCHANGED vars

LEMMA OthersRunNothing ==
    ASSUME TypeInv, NotTheWorker
    PROVE  /\ worker' = worker
           /\ \A j \in Jobs : job'[j].status = "running" => job[j].status = "running"
<1>1. ASSUME NEW r \in Requests, Proceed(r)
      PROVE  /\ worker' = worker
             /\ \A j \in Jobs : job'[j].status = "running" => job[j].status = "running"
  <2>1. CASE EnqueueCommit(r)
    BY <2>1 DEF EnqueueCommit, TypeInv, TypeOK
  <2>2. CASE DeleteCommit(r)
    <3>1. \A j \in Jobs : job'[j].status = "gone" \/ job'[j] = job[j]
      BY <2>2 DEF DeleteCommit, NoJob
    <3> QED
      BY <2>2, <3>1 DEF DeleteCommit
  <2>3. CASE ~EnqueueCommit(r) /\ ~DeleteCommit(r)
    BY <1>1, <2>3 DEF Proceed, EnqueueNumber, EnqueueRollback, DeleteCheck, DeleteCascade,
       OwnerCheck, OwnerCommit, LockedRefuse, dbVars
  <2> QED
    BY <2>1, <2>2, <2>3
<1>2. ASSUME NEW r \in Requests, Arrive(r) \/ EnqueueFirst(r)
      PROVE  UNCHANGED <<worker, job>>
  BY <1>2 DEF Arrive, EnqueueFirst, CreateSignature, DeleteLock, OwnerLock, EnqueueLock,
     EnqueueRefuse, dbVars
<1>3. CASE Administration \/ Tick \/ UNCHANGED vars
  BY <1>3 DEF Administration, UploadDocument, UpdateRole, UpdateSavedPin, Tick, vars, dbVars, memVars
<1> QED
  BY <1>1, <1>2, <1>3 DEF NotTheWorker

LEMMA HandStep ==
    ASSUME ~CommitFails, TypeInv, RunningIsInHand, [Next]_vars PROVE RunningIsInHand'
<1>0. /\ TypeOK /\ \A j \in Jobs : job[j] \in JobRow
      /\ worker.pc \in BusySteps => worker.job \in Jobs
  BY DEF TypeInv, TypeOK, Shape
<1> USE DEF BusySteps, WorkerSteps
<1>1. CASE NotTheWorker
  BY <1>1, OthersRunNothing DEF RunningIsInHand
<1>2. CASE Restart
  BY <1>2 DEF Restart, StartingWorker, RunningIsInHand
\* The worker goes on with its attempt.
<1>3. ASSUME job' = job, worker.pc \notin {"sweep", "idle", "release"},
             worker'.job = worker.job, worker'.pc \notin {"idle", "release"}
      PROVE  RunningIsInHand'
  BY <1>3 DEF RunningIsInHand
\* The worker lets its attempt go, which is closed.
<1>4. ASSUME \A j \in Jobs : job'[j].status # "running"
      PROVE  RunningIsInHand'
  BY <1>4 DEF RunningIsInHand
<1>5. ASSUME NEW j \in Jobs, ClaimNextSignature(j) PROVE RunningIsInHand'
  <2>1. /\ worker.pc = "idle" /\ worker'.pc = "claimed" /\ worker'.job = j
        /\ \A k \in Jobs \ {j} : job'[k] = job[k]
    BY <1>0, <1>5 DEF ClaimNextSignature, StartingWorker, TypeOK
  <2> QED
    BY <2>1 DEF RunningIsInHand
<1>6. CASE LoadAttempt
  <2>1. worker'.job = worker.job /\ worker'.pc \in {"store", "acquire", "recover"}
    <3>1. CASE Goto("recover")
      BY <1>0, <3>1, GotoType
    <3>2. CASE ~Goto("recover")
      BY <1>0, <1>6, <3>2 DEF LoadAttempt, TypeOK, WorkerState
    <3> QED
      BY <3>1, <3>2
  <2> QED
    BY <1>3, <1>6, <2>1 DEF LoadAttempt, dbVars
<1>7. CASE LoadNothing
  BY <1>4, <1>7 DEF LoadNothing, RunningIsInHand, dbVars, Mine
<1>8. CASE AcquireIdentity \/ CardSigns \/ StoreResult
  <2>1. worker'.job = worker.job /\ worker'.pc \in {"sign", "store", "finalize", "recover"}
    BY <1>0, <1>8, GotoType DEF AcquireIdentity, CardSigns, StoreResult
  <2> QED
    BY <1>3, <1>8, <2>1 DEF AcquireIdentity, CardSigns, StoreResult, dbVars
<1>9. CASE ReleaseAttempt
  BY <1>4, <1>9 DEF ReleaseAttempt, RunningIsInHand, dbVars
<1>10. CASE ReleaseOrphans
  <2>1. \A j \in Jobs : job'[j].status # "running"
    BY <1>0, <1>10 DEF ReleaseOrphans, JobRow
  <2> QED
    BY <1>4, <2>1
<1>11. CASE FinalizeCommit
  <2>1. worker.job \in Jobs
    BY <1>0, <1>11 DEF FinalizeCommit
  <2>2. \A j \in Jobs \ {worker.job} : job[j].status # "running" /\ job'[j] = job[j]
    BY <1>11 DEF FinalizeCommit, RunningIsInHand, Mine, TypeOK
  <2>3. job'[worker.job].status = "completed"
    BY <1>0, <1>11, <2>1 DEF FinalizeCommit, Mine, TypeOK, JobRow
  <2> QED
    BY <1>4, <2>2, <2>3
<1>12. CASE FinalizeRefused
  <2>1. worker'.job = worker.job /\ worker'.pc = "recover"
    BY <1>0, <1>12, GotoType DEF FinalizeRefused
  <2> QED
    BY <1>3, <1>12, <2>1 DEF FinalizeRefused, dbVars
<1>13. CASE RecoverCommit
  <2>1. worker.job \in Jobs
    BY <1>0, <1>13 DEF RecoverCommit
  <2>2. \A j \in Jobs \ {worker.job} : job[j].status # "running" /\ job'[j] = job[j]
    <3>1. \/ job' = job
          \/ job' = [job EXCEPT ![worker.job].status = "failed"]
      BY <1>13 DEF RecoverCommit, Mine
    <3>2. \A j \in Jobs \ {worker.job} : job'[j] = job[j]
      BY <1>0, <1>13, <3>1 DEF RecoverCommit, Mine, TypeOK
    <3>3. \A j \in Jobs \ {worker.job} : job[j].status # "running"
      BY <1>13 DEF RecoverCommit, RunningIsInHand
    <3> QED
      BY <3>2, <3>3
  <2>3. job'[worker.job].status # "running"
    BY <1>0, <1>13, <2>1 DEF RecoverCommit, Mine, TypeOK, JobRow
  <2> QED
    BY <1>4, <2>2, <2>3
<1>14. CASE ReleaseOrphansFails \/ RecoverFails
  BY <1>14 DEF ReleaseOrphansFails, RecoverFails
<1> QED
  BY <1>1, <1>2, <1>5, <1>6, <1>7, <1>8, <1>9, <1>10, <1>11, <1>12, <1>13, <1>14
  DEF Next, NotTheWorker, Work, Load, Settle

\* On either database, when no commit fails: a RUNNING attempt is the one in
\* the worker's hands, or waits for the sweep of the start; nothing else would
\* ever close it (run_once, release_orphaned_signatures).
THEOREM NothingRunsUnattended == ASSUME ~CommitFails PROVE Spec => []RunningIsInHand
<1>1. Init => RunningIsInHand
  BY DEF Init, RunningIsInHand, StartingWorker
<1>2. TypeInv /\ [Next]_vars => TypeInv'
  BY TypeAdministration, TypeArrive, TypeEnqueueFirst, TypeProceed, TypeWork,
     TypeSettle, TypeEnvironment DEF Next
<1>3. TypeInv /\ RunningIsInHand /\ [Next]_vars => RunningIsInHand'
  BY HandStep
<1> QED
  BY TypeInit, <1>1, <1>2, <1>3, PTL DEF Spec

\* The sweep closes the attempts it finds RUNNING, so none of them has a PIN.
PinsInv ==
    /\ PinsServeLiveAttempts
    /\ worker.pc = "sweep" => \A e \in held : job[e.job].status # "running"

\* A step that lets every attempt with a PIN be.
LEMMA PinsKept ==
    ASSUME PinsInv, held' \subseteq held,
           worker.pc # "release", worker.pc = "sweep" \/ worker'.pc # "sweep",
           \A e \in held' : job'[e.job] = job[e.job]
    PROVE  PinsInv'
BY DEF PinsInv, PinsServeLiveAttempts, Active

\* The same, of anybody but the worker.
LEMMA PinsKeptByOthers ==
    ASSUME PinsInv, held' \subseteq held, worker' = worker,
           \A e \in held' : Active(e.job) => job'[e.job] = job[e.job],
           \A e \in held' : job'[e.job].status = "running" => job[e.job].status = "running"
    PROVE  PinsInv'
BY DEF PinsInv, PinsServeLiveAttempts, Active

LEMMA PinsEnqueueCommit ==
    ASSUME SafetyInv, PinsInv, NEW r \in Requests, EnqueueCommit(r) PROVE PinsInv'
<1>1. TypeOK /\ req[r].job \in Jobs /\ job[req[r].job].status = "none"
  BY ServesRow DEF EnqueueCommit, SafetyInv, TypeInv
<1>2. /\ job'[req[r].job].status = "queued"
      /\ \A k \in Jobs \ {req[r].job} : job'[k] = job[k]
      /\ worker' = worker
  BY <1>1 DEF EnqueueCommit, TypeOK
<1>3. \A e \in held' : e \in held \/ e.job = req[r].job
  BY DEF EnqueueCommit, Hold, Discard, ForgetStale
<1>4. \A e \in held : e.job \in Jobs
  BY <1>1 DEF TypeOK, Entry
<1> QED
  BY <1>1, <1>2, <1>3, <1>4 DEF PinsInv, PinsServeLiveAttempts, Active, InFlight

LEMMA PinsDeleteCommit ==
    ASSUME SafetyInv, PinsInv, NEW r \in Requests, DeleteCommit(r) PROVE PinsInv'
<1>1. PICK d \in Documents : d = req[r].doc
  BY ServesRow DEF DeleteCommit, Serves
<1>2. Deleted(r)
  BY RequestRows DEF DeleteCommit, Queued, GivenAway
<1>3. /\ ActiveOn(d) = {}
      /\ \A j \in JobsOf(d) : job'[j].status = "gone"
      /\ \A j \in Jobs \ JobsOf(d) : job'[j] = job[j]
  BY <1>1, <1>2 DEF Deleted, Serves
<1>4. \A e \in held : e.job \in Jobs
  BY DEF SafetyInv, TypeInv, TypeOK, Entry
<1>5. \A j \in Jobs : Active(j) => job'[j] = job[j]
  BY <1>3 DEF ActiveOn
<1>6. \A j \in Jobs : job'[j].status = "running" => job[j].status = "running"
  BY <1>3 DEF JobsOf
<1>7. held' = held /\ worker' = worker
  BY DEF DeleteCommit
<1> QED
  BY <1>4, <1>5, <1>6, <1>7, PinsKeptByOthers

LEMMA PinsOfRequests ==
    ASSUME ~CommitFails, SafetyInv, PinsInv, NotTheWorker PROVE PinsInv'
<1>1. ASSUME UNCHANGED <<held, job, worker>> PROVE PinsInv'
  BY <1>1 DEF PinsInv, PinsServeLiveAttempts, Active
<1>2. ASSUME NEW r \in Requests, Proceed(r) PROVE PinsInv'
  <2>1. CASE ~EnqueueCommit(r) /\ ~DeleteCommit(r)
    <3>1. UNCHANGED <<held, job, worker>>
      BY <1>2, <2>1 DEF Proceed, EnqueueNumber, EnqueueRollback, DeleteCheck, DeleteCascade,
         OwnerCheck, OwnerCommit, LockedRefuse, dbVars
    <3> QED
      BY <1>1, <3>1
  <2> QED
    BY <2>1, PinsEnqueueCommit, PinsDeleteCommit
<1>3. ASSUME NEW r \in Requests, Arrive(r) \/ EnqueueFirst(r) PROVE PinsInv'
  <2>1. UNCHANGED <<held, job, worker>>
    BY <1>3 DEF Arrive, EnqueueFirst, CreateSignature, DeleteLock, OwnerLock, EnqueueLock,
       EnqueueRefuse, dbVars
  <2> QED
    BY <1>1, <2>1
<1>4. CASE Administration \/ Tick \/ UNCHANGED vars
  <2>1. UNCHANGED <<held, job, worker>>
    BY <1>4 DEF Administration, UploadDocument, UpdateRole, UpdateSavedPin, Tick, vars,
       dbVars, memVars
  <2> QED
    BY <1>1, <2>1
<1> QED
  BY <1>2, <1>3, <1>4 DEF NotTheWorker

LEMMA PinsOfWorker ==
    ASSUME ~CommitFails, SafetyInv, PinsInv, Work \/ Settle PROVE PinsInv'
<1>0. /\ TypeOK /\ \A j \in Jobs : job[j] \in JobRow
      /\ worker.pc \in BusySteps => worker.job \in Jobs
      /\ \A e \in held : e.job \in Jobs
  BY DEF SafetyInv, TypeInv, TypeOK, Shape, Entry
<1> USE DEF BusySteps, WorkerSteps
<1>1. ASSUME NEW j \in Jobs, ClaimNextSignature(j) PROVE PinsInv'
  <2>1. /\ job'[j].status = "running" /\ \A k \in Jobs \ {j} : job'[k] = job[k]
        /\ worker.pc = "idle" /\ worker'.pc = "claimed" /\ held' = held
    BY <1>0, <1>1 DEF ClaimNextSignature, StartingWorker, TypeOK, JobRow
  <2> QED
    BY <1>0, <2>1 DEF PinsInv, PinsServeLiveAttempts, Active, InFlight
<1>2. CASE LoadAttempt
  <2>1. worker'.pc \in {"store", "acquire", "recover"}
    <3>1. CASE Goto("recover")
      BY <1>0, <3>1, GotoType
    <3>2. CASE ~Goto("recover")
      BY <1>0, <1>2, <3>2 DEF LoadAttempt, TypeOK, WorkerState
    <3> QED
      BY <3>1, <3>2
  <2> QED
    BY <1>2, <2>1, PinsKept DEF LoadAttempt, dbVars
<1>3. CASE LoadNothing
  BY <1>3, PinsKept DEF LoadNothing, StartingWorker, dbVars
<1>4. CASE AcquireIdentity \/ CardSigns \/ StoreResult \/ FinalizeRefused
  <2>1. worker'.pc \in {"sign", "store", "finalize", "recover"} /\ job' = job
    BY <1>0, <1>4, GotoType DEF AcquireIdentity, CardSigns, StoreResult, FinalizeRefused, dbVars
  <2>2. held' \subseteq held
    BY <1>4 DEF AcquireIdentity, CardSigns, StoreResult, FinalizeRefused, Take, Discard, ForgetStale
  <2>3. worker.pc \notin {"release", "sweep"}
    BY <1>4 DEF AcquireIdentity, CardSigns, StoreResult, FinalizeRefused
  <2> QED
    BY <2>1, <2>2, <2>3, PinsKept
<1>5. CASE ReleaseAttempt
  <2>1. /\ worker'.pc = "idle" /\ job' = job
        /\ held' \subseteq held /\ \A e \in held' : e.job # worker.job
    BY <1>5 DEF ReleaseAttempt, StartingWorker, dbVars, Discard, Mine
  <2> QED
    BY <2>1 DEF PinsInv, PinsServeLiveAttempts, Active
<1>6. CASE ReleaseOrphans
  <2>1. worker.pc = "sweep" /\ worker'.pc = "idle" /\ held' = held
    BY <1>0, <1>6, GotoType DEF ReleaseOrphans
  <2>2. \A j \in Jobs : job[j].status # "running" => job'[j] = job[j]
    BY <1>6 DEF ReleaseOrphans
  <2>3. \A e \in held : job[e.job].status # "running" /\ e.job \in Jobs
    BY <1>0, <2>1 DEF PinsInv
  <2> QED
    BY <2>1, <2>2, <2>3, PinsKept
<1>7. CASE FinalizeCommit \/ RecoverCommit
  <2>1. /\ worker'.pc = "release" /\ worker'.job = worker.job /\ held' = held
        /\ worker.pc \in {"finalize", "recover"}
    BY <1>0, <1>7, GotoType DEF FinalizeCommit, RecoverCommit
  <2>2. \A j \in Jobs \ {worker.job} : job'[j] = job[j]
    <3>1. CASE FinalizeCommit
      BY <1>0, <3>1 DEF FinalizeCommit, Mine, TypeOK
    <3>2. CASE RecoverCommit
      <4>1. \/ job' = job
            \/ job' = [job EXCEPT ![worker.job].status = "failed"]
        BY <3>2 DEF RecoverCommit, Mine
      <4> QED
        BY <1>0, <4>1 DEF TypeOK
    <3> QED
      BY <1>7, <3>1, <3>2
  <2> QED
    BY <1>0, <2>1, <2>2 DEF PinsInv, PinsServeLiveAttempts, Active
<1>8. CASE ReleaseOrphansFails \/ RecoverFails
  BY <1>8 DEF ReleaseOrphansFails, RecoverFails
<1> QED
  BY <1>1, <1>2, <1>3, <1>4, <1>5, <1>6, <1>7, <1>8 DEF Work, Load, Settle

\* With row locks, when no commit fails: the vault holds no PIN but those of
\* attempts in flight, or of the one being let go (pin_vault.py: "it waits here
\* until the worker asks for it").
THEOREM VaultServesAttempts ==
    ASSUME RowLocks, ~CommitFails PROVE Spec => []PinsServeLiveAttempts
<1>1. Init => PinsInv
  BY DEF Init, PinsInv, PinsServeLiveAttempts
<1>2. SafetyInv /\ PinsInv /\ [Next]_vars => PinsInv'
  <2> SUFFICES ASSUME SafetyInv, PinsInv, [Next]_vars PROVE PinsInv'
    OBVIOUS
  <2>1. CASE Restart
    BY <2>1 DEF Restart, PinsInv, PinsServeLiveAttempts
  <2> QED
    BY <2>1, PinsOfRequests, PinsOfWorker DEF Next, NotTheWorker
<1>3. PinsInv => PinsServeLiveAttempts
  BY DEF PinsInv
<1> QED
  BY Safety, <1>1, <1>2, <1>3, PTL DEF Spec

=============================================================================
