--------------------------- MODULE SigningWorkflow ---------------------------
(***************************************************************************)
(* The signing workflow of Signur: documents are uploaded, a request       *)
(* queues an attempt to sign one, a single worker claims the attempt, uses *)
(* the card and records the outcome.  Requests run in threads of the       *)
(* server, each one in a database transaction of several statements, while *)
(* the worker runs in the same process; a restart ends them all.           *)
(*                                                                         *)
(* A request keeps what it read first (SQLAlchemy's identity map does not  *)
(* refresh an object that a later SELECT ... FOR UPDATE returns again), so *)
(* req[r] and worker hold the values seen, which may be stale when used.   *)
(*                                                                         *)
(* RowLocks tells the two databases apart.  TRUE is PostgreSQL: FOR UPDATE *)
(* takes the row, others wait.  FALSE is SQLite, the default: FOR UPDATE   *)
(* does nothing, every SELECT sees what is committed at that moment, and   *)
(* only the final flush and commit of a transaction are serialised.        *)
(***************************************************************************)
EXTENDS Naturals, FiniteSets, PinVault

CONSTANTS Documents, Users, Requests,
          Cards,        \* how an attempt signs: "graphic", "remote", "local"
          RowLocks,     \* does SELECT ... FOR UPDATE lock the row?
          CommitFails,  \* may a commit raise (disk full, connection lost)?
          MaxClock, MaxVersion, MaxCrashes,  \* bounds of the model
          None

ASSUME WorkflowAssumption ==
    /\ Cards \subseteq {"graphic", "remote", "local"}
    /\ RowLocks \in BOOLEAN
    /\ CommitFails \in BOOLEAN
    /\ MaxClock \in Nat /\ MaxVersion \in Nat /\ MaxCrashes \in Nat
    /\ None \notin Documents \cup Users \cup Requests \cup Jobs \cup Cards

VARIABLES
    doc,        \* the documents table
    job,        \* the signature_jobs table
    artifacts,  \* the signed_artifacts table, one record a row
    role,       \* users.role
    savedPin,   \* does the local certificate have saved_pin_ciphertext?
    held,       \* the PIN vault, in memory
    lock,       \* the request that holds the row of a document
    req,        \* the requests in progress, in memory
    worker,     \* the signature worker, in memory
    clock,
    crashes     \* restarts so far, bounded by MaxCrashes

dbVars  == <<doc, job, artifacts, role, savedPin>>
memVars == <<held, lock, req, worker>>
vars    == <<dbVars, memVars, clock, crashes>>

-----------------------------------------------------------------------------
(* Types *)

Roles     == {"no_access", "user", "admin"}
Present   == {"to_sign", "signing_failed", "signed"}
DocStates == {"unborn", "deleted"} \cup Present
InFlight  == {"queued", "running"}
Statuses  == {"none", "gone", "completed", "failed"} \cup InFlight

DocumentRow == [state : DocStates, owner : Users \cup {None}, version : Nat]
JobRow == [status : Statuses, doc : Documents \cup {None},
           operator : Users \cup {None}, card : Cards \cup {None},
           attempt : Nat, created : Nat]

RequestSteps == {"sign_read", "sign_checked", "sign_numbered",
                 "delete_locked", "delete_checked", "delete_loaded",
                 "owner_locked", "owner_checked"}
RequestState == [pc : RequestSteps \cup {"idle"},
                 doc : Documents \cup {None}, job : Jobs \cup {None},
                 user : Users \cup {None}, card : Cards \cup {None},
                 pin : BOOLEAN, state : DocStates, version : Nat,
                 attempt : Nat, cascade : SUBSET Jobs]
NoRequest == [pc |-> "idle", doc |-> None, job |-> None, user |-> None,
              card |-> None, pin |-> FALSE, state |-> "unborn",
              version |-> 0, attempt |-> 0, cascade |-> {}]

WorkerSteps == {"sweep", "idle", "claimed", "acquire", "sign", "store",
                "finalize", "recover", "release"}
WorkerState == [pc : WorkerSteps, job : Jobs \cup {None}, card : Cards \cup {None},
                state : DocStates, version : Nat]
StartingWorker == [pc |-> "sweep", job |-> None, card |-> None,
                   state |-> "unborn", version |-> 0]

NoJob == [status |-> "none", doc |-> None, operator |-> None, card |-> None,
          attempt |-> 0, created |-> 0]

-----------------------------------------------------------------------------
(* What the database answers *)

Exists(d)   == doc[d].state \in Present
Active(j)   == job[j].status \in InFlight
HasRow(j)   == job[j].status \notin {"none", "gone"}
JobsOf(d)   == {j \in Jobs : HasRow(j) /\ job[j].doc = d}
\* Mutant of ActiveOn: RUNNING left out of ACTIVE_JOB_STATUSES.
QueuedOn(d) == {j \in JobsOf(d) : job[j].status = "queued"}

ActiveOn(d) == {j \in JobsOf(d) : Active(j)}

\* AccessUser, then the filter of the query: one's own documents, or all of
\* them for an administrator.
MayAct(u, d) ==
    \/ role[u] = "admin"
    \/ role[u] = "user" /\ doc[d].owner = u

\* Mutant of CanLock: with_for_update() forgotten.
CanReadAnyway(d) == TRUE

\* A FOR UPDATE of this row does not wait.
CanLock(d) == RowLocks => lock[d] = None

\* Mutant of Lock: the row is read, not kept.
ReadOnly(r, d) == lock' = lock
\* Mutant of Unlock: a session that is never closed.
KeepOpen(r)  == lock' = lock

Lock(r, d)   == lock' = IF RowLocks THEN [lock EXCEPT ![d] = r] ELSE lock
Unlock(r)    == lock' = [d \in Documents |-> IF lock[d] = r THEN None ELSE lock[d]]

Advance(r, step) == req' = [req EXCEPT ![r].pc = step]
\* The handler returns or raises: its session is closed, its locks released.
Answer(r) == req' = [req EXCEPT ![r] = NoRequest] /\ Unlock(r)

-----------------------------------------------------------------------------
(* Uploads and administration, each one a single transaction *)

UploadDocument(u, d) ==
    /\ doc[d].state = "unborn"
    /\ role[u] # "no_access"
    /\ doc' = [doc EXCEPT ![d] = [state |-> "to_sign", owner |-> u, version |-> 1]]
    /\ UNCHANGED <<job, artifacts, role, savedPin, memVars, clock, crashes>>

UpdateRole(admin, u, new) ==
    /\ role[admin] = "admin"
    /\ ~(u = admin /\ new # "admin")
    /\ role[u] # new
    /\ role[u] = "admin" => Cardinality({v \in Users : role[v] = "admin"}) > 1
    /\ role' = [role EXCEPT ![u] = new]
    /\ UNCHANGED <<doc, job, artifacts, savedPin, memVars, clock, crashes>>

\* update_proxy stores or clears the saved PIN whatever is queued on it.
UpdateSavedPin(admin) ==
    /\ role[admin] = "admin"
    /\ "local" \in Cards
    /\ savedPin' = ~savedPin
    /\ UNCHANGED <<doc, job, artifacts, role, memVars, clock, crashes>>

-----------------------------------------------------------------------------
(* POST /documents/{id}/signatures *)

\* create_signature reads the document and the certificate, without a lock,
\* and applies the PIN rule.  The id the attempt will have is picked here.
CreateSignature(r, u, d, j, card, pin) ==
    /\ req[r].pc = "idle"
    /\ Exists(d) /\ MayAct(u, d)
    /\ card = "local" => pin \/ savedPin
    /\ pin => card = "local"
    /\ job[j].status = "none" /\ \A q \in Requests : req[q].job # j
    /\ req' = [req EXCEPT ![r] = [NoRequest EXCEPT !.pc = "sign_read",
                  !.doc = d, !.job = j, !.user = u, !.card = card, !.pin = pin,
                  !.state = doc[d].state]]
    /\ UNCHANGED <<dbVars, held, lock, worker, clock, crashes>>

\* enqueue_signature locks the row, then judges the state read before it had
\* the lock and the attempts there are now.
EnqueueLock(r) ==
    LET d == req[r].doc IN
    /\ req[r].pc = "sign_read"
    /\ CanLock(d)
    /\ Exists(d) /\ req[r].state # "signed" /\ ActiveOn(d) = {}
    /\ Lock(r, d)
    /\ Advance(r, "sign_checked")
    /\ UNCHANGED <<dbVars, held, worker, clock, crashes>>

\* document_not_found, document_finalized, signature_in_progress
EnqueueRefuse(r) ==
    LET d == req[r].doc IN
    /\ req[r].pc = "sign_read"
    /\ CanLock(d)
    /\ ~(Exists(d) /\ req[r].state # "signed" /\ ActiveOn(d) = {})
    /\ Answer(r)
    /\ UNCHANGED <<dbVars, held, worker, clock, crashes>>

\* Mutant of EnqueueNumber: the count of the attempts added to the last number.
EnqueueNumberBeyond(r) ==
    LET numbers == {0} \cup {job[j].attempt : j \in JobsOf(req[r].doc)} IN
    /\ req[r].pc = "sign_checked"
    /\ \E last \in numbers :
          /\ \A n \in numbers : n <= last
          /\ req' = [req EXCEPT ![r].pc = "sign_numbered",
                                ![r].attempt = last + Cardinality(numbers)]
    /\ UNCHANGED <<dbVars, held, lock, worker, clock, crashes>>

EnqueueNumber(r) ==
    LET numbers == {0} \cup {job[j].attempt : j \in JobsOf(req[r].doc)} IN
    /\ req[r].pc = "sign_checked"
    /\ \E last \in numbers :
          /\ \A n \in numbers : n <= last
          /\ req' = [req EXCEPT ![r].pc = "sign_numbered", ![r].attempt = last + 1]
    /\ UNCHANGED <<dbVars, held, lock, worker, clock, crashes>>

\* UniqueConstraint("document_id", "attempt_number")
NumberIsFree(r) == \A j \in JobsOf(req[r].doc) : job[j].attempt # req[r].attempt

\* flush, hold the PIN, commit; the row locks go with the transaction.
EnqueueCommit(r) ==
    /\ req[r].pc = "sign_numbered"
    /\ NumberIsFree(r)
    /\ job' = [job EXCEPT ![req[r].job] =
                 [status |-> "queued", doc |-> req[r].doc, operator |-> req[r].user,
                  card |-> req[r].card, attempt |-> req[r].attempt, created |-> clock]]
    /\ held' = IF req[r].pin THEN Hold(held, clock, req[r].job) ELSE held
    /\ Answer(r)
    /\ UNCHANGED <<doc, artifacts, role, savedPin, worker, clock, crashes>>

\* The flush raises because the number is taken, or it or the commit fails;
\* the PIN held before a commit that fails stays in the vault.
EnqueueRollback(r) ==
    /\ req[r].pc = "sign_numbered"
    /\ \/ ~NumberIsFree(r) /\ UNCHANGED held
       \/ /\ CommitFails
          /\ \/ UNCHANGED held
             \/ NumberIsFree(r) /\ req[r].pin /\ held' = Hold(held, clock, req[r].job)
    /\ Answer(r)
    /\ UNCHANGED <<dbVars, worker, clock, crashes>>

-----------------------------------------------------------------------------
(* DELETE /documents/{id} *)

\* Mutant of DeleteLock: signed documents are not refused.
DeleteLockSigned(r, u, d) ==
    /\ req[r].pc = "idle"
    /\ Exists(d) /\ MayAct(u, d)
    /\ CanLock(d)
    /\ Lock(r, d)
    /\ req' = [req EXCEPT ![r] = [NoRequest EXCEPT !.pc = "delete_locked", !.doc = d]]
    /\ UNCHANGED <<dbVars, held, worker, clock, crashes>>

\* The first SELECT reads the row and locks it.
DeleteLock(r, u, d) ==
    /\ req[r].pc = "idle"
    /\ Exists(d) /\ MayAct(u, d)
    /\ CanLock(d)
    /\ doc[d].state # "signed"
    /\ Lock(r, d)
    /\ req' = [req EXCEPT ![r] = [NoRequest EXCEPT !.pc = "delete_locked", !.doc = d]]
    /\ UNCHANGED <<dbVars, held, worker, clock, crashes>>

\* Mutant of DeleteCheck: the active attempts are not looked up.
DeleteUnchecked(r) ==
    /\ req[r].pc = "delete_locked"
    /\ Advance(r, "delete_checked")
    /\ UNCHANGED <<dbVars, held, lock, worker, clock, crashes>>

DeleteCheck(r) ==
    /\ req[r].pc = "delete_locked"
    /\ ActiveOn(req[r].doc) = {}
    /\ Advance(r, "delete_checked")
    /\ UNCHANGED <<dbVars, held, lock, worker, clock, crashes>>

\* session.delete loads the rows the cascade will take.
DeleteCascade(r) ==
    /\ req[r].pc = "delete_checked"
    /\ req' = [req EXCEPT ![r].pc = "delete_loaded", ![r].cascade = JobsOf(req[r].doc)]
    /\ UNCHANGED <<dbVars, held, lock, worker, clock, crashes>>

DeleteCommit(r) ==
    LET cascade == req[r].cascade IN
    /\ req[r].pc = "delete_loaded"
    /\ doc' = [doc EXCEPT ![req[r].doc].state = "deleted"]
    /\ job' = [j \in Jobs |-> IF j \in cascade THEN [NoJob EXCEPT !.status = "gone"]
                                               ELSE job[j]]
    /\ artifacts' = {a \in artifacts : a.job \notin cascade}
    /\ Answer(r)
    /\ UNCHANGED <<role, savedPin, held, worker, clock, crashes>>

-----------------------------------------------------------------------------
(* PATCH /admin/documents/{id}/owner *)

OwnerLock(r, admin, u, d) ==
    /\ req[r].pc = "idle"
    /\ role[admin] = "admin"
    /\ Exists(d) /\ CanLock(d)
    /\ role[u] # "no_access"
    /\ doc[d].owner # u
    /\ doc[d].version < MaxVersion
    /\ Lock(r, d)
    /\ req' = [req EXCEPT ![r] = [NoRequest EXCEPT !.pc = "owner_locked",
                  !.doc = d, !.user = u, !.version = doc[d].version]]
    /\ UNCHANGED <<dbVars, held, worker, clock, crashes>>

\* Mutant of OwnerCheck: the active attempts are not looked up.
OwnerUnchecked(r) ==
    /\ req[r].pc = "owner_locked"
    /\ Advance(r, "owner_checked")
    /\ UNCHANGED <<dbVars, held, lock, worker, clock, crashes>>

OwnerCheck(r) ==
    /\ req[r].pc = "owner_locked"
    /\ ActiveOn(req[r].doc) = {}
    /\ Advance(r, "owner_checked")
    /\ UNCHANGED <<dbVars, held, lock, worker, clock, crashes>>

OwnerCommit(r) ==
    LET d == req[r].doc IN
    /\ req[r].pc = "owner_checked"
    /\ Exists(d)
    /\ doc' = [doc EXCEPT ![d].owner = req[r].user, ![d].version = req[r].version + 1]
    /\ Answer(r)
    /\ UNCHANGED <<job, artifacts, role, savedPin, held, worker, clock, crashes>>

\* signature_in_progress; the UPDATE of a row that is gone; a failed commit.
LockedRefuse(r) ==
    /\ \/ req[r].pc \in {"delete_locked", "owner_locked"} /\ ActiveOn(req[r].doc) # {}
       \/ req[r].pc = "owner_checked" /\ ~Exists(req[r].doc)
       \/ req[r].pc \in {"delete_loaded", "owner_checked"} /\ CommitFails
    /\ Answer(r)
    /\ UNCHANGED <<dbVars, held, worker, clock, crashes>>

-----------------------------------------------------------------------------
(* The worker: _pump, run_once and process_claimed_signature *)

Mine == worker.job
Goto(step) == worker' = [worker EXCEPT !.pc = step]

\* Mutant of FailedDocument: SIGNED is not excepted.
FailedAnyDocument(row) ==
    IF row.state \in Present
    THEN [row EXCEPT !.state = "signing_failed", !.version = @ + 1]
    ELSE row

\* Mutant of FailedDocument: the status of the attempt given to the document.
FailedLikeAttempt(row) ==
    IF row.state \in Present \ {"signed"}
    THEN [row EXCEPT !.state = "failed", !.version = @ + 1]
    ELSE row

\* An attempt that ended badly leaves its document to be signed again, unless
\* it is signed already.
FailedDocument(row) ==
    IF row.state \in Present \ {"signed"}
    THEN [row EXCEPT !.state = "signing_failed", !.version = @ + 1]
    ELSE row

\* Mutant of ReleaseOrphans: the attempts are not closed.
ReleaseNothing ==
    /\ worker.pc = "sweep"
    /\ Goto("idle")
    /\ UNCHANGED <<dbVars, held, lock, req, clock, crashes>>

\* Mutant of ReleaseOrphans: everything not queued is closed.
ReleaseStarted ==
    /\ worker.pc = "sweep"
    /\ job' = [j \in Jobs |-> IF HasRow(j) /\ job[j].status # "queued"
                               THEN [job[j] EXCEPT !.status = "failed"] ELSE job[j]]
    /\ Goto("idle")
    /\ UNCHANGED <<doc, artifacts, role, savedPin, held, lock, req, clock, crashes>>

\* release_orphaned_signatures, before anything is claimed.  The session sees
\* one Document object however many orphans point to it.
ReleaseOrphans ==
    LET orphans == {j \in Jobs : job[j].status = "running"}
        hit     == {d \in Documents : \E j \in orphans : job[j].doc = d}
    IN
    /\ worker.pc = "sweep"
    /\ \A d \in hit : CanLock(d)
    /\ job' = [j \in Jobs |-> IF j \in orphans THEN [job[j] EXCEPT !.status = "failed"]
                                               ELSE job[j]]
    /\ doc' = [d \in Documents |-> IF d \in hit THEN FailedDocument(doc[d]) ELSE doc[d]]
    /\ Goto("idle")
    /\ UNCHANGED <<artifacts, role, savedPin, held, lock, req, clock, crashes>>

\* "the queue must be worked off even if the sweep fails"
ReleaseOrphansFails ==
    /\ worker.pc = "sweep"
    /\ CommitFails
    /\ Goto("idle")
    /\ UNCHANGED <<dbVars, held, lock, req, clock, crashes>>

\* The oldest queued attempt; random ids break the ties of created_at.
ClaimNextSignature(j) ==
    /\ worker.pc = "idle"
    /\ job[j].status = "queued"
    /\ \A k \in Jobs : job[k].status = "queued" => job[j].created <= job[k].created
    /\ job' = [job EXCEPT ![j].status = "running"]
    /\ worker' = [StartingWorker EXCEPT !.pc = "claimed", !.job = j]
    /\ UNCHANGED <<doc, artifacts, role, savedPin, held, lock, req, clock, crashes>>

\* A fresh session loads the attempt, its document and its operator at once,
\* reads the original and checks that the operator may still act.
LoadAttempt ==
    LET row == job[Mine]
        d   == row.doc
    IN
    /\ worker.pc = "claimed"
    /\ row.status = "running"
    /\ \/ /\ Exists(d) /\ MayAct(row.operator, d)
          /\ worker' = [worker EXCEPT
                !.pc = IF row.card = "graphic" THEN "store" ELSE "acquire",
                !.card = row.card, !.state = doc[d].state, !.version = doc[d].version]
       \/ Goto("recover")  \* no document, file missing or short, access_revoked
    /\ UNCHANGED <<dbVars, held, lock, req, clock, crashes>>

\* "if job is None or job.status is not RUNNING: return False": nothing is
\* discarded from the vault.
LoadNothing ==
    /\ worker.pc = "claimed"
    /\ job[Mine].status # "running"
    /\ worker' = [StartingWorker EXCEPT !.pc = "idle"]
    /\ UNCHANGED <<dbVars, held, lock, req, clock, crashes>>

\* Without row locks alone can the attempt be gone: a delete_document that read
\* the attempts before this one was there.
Load ==
    /\ worker.pc = "claimed"
    /\ IF job[Mine].status = "running" THEN LoadAttempt ELSE LoadNothing

\* _acquire_signing_identity: the PIN typed for this attempt, else the saved
\* one; then the identity is read and frozen on the attempt, if it has a row.
AcquireIdentity ==
    LET local  == worker.card = "local"
        hasPin == local => TakeAnswersPin(held, clock, Mine) \/ savedPin
    IN
    /\ worker.pc = "acquire"
    /\ held' = IF local THEN Take(held, clock, Mine) ELSE held
    /\ \/ hasPin /\ HasRow(Mine) /\ Goto("sign")
       \/ Goto("recover")  \* pkcs11_pin_required, no card, not active any more
    /\ UNCHANGED <<dbVars, lock, req, clock, crashes>>

\* The card signs, or refuses.
CardSigns ==
    /\ worker.pc = "sign"
    /\ \/ Goto("store")
       \/ Goto("recover")
    /\ UNCHANGED <<dbVars, held, lock, req, clock, crashes>>

\* The result is written to the storage; a graphic attempt builds it here.
StoreResult ==
    /\ worker.pc = "store"
    /\ \/ Goto("finalize")
       \/ Goto("recover")
    /\ UNCHANGED <<dbVars, held, lock, req, clock, crashes>>

\* The attempt and the document are selected FOR UPDATE, but judged as they
\* were when they were loaded; unique(document_id) holds at the flush.
MayFinalize ==
    LET d == job[Mine].doc IN
    /\ HasRow(Mine) /\ Exists(d)
    /\ worker.state # "signed"
    /\ \A a \in artifacts : a.doc # d

FinalizeCommit ==
    LET d == job[Mine].doc IN
    /\ worker.pc = "finalize"
    /\ HasRow(Mine) => CanLock(d)
    /\ MayFinalize
    /\ artifacts' = artifacts \cup {[doc |-> d, job |-> Mine]}
    /\ job' = [job EXCEPT ![Mine].status = "completed"]
    /\ doc' = [doc EXCEPT ![d].state = "signed", ![d].version = worker.version + 1]
    /\ Goto("release")
    /\ UNCHANGED <<role, savedPin, held, lock, req, clock, crashes>>

FinalizeRefused ==
    /\ worker.pc = "finalize"
    /\ HasRow(Mine) => CanLock(job[Mine].doc)
    /\ ~MayFinalize \/ CommitFails
    /\ Goto("recover")
    /\ UNCHANGED <<dbVars, held, lock, req, clock, crashes>>

\* The except block: a fresh transaction closes the attempt.
RecoverCommit ==
    LET d == job[Mine].doc IN
    /\ worker.pc = "recover"
    /\ IF job[Mine].status = "running"
       THEN /\ CanLock(d)
            /\ job' = [job EXCEPT ![Mine].status = "failed"]
            /\ doc' = [doc EXCEPT ![d] = FailedDocument(@)]
       ELSE UNCHANGED <<doc, job>>
    /\ Goto("release")
    /\ UNCHANGED <<artifacts, role, savedPin, held, lock, req, clock, crashes>>

\* It raises: the pump goes on, the attempt stays RUNNING until a restart.
RecoverFails ==
    /\ worker.pc = "recover"
    /\ CommitFails
    /\ Goto("release")
    /\ UNCHANGED <<dbVars, held, lock, req, clock, crashes>>

\* Mutant of ReleaseAttempt: no finally.
ReleaseWithoutDiscard ==
    /\ worker.pc = "release"
    /\ worker' = [StartingWorker EXCEPT !.pc = "idle"]
    /\ UNCHANGED <<dbVars, held, lock, req, clock, crashes>>

\* finally: the PIN the attempt was given is done with.
ReleaseAttempt ==
    /\ worker.pc = "release"
    /\ held' = Discard(held, Mine)
    /\ worker' = [StartingWorker EXCEPT !.pc = "idle"]
    /\ UNCHANGED <<dbVars, lock, req, clock, crashes>>

-----------------------------------------------------------------------------
(* The environment *)

Tick ==
    /\ clock < MaxClock
    /\ clock' = clock + 1
    /\ UNCHANGED <<dbVars, memVars, crashes>>

\* The process stops at any point and starts again: what was not committed is
\* undone, what was in memory is gone.
Restart ==
    /\ crashes < MaxCrashes
    /\ crashes' = crashes + 1
    /\ held' = {}
    /\ lock' = [d \in Documents |-> None]
    /\ req' = [r \in Requests |-> NoRequest]
    /\ worker' = StartingWorker
    /\ UNCHANGED <<dbVars, clock>>

-----------------------------------------------------------------------------

Init ==
    /\ doc = [d \in Documents |-> [state |-> "unborn", owner |-> None, version |-> 0]]
    /\ job = [j \in Jobs |-> NoJob]
    /\ artifacts = {}
    /\ role \in {f \in [Users -> Roles] : \E u \in Users : f[u] = "admin"}
    /\ savedPin \in BOOLEAN
    /\ held = {}
    /\ lock = [d \in Documents |-> None]
    /\ req = [r \in Requests |-> NoRequest]
    /\ worker = StartingWorker
    /\ clock = 0
    /\ crashes = 0

Administration ==
    \/ \E u \in Users, d \in Documents : UploadDocument(u, d)
    \/ \E admin, u \in Users, new \in Roles : UpdateRole(admin, u, new)
    \/ \E admin \in Users : UpdateSavedPin(admin)

\* A request arrives.
Arrive(r) ==
    \/ \E u \in Users, d \in Documents, j \in Jobs, card \in Cards, pin \in BOOLEAN :
          CreateSignature(r, u, d, j, card, pin)
    \/ \E u \in Users, d \in Documents : DeleteLock(r, u, d)
    \/ \E admin, u \in Users, d \in Documents : OwnerLock(r, admin, u, d)

\* A request in progress takes its next step.
EnqueueFirst(r) == EnqueueLock(r) \/ EnqueueRefuse(r)
Proceed(r) ==
    \/ EnqueueNumber(r) \/ EnqueueCommit(r) \/ EnqueueRollback(r)
    \/ DeleteCheck(r) \/ DeleteCascade(r) \/ DeleteCommit(r)
    \/ OwnerCheck(r) \/ OwnerCommit(r)
    \/ LockedRefuse(r)

\* The steps of the worker that wait for no row.
Work ==
    \/ ReleaseOrphansFails
    \/ \E j \in Jobs : ClaimNextSignature(j)
    \/ Load \/ AcquireIdentity \/ CardSigns \/ StoreResult
    \/ RecoverFails \/ ReleaseAttempt

\* Those that lock the document.
Settle == ReleaseOrphans \/ FinalizeCommit \/ FinalizeRefused \/ RecoverCommit

Next ==
    \/ Administration
    \/ \E r \in Requests : Arrive(r) \/ EnqueueFirst(r) \/ Proceed(r)
    \/ Work \/ Settle
    \/ Tick \/ Restart

Spec == Init /\ [][Next]_vars

\* The thread pool runs every request it took and the pump never stops; the
\* rows' wait queues serve every waiter, so a lock often free is obtained.
Fairness ==
    /\ \A r \in Requests : WF_vars(Proceed(r)) /\ SF_vars(EnqueueFirst(r))
    /\ WF_vars(Work)
    /\ SF_vars(Settle)
    /\ WF_vars(Tick)

FairSpec == Spec /\ Fairness

-----------------------------------------------------------------------------
(* Properties *)

\* Every table and every thread holds values of its type.
TypeOK ==
    /\ doc \in [Documents -> DocumentRow]
    /\ job \in [Jobs -> JobRow]
    /\ artifacts \subseteq [doc : Documents, job : Jobs]
    /\ role \in [Users -> Roles]
    /\ savedPin \in BOOLEAN
    /\ held \subseteq Entry
    /\ lock \in [Documents -> Requests \cup {None}]
    /\ req \in [Requests -> RequestState]
    /\ worker \in WorkerState
    /\ clock \in Nat
    /\ crashes \in Nat

\* enqueue_signature refuses a second attempt while one is active
\* (signature_in_progress): two requests and the worker, in whatever order,
\* never leave two attempts in flight on one document.
OneActiveAttempt ==
    \A j, k \in Jobs : Active(j) /\ Active(k) /\ job[j].doc = job[k].doc => j = k

\* delete_document refuses during an attempt, enqueue_signature answers
\* document_not_found: an attempt in flight always has its document.
NoOrphanAttempt == \A j \in Jobs : Active(j) => Exists(job[j].doc)

\* What process_claimed_signature writes in one commit stays together: a
\* document is signed exactly when it has a result, it never has two, and the
\* attempts completed are the ones the results came from.
SignedConsistently ==
    /\ \A d \in Documents :
          doc[d].state = "signed" <=> \E a \in artifacts : a.doc = d
    /\ \A a, b \in artifacts : a.doc = b.doc => a = b
    /\ \A a \in artifacts : job[a.job].doc = a.doc
    /\ \A j \in Jobs :
          job[j].status = "completed" <=> \E a \in artifacts : a.job = j

\* attempt_number is max + 1 under the lock: the attempts of a document are
\* numbered without a gap or a repetition.
AttemptsNumbered ==
    \A d \in Documents :
        {job[j].attempt : j \in JobsOf(d)} = 1 .. Cardinality(JobsOf(d))

\* A RUNNING attempt is the one in the worker's hands, or waits for the sweep
\* of the start: nothing else would ever close it, and its document would
\* refuse a new attempt.
RunningIsInHand ==
    \A j \in Jobs : job[j].status = "running" =>
        \/ worker.pc = "sweep"
        \/ worker.job = j /\ worker.pc \notin {"idle", "release"}

\* pin_vault: "it waits here until the worker asks for it": the vault holds no
\* PIN but those of attempts in flight, or of the one being let go.
PinsServeLiveAttempts ==
    \A e \in held :
        \/ Active(e.job)
        \/ worker.pc = "release" /\ worker.job = e.job

\* A signed document stays signed and keeps the result it got, whatever is
\* retried, deleted or interrupted afterwards.
SignedIsFinal ==
    [][/\ artifacts \subseteq artifacts'
       /\ \A d \in Documents : doc[d].state = "signed" => doc'[d].state = "signed"]_vars

\* An attempt once closed is never opened, signed or closed again by the
\* sweep, the worker or a later request.
SettledIsFinal ==
    [][\A j \in Jobs : job[j].status \in {"completed", "failed", "gone"} =>
          job'[j].status \in {job[j].status, "gone"}]_vars

\* Document.version counts the changes of state and owner: the worker writes
\* the version it loaded plus one, so nobody may have counted in between.
VersionCountsChanges ==
    [][\A d \in Documents :
          Exists(d) /\ Exists(d)' /\ doc'[d] # doc[d]
             => doc'[d].version = doc[d].version + 1]_vars

\* update_document_owner: the owner does not change during an attempt.
OwnerKeptDuringAttempt ==
    [][\A d \in Documents : ActiveOn(d) # {} => doc'[d].owner = doc[d].owner]_vars

\* enqueue_signature: "if locked_document.state is SIGNED: document_finalized".
NoAttemptOnSigned ==
    \A j \in Jobs : Active(j) => doc[job[j].doc].state # "signed"

\* The queue is worked off: every attempt is closed one way or another, also
\* when the process stops in the middle of it.
EveryAttemptSettles == \A j \in Jobs : Active(j) ~> ~Active(j)

\* No request waits for ever for a row somebody else holds.
EveryRequestAnswered == \A r \in Requests : req[r].pc # "idle" ~> req[r].pc = "idle"
=============================================================================
