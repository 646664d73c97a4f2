-------------------------- MODULE SigningInvariant --------------------------
(***************************************************************************)
(* The inductive invariant behind the safety of SigningWorkflow: what a    *)
(* request that holds a row lock, and the worker that holds a RUNNING      *)
(* attempt, may rely on between their steps.                               *)
(***************************************************************************)
EXTENDS SigningWorkflow

SignSteps   == {"sign_read", "sign_checked", "sign_numbered"}
DeleteSteps == {"delete_locked", "delete_checked", "delete_loaded"}
OwnerSteps  == {"owner_locked", "owner_checked"}
\* After the SELECT ... FOR UPDATE, until the transaction ends.
LockedSteps == RequestSteps \ {"sign_read"}
\* After no active attempt was found.
CheckedSteps == {"sign_checked", "sign_numbered",
                 "delete_checked", "delete_loaded", "owner_checked"}

\* The worker has an attempt; it is RUNNING; its document was loaded.
BusySteps    == WorkerSteps \ {"sweep", "idle"}
RunningSteps == BusySteps \ {"release"}
LoadedSteps  == {"acquire", "sign", "store", "finalize"}

\* Ids are set where a step uses them.
Shape ==
    /\ \A r \in Requests : req[r].pc # "idle" => req[r].doc \in Documents
    /\ \A r \in Requests : req[r].pc \in SignSteps => req[r].job \in Jobs
    /\ \A j \in Jobs : HasRow(j) => job[j].doc \in Documents
    /\ worker.pc \in BusySteps => worker.job \in Jobs

\* The id of an attempt is picked once.
FreshIds ==
    /\ \A r \in Requests :
          req[r].pc \in SignSteps => job[req[r].job].status = "none"
    /\ \A r, q \in Requests :
          req[r].pc \in SignSteps /\ req[q].pc \in SignSteps
             /\ req[r].job = req[q].job => r = q

\* A request past its FOR UPDATE holds the row, so what it checked is still so.
Protected(r) ==
    LET d == req[r].doc IN
    /\ req[r].pc \in LockedSteps  => lock[d] = r /\ Exists(d)
    /\ req[r].pc \in CheckedSteps => ActiveOn(d) = {}
    /\ req[r].pc \in DeleteSteps  => doc[d].state # "signed"
    /\ req[r].pc = "delete_loaded" => req[r].cascade = JobsOf(d)
    /\ req[r].pc \in OwnerSteps   => req[r].version = doc[d].version

LockProtocol == \A r \in Requests : Protected(r)

\* What the worker loaded is still so when it commits.
WorkerView ==
    /\ worker.pc \in RunningSteps => job[worker.job].status = "running"
    /\ worker.pc \in LoadedSteps =>
          /\ worker.state = doc[job[worker.job].doc].state
          /\ worker.version = doc[job[worker.job].doc].version

TypeInv == TypeOK /\ Shape

\* What the transactions keep true of the rows.
RowsInv == OneActiveAttempt /\ NoOrphanAttempt /\ SignedConsistently

\* The transactions of the workflow protect each other: the ids, the locks and
\* the worker's view make the rows of a document change together.
SafetyInv == TypeInv /\ FreshIds /\ LockProtocol /\ WorkerView /\ RowsInv
=============================================================================
