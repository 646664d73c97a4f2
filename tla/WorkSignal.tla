----------------------------- MODULE WorkSignal -----------------------------
(***************************************************************************)
(* How the worker learns that there is work: the threads of the requests   *)
(* commit a QUEUED attempt and call work_signal.notify(), the pump runs in *)
(* the event loop, claims in a thread, and waits on an asyncio.Event when  *)
(* there was nothing to claim.  The attempts themselves are the business   *)
(* of SigningWorkflow, whose fair worker this module accounts for; here    *)
(* the queue is only a number.                                             *)
(***************************************************************************)
EXTENDS Naturals, FiniteSets

CONSTANTS Requests,
          MaxArrivals, \* attempts queued in all
          MaxRestarts

ASSUME SignalAssumption ==
    /\ IsFiniteSet(Requests)
    /\ MaxArrivals \in Nat /\ MaxRestarts \in Nat

VARIABLES
    queue,      \* QUEUED rows in the database
    requests,   \* where each request is
    listening,  \* _loop and _event are set
    missed,     \* _missed
    event,      \* is the asyncio.Event set?
    calls,      \* event.set callbacks scheduled on the loop, not run yet
    pump,       \* where _pump is
    raised,     \* did the last run_once raise?  (history)
    silent,     \* attempts whose request raised before its notify(), since the
                \* pump last found the queue empty (history)
    arrivals,   \* attempts queued so far, bounded by MaxArrivals
    restarts    \* bounded by MaxRestarts

signal == <<listening, missed, event, calls>>
bounds == <<arrivals, restarts>>
history == <<raised, silent>>
vars == <<queue, requests, signal, pump, history, bounds>>

RequestSteps == {"idle", "committed", "nudging"}
PumpSteps == {"starting", "sweeping", "claiming", "signing", "returning",
              "waiting", "woken", "cancelled", "stopped"}

Init ==
    /\ queue = 0
    /\ requests = [r \in Requests |-> "idle"]
    /\ listening = FALSE /\ missed = FALSE
    /\ event = FALSE /\ calls = 0
    /\ pump = "starting" /\ raised = FALSE /\ silent = 0
    /\ arrivals = 0 /\ restarts = 0

-----------------------------------------------------------------------------
(* enqueue_signature, from its commit on *)

\* The row is QUEUED; the refresh and notify() are still to come.
EnqueueCommit(r) ==
    /\ requests[r] = "idle" /\ arrivals < MaxArrivals
    /\ queue' = queue + 1
    /\ arrivals' = arrivals + 1
    /\ requests' = [requests EXCEPT ![r] = "committed"]
    /\ UNCHANGED <<signal, pump, history, restarts>>

\* The database has the row, but the commit's answer was lost or the refresh
\* after it raises: the request ends and notify() is never called.
RequestRaises(r) ==
    /\ requests[r] = "committed"
    /\ requests' = [requests EXCEPT ![r] = "idle"]
    /\ silent' = silent + 1
    /\ UNCHANGED <<queue, signal, pump, raised, bounds>>

\* Mutant of NotifyLook: what was missed is noted, nobody is told.
NotifyMissed(r) ==
    /\ requests[r] = "committed"
    /\ requests' = [requests EXCEPT ![r] = "idle"]
    /\ missed' = TRUE
    /\ UNCHANGED <<queue, listening, event, calls, pump, history, bounds>>

\* notify(), under the guard: the worker's loop and event, if it listens.
NotifyLook(r) ==
    /\ requests[r] = "committed"
    /\ \/ /\ listening
          /\ requests' = [requests EXCEPT ![r] = "nudging"]
          /\ UNCHANGED missed
       \/ /\ ~listening
          /\ requests' = [requests EXCEPT ![r] = "idle"]
          /\ missed' = TRUE
    /\ UNCHANGED <<queue, listening, event, calls, pump, history, bounds>>

\* notify(), outside the guard: on a loop that closed meanwhile the call
\* raises a RuntimeError, which is suppressed.
NotifyCall(r) ==
    /\ requests[r] = "nudging"
    /\ requests' = [requests EXCEPT ![r] = "idle"]
    /\ calls' = IF listening THEN calls + 1 ELSE calls
    /\ UNCHANGED <<queue, listening, missed, event, pump, history, bounds>>

\* The loop runs a callback that was scheduled.
RunCallback ==
    /\ calls > 0
    /\ calls' = calls - 1
    /\ event' = TRUE
    /\ UNCHANGED <<queue, requests, listening, missed, pump, history, bounds>>

-----------------------------------------------------------------------------
(* _pump *)

Listen ==
    /\ pump = "starting"
    /\ pump' = "sweeping"
    /\ listening' = TRUE
    /\ event' = missed
    /\ missed' = FALSE
    /\ UNCHANGED <<queue, requests, calls, history, bounds>>

\* _release_orphans came back, or raised: the queue is worked off anyway.
Swept ==
    /\ pump = "sweeping"
    /\ pump' = "claiming"
    /\ UNCHANGED <<queue, requests, signal, history, bounds>>

Claim ==
    /\ pump = "claiming" /\ queue > 0
    /\ queue' = queue - 1
    /\ pump' = "signing"
    /\ raised' = FALSE
    /\ UNCHANGED <<requests, signal, silent, bounds>>

\* "while True": busy, so it claims again without waiting.
SignedOne ==
    /\ pump = "signing"
    /\ pump' = "claiming"
    /\ UNCHANGED <<queue, requests, signal, history, bounds>>

\* run_once found nothing; its thread returns False to the loop.
ClaimNothing ==
    /\ pump = "claiming" /\ queue = 0
    /\ pump' = "returning"
    /\ raised' = FALSE /\ silent' = 0
    /\ UNCHANGED <<queue, requests, signal, bounds>>

\* "a failed job must never stop the pump": busy is False all the same.
RunOnceRaises ==
    /\ pump \in {"claiming", "signing"}
    /\ pump' = "returning"
    /\ raised' = TRUE
    /\ UNCHANGED <<queue, requests, signal, silent, bounds>>

\* Mutant of EnterWait: the event is cleared before waiting.
EnterWaitCleared ==
    /\ pump = "returning"
    /\ pump' = "waiting"
    /\ event' = FALSE
    /\ UNCHANGED <<queue, requests, listening, missed, calls, history, bounds>>

EnterWait ==
    /\ pump = "returning"
    /\ pump' = "waiting"
    /\ UNCHANGED <<queue, requests, signal, history, bounds>>

WakeUp ==
    /\ pump = "waiting" /\ event
    /\ pump' = "woken"
    /\ UNCHANGED <<queue, requests, signal, history, bounds>>

\* wait_for raises TimeoutError after poll_seconds.
PollTimeout ==
    /\ pump = "waiting"
    /\ pump' = "woken"
    /\ UNCHANGED <<queue, requests, signal, history, bounds>>

\* Mutant of ClearAndClaim: after a timeout there is nothing to look for.
ClearAndWait ==
    /\ pump = "woken"
    /\ pump' = "waiting"
    /\ event' = FALSE
    /\ UNCHANGED <<queue, requests, listening, missed, calls, history, bounds>>

\* "Cleared after waking, never before"
ClearAndClaim ==
    /\ pump = "woken"
    /\ pump' = "claiming"
    /\ event' = FALSE
    /\ UNCHANGED <<queue, requests, listening, missed, calls, history, bounds>>

-----------------------------------------------------------------------------
(* running_worker *)

\* The service shuts down: the task is cancelled at whatever it awaits, and
\* a thread that is signing goes on without it.
Cancel ==
    /\ pump \notin {"cancelled", "stopped"}
    /\ restarts < MaxRestarts
    /\ pump' = "cancelled"
    /\ UNCHANGED <<queue, requests, signal, history, bounds>>

StopListening ==
    /\ pump = "cancelled"
    /\ pump' = "stopped"
    /\ listening' = FALSE
    /\ UNCHANGED <<queue, requests, missed, event, calls, history, bounds>>

\* A new process, after a shutdown or a crash: only the rows are left.
Restart ==
    /\ restarts < MaxRestarts
    /\ restarts' = restarts + 1
    /\ requests' = [r \in Requests |-> "idle"]
    /\ listening' = FALSE /\ missed' = FALSE
    /\ event' = FALSE /\ calls' = 0
    /\ pump' = "starting" /\ raised' = FALSE
    /\ UNCHANGED <<queue, silent, arrivals>>

-----------------------------------------------------------------------------

Notify(r) == NotifyLook(r) \/ NotifyCall(r)

Pump ==
    \/ Listen \/ Swept \/ Claim \/ SignedOne \/ ClaimNothing \/ RunOnceRaises
    \/ EnterWait \/ WakeUp \/ ClearAndClaim \/ StopListening

Next ==
    \/ \E r \in Requests : EnqueueCommit(r) \/ RequestRaises(r) \/ Notify(r)
    \/ RunCallback \/ Pump \/ PollTimeout
    \/ Cancel \/ Restart

Spec == Init /\ [][Next]_vars

\* The threads go on and the loop runs; the interval need never elapse.
FairSpec ==
    /\ Spec
    /\ \A r \in Requests : WF_vars(Notify(r))
    /\ WF_vars(RunCallback) /\ WF_vars(Pump)

\* The interval elapses; a claim tried again and again goes through.
Polling == WF_vars(PollTimeout) /\ SF_vars(Claim)

-----------------------------------------------------------------------------
(* Properties *)

\* Every variable has its type.
TypeOK ==
    /\ queue \in Nat
    /\ requests \in [Requests -> RequestSteps]
    /\ listening \in BOOLEAN /\ missed \in BOOLEAN /\ event \in BOOLEAN
    /\ calls \in Nat
    /\ pump \in PumpSteps /\ raised \in BOOLEAN /\ silent \in Nat
    /\ arrivals \in Nat /\ restarts \in Nat

\* The requests that committed and are still going to call notify().
Nudging == {r \in Requests : requests[r] # "idle"}

\* work_signal: "a nudge that lands while the worker is signing must still be
\* there when it comes back to wait".  Unless the last round raised, the pump
\* is woken from its wait, or every attempt in the queue beside it is one whose
\* request has yet to nudge or raised before it could.
NoLostNudge ==
    pump \in {"returning", "waiting"} /\ ~raised =>
       event \/ calls > 0 \/ queue <= Cardinality(Nudging) + silent

Worked == queue > 0 ~> (queue = 0 \/ pump \in {"cancelled", "stopped"})

\* If run_once never raises and every request that commits comes to its
\* notify(), whatever is queued while the service is up is looked at by nudges
\* alone: the sweep of the interval is for "a nudge nobody sent" (worker.py:60).
NudgesSuffice == [](~raised /\ silent = 0) => Worked

\* "the safety net for a nudge that never came" (work_signal.py:5): if run_once
\* raises, or a request raised before it could nudge, the interval makes good
\* for it.
PollingSuffices == Polling => Worked
=============================================================================
