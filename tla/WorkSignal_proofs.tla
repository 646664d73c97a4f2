-------------------------- MODULE WorkSignal_proofs --------------------------
(***************************************************************************)
(* No nudge is lost, however many requests there are.  NoLostNudge is      *)
(* almost inductive: what has to be added is that notify() reaches the     *)
(* loop whenever the pump is where it may wait, since it listens from      *)
(* before its first claim until it is cancelled.  A request that commits   *)
(* adds one to the queue and to those that nudge; one that raises goes     *)
(* from these to the silent ones.                                          *)
(***************************************************************************)
EXTENDS WorkSignal, FiniteSetTheorems, TLAPS

\* From listen() until the task is cancelled.
PumpListens == pump \notin {"starting", "cancelled", "stopped"} => listening

SignalInv == TypeOK /\ PumpListens /\ NoLostNudge

LEMMA SignalInit == Init => SignalInv
<1> SUFFICES ASSUME Init PROVE SignalInv
  OBVIOUS
<1>1. queue \in Nat /\ calls \in Nat /\ arrivals \in Nat /\ restarts \in Nat
  BY DEF Init
<1>2. requests \in [Requests -> RequestSteps] /\ pump \in PumpSteps
  BY DEF Init, RequestSteps, PumpSteps
<1>3. listening \in BOOLEAN /\ missed \in BOOLEAN /\ event \in BOOLEAN /\ raised \in BOOLEAN
  BY DEF Init
<1>4. PumpListens /\ NoLostNudge /\ silent \in Nat
  BY DEF Init, PumpListens, NoLostNudge
<1> QED
  BY <1>1, <1>2, <1>3, <1>4 DEF SignalInv, TypeOK

LEMMA NudgingFinite == IsFiniteSet(Nudging) /\ Cardinality(Nudging) \in Nat
<1>1. IsFiniteSet(Nudging)
  BY SignalAssumption, FS_Subset DEF Nudging
<1> QED
  BY <1>1, FS_CardinalityType

\* One more attempt in the queue, one more request that will nudge.
LEMMA OneMoreNudges ==
    ASSUME SignalInv, NEW r \in Requests, EnqueueCommit(r)
    PROVE  SignalInv'
<1> USE DEF SignalInv, TypeOK, PumpListens, signal, bounds, history
<1>1. TypeOK' /\ PumpListens'
  BY DEF EnqueueCommit, RequestSteps
<1>2. Nudging' = Nudging \cup {r} /\ r \notin Nudging
  BY DEF EnqueueCommit, Nudging, RequestSteps
<1>3. Cardinality(Nudging') = Cardinality(Nudging) + 1
  BY <1>2, NudgingFinite, FS_AddElement
<1>4. NoLostNudge'
  BY <1>3, NudgingFinite DEF EnqueueCommit, NoLostNudge
<1> QED
  BY <1>1, <1>4

\* A request that will not nudge is one of the silent ones.
LEMMA OneMoreSilent ==
    ASSUME SignalInv, NEW r \in Requests, RequestRaises(r)
    PROVE  SignalInv'
<1> USE DEF SignalInv, TypeOK, PumpListens, signal, bounds, history
<1>1. TypeOK' /\ PumpListens'
  BY DEF RequestRaises, RequestSteps
<1>2. Nudging' = Nudging \ {r} /\ r \in Nudging
  BY DEF RequestRaises, Nudging, RequestSteps
<1>3. Cardinality(Nudging') = Cardinality(Nudging) - 1
  BY <1>2, NudgingFinite, FS_RemoveElement
<1>4. NoLostNudge'
  BY <1>3, NudgingFinite DEF RequestRaises, NoLostNudge
<1> QED
  BY <1>1, <1>4

\* A request calls notify(): it reaches the loop, if the pump may wait.
LEMMA SignalNotify ==
    ASSUME SignalInv, NEW r \in Requests, Notify(r)
    PROVE  SignalInv'
<1> USE DEF SignalInv, TypeOK, PumpListens, RequestSteps, PumpSteps, signal, bounds, history
<1>1. CASE NotifyLook(r)
  <2>1. TypeOK' /\ PumpListens'
    BY <1>1 DEF NotifyLook
  <2>2. CASE listening
    <3>1. Nudging' = Nudging
      BY <1>1, <2>2 DEF NotifyLook, Nudging
    <3> QED
      BY <1>1, <2>1, <3>1 DEF NotifyLook, NoLostNudge
  <2>3. CASE ~listening
    BY <1>1, <2>1, <2>3 DEF NotifyLook, NoLostNudge
  <2> QED
    BY <2>2, <2>3
<1>2. CASE NotifyCall(r)
  <2>1. TypeOK' /\ PumpListens'
    BY <1>2 DEF NotifyCall
  <2>2. CASE listening
    <3>1. calls' > 0
      BY <1>2, <2>2 DEF NotifyCall
    <3> QED
      BY <1>2, <2>1, <3>1 DEF NotifyCall, NoLostNudge
  <2>3. CASE ~listening
    BY <1>2, <2>1, <2>3 DEF NotifyCall, NoLostNudge
  <2> QED
    BY <2>2, <2>3
<1> QED
  BY <1>1, <1>2 DEF Notify

\* The loop, the pump and the shutdown: who nudges stays.
LEMMA SignalLoop ==
    ASSUME SignalInv, RunCallback \/ Pump \/ PollTimeout \/ Cancel
    PROVE  SignalInv'
<1> USE DEF SignalInv, TypeOK, PumpListens, NoLostNudge, PumpSteps, signal, bounds, history
<1>n. Nudging' = Nudging /\ Cardinality(Nudging) \in Nat
  BY NudgingFinite DEF Nudging, RunCallback, Pump, PollTimeout, Cancel, Listen, Swept, Claim,
     SignedOne, ClaimNothing, RunOnceRaises, EnterWait, WakeUp, ClearAndClaim, StopListening
<1>1. CASE RunCallback
  BY <1>1 DEF RunCallback
<1>2. CASE Listen \/ Swept
  BY <1>2 DEF Listen, Swept
<1>3. CASE Claim \/ ClaimNothing \/ RunOnceRaises
  <2>1. queue' \in Nat /\ pump' \in PumpSteps /\ silent' \in Nat
    BY <1>3 DEF Claim, ClaimNothing, RunOnceRaises
  <2>2. raised' \in BOOLEAN
    BY <1>3 DEF Claim, ClaimNothing, RunOnceRaises
  <2>3. TypeOK'
    BY <1>3, <2>1, <2>2 DEF Claim, ClaimNothing, RunOnceRaises
  <2>4. PumpListens'
    BY <1>3 DEF Claim, ClaimNothing, RunOnceRaises
  <2>5. pump' \in {"returning", "waiting"} => queue' = 0 \/ raised'
    BY <1>3 DEF Claim, ClaimNothing, RunOnceRaises
  <2> QED
    BY <2>1, <2>3, <2>4, <2>5, <1>n
<1>4. CASE SignedOne
  BY <1>4 DEF SignedOne
<1>5. CASE EnterWait
  BY <1>5, <1>n DEF EnterWait
<1>6. CASE WakeUp \/ PollTimeout \/ ClearAndClaim
  BY <1>6 DEF WakeUp, PollTimeout, ClearAndClaim
<1>7. CASE Cancel \/ StopListening
  BY <1>7 DEF Cancel, StopListening
<1> QED
  BY <1>1, <1>2, <1>3, <1>4, <1>5, <1>6, <1>7 DEF Pump

LEMMA SignalRestart ==
    ASSUME SignalInv, Restart
    PROVE  SignalInv'
<1>1. /\ queue' \in Nat /\ calls' \in Nat /\ arrivals' \in Nat /\ restarts' \in Nat
      /\ silent' \in Nat
      /\ requests' \in [Requests -> RequestSteps] /\ pump' = "starting"
  BY DEF Restart, SignalInv, TypeOK, RequestSteps
<1>2. listening' \in BOOLEAN /\ missed' \in BOOLEAN /\ event' \in BOOLEAN /\ raised' \in BOOLEAN
  BY DEF Restart
<1> QED
  BY <1>1, <1>2 DEF SignalInv, TypeOK, PumpListens, NoLostNudge, PumpSteps

\* For any number of requests, attempts and restarts: while the pump waits and
\* its last round did not raise, it is about to be woken, or each attempt in the
\* queue is one whose request will nudge or raised before it could.
THEOREM NudgesAreKept == Spec => []NoLostNudge
<1>1. SignalInv /\ [Next]_vars => SignalInv'
  <2> SUFFICES ASSUME SignalInv, [Next]_vars PROVE SignalInv'
    OBVIOUS
  <2>1. CASE UNCHANGED vars
    <3>1. Nudging' = Nudging
      BY <2>1 DEF Nudging, vars
    <3> QED
      BY <2>1, <3>1 DEF SignalInv, TypeOK, PumpListens, NoLostNudge, vars, signal, bounds, history
  <2>2. CASE Next
    BY <2>2, OneMoreNudges, OneMoreSilent, SignalNotify, SignalLoop, SignalRestart DEF Next
  <2> QED
    BY <2>1, <2>2
<1>2. SignalInv => NoLostNudge
  BY DEF SignalInv
<1> QED
  BY SignalInit, <1>1, <1>2, PTL DEF Spec
=============================================================================
