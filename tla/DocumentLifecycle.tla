-------------------------- MODULE DocumentLifecycle --------------------------
(***************************************************************************)
(* What Signur promises of a document, without requests, locks, versions   *)
(* or crashes: it has at most one attempt at a time, an attempt ends in a  *)
(* signature or in a failure, a signature is for ever, and while an        *)
(* attempt is pending nobody takes the document away or gives it to        *)
(* somebody else.  SigningWorkflow implements it when rows are locked.     *)
(***************************************************************************)
CONSTANTS Documents, Users, Nobody

VARIABLES state, owner, attempt

vars == <<state, owner, attempt>>

Here == {d \in DOMAIN state : state[d] \in {"to_sign", "signing_failed", "signed"}}
Free == {d \in Here : attempt[d] = "none"}

Init ==
    /\ state = [d \in Documents |-> "unborn"]
    /\ owner = [d \in Documents |-> Nobody]
    /\ attempt = [d \in Documents |-> "none"]

Upload(d, u) ==
    /\ state[d] = "unborn"
    /\ state' = [state EXCEPT ![d] = "to_sign"]
    /\ owner' = [owner EXCEPT ![d] = u]
    /\ UNCHANGED attempt

\* A signed document may get an attempt too: it will fail.
Request(d) ==
    /\ d \in Free
    /\ attempt' = [attempt EXCEPT ![d] = "queued"]
    /\ UNCHANGED <<state, owner>>

Start(d) ==
    /\ attempt[d] = "queued"
    /\ attempt' = [attempt EXCEPT ![d] = "running"]
    /\ UNCHANGED <<state, owner>>

Succeed(d) ==
    /\ attempt[d] = "running" /\ state[d] # "signed"
    /\ state' = [state EXCEPT ![d] = "signed"]
    /\ attempt' = [attempt EXCEPT ![d] = "none"]
    /\ UNCHANGED owner

\* One attempt fails, or a restart closes all those that were running.
Fail(D) ==
    /\ \A d \in D : attempt[d] = "running"
    /\ state' = [d \in Documents |->
          IF d \in D /\ state[d] # "signed" THEN "signing_failed" ELSE state[d]]
    /\ attempt' = [d \in Documents |-> IF d \in D THEN "none" ELSE attempt[d]]
    /\ UNCHANGED owner

Reassign(d, u) ==
    /\ d \in Free
    /\ owner' = [owner EXCEPT ![d] = u]
    /\ UNCHANGED <<state, attempt>>

Delete(d) ==
    /\ d \in Free /\ state[d] # "signed"
    /\ state' = [state EXCEPT ![d] = "deleted"]
    /\ UNCHANGED <<owner, attempt>>

Next ==
    \/ \E d \in Documents :
          \/ Request(d) \/ Start(d) \/ Succeed(d) \/ Delete(d)
          \/ \E u \in Users : Upload(d, u) \/ Reassign(d, u)
    \/ \E D \in SUBSET Documents : Fail(D)

Spec == Init /\ [][Next]_vars
=============================================================================
