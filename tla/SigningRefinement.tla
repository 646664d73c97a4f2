-------------------------- MODULE SigningRefinement --------------------------
(* How the rows of SigningWorkflow read as a DocumentLifecycle. *)
EXTENDS SigningWorkflow

AttemptOf(d) ==
    IF \E j \in JobsOf(d) : job[j].status = "running" THEN "running"
    ELSE IF ActiveOn(d) # {} THEN "queued"
    ELSE "none"

Lifecycle == INSTANCE DocumentLifecycle WITH
    Nobody  <- None,
    state   <- [d \in Documents |-> doc[d].state],
    owner   <- [d \in Documents |-> doc[d].owner],
    attempt <- [d \in Documents |-> AttemptOf(d)]

\* The requests, the worker and the restarts of the workflow, with the rows
\* locked, do nothing to a document but what DocumentLifecycle allows.
ImplementsLifecycle == Lifecycle!Spec
=============================================================================
