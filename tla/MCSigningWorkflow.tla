-------------------------- MODULE MCSigningWorkflow --------------------------
(* SigningWorkflow on small sets. *)
EXTENDS SigningInvariant, SigningRefinement, TLC

\* Rows and threads are told apart by their ids alone.
Symmetry == Permutations(Documents) \cup Permutations(Users)
              \cup Permutations(Requests) \cup Permutations(Jobs)
=============================================================================
