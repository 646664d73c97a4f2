---------------------------- MODULE MCWorkSignal ----------------------------
(* WorkSignal on small sets. *)
EXTENDS WorkSignal, TLC

\* Requests are told apart by nothing but their ids.
Symmetry == Permutations(Requests)
=============================================================================
