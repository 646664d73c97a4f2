---------------------------- MODULE MCCertificates ----------------------------
(* Certificates on small sets. *)
EXTENDS Certificates, TLC

\* Rows and requests are told apart by their ids alone.
Symmetry == Permutations(Certificates) \cup Permutations(Attempts) \cup Permutations(Requests)
=============================================================================
