---------------------------- MODULE MCBlobStorage ----------------------------
(* BlobStorage on small sets. *)
EXTENDS BlobStorage, TLC

\* Keys are random and threads are alike.
Symmetry == Permutations(Keys) \cup Permutations(Requests) \cup Permutations(Documents)
=============================================================================
