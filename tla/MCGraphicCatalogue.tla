------------------------- MODULE MCGraphicCatalogue -------------------------
(* GraphicCatalogue on small sets. *)
EXTENDS GraphicCatalogue, TLC

\* Rows and requests are told apart by their ids alone.
Symmetry == Permutations(Graphics) \cup Permutations(Versions)
              \cup Permutations(Attempts) \cup Permutations(Requests)
=============================================================================
