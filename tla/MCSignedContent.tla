---------------------------- MODULE MCSignedContent ----------------------------
(***************************************************************************)
(* SignedContent for TLC: PDFs with pages turned every way, one of which   *)
(* has a field Signature2 but no Signature1; fractions of a third.         *)
(***************************************************************************)
EXTENDS SignedContent, TLC

MCPage(x, y, w, h, turn) ==
    [llx |-> x, lly |-> y, width |-> w, height |-> h, rotation |-> turn]
MCPlacement(page, x, y, w, h, order) ==
    [page |-> page, x |-> x, y |-> y, width |-> w, height |-> h, order |-> order]

MCKinds == "plain" :> "pdf" @@ "fields" :> "pdf" @@ "broken" :> "broken_pdf"
             @@ "data" :> "xml" @@ "other" :> "opaque"
MCPages == [c \in DOMAIN MCKinds |->
    CASE c = "plain" -> <<MCPage(0, 0, 4, 7, 0), MCPage(1, 2, 5, 3, 90)>>
      [] c = "fields" -> <<MCPage(-1, 0, 4, 7, 180), MCPage(0, 0, 4, 7, 270)>>
      [] OTHER -> <<>>]
MCFields == [c \in DOMAIN MCKinds |-> IF c = "fields" THEN {2} ELSE {}]
MCCores == DOMAIN MCKinds

MCPlacementSets ==
    {{}, {MCPlacement(1, 0, 1, 2, 1, 0)}, {MCPlacement(2, 1, 0, 1, 2, 0)},
     {MCPlacement(1, 1, 1, 1, 1, 1), MCPlacement(2, 0, 1, 2, 2, 0)},
     {MCPlacement(2, 2, 0, 2, 1, 0)}, {MCPlacement(3, 0, 0, 1, 1, 0)}}

Symmetry == Permutations(Documents)
=============================================================================
