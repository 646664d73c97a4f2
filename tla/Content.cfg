SPECIFICATION Spec
CONSTANTS
  Documents = {d1, d2, d3}
  Cores <- MCCores
  KindOf <- MCKinds
  PagesOf <- MCPages
  FieldsOf <- MCFields
  Envelopes = {0, 1, 8}
  PlacementSets <- MCPlacementSets
  Unit = 3
  None = None
SYMMETRY Symmetry
INVARIANTS
  EverySignatureKept
  FieldsAreFresh
  PreviewShowsThePdf
  
CHECK_DEADLOCK FALSE
