SPECIFICATION Spec
CONSTANTS
  Graphics = {g1, g2}
  Versions = {v1, v2, v3}
  Attempts = {j1, j2}
  Requests = {r1, r2, r3}
  RowLocks = TRUE
  None = None
SYMMETRY Symmetry
INVARIANTS
  CurrentIsLatest
  NoEmptyEntry
  PlacedVersionsStay
CHECK_DEADLOCK FALSE
