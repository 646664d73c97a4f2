SPECIFICATION Spec
CONSTANTS
  Certificates = {c1, c2}
  Attempts = {j1}
  Requests = {r1, r2, r3}
  RowLocks = TRUE
  MaxOrder = 2
  MaxVersion = 2
  Default = Default
  None = None
SYMMETRY Symmetry
INVARIANTS
  ChosenStaysConfigured
  HistorySaysWhatSigned
  VersionCountsUpdates
  OrderAsListed
CHECK_DEADLOCK FALSE
