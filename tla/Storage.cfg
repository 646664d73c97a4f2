SPECIFICATION Spec
CONSTANTS
  Documents = {d1, d2}
  Users = {u1}
  Nobody = Nobody
  Keys = {k1, k2, k3}
  Requests = {r1, r2}
  Worker = Worker
  Faults = {"power", "disk", "commit", "answer", "unlink", "early"}
  MaxCrashes = 2
SYMMETRY Symmetry
INVARIANTS
  StoredHasFile
  NoLeftover
CHECK_DEADLOCK FALSE
