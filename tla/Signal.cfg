SPECIFICATION FairSpec
CONSTANTS
  Requests = {r1, r2}
  MaxArrivals = 3
  MaxRestarts = 1
INVARIANTS
  NoLostNudge
PROPERTIES
  NudgesSuffice
  PollingSuffices
CHECK_DEADLOCK FALSE
