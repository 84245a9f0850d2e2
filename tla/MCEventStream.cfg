SPECIFICATION Spec
CONSTANTS
  People = {h1, h2}
  Reports = {r1, r2}
  Batch = 2
INVARIANTS
  EveryEventReachable
CHECK_DEADLOCK FALSE
