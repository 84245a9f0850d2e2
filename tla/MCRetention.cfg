SPECIFICATION FairSpec
CONSTANTS
  w1 = w1
  w2 = w2
  k1 = k1
  k2 = k2
  p1 = p1
  Works = {w1, w2}
  Keys = {k1, k2}
  Artifacts = {1, 2, 3}
  WorkOf <- MCWorkOf
  KeyOf <- MCKeyOf
  Sizes = {0, 1}
  FileSize <- MCFileSize
  Sweepers = {p1}
  Limit = 1
  MaxFaults = 1
INVARIANTS
  PurgedIsGone
  SweepVisitsAll
PROPERTIES
  RemovesOnlyUnused
  PurgesDue
CHECK_DEADLOCK FALSE
