SPECIFICATION BackupSpec
CONSTANTS
  w1 = w1
  k1 = k1
  k2 = k2
  p1 = p1
  Works = {w1}
  Keys = {k1, k2}
  Artifacts = {1, 2}
  WorkOf <- MCWorkOf
  KeyOf <- MCKeyOf
  Sizes = {0, 1}
  FileSize <- MCFileSize
  Sweepers = {p1}
  Limit = 2
  MaxFaults = 1
PROPERTIES
  RecoveredRootMatches
CHECK_DEADLOCK FALSE
