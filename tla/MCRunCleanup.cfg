CONSTANTS
  MaxFaults = 5
SPECIFICATION FairSpec
CHECK_DEADLOCK FALSE
INVARIANTS
  CleanedIsGone
  OwnIsRecorded
  GuestIsGuarded
PROPERTIES
  TeardownOrder
  ForeignUntouched
  Converges
