SPECIFICATION FairSpec
CONSTANTS
  ReplanLimit = 1
  MaxNotes = 2
  MaxVersion = 10
  MaxFaults = 2
INVARIANTS
  AgentIsTold
  ApprovalShowsVerifiedTree
  RepairsAreBounded
  NoSilentDeath
PROPERTIES
  ServedWhenConnected
CHECK_DEADLOCK FALSE
