CONSTANTS
  w1 = w1
  w2 = w2
  None = None
  Works = {w1, w2}
  Slots = 1
  Faults = {"lost"}
  MaxFaults = 1
  MaxVersion = 3
SPECIFICATION FairSpec
CHECK_DEADLOCK FALSE
PROPERTIES
  ServesAgain
