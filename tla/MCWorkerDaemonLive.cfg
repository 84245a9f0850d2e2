CONSTANTS
  w1 = w1
  w2 = w2
  None = None
  Works = {w1, w2}
  Slots = 2
  Faults = {"crash", "lost", "command", "expiry"}
  MaxFaults = 2
  MaxVersion = 3
SPECIFICATION FairSpec
CHECK_DEADLOCK FALSE
INVARIANTS
  TrackerExact
  ReportIsCurrent
PROPERTIES
  ServesUnlessOvercounted
  RoomReturned
