CONSTANTS
  w1 = w1
  w2 = w2
  None = None
  Works = {w1, w2}
  Slots = 1
  Faults = {"crash", "lost", "late", "torn", "command", "expiry"}
  MaxFaults = 2
  MaxVersion = 3
SPECIFICATION Spec
SYMMETRY Symmetric
CHECK_DEADLOCK FALSE
INVARIANTS
  RecordedBeforeBoot
PROPERTIES
  AdmittedClean
  KeepsRoom
