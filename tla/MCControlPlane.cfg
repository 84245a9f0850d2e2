SPECIFICATION Spec
CONSTANTS
  Works = {w1, w2}
  Workers = {k1}
  None = None
  Capacity <- MCCapacity
  TrustedReports = TRUE
  MaxVersion = 8
INVARIANTS
  LeaseMatchesAssignment
  ReturnedMeansFinished
  QuarantineFences
  CompletionAuthorised
  CapacityConserved
PROPERTIES
  KeepsReservations
  QuarantineIsFinal
SYMMETRY Symmetry
CHECK_DEADLOCK FALSE
