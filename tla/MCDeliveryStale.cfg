SPECIFICATION Spec
CONSTANTS
  Works = {w1}
  Workers = {k1}
  Assigned <- MCAssigned
  Digests = {d1, d2}
  None = None
  MaxVersion = 10
  MaxCrashes = 0
  MaxDbErrors = 0
PROPERTY
  DecisionOnReviewedVersion
CHECK_DEADLOCK FALSE
