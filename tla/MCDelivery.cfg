SPECIFICATION FairSpec
CONSTANTS
  Works = {w1}
  Workers = {k1}
  Assigned <- MCAssigned
  Digests = {d1, d2}
  None = None
  MaxVersion = 10
  MaxCrashes = 2
  MaxDbErrors = 1
INVARIANTS
  TypeOK
  ApprovedBytesStay
  GuardedWriteHolds
  AttemptOwnsItsJob
  AtMostOnePullRequest
  OnlyDatabaseErrorsOrphan
PROPERTIES
  OutcomeIsFinal
  PublishesWhatWasApproved
  ApprovalSettles
  RestartSettles
CHECK_DEADLOCK FALSE
