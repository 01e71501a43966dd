\* Workers may be late, die and meet database errors.
CONSTANTS
  Workers = {w1, w2}
  Clients = {c1}
  Keys = {k1}
  NoKey = NoKey
  MaxJobs = 1
  MaxRetry = 1
  MaxCrashes = 1
  MaxDbErrors = 1
  MaxPauses = 2
SPECIFICATION FairSpec
INVARIANTS
  AttemptsBounded
  OneDocumentPerAttempt
  Recoverable
  CompletedHasDocument
PROPERTIES
  JobsSettle
