\* A crash and a database error: the other reviews go on.
CONSTANTS
  Workers = {w1, w2}
  Clients = {c1}
  Approvals = {a1, a2}
  NoApproval = NoApproval
  Payloads = {p1}
  MaxDetails = 1
  MaxJobs = 2
  MaxCrashes = 1
  MaxDbErrors = 1
SPECIFICATION FairSpec
PROPERTIES
  EveryJobIsClaimed
