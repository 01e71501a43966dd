\* One worker dies: does its review still get a result?
CONSTANTS
  Workers = {w1, w2}
  Clients = {c1}
  Approvals = {a1}
  NoApproval = NoApproval
  Payloads = {p1}
  MaxDetails = 1
  MaxJobs = 1
  MaxCrashes = 1
  MaxDbErrors = 0
SPECIFICATION FairSpec
PROPERTIES
  ReviewsEnd
