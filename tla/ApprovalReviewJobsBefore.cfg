\* A document revised twice: what is the reviewed detail compared with?
CONSTANTS
  Workers = {w1}
  Clients = {c1}
  Approvals = {a1}
  NoApproval = NoApproval
  Payloads = {p1, p2}
  MaxDetails = 3
  MaxJobs = 1
  MaxCrashes = 0
  MaxDbErrors = 0
SPECIFICATION Spec
INVARIANTS
  BeforeIsPrevious
