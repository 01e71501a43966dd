\* Two approvals of one document, two workers, every kind of fault.
CONSTANTS
  Workers = {w1, w2}
  Clients = {c1, c2}
  Approvals = {a1, a2}
  NoApproval = NoApproval
  Payloads = {p1, p2}
  MaxDetails = 3
  MaxJobs = 2
  MaxCrashes = 1
  MaxDbErrors = 1
SYMMETRY Symmetry
SPECIFICATION Spec
INVARIANTS
  TypeOK
  OneWriter
  ReportCoherent
  ReviewsTheRequest
PROPERTIES
  KeepsPromise
