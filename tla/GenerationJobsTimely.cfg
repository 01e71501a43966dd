\* No worker is ever late: crashes and database errors only.
CONSTANTS
  Workers = {w1, w2}
  Clients = {c1, c2}
  Keys = {k1, k2}
  NoKey = NoKey
  MaxJobs = 2
  MaxRetry = 1
  MaxCrashes = 1
  MaxDbErrors = 1
  MaxPauses = 0
SYMMETRY Symmetry
SPECIFICATION Spec
INVARIANTS
  TypeOK
  ExclusiveGeneration
  LeaseHeld
  ReportCoherent
PROPERTIES
  ResultIsFinal
  ProgressForward
  KeepsPromise
