\* One worker may be late once: is a key still refused while it is worked on?
CONSTANTS
  Workers = {w1, w2}
  Clients = {c1}
  Keys = {k1}
  NoKey = NoKey
  MaxJobs = 2
  MaxRetry = 1
  MaxCrashes = 0
  MaxDbErrors = 0
  MaxPauses = 1
SPECIFICATION Spec
PROPERTIES
  AcceptedAlone
