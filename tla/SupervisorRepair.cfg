\* The default of two rounds: is a repair that failed tried again on the same ERD?
CONSTANTS
  Documents <- OnlyErd
  MaxRound = 2
\* The supervisor returns.
CHECK_DEADLOCK FALSE
SPECIFICATION Spec
INVARIANTS
  RepairKeepsItsSource
