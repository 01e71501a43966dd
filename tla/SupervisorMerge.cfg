\* The default of two rounds: does the second plan merge first?
CONSTANTS
  Documents <- EveryDocument
  MaxRound = 2
\* The supervisor returns.
CHECK_DEADLOCK FALSE
SPECIFICATION Spec
INVARIANTS
  MergeIsFirst
