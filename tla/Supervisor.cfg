\* Every document code, up to three rounds.
CONSTANTS
  Documents <- EveryDocument
  MaxRound = 3
\* The supervisor returns.
CHECK_DEADLOCK FALSE
SPECIFICATION FairSpec
INVARIANTS
  TypeOK
  ExportIsValidated
  ExportIsComplete
  ErdIsDrawn
  RepairsSettle
PROPERTIES
  Terminates
