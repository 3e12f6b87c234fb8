CONSTANTS
  Fields = {"name", "age"}
  Keys = {"id"}
  Rows <- MCRows
  Batches <- MCBatches
  MaxParts = 4
  MaxStmts = 2
SPECIFICATION Spec
INVARIANTS
  TypeOK
  FirstStatementAligned
  NothingMisplaced
  InsertsItsRows
  OkMeansExecuted
CHECK_DEADLOCK FALSE
