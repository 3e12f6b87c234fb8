CONSTANTS
  Sessions = {s1, s2}
  MaxOpen = 2
  MaxWrites = 2
SPECIFICATION FairSpec
INVARIANTS
  TypeOK
PROPERTIES
  ImplementsTransactions
  LostOnlyByUnclosed
  WaiterServed
CHECK_DEADLOCK FALSE
