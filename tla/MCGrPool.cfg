CONSTANTS
  Calls = {c1, c2, c3}
  Restarts = {r1}
  Cap = 2
  Boot = Boot
  Nil = Nil
  None = None
SPECIFICATION Spec
CHECK_DEADLOCK FALSE
SYMMETRY Symmetry
INVARIANTS
  TypeOK
  RunningAccurate
  OneListenerPerClaim
  WithinCapUnlessRaced
PROPERTIES
  ImplementsTaskService
