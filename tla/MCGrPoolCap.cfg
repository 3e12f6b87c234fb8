CONSTANTS
  Calls = {c1, c2}
  Restarts = {}
  Cap = 1
  Boot = Boot
  Nil = Nil
  None = None
SPECIFICATION Spec
CHECK_DEADLOCK FALSE
SYMMETRY Symmetry
INVARIANTS
  WithinCap
