CONSTANTS
  Calls = {c1, c2}
  Restarts = {}
  Cap = 1
  Boot = Boot
  Nil = Nil
  None = None
SPECIFICATION TimedSpec
CHECK_DEADLOCK FALSE
PROPERTIES
  WaiterServed
