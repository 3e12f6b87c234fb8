CONSTANTS
  Calls = {c1, c2}
  Restarts = {r1}
  Cap = 1
  Boot = Boot
  Nil = Nil
  None = None
SPECIFICATION FairSpec
CHECK_DEADLOCK FALSE
PROPERTIES
  LockReleased
  AcceptedIsRun
