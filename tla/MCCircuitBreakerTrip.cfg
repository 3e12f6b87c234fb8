CONSTANTS
  Callers = {c1}
  MaxRequests = 1
  TripAfter = 1
  Intervals = {"zero"}
  Handlers = {TRUE, FALSE}
SPECIFICATION Spec
INVARIANTS
  FailuresTrip
