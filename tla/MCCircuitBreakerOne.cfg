CONSTANTS
  Callers = {c1}
  MaxRequests = 2
  TripAfter = 2
  Intervals = {"positive"}
  Handlers = {TRUE, FALSE}
SPECIFICATION FairSpec
INVARIANTS
  ProbesBounded
  FailuresTrip
PROPERTIES
  ChangesJustified
  OpenIsProbed
