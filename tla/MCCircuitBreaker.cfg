CONSTANTS
  Callers = {c1, c2}
  MaxRequests = 1
  TripAfter = 1
  Intervals = {"zero", "positive"}
  Handlers = {TRUE, FALSE}
SPECIFICATION Spec
INVARIANTS
  TypeOK
  ExpiryMatchesState
PROPERTIES
  SpentIsLost
