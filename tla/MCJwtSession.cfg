CONSTANTS
  Users = {u1, u2}
  Access = 2
  Refresh = 3
  Ages = {0, 4}
  MaxTime = 5
  MaxPairs = 3
SPECIFICATION Spec
INVARIANTS TypeOK CookieEndsWithToken
PROPERTY NoneResumed
