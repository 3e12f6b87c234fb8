CONSTANTS
  Params = {":id"}
  Names = {"user", "order"}
  PrefixOf <- MCPrefixOf
  Routes <- MCRoutes
  Paths <- MCPaths
  Requests = {r1, r2}
  Contexts = {c1, c2}
  Added = {"auth", "limiter"}
  MaxRoutes = 2
  MaxServed = 1
  MaxAdded = 1
SPECIFICATION Spec
INVARIANTS TypeOK ContextExclusive RouterNameIsRoute RegisteredIsServed GatewayOwner AuthGuards PanicContained
SYMMETRY Symmetry
CHECK_DEADLOCK FALSE
