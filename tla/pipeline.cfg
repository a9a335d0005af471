\* One call of any kind while everything around it changes.
SPECIFICATION FairSpec
CONSTANTS
  c1 = c1  a1 = a1  a2 = a2  u1 = u1  u2 = u2  get = get  p1 = p1  p2 = p2  nopath = nopath
  Calls = {c1}
  Names <- MCNames
  Methods <- MCMethods
  Paths <- MCPaths
  NoPath = nopath
  Never = 9
  Requests <- MCRequests
  Surfaces = {"http", "gateway", "authorize"}
  Policies <- MCPolicies
  MaxTime = 1
INVARIANTS OnlyThePermitted TheLogHasIt
PROPERTIES TheCatalogueIsTrue EveryCallEnds
