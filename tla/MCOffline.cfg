SPECIFICATION OfflineSpec
CONSTANTS
  Addr = {a1, a2, a3, b1}
  Val = {v1, v2}
  NoValue = NoValue
  Scope = {a1, a2, a3}
  alpha = alpha
  beta = beta
  gamma = gamma
  Order <- MCOrder
  Listing <- MCListing
  Version = {first, second, wrong}
  Broken = {wrong}
  None = None
  Index = Index
  Partial = Partial
  Workers = 2
  MaxRuns = 2
  n1 = n1
  n2 = n2
  n3 = n3
  n4 = n4
  n5 = n5
  NoNode = NoNode
  Unread = Unread
  Canvas <- MCCanvas
  Wiring <- MCWiring
INVARIANTS
  OrderIndependent
  ApplyMatchesOutcome
  ScopeConfined
  SequentialOutcome
  OldOrNew
  EdgesAreBound
  PathsLeadHome
  CrossingsAgree
CHECK_DEADLOCK FALSE
