SPECIFICATION HostSpec
CONSTANTS
  a1 = a1
  a2 = a2
  v1 = v1
  t1 = t1
  t2 = t2
  t3 = t3
  Addr = {a1, a2}
  Val = {v1}
  NoValue = NoValue
  Scope = {a1, a2}
  Id = {t1, t2, t3}
  GenerationOf <- MCGenerationOf
  Generation = {1, 2}
  Digest = {d1, d2}
  NoDigest = NoDigest
  NoEntries = NoEntries
  NoId = NoId
  Batches <- MCBatches
  MaxTerminals = 2
  MaxBytes = 18
  mine = mine
  other = other
  id = id
  token = token
  basic = basic
  list = list
  login = login
  ping = ping
  space = space
  origin = origin
  s1 = s1
  s2 = s2
  tiny = tiny
  x1 = x1
  x2 = x2
  bad = bad
  blank = blank
  Blank = blank
  None = None
  Tenant = {mine, other}
  Call = {c1}
  Operation = {list, login, ping}
  Credential = {id, token, basic}
  Endpoint = {space, origin}
  Secret = {s1, s2, tiny}
  Setting = {x1, x2, bad, blank}
  Alternatives <- MCAlternatives
  EndpointsOf <- MCEndpointsOf
  Mints <- MCMints
  Users <- MCUsers
  Default <- MCDefault
  ClosedTo <- MCClosedTo
  Withheld = {ping}
  Queried = {basic}
  Operators = {origin}
  Unsafe = {bad}
  Short = {tiny}
  MaxWrites = 2
INVARIANTS
  FenceHolds
  OutcomeReserved
  OneDecision
  OwnTenantOnly
  WholeAlternative
  CallableIsTruthful
  HeldBeforeItTravels
  GateMatchesRequest
  HandleNamesStored
PROPERTIES
  ImplementsPreparedStore
  OutcomesAreFinal
  SlotFreezesReads
CHECK_DEADLOCK FALSE
