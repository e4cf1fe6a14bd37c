SPECIFICATION Spec
CONSTANTS
  a1 = a1
  a2 = a2
  v1 = v1
  t1 = t1
  t2 = t2
  t3 = t3
  Addr = {a1, a2}
  Val = {v1}
  NoValue = NoValue
  Scope = {a1, a2}
  Id = {t1, t2, t3}
  GenerationOf <- MCGenerationOf
  Generation = {1, 2}
  Digest = {d1, d2}
  NoDigest = NoDigest
  NoEntries = NoEntries
  NoId = NoId
  Batches <- MCBatches
  MaxTerminals = 2
  MaxBytes = 18
INVARIANT
  PreparedCanAbort
CHECK_DEADLOCK FALSE
