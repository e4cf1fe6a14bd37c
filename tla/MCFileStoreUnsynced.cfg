SPECIFICATION Spec
CONSTANTS
  a1 = a1
  v1 = v1
  t1 = t1
  t2 = t2
  t3 = t3
  Addr = {a1}
  Val = {v1}
  NoValue = NoValue
  Scope = {a1}
  Id = {t1}
  GenerationOf <- MCGenerationOf
  Generation = {1, 2}
  Digest = {d1}
  NoDigest = NoDigest
  NoEntries = NoEntries
  NoFile = NoFile
  Nothing = Nothing
  Batches <- MCBatches
  MaxTerminals = 2
  MaxBytes = 12
  Kills = TRUE
  Faults = {}
  PowerLosses = TRUE
  Reconciles = TRUE
INVARIANTS
  AnswersDurable
CHECK_DEADLOCK FALSE
