SPECIFICATION Spec
CONSTANTS
  Callback = {c1, c2}
  NoDocument = NoDocument
  MaxKey = 3
  Ttl = 3
  MinRefetch = 2
  FetchTimeout = 1
INVARIANT
  TypeOK
PROPERTIES
  RotationIsSurvived
  WithdrawnKeyDies
  EveryCallbackEnds
