SPECIFICATION Spec
CONSTANTS
  Browser = {b1, b2}
  State = {s1, s2, s3}
  Subject = {p1, p2}
  Request = {r1, r2}
  None = None
  LoginTtl = 2
  MaxPending = 2
SYMMETRY MCSymmetry
INVARIANTS
  SessionIsItsBrowsersOwn
  RedeemedOnce
  PendingIsBounded
PROPERTY
  OnlyItsBrowserEndsIt
CHECK_DEADLOCK FALSE
