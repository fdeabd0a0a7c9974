CONSTANTS
  s1 = s1
  s2 = s2
  a1 = a1
  f1 = f1
  f2 = f2
  d1 = d1
  d2 = d2
  NoPin = NoPin
  Malformed = Malformed
  Idle = Idle
  Server <- MCServer
  Resolved <- MCResolved
  Fingerprint <- MCFingerprint
  Dial <- MCDial
SPECIFICATION Spec
CHECK_DEADLOCK FALSE
INVARIANTS
  UserDecisionKept
