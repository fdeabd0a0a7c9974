CONSTANTS
  a = a
  b = b
  m = m
  alice = alice
  mod = mod
  lobby = lobby
  attic = attic
  None = None
  Absent = Absent
  Session = {a, b, m}
  Channel = {lobby}
  Fingerprint <- MCFingerprint
  fingerprint <- OneFingerprint
  Moderators = {}
  InitialChannels <- OneRoom
  Settings <- MCSettings
  Connectable <- Everywhere
  max_users = 2
  QueueDepth = 2
  StoreFaults = FALSE
  MaxRequests = 1
SPECIFICATION Spec
SYMMETRY Symmetry
CHECK_DEADLOCK FALSE
INVARIANTS
  WithinServerLimit
  NoLeakedSlot
  MembersKnown
  DeparturesSeen
  RoomsAgree
