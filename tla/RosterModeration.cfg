CONSTANTS
  a = a
  b = b
  m = m
  alice = alice
  mod = mod
  lobby = lobby
  attic = attic
  None = None
  Absent = Absent
  Session = {a, m}
  Channel = {lobby}
  Fingerprint <- MCFingerprint
  fingerprint <- fingerprintOf
  Moderators = {mod}
  InitialChannels <- OneRoom
  Settings <- MCSettings
  Connectable <- Everywhere
  max_users = 2
  QueueDepth = 1
  StoreFaults = FALSE
  MaxRequests = 2
SPECIFICATION Spec
CHECK_DEADLOCK FALSE
INVARIANTS
  OneFarewell
  OccupantsHaveRoom
  NoFalseFarewell
PROPERTY
  RoomsFillWithinLimit
