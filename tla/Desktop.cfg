CONSTANTS
  s1 = s1
  s2 = s2
  Session = {s1, s2}
  MaxHeard = 2
SPECIFICATION Spec
CHECK_DEADLOCK FALSE
INVARIANTS
  VoiceOnOpenSession
  OneStrayPacket
  DevicesReleased
PROPERTIES
  VoiceReleased
  StrayReleased
