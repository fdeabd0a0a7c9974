CONSTANTS
  Modulus = 8
  Target = 2
  MaxBuffer = 3
  Hangover = 1
  IdleLimit = 1
  InFlight = 2
  MaxFaults = 2
  MaxBursts = 2
  MaxFrames = 9
  MaxMutes = 1
SPECIFICATION Spec
CHECK_DEADLOCK FALSE
INVARIANTS
  MutedIsSilent
  KeyIsPlace
PROPERTIES
  PlayedInOrder
  SpeakerReleased
