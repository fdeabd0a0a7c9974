CONSTANTS
  k1 = k1
  k2 = k2
  p1 = p1
  t1 = t1
  Plain = Plain
  Garbled = Garbled
  Nothing = Nothing
  Torn = Torn
  Key <- MCKey
  Passphrase <- MCPassphrase
  Text <- MCText
  MaxLevel = 1
  MaxWaiting = 2
  MaxMiners = 1
SPECIFICATION Spec
CHECK_DEADLOCK FALSE
INVARIANTS
  NoKeyLost
  UserCanOpen
  RemovedStaysGone
  ActiveExists
PROPERTY
  ImplementsAtomicVault
