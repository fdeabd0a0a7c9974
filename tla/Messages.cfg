CONSTANTS
  a = a
  b = b
  general = general
  staff = staff
  Session = {a, b}
  Channel = {general, staff}
  defaultChannel = general
  InitialViews <- TwoRooms
  ReadHistory <- Readers
  Contested <- Movable
  Limit = 1
  HistoryEnabled = TRUE
  StoreFaults = TRUE
  MaxSends = 2
  MaxChanges = 2
  MaxRestarts = 1
  MaxInbox = 1
SPECIFICATION Spec
CHECK_DEADLOCK FALSE
INVARIANTS
  ShownIsStored
  IdsFresh
  NothingMissed
PROPERTIES
  ImplementsLog
  FetchAnswered
