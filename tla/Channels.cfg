CONSTANTS
  m = m
  u = u
  None = None
  Session = {m, u}
  Owner = None
  InitialRoles <- TwoRoles
  InitialGrants <- Granted
  Config <- TwoRooms
  InitialTables <- FreshOrRunning
  MaxId = 3
  Targets <- RoleTargets
  Overwrites <- HideOrShow
  Masks <- SeeOrNot
  StoreFaults = TRUE
  MaxCommands = 2
  MaxCrashes = 1
SPECIFICATION Spec
CHECK_DEADLOCK FALSE
INVARIANTS
  MemoryIsStore
  
