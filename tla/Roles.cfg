CONSTANTS
  owner = owner
  manager = manager
  Offline = Offline
  Member = {owner, manager}
  Owner = owner
  InitialRoles <- Ladder
  InitialMembers <- Grants
  Masks <- MCMasks
  MaxRoleId = 3
  MaxCommands = 3
  StoreFaults = TRUE
SPECIFICATION ApartSpec
INVARIANTS
  PositionsUnique
PROPERTY
  SeniorsUntouched
