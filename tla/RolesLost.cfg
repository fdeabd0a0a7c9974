CONSTANTS
  owner = owner
  manager = manager
  Offline = Offline
  Member = {owner, manager}
  Owner = owner
  InitialRoles <- Ladder
  InitialMembers <- Grants
  Masks <- MCMasks
  MaxRoleId = 3
  MaxCommands = 2
  StoreFaults = FALSE
SPECIFICATION Spec
INVARIANT
  NothingToldIsLost
