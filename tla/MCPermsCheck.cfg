CONSTANTS
  Member = Member
  Other = Other
  RoleIds <- MCRoleIds
  RoleMasks <- MCRoleMasks
  Overwrites <- MCOverwrites
SPECIFICATION Spec
INVARIANTS
  ResolveByPrecedence
  OverwritesNeverEscalate
  NobodyActsOnEachOther
