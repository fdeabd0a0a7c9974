---------------------------- MODULE MCPermsCheck ----------------------------
(***************************************************************************)
(* A small instance of PermsCheck: two roles, either of which may have     *)
(* been deleted, and masks and overwrites that differ on visibility, on    *)
(* another channel bit, and on a server-wide bit.                          *)
(***************************************************************************)
EXTENDS PermsCheck

MCRoleIds == {1, 2}
MCRoleMasks == {{}, {"VIEW_CHANNEL", "KICK_MEMBERS"}, {"ADMINISTRATOR"}}
MCOverwrites ==
  {[allow |-> {"BAN_MEMBERS", "VIEW_CHANNEL"}, deny |-> {"KICK_MEMBERS"}],
   [allow |-> {"SPEAK"}, deny |-> {"SPEAK"}],
   [allow |-> {}, deny |-> {"VIEW_CHANNEL", "SPEAK"}]}
=============================================================================
