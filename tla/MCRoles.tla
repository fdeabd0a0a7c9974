------------------------------ MODULE MCRoles ------------------------------
(***************************************************************************)
(* A small instance of Roles: an owner and a manager of roles, and a       *)
(* ladder of two roles, the lower one with a bit the manager lacks.        *)
(***************************************************************************)
EXTENDS Roles

CONSTANTS owner, manager

Ladder ==
  [id \in 0..2 |->
     [position |-> id,
      permissions |-> IF id = 0 THEN {} ELSE IF id = 1 THEN {"BAN_MEMBERS"} ELSE {"MANAGE_ROLES"}]]
Grants == [m \in Member |-> IF m = manager THEN {2} ELSE {}]
MCMasks == {{"BAN_MEMBERS"}, {"MANAGE_ROLES"}}
=============================================================================
