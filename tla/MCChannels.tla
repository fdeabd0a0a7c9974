----------------------------- MODULE MCChannels -----------------------------
(***************************************************************************)
(* Small instances of Channels: m manages channels and roles, u holds a    *)
(* junior role.                                                            *)
(***************************************************************************)
EXTENDS Channels

CONSTANTS m, u

TwoRoles ==
  [r \in {0, 1, 2} |->
     CASE r = 0 -> [position |-> 0, permissions |-> {"VIEW_CHANNEL", "SEND_MESSAGES"}]
       [] r = 1 -> [position |-> 1, permissions |-> {}]
       [] r = 2 -> [position |-> 2, permissions |-> {"MANAGE_CHANNELS", "MANAGE_ROLES"}]]
Granted == [s \in Session |-> IF s = m THEN {2} ELSE {1}]
BothGranted == [s \in Session |-> {2}]

TwoRooms == <<None, 1>>
FlatRooms == <<None, None>>

\* A first boot, and a server where the staff of role 1 was let into a room.
Fresh == [channels |-> NoRows, overwrites |-> NoRows]
Running ==
  [channels |-> [i \in 1 .. 2 |-> TwoRooms[i]],
   overwrites |-> [k \in {<<2, RoleTarget(1)>>} |-> [allow |-> {"VIEW_CHANNEL"}, deny |-> {}]]]
FreshOnly == {Fresh}
FreshOrRunning == {Fresh, Running}

RoleTargets == {RoleTarget(0), RoleTarget(1)}
Hide == {[allow |-> {}, deny |-> {"VIEW_CHANNEL"}]}
SeeOrNot == {{}, {"VIEW_CHANNEL"}}
NoMasks == {}
HideOrShow == Hide \cup {[allow |-> {"VIEW_CHANNEL"}, deny |-> {}]}
=============================================================================
