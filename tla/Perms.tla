------------------------------- MODULE Perms -------------------------------
(***************************************************************************)
(* The permission rules both ends of the wire share                        *)
(* (crates/pickle-proto/src/perms.rs).                                     *)
(*                                                                         *)
(* A permission mask is the set of the bits it holds, so `contains` is     *)
(* inclusion, `union` is \cup, `without` is \ and `intersect` is \cap.     *)
(* A role list is a function from role ids to [position, permissions]      *)
(* (names and colours decide nothing), a member's grants are the set of    *)
(* the role ids granted (the list's order decides nothing either), and a   *)
(* channel's overwrites are a function from their targets to               *)
(* [allow, deny]: the handlers keep one overwrite per target.              *)
(***************************************************************************)
EXTENDS Integers, FiniteSets

EVERYONE_ROLE_ID == 0

\* Bits 0-15: never valid in a channel overwrite.
SERVER_WIDE ==
  {"ADMINISTRATOR", "MANAGE_SERVER", "MANAGE_ROLES", "MANAGE_CHANNELS",
   "KICK_MEMBERS", "BAN_MEMBERS"}

\* Bits 16-47: the only ones an overwrite may touch.
CHANNEL_SCOPED ==
  {"VIEW_CHANNEL", "SEND_MESSAGES", "READ_HISTORY", "MANAGE_MESSAGES",
   "CONNECT", "SPEAK", "MUTE_MEMBERS", "MOVE_MEMBERS"}

ALL == SERVER_WIDE \cup CHANNEL_SCOPED

DEFAULT_EVERYONE ==
  {"VIEW_CHANNEL", "SEND_MESSAGES", "READ_HISTORY", "CONNECT", "SPEAK"}

Overwrite == [allow : SUBSET ALL, deny : SUBSET ALL]
NoOverwrite == [allow |-> {}, deny |-> {}]
RoleTarget(id) == <<"role", id>>
MemberTarget(member) == <<"member", member>>

\* Ids naming deleted roles are skipped.
role_permissions(roles, id) ==
  IF id \in DOMAIN roles THEN roles[id].permissions ELSE {}

overwrite_for(overwrites, target) ==
  IF target \in DOMAIN overwrites THEN overwrites[target] ELSE NoOverwrite

Base(roles, grants) ==
  UNION {role_permissions(roles, id) : id \in grants \cup {EVERYONE_ROLE_ID}}

\* Mutants: allow applied before deny; an overwrite that is not masked.
AppliedAllowFirst(perms, deny, allow) ==
  (perms \cup (allow \cap CHANNEL_SCOPED)) \ (deny \cap CHANNEL_SCOPED)
AppliedUnmasked(perms, deny, allow) == (perms \ deny) \cup allow

\* Deny, then allow, each masked to the channel-scoped bits.
Applied(perms, deny, allow) ==
  (perms \ (deny \cap CHANNEL_SCOPED)) \cup (allow \cap CHANNEL_SCOPED)

\* `resolve` without a channel: what a member may do server-wide.
ResolveServer(roles, grants, owner) ==
  IF owner \/ "ADMINISTRATOR" \in Base(roles, grants)
  THEN ALL ELSE Base(roles, grants)

\* The three layers of overwrites, @everyone's, the roles', the member's.
Layered(base, grants, member, overwrites) ==
  LET everyone == overwrite_for(overwrites, RoleTarget(EVERYONE_ROLE_ID))
      denies == UNION {overwrite_for(overwrites, RoleTarget(id)).deny : id \in grants}
      allows == UNION {overwrite_for(overwrites, RoleTarget(id)).allow : id \in grants}
      own == overwrite_for(overwrites, MemberTarget(member))
  IN Applied(Applied(Applied(base, everyone.deny, everyone.allow),
                     denies, allows),
             own.deny, own.allow)

\* `resolve` inside a channel: a channel one cannot see grants nothing.
ResolveChannel(roles, grants, member, owner, overwrites) ==
  LET base == Base(roles, grants)
      perms == Layered(base, grants, member, overwrites)
  IN IF owner \/ "ADMINISTRATOR" \in base THEN ALL
     ELSE IF "VIEW_CHANNEL" \in perms THEN perms ELSE {}

\* The most senior position among the granted roles that exist, 0 with none.
top_role_position(roles, grants) ==
  LET held == {roles[id].position : id \in grants \cap DOMAIN roles}
  IN IF held = {} THEN 0 ELSE CHOOSE p \in held : \A q \in held : q <= p

\* Mutant: equals may act on each other.
can_act_on_equals(roles, actor_roles, actor_owner, target_roles, target_owner) ==
  /\ ~target_owner
  /\ \/ actor_owner
     \/ top_role_position(roles, actor_roles) >= top_role_position(roles, target_roles)

\* Rank alone: the owner is immune, and acts on anyone else.
can_act_on(roles, actor_roles, actor_owner, target_roles, target_owner) ==
  /\ ~target_owner
  /\ \/ actor_owner
     \/ top_role_position(roles, actor_roles) > top_role_position(roles, target_roles)

\* The strictly-below rule for editing, granting and revoking a role.
can_manage_role(roles, actor_roles, actor_owner, role) ==
  \/ actor_owner
  \/ /\ role \in DOMAIN roles
     /\ roles[role].position < top_role_position(roles, actor_roles)

=============================================================================
