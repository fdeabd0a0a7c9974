----------------------------- MODULE PermsCheck -----------------------------
(***************************************************************************)
(* The resolution rules of Perms against an independent reading of them.   *)
(*                                                                         *)
(* The state is one input of `resolve`: the server's roles, two members    *)
(* with their grants, which of them is the owner, and the overwrites of    *)
(* one channel.  A step edits the input in one place, so every input the   *)
(* constants allow is reached.                                             *)
(***************************************************************************)
EXTENDS Perms

CONSTANTS
  RoleIds,          \* role ids a member may be granted; some may be deleted
  Member, Other,    \* two fingerprints
  RoleMasks,        \* the masks a role may carry
  Overwrites        \* the [allow, deny] pairs a target may carry

ASSUME PermsAssumption ==
  /\ RoleIds \subseteq Nat \ {EVERYONE_ROLE_ID}
  /\ IsFiniteSet(RoleIds)
  /\ Member # Other
  /\ RoleMasks \subseteq SUBSET ALL
  /\ Overwrites \subseteq Overwrite

VARIABLES
  roles,            \* role id -> [position, permissions]
  grants,           \* member -> the role ids it was granted
  owner,            \* the owner's fingerprint, or "nobody"
  overwrites        \* target -> [allow, deny], the channel's overwrites

vars == <<roles, grants, owner, overwrites>>

Members == {Member, Other}
Targets == {RoleTarget(id) : id \in RoleIds \cup {EVERYONE_ROLE_ID}} \cup {MemberTarget(Member)}
IsOwner(m) == owner = m

Init ==
  /\ roles = [id \in RoleIds \cup {EVERYONE_ROLE_ID} |-> [position |-> id, permissions |-> {}]]
  /\ grants = [m \in Members |-> {}]
  /\ owner = "nobody"
  /\ overwrites = [t \in {} |-> NoOverwrite]

EditRole(id, mask) ==
  /\ id \in DOMAIN roles
  /\ roles' = [roles EXCEPT ![id].permissions = mask]
  /\ UNCHANGED <<grants, owner, overwrites>>

\* A deleted role may still be named by a member's grants and an overwrite.
DropRole(id) ==
  /\ id \in DOMAIN roles \ {EVERYONE_ROLE_ID}
  /\ roles' = [r \in DOMAIN roles \ {id} |-> roles[r]]
  /\ UNCHANGED <<grants, owner, overwrites>>

EditGrants(m, granted) ==
  /\ grants' = [grants EXCEPT ![m] = granted]
  /\ UNCHANGED <<roles, owner, overwrites>>

EditOwner(m) ==
  /\ owner' = m
  /\ UNCHANGED <<roles, grants, overwrites>>

EditOverwrite(t, ow) ==
  /\ overwrites' = [u \in DOMAIN overwrites \cup {t} |-> IF u = t THEN ow ELSE overwrites[u]]
  /\ UNCHANGED <<roles, grants, owner>>

Next ==
  \/ \E id \in RoleIds \cup {EVERYONE_ROLE_ID}, mask \in RoleMasks : EditRole(id, mask)
  \/ \E id \in RoleIds : DropRole(id)
  \/ \E m \in Members, granted \in SUBSET RoleIds : EditGrants(m, granted)
  \/ \E m \in Members \cup {"nobody"} : EditOwner(m)
  \/ \E t \in Targets, ow \in Overwrites : EditOverwrite(t, ow)

Spec == Init /\ [][Next]_vars

-----------------------------------------------------------------------------
Resolved(m) == ResolveChannel(roles, grants[m], m, IsOwner(m), overwrites)

\* One bit, read off the layers from the most specific to the least: the first
\* layer that mentions the bit decides, allow before deny, the base last.
BitByPrecedence(base, granted, m, ows, bit) ==
  LET own == overwrite_for(ows, MemberTarget(m))
      everyone == overwrite_for(ows, RoleTarget(EVERYONE_ROLE_ID))
      RoleAllows == \E id \in granted : bit \in overwrite_for(ows, RoleTarget(id)).allow
      RoleDenies == \E id \in granted : bit \in overwrite_for(ows, RoleTarget(id)).deny
  IN IF bit \notin CHANNEL_SCOPED THEN bit \in base
     ELSE \/ bit \in own.allow
          \/ /\ bit \notin own.deny
             /\ \/ RoleAllows
                \/ /\ ~RoleDenies
                   /\ \/ bit \in everyone.allow
                      \/ bit \in base /\ bit \notin everyone.deny

\* The masks `resolve` builds layer by layer grant exactly the bits the rule of
\* precedence grants: for a member who is neither owner nor administrator, a
\* bit is granted iff the channel is visible to it and the most specific layer
\* that mentions the bit allows it (perms.rs, steps 3 to 6 of resolve).
ResolveByPrecedence ==
  \A m \in Members :
    LET base == Base(roles, grants[m])
        Granted(bit) == BitByPrecedence(base, grants[m], m, overwrites, bit)
    IN (~IsOwner(m) /\ "ADMINISTRATOR" \notin base) =>
         Resolved(m) = IF Granted("VIEW_CHANNEL") THEN {b \in ALL : Granted(b)} ELSE {}

\* Whatever is stored in a channel's overwrites, they never give a member a
\* server-wide bit it did not hold: the bits a member holds in a channel and
\* its server-wide bits come from its roles alone (perms.rs, CHANNEL_SCOPED).
OverwritesNeverEscalate ==
  \A m \in Members :
    Resolved(m) \cap SERVER_WIDE \subseteq ResolveServer(roles, grants[m], IsOwner(m))

\* Rank is a strict order: two members can never act on each other, whatever
\* their grants, with deleted roles and with an owner (perms.rs, can_act_on).
NobodyActsOnEachOther ==
  ~ \E m, n \in Members :
      /\ can_act_on(roles, grants[m], IsOwner(m), grants[n], IsOwner(n))
      /\ can_act_on(roles, grants[n], IsOwner(n), grants[m], IsOwner(m))
=============================================================================
