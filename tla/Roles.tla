------------------------------- MODULE Roles -------------------------------
(***************************************************************************)
(* The role commands of admin.rs: who may do what, kept in memory          *)
(* (PermState, state.rs) and in the database (store.rs).                   *)
(*                                                                         *)
(* Every command has one shape: it is checked against a snapshot of the    *)
(* permission inputs and builds the next ones from that snapshot; it       *)
(* writes to the store, awaiting each write; it swaps the new inputs in;   *)
(* it brings the grants cached by live sessions up to date.  Each of these *)
(* is a step of its own, and other commands, admissions and a crash may    *)
(* come between any two of them.                                           *)
(*                                                                         *)
(* Names and colours of roles decide nothing and are left out, the         *)
(* overwrites a deleted role leaves behind belong to the channels, and a   *)
(* member has one session at a time.                                       *)
(***************************************************************************)
EXTENDS Perms, Sequences

CONSTANTS
  Member,           \* fingerprints
  Owner,            \* the owner's, if the configuration names one
  InitialRoles,     \* the roles the server starts with: id -> [position, permissions]
  InitialMembers,   \* the grants it starts with: member -> role ids
  Masks,            \* the masks a command may carry
  MaxRoleId,        \* bound: no role is created past this id
  MaxCommands,      \* bound: commands and restarts in a behaviour
  StoreFaults,      \* whether a write to the store may fail
  Offline           \* in live: the member has no session

Positioned == [position : Nat, permissions : SUBSET ALL]

ASSUME RolesAssumption ==
  /\ MaxRoleId \in Nat /\ MaxCommands \in Nat
  /\ StoreFaults \in BOOLEAN
  /\ DOMAIN InitialRoles \subseteq 0..MaxRoleId
  /\ EVERYONE_ROLE_ID \in DOMAIN InitialRoles
  /\ InitialRoles \in [DOMAIN InitialRoles -> Positioned]
  /\ \A id, r \in DOMAIN InitialRoles :
       InitialRoles[id].position = InitialRoles[r].position => id = r
  /\ InitialRoles[EVERYONE_ROLE_ID].position = 0
  /\ InitialMembers \in [Member -> SUBSET (DOMAIN InitialRoles \ {EVERYONE_ROLE_ID})]
  /\ Masks \subseteq SUBSET ALL

RoleIds == 0..MaxRoleId

\* In busy: the member has no command in flight.
Idle == [none |-> TRUE]

VARIABLES
  perms,            \* PermState in memory: [roles, members]
  disk,             \* the tables roles and role_members: [roles, members]
  live,             \* the grants each session was given: UserInfo.roles
  arriving,         \* the grants an admission has read and not yet used
  busy,             \* the command each member has in flight
  commands          \* commands and restarts so far (see MaxCommands)

vars == <<perms, disk, live, arriving, busy, commands>>

-----------------------------------------------------------------------------
(* What the store is asked to do *)

SetRolePositions(to) == [op |-> "positions", to |-> to]
InsertRole(id, role) == [op |-> "insert", id |-> id, role |-> role]
UpdateRole(id, permissions) == [op |-> "update", id |-> id, permissions |-> permissions]
DeleteRole(id) == [op |-> "delete", id |-> id]
ReplaceMemberRoles(m, ids) == [op |-> "grants", member |-> m, ids |-> ids]

Positions(rs) == [id \in DOMAIN rs |-> rs[id].position]
AtPositions(rs, to) ==
  [id \in DOMAIN rs |->
     IF id \in DOMAIN to THEN [rs[id] EXCEPT !.position = to[id]] ELSE rs[id]]
WithRole(rs, id, role) ==
  [r \in DOMAIN rs \cup {id} |-> IF r = id THEN role ELSE rs[r]]
Without(rs, id) == [r \in DOMAIN rs \ {id} |-> rs[r]]
Stripped(ms, id) == [m \in Member |-> ms[m] \ {id}]

\* One statement, or one transaction, on the tables.
Written(d, w) ==
  CASE w.op = "positions" -> [d EXCEPT !.roles = AtPositions(@, w.to)]
    [] w.op = "insert" -> [d EXCEPT !.roles = WithRole(@, w.id, w.role)]
    [] w.op = "update" ->
         [d EXCEPT !.roles = [r \in DOMAIN @ |->
            IF r = w.id THEN [@[r] EXCEPT !.permissions = w.permissions] ELSE @[r]]]
    [] w.op = "delete" -> [d EXCEPT !.roles = Without(@, w.id), !.members = Stripped(@, w.id)]
    [] w.op = "grants" -> [d EXCEPT !.members[w.member] = w.ids]

\* The primary key of the roles table.
Conflicts(d, w) == w.op = "insert" /\ w.id \in DOMAIN d.roles

-----------------------------------------------------------------------------
Init ==
  /\ perms = [roles |-> InitialRoles, members |-> InitialMembers]
  /\ disk = perms
  /\ live = [m \in Member |-> Offline]
  /\ arriving = [m \in Member |-> Offline]
  /\ busy = [m \in Member |-> Idle]
  /\ commands = 0

Quiet == \A m \in Member : busy[m] = Idle

\* admit: the grants are read before the roster's lock is taken ...
ReadGrants(m) ==
  /\ live[m] = Offline /\ arriving[m] = Offline
  /\ arriving' = [arriving EXCEPT ![m] = perms.members[m]]
  /\ UNCHANGED <<perms, disk, live, busy, commands>>

\* ... and kept by the session that is entered under it.
Enter(m) ==
  /\ arriving[m] # Offline
  /\ live' = [live EXCEPT ![m] = arriving[m]]
  /\ arriving' = [arriving EXCEPT ![m] = Offline]
  /\ UNCHANGED <<perms, disk, busy, commands>>

Leave(m) ==
  /\ live[m] # Offline
  /\ live' = [live EXCEPT ![m] = Offline]
  /\ UNCHANGED <<perms, disk, arriving, busy, commands>>

-----------------------------------------------------------------------------
(* The checks *)

\* actor(): the bit by the session's cached grants, rank and base by the snapshot.
MayManageRoles(a) ==
  /\ live[a] # Offline
  /\ "MANAGE_ROLES" \in ResolveServer(perms.roles, live[a], a = Owner)

Standing(a) == ResolveServer(perms.roles, perms.members[a], a = Owner)
may_grant(a, bits) == bits \subseteq Standing(a)
MyTop(a) == top_role_position(perms.roles, perms.members[a])
MayManage(a, id) == can_manage_role(perms.roles, perms.members[a], a = Owner, id)

\* A command of a that passed its checks: what it will write, swap in and
\* tell the live sessions.
Command(a, writes, next, refresh) ==
  /\ busy[a] = Idle
  /\ MayManageRoles(a)
  /\ commands < MaxCommands
  /\ commands' = commands + 1
  /\ busy' = [busy EXCEPT ![a] = [writes |-> writes, next |-> next,
                                       swapped |-> FALSE, refresh |-> refresh]]
  /\ UNCHANGED <<perms, disk, live, arriving>>

NextRoleId == 1 + CHOOSE id \in DOMAIN perms.roles : \A r \in DOMAIN perms.roles : r <= id

\* Mutant: the roles above @everyone keep their places.
shifted_positions_nowhere(rs) == Positions(rs)

\* Everything above @everyone moves up to make room at position 1.
shifted_positions(rs) ==
  [id \in DOMAIN rs |-> IF rs[id].position = 0 THEN 0 ELSE rs[id].position + 1]

create_role(a, mask) ==
  LET to == shifted_positions(perms.roles)
      role == [position |-> 1, permissions |-> mask]
  IN /\ may_grant(a, mask)
     /\ NextRoleId <= MaxRoleId
     /\ Command(a, <<SetRolePositions(to), InsertRole(NextRoleId, role)>>,
                [perms EXCEPT !.roles = WithRole(AtPositions(@, to), NextRoleId, role)],
                <<>>)

\* The subset rule is about what is added: taking away needs no standing.
update_role(a, id, mask) ==
  /\ id \in DOMAIN perms.roles
  /\ MayManage(a, id)
  /\ may_grant(a, mask \ perms.roles[id].permissions)
  /\ Command(a, <<UpdateRole(id, mask)>>, [perms EXCEPT !.roles[id].permissions = mask], <<>>)

\* Positions renumbered from 0 in their order.
Compacted(rs) ==
  [id \in DOMAIN rs |-> Cardinality({r \in DOMAIN rs : rs[r].position < rs[id].position})]

delete_role(a, id) ==
  /\ id \in DOMAIN perms.roles \ {EVERYONE_ROLE_ID}
  /\ MayManage(a, id)
  /\ LET kept == Without(perms.roles, id)
         to == Compacted(kept)
     IN Command(a, <<DeleteRole(id), SetRolePositions(to)>>,
                [roles |-> AtPositions(kept, to), members |-> Stripped(perms.members, id)],
                <<DeleteRole(id)>>)

\* Mutant: roles of the actor's own rank may be moved as well.
MovesUpTo(rs, to, top) ==
  \A id \in DOMAIN rs : to[id] # rs[id].position => rs[id].position <= top /\ to[id] <= top

\* A role that moves is below the actor where it stands and where it goes.
MovesBelow(rs, to, top) ==
  \A id \in DOMAIN rs : to[id] # rs[id].position => rs[id].position < top /\ to[id] < top

\* A dense permutation of every role, @everyone at the bottom.
reorder_roles(a, to) ==
  /\ DOMAIN to = DOMAIN perms.roles
  /\ {to[id] : id \in DOMAIN to} = 0..(Cardinality(DOMAIN to) - 1)
  /\ to[EVERYONE_ROLE_ID] = 0
  /\ a = Owner \/ MovesBelow(perms.roles, to, MyTop(a))
  /\ Command(a, <<SetRolePositions(to)>>, [perms EXCEPT !.roles = AtPositions(@, to)], <<>>)

\* Hierarchy on the difference; the bits the roles carry are not looked at.
set_member_roles(a, m, ids) ==
  /\ ids \subseteq DOMAIN perms.roles \ {EVERYONE_ROLE_ID}
  /\ m = Owner => a = Owner
  /\ \A id \in (ids \ perms.members[m]) \cup (perms.members[m] \ ids) : MayManage(a, id)
  /\ Command(a, <<ReplaceMemberRoles(m, ids)>>, [perms EXCEPT !.members[m] = ids],
             <<ReplaceMemberRoles(m, ids)>>)

-----------------------------------------------------------------------------
(* The effects *)

\* A failed write ends the command in a refusal, but for delete_role's
\* renumbering, whose failure is only logged.
Optional(b) == b.refresh # <<>> /\ Head(b.writes).op = "positions"

Write(a) ==
  /\ busy[a] # Idle
  /\ busy[a].writes # <<>>
  /\ LET w == Head(busy[a].writes)
         rest == [busy EXCEPT ![a].writes = Tail(@)]
     IN \/ /\ ~Conflicts(disk, w)
           /\ disk' = Written(disk, w)
           /\ busy' = rest
        \/ /\ StoreFaults \/ Conflicts(disk, w)
           /\ busy' = IF Optional(busy[a]) THEN rest ELSE [busy EXCEPT ![a] = Idle]
           /\ UNCHANGED disk
  /\ UNCHANGED <<perms, live, arriving, commands>>

\* What update_live_member_roles and strip_live_role leave a session with.
Refreshed(m, refresh) ==
  IF refresh = <<>> \/ live[m] = Offline THEN live[m]
  ELSE LET w == Head(refresh)
       IN IF w.op = "delete" THEN live[m] \ {w.id}
          ELSE IF w.member = m THEN w.ids ELSE live[m]

\* The new inputs replace the old ones whole, whatever has become of those.
swap_perm_state(a) ==
  /\ busy[a] # Idle
  /\ busy[a].writes = <<>> /\ ~busy[a].swapped
  /\ perms' = busy[a].next
  /\ busy' = [busy EXCEPT ![a].swapped = TRUE]
  /\ UNCHANGED <<disk, live, arriving, commands>>

\* The cached grants follow, under the roster's lock.
RefreshLive(a) ==
  /\ busy[a] # Idle
  /\ busy[a].swapped
  /\ live' = [m \in Member |-> Refreshed(m, busy[a].refresh)]
  /\ busy' = [busy EXCEPT ![a] = Idle]
  /\ UNCHANGED <<perms, disk, arriving, commands>>

\* The process ends at any point, and starts again from the tables.
Restart ==
  /\ commands < MaxCommands
  /\ commands' = commands + 1
  /\ perms' = disk
  /\ live' = [m \in Member |-> Offline]
  /\ arriving' = [m \in Member |-> Offline]
  /\ busy' = [m \in Member |-> Idle]
  /\ UNCHANGED disk

\* What a member's client may ask for.
RoleCommand(a) ==
  \/ \E mask \in Masks : create_role(a, mask)
  \/ \E id \in RoleIds, mask \in Masks : update_role(a, id, mask)
  \/ \E id \in RoleIds : delete_role(a, id)
  \/ \E to \in [DOMAIN perms.roles -> RoleIds] : reorder_roles(a, to)
  \/ \E m \in Member, ids \in SUBSET RoleIds : set_member_roles(a, m, ids)

Next ==
  \/ Restart
  \/ \E m \in Member : ReadGrants(m) \/ Enter(m) \/ Leave(m)
  \/ \E a \in Member : Write(a) \/ swap_perm_state(a) \/ RefreshLive(a) \/ RoleCommand(a)

Spec == Init /\ [][Next]_vars

\* Nothing in the code keeps the commands of two sessions apart.  The behaviours in
\* which they happen not to overlap are those of one administrator at a time.
OneAtATime == \A a, b \in Member : busy[a] # Idle /\ busy[b] # Idle => a = b
ApartSpec == Init /\ [][Next /\ OneAtATime']_vars

-----------------------------------------------------------------------------
(* Properties *)

\* No two roles share a position, in memory or in the store, and @everyone is at
\* the bottom: at every point of a command that no other overlaps, so also after
\* a crash or a failed write there (store.rs, set_role_positions; admin.rs,
\* shifted_positions).
PositionsUnique ==
  \A rs \in {perms.roles, disk.roles} :
    /\ \A id, r \in DOMAIN rs : rs[id].position = rs[r].position => id = r
    /\ rs[EVERYONE_ROLE_ID].position = 0

Swaps(a) == busy[a] # Idle /\ ~busy[a].swapped /\ busy'[a] # Idle /\ busy'[a].swapped

\* The roles at the rank of a or above.
Seniors(a) == {id \in DOMAIN perms.roles : perms.roles[id].position >= MyTop(a)}

SparesSeniors(a) ==
  /\ Seniors(a) \subseteq DOMAIN perms'.roles
  /\ \A id \in Seniors(a) :
       /\ perms'.roles[id].permissions = perms.roles[id].permissions
       /\ \A m \in Member : id \in perms'.members[m] <=> id \in perms.members[m]
       /\ \A r \in DOMAIN perms.roles \cap DOMAIN perms'.roles :
            perms.roles[r].position < perms.roles[id].position
              => perms'.roles[r].position < perms'.roles[id].position

\* Whatever a member that is not the owner does, the roles at its rank and above
\* keep their masks and their holders, and nothing below overtakes them: none of
\* create, update, delete, reorder and grant reaches up (admin.rs, hierarchy), as
\* long as the inputs it was checked against are the ones its swap replaces.
SeniorsUntouched == [][\A a \in Member \ {Owner} : Swaps(a) => SparesSeniors(a)]_vars

-----------------------------------------------------------------------------
(* What comments in the code say, and the code does not do *)

SameContents(p, q) ==
  /\ DOMAIN p.roles = DOMAIN q.roles
  /\ \A id \in DOMAIN p.roles : p.roles[id].permissions = q.roles[id].permissions
  /\ p.members = q.members

\* admin.rs:3-5, "written to the database first, then swapped into memory, then
\* announced [...] so nothing clients are told can vanish on restart", and
\* state.rs:762-764, the swap comes "after the database write": with no command in
\* flight, the roles, their masks and the grants in memory are the ones in the store.
NothingToldIsLost == Quiet => SameContents(perms, disk)

Powers(p, m) == ResolveServer(p.roles, p.members[m], m = Owner)

\* admin.rs:12, "nobody mints powers they do not have": what a command of a gives
\* to anybody is something a holds.
NobodyMints ==
  [][\A a \in Member : Swaps(a) =>
       \A m \in Member : Powers(perms', m) \ Powers(perms, m) \subseteq Powers(perms, a)]_vars

\* state.rs:840, "Role changes must land on live sessions": with no command in
\* flight, a session resolves with the grants its member has.
SessionsFollowGrants ==
  Quiet => \A m \in Member : live[m] # Offline => live[m] = perms.members[m]
=============================================================================
