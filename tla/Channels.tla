------------------------------ MODULE Channels ------------------------------
(***************************************************************************)
(* The channel tree, its overwrites, and the copy of both that every       *)
(* client holds: the seeding of the first boot (lib.rs), the channel and   *)
(* overwrite commands and the three role commands that change what people  *)
(* see (admin.rs), the resync that tells each client what its list gained, *)
(* lost or kept (state.rs), the tables (store.rs), and on the other end    *)
(* the tab's channel list (connections.ts) and the permission mirror       *)
(* (apps/desktop perms.rs).                                                *)
(*                                                                         *)
(* A command is checked, awaits the store, changes memory, broadcasts what *)
(* it has to and resyncs; the resync takes its second snapshot, copies the *)
(* channels and sends to each client in sections of their own, and         *)
(* sessions come and go in between.  An administrator's control task runs  *)
(* one command at a time, so two commands overlap only where an instance   *)
(* has two administrators.                                                 *)
(*                                                                         *)
(* A channel is its parent and its overwrites; a name, a topic, a kind and *)
(* a limit decide nothing here.  A member has one session, and queues do   *)
(* not overflow (Roster does), so a member's grants are those of its live  *)
(* session; what overlapping role commands do to the two is in Roles, and  *)
(* here a role command changes the role or the grants it names, where the  *)
(* code swaps in the whole list it read.  create_role and reorder_roles    *)
(* are in Roles too: neither changes what anyone may see, so positions are *)
(* not renumbered, and RolesReordered, which carries nothing else, is no   *)
(* frame here; nor are RoleCreated and another member's UserJoined, which  *)
(* leave a client's own permissions as they are.  The swap of the roles,   *)
(* the strip of a deleted role's overwrites and of its live grants are     *)
(* three sections in the code and one step here, and the frames that one   *)
(* resync sends to one client are queued in one step.                      *)
(***************************************************************************)
EXTENDS Perms, Sequences, FiniteSetsExt, SequencesExt

CONSTANTS
  Session,          \* members, each with at most one session at a time
  Owner,            \* the owner's session, if any
  InitialRoles,     \* id -> [position, permissions]
  InitialGrants,    \* session -> the roles it holds
  Config,           \* the parents of the channels the configuration names
  InitialTables,    \* what the store may hold at first, as [channels, overwrites]
  MaxId,            \* bound: no channel is created past this id
  Targets,          \* what an overwrite may name
  Overwrites,       \* the [allow, deny] a command may carry
  Masks,            \* the permissions update_role may give a role
  StoreFaults,      \* whether a write to the store may fail
  MaxCommands,      \* bound: commands in a behaviour
  MaxCrashes,       \* bound: crashes in a behaviour
  None              \* no parent

ASSUME ChannelsAssumption ==
  /\ IsFiniteSet(Session) /\ InitialGrants \in [Session -> SUBSET DOMAIN InitialRoles]
  /\ EVERYONE_ROLE_ID \in DOMAIN InitialRoles
  /\ MaxId \in Nat /\ Config \in Seq(1 .. MaxId \cup {None}) /\ Len(Config) \in 1 .. MaxId
  /\ Overwrites \subseteq Overwrite /\ Masks \subseteq SUBSET ALL
  /\ \A t \in InitialTables :
       /\ t.channels \in [DOMAIN t.channels -> 1 .. MaxId \cup {None}]
       /\ t.overwrites \in [DOMAIN t.overwrites -> Overwrite]
       /\ DOMAIN t.channels \subseteq 1 .. MaxId
       /\ DOMAIN t.overwrites \subseteq (DOMAIN t.channels) \X Targets
  /\ {MaxCommands, MaxCrashes} \subseteq Nat /\ StoreFaults \in BOOLEAN
  /\ None \notin 1 .. MaxId

VARIABLES
  seeding,          \* the seed rows still to insert, or <<>> once bind is through
  up,               \* whether the server accepts connections
  channels,         \* Inner.channels: id -> [parent, overwrites]
  roles,            \* PermState.roles
  grants,           \* the roles each member holds
  disk,             \* the tables: [channels, overwrites, roles, grants]
  online,           \* sessions on the roster
  greeted,          \* those whose AuthOk has been built
  queue,            \* control frames on their way to each client
  list,             \* the channel list of each client's tab
  mirror,           \* each client's PermMirror: [channels, roles, mine]
  busy,             \* the command each session's task is in
  commands, crashes,  \* counters for the bounds
  raced             \* history: sessions greeted between a command's snapshot and its change

serverVars == <<seeding, up, channels, roles, grants, disk>>
clientVars == <<list, mirror>>
vars == <<serverVars, online, greeted, queue, clientVars, busy, commands, crashes, raced>>

-----------------------------------------------------------------------------
(* Channels, permissions and the tables *)

Room(parent, overwrites) == [parent |-> parent, overwrites |-> overwrites]
With(f, x, y) == [z \in DOMAIN f \cup {x} |-> IF z = x THEN y ELSE f[z]]
Minus(f, xs) == [z \in DOMAIN f \ xs |-> f[z]]
NoRows == [z \in {} |-> None]

\* A PermMirror before AuthOk.
NoMirror == [channels |-> NoRows, roles |-> NoRows, mine |-> {}]

\* Shared::can, for every bit at once.
Can(s, ch) == ResolveChannel(roles, grants[s], s, s = Owner, channels[ch].overwrites)
CanGlobally(s) == ResolveServer(roles, grants[s], s = Owner)
Visible(s) == {ch \in DOMAIN channels : "VIEW_CHANNEL" \in Can(s, ch)}

\* visible_ids_by_client
Snapshot == [s \in online |-> Visible(s)]

\* What bind makes of the tables: an overwrite whose channel is gone is ignored.
Loaded(d) ==
  [ch \in DOMAIN d.channels |->
     Room(d.channels[ch],
          [t \in {k[2] : k \in {r \in DOMAIN d.overwrites : r[1] = ch}} |-> d.overwrites[<<ch, t>>]])]

next_channel_id == IF channels = NoRows THEN 1 ELSE Max(DOMAIN channels) + 1

\* The ancestors the walk of parent_would_cycle meets, up to MaxId of them.
Ancestors(ch) ==
  LET Up(f, i) == IF f[i] \in DOMAIN channels THEN channels[f[i]].parent ELSE None
      path[i \in 0 .. MaxId] == IF i = 0 THEN ch ELSE Up(path, i - 1)
  IN {path[i] : i \in 0 .. MaxId} \ {None}
parent_would_cycle(child, parent) == parent # None /\ child \in Ancestors(parent)

-----------------------------------------------------------------------------
(* Start-up *)

\* Nothing is stored; build_channels numbers the configuration's channels.
Seed(from) == [i \in 1 .. (Len(Config) - from) |-> from + i]

Boot ==
  /\ ~up /\ seeding = <<>>
  /\ IF DOMAIN disk.channels = {}
     THEN seeding' = Seed(0) /\ UNCHANGED <<up, channels, roles, grants>>
     ELSE /\ up' = TRUE /\ channels' = Loaded(disk)
          /\ roles' = disk.roles /\ grants' = disk.grants
          /\ UNCHANGED seeding
  /\ UNCHANGED <<disk, online, greeted, queue, clientVars, busy, commands, crashes, raced>>

\* One insert; after the last one the server is up.
SeedChannel ==
  /\ seeding # <<>>
  /\ disk' = [disk EXCEPT !.channels = With(@, Head(seeding), Config[Head(seeding)])]
  /\ seeding' = Tail(seeding)
  /\ IF Len(seeding) > 1 THEN UNCHANGED <<up, channels, roles, grants>>
     ELSE /\ up' = TRUE
          /\ channels' = Loaded(disk')
          /\ roles' = disk.roles /\ grants' = disk.grants
  /\ UNCHANGED <<online, greeted, queue, clientVars, busy, commands, crashes, raced>>

NoCommand == [none |-> TRUE]

\* The process ends at any point; everything but the tables is lost.
Crash ==
  /\ crashes < MaxCrashes /\ (up \/ seeding # <<>>)
  /\ crashes' = crashes + 1
  /\ up' = FALSE /\ seeding' = <<>> /\ channels' = NoRows
  /\ online' = {} /\ greeted' = {} /\ raced' = {}
  /\ queue' = [s \in Session |-> <<>>]
  /\ list' = [s \in Session |-> {}]
  /\ mirror' = [s \in Session |-> NoMirror]
  /\ busy' = [s \in Session |-> NoCommand]
  /\ UNCHANGED <<roles, grants, disk, commands>>

-----------------------------------------------------------------------------
(* Sessions and what they are told *)

Admit(s) ==
  /\ up /\ s \notin online
  /\ online' = online \cup {s}
  /\ UNCHANGED <<serverVars, greeted, queue, clientVars, busy, commands, crashes, raced>>

\* AuthOk: the channels s may view, the roles, and its own grants.
Greet(s) ==
  /\ s \in online \ greeted
  /\ greeted' = greeted \cup {s}
  /\ list' = [list EXCEPT ![s] = Visible(s)]
  /\ mirror' = [mirror EXCEPT ![s] =
       [channels |-> [ch \in Visible(s) |-> channels[ch]], roles |-> roles, mine |-> grants[s]]]
  /\ UNCHANGED <<serverVars, online, queue, busy, commands, crashes, raced>>

\* Its client id does not come back, so no resync in flight reaches its next
\* session.
Forgotten(b, s) == IF b = NoCommand THEN b ELSE [b EXCEPT !.before = Minus(@, {s})]

Leave(s) ==
  /\ s \in online /\ busy[s] = NoCommand
  /\ online' = online \ {s} /\ greeted' = greeted \ {s} /\ raced' = raced \ {s}
  /\ queue' = [queue EXCEPT ![s] = <<>>]
  /\ list' = [list EXCEPT ![s] = {}]
  /\ mirror' = [mirror EXCEPT ![s] = NoMirror]
  /\ busy' = [a \in Session |-> Forgotten(busy[a], s)]
  /\ UNCHANGED <<serverVars, commands, crashes>>

ChannelCreated(ch, room) == [k |-> "created", id |-> ch, room |-> room]
ChannelUpdated(ch, room) == [k |-> "updated", id |-> ch, room |-> room]
ChannelRemoved(ch) == [k |-> "removed", id |-> ch]
RoleUpdated(id, role) == [k |-> "roleUpdated", id |-> id, role |-> role]
RoleDeleted(id) == [k |-> "roleDeleted", id |-> id]
UserUpdated(s, ids) == [k |-> "mine", who |-> s, ids |-> ids]

\* applyEvent's three cases for the list.
Listed(l, f) ==
  CASE f.k = "created" -> l \cup {f.id}
    [] f.k = "removed" -> l \ {f.id}
    [] OTHER -> l

\* PermMirror::apply
Mirrored(s, m, f) ==
  CASE f.k \in {"created", "updated"} -> [m EXCEPT !.channels = With(@, f.id, f.room)]
    [] f.k = "removed" -> [m EXCEPT !.channels = Minus(@, {f.id})]
    [] f.k = "roleUpdated" -> [m EXCEPT !.roles = With(@, f.id, f.role)]
    [] f.k = "roleDeleted" -> [m EXCEPT !.roles = Minus(@, {f.id}), !.mine = @ \ {f.id}]
    [] f.k = "mine" -> IF f.who = s THEN [m EXCEPT !.mine = f.ids] ELSE m

\* What the client's interface takes itself to be allowed in a channel.
my_permissions(s, ch) ==
  ResolveChannel(mirror[s].roles, mirror[s].mine, s, s = Owner, mirror[s].channels[ch].overwrites)

Deliver(s) ==
  /\ s \in greeted /\ queue[s] # <<>>
  /\ queue' = [queue EXCEPT ![s] = Tail(@)]
  /\ list' = [list EXCEPT ![s] = Listed(@, Head(queue[s]))]
  /\ mirror' = [mirror EXCEPT ![s] = Mirrored(s, @, Head(queue[s]))]
  /\ UNCHANGED <<serverVars, online, greeted, busy, commands, crashes, raced>>

-----------------------------------------------------------------------------
(* Commands *)

\* The control task of a is free to read a command.
Ready(a) == a \in greeted /\ busy[a] = NoCommand /\ commands < MaxCommands

\* A command that passed its checks and awaits the store, with the snapshot it
\* took before: the overwrite and the role commands do, the channel commands
\* take theirs once the store has answered.
Start(a, cmd, before) ==
  /\ commands' = commands + 1
  /\ busy' = [busy EXCEPT ![a] =
       [cmd |-> cmd, stage |-> "store", before |-> before, touched |-> {}, say |-> <<>>,
        after |-> NoRows, rooms |-> NoRows]]
  /\ UNCHANGED <<serverVars, online, greeted, queue, clientVars, crashes, raced>>

\* validate_channel for a new channel: it has no id yet to close a loop with.
create_channel(a, parent) ==
  /\ "MANAGE_CHANNELS" \in CanGlobally(a)
  /\ parent # None => parent \in DOMAIN channels
  /\ next_channel_id <= MaxId
  /\ Start(a, [op |-> "create", id |-> next_channel_id, parent |-> parent], NoRows)

update_channel(a, id, parent) ==
  /\ "MANAGE_CHANNELS" \in CanGlobally(a)
  /\ id \in Visible(a)
  /\ parent # None => parent \in DOMAIN channels /\ ~parent_would_cycle(id, parent)
  /\ Start(a, [op |-> "update", id |-> id, parent |-> parent], NoRows)

delete_channel(a, id) ==
  /\ "MANAGE_CHANNELS" \in CanGlobally(a)
  /\ id \in Visible(a)
  /\ Start(a, [op |-> "delete", id |-> id], NoRows)

\* One may toggle, in a channel, what one holds in it.
MayToggle(a, id, bits) ==
  \/ a = Owner \/ "ADMINISTRATOR" \in CanGlobally(a)
  \/ bits \subseteq Can(a, id)

set_channel_overwrite(a, id, target, ow) ==
  /\ "MANAGE_ROLES" \in CanGlobally(a)
  /\ id \in Visible(a)
  /\ ow.allow \cap ow.deny \cap CHANNEL_SCOPED = {}
  /\ \A r \in DOMAIN InitialRoles : target = RoleTarget(r) => r \in DOMAIN roles
  /\ MayToggle(a, id, (ow.allow \cup ow.deny) \cap CHANNEL_SCOPED)
  /\ Start(a, [op |-> "set", id |-> id, target |-> target,
               ow |-> [allow |-> ow.allow \cap CHANNEL_SCOPED,
                       deny |-> ow.deny \cap CHANNEL_SCOPED]], Snapshot)

delete_channel_overwrite(a, id, target) ==
  /\ "MANAGE_ROLES" \in CanGlobally(a)
  /\ id \in Visible(a)
  /\ Start(a, [op |-> "unset", id |-> id, target |-> target], Snapshot)

\* may_grant, for the bits the edit adds; a name and a colour decide nothing.
update_role(a, r, mask) ==
  /\ "MANAGE_ROLES" \in CanGlobally(a)
  /\ r \in DOMAIN roles
  /\ can_manage_role(roles, grants[a], a = Owner, r)
  /\ "ADMINISTRATOR" \in CanGlobally(a) \/ mask \ roles[r].permissions \subseteq CanGlobally(a)
  /\ Start(a, [op |-> "rerole", id |-> r,
               role |-> [roles[r] EXCEPT !.permissions = mask]], Snapshot)

delete_role(a, r) ==
  /\ "MANAGE_ROLES" \in CanGlobally(a)
  /\ r \in DOMAIN roles \ {EVERYONE_ROLE_ID}
  /\ can_manage_role(roles, grants[a], a = Owner, r)
  /\ Start(a, [op |-> "unrole", id |-> r], Snapshot)

set_member_roles(a, m, ids) ==
  /\ "MANAGE_ROLES" \in CanGlobally(a)
  /\ ids \subseteq DOMAIN roles \ {EVERYONE_ROLE_ID}
  /\ m = Owner => a = Owner
  /\ \A r \in (ids \ grants[m]) \cup (grants[m] \ ids) :
       can_manage_role(roles, grants[a], a = Owner, r)
  /\ Start(a, [op |-> "grant", who |-> m, ids |-> ids], Snapshot)

-----------------------------------------------------------------------------
(* Their effects *)

RowsOf(id) == {k \in DOMAIN disk.overwrites : k[1] = id}
RowsNaming(r) == {k \in DOMAIN disk.overwrites : k[2] = RoleTarget(r)}

\* Mutant: the overwrites of a deleted channel stay in their table.
DeletedChannelOnly(d, id) == [d EXCEPT !.channels = Minus(@, {id})]

\* Store::delete_channel, one transaction; messages stay.
DeletedChannel(d, id) ==
  [d EXCEPT !.channels = Minus(@, {id}), !.overwrites = Minus(@, RowsOf(id))]

\* The statement or transaction of a command.
Written(d, c) ==
  CASE c.op = "create" -> [d EXCEPT !.channels = With(@, c.id, c.parent)]
    [] c.op = "update" ->
         IF c.id \in DOMAIN d.channels THEN [d EXCEPT !.channels[c.id] = c.parent] ELSE d
    [] c.op = "delete" -> DeletedChannel(d, c.id)
    [] c.op = "set" -> [d EXCEPT !.overwrites = With(@, <<c.id, c.target>>, c.ow)]
    [] c.op = "unset" -> [d EXCEPT !.overwrites = Minus(@, {<<c.id, c.target>>})]
    [] c.op = "unrole" ->
         [d EXCEPT !.roles = Minus(@, {c.id}), !.overwrites = Minus(@, RowsNaming(c.id)),
                   !.grants = [s \in Session |-> @[s] \ {c.id}]]
    [] c.op = "rerole" ->
         IF c.id \in DOMAIN d.roles THEN [d EXCEPT !.roles[c.id] = c.role] ELSE d
    [] c.op = "grant" -> [d EXCEPT !.grants[c.who] = c.ids]

Conflicts(c) == c.op = "create" /\ c.id \in DOMAIN disk.channels

ChannelOps == {"create", "update", "delete"}

Store(a) ==
  /\ busy[a] # NoCommand /\ busy[a].stage = "store"
  /\ ~Conflicts(busy[a].cmd)
  /\ disk' = Written(disk, busy[a].cmd)
  /\ busy' = [busy EXCEPT ![a].stage = "memory",
                          ![a].before = IF busy[a].cmd.op \in ChannelOps THEN Snapshot ELSE @]
  /\ UNCHANGED <<seeding, up, channels, roles, grants, online, greeted, queue,
                 clientVars, commands, crashes, raced>>

\* The refusal changes nothing.
StoreFails(a) ==
  /\ busy[a] # NoCommand /\ busy[a].stage = "store"
  /\ StoreFaults \/ Conflicts(busy[a].cmd)
  /\ busy' = [busy EXCEPT ![a] = NoCommand]
  /\ UNCHANGED <<serverVars, online, greeted, queue, clientVars, commands, crashes, raced>>

\* The fields are replaced and the overwrites kept.
update_channel_mem(id, parent) == [channels EXCEPT ![id].parent = parent]

\* strip_role_overwrites
Stripped(r) ==
  [ch \in DOMAIN channels |->
     [channels[ch] EXCEPT !.overwrites = Minus(@, {RoleTarget(r)})]]

\* What the command makes of the channels in memory.
Changed(c) ==
  CASE c.op = "create" -> With(channels, c.id, Room(c.parent, NoRows))
    [] c.op = "delete" -> Minus(channels, {c.id})
    [] c.op = "unrole" -> Stripped(c.id)
    [] c.op = "update" /\ c.id \in DOMAIN channels -> update_channel_mem(c.id, c.parent)
    [] c.op = "set" /\ c.id \in DOMAIN channels ->
         [channels EXCEPT ![c.id].overwrites = With(@, c.target, c.ow)]
    [] c.op = "unset" /\ c.id \in DOMAIN channels ->
         [channels EXCEPT ![c.id].overwrites = Minus(@, {c.target})]
    [] OTHER -> channels

\* The channels whose contents changed, for those who still see them.
Touched(c) ==
  CASE c.op \in {"update", "set", "unset"} -> {c.id}
    [] c.op = "unrole" -> {ch \in DOMAIN channels : RoleTarget(c.id) \in DOMAIN channels[ch].overwrites}
    [] OTHER -> {}

Regranted(c) ==
  CASE c.op = "unrole" -> [s \in Session |-> grants[s] \ {c.id}]
    [] c.op = "grant" -> [grants EXCEPT ![c.who] = c.ids]
    [] OTHER -> grants

Reroled(c) ==
  CASE c.op = "unrole" -> Minus(roles, {c.id})
    [] c.op = "rerole" /\ c.id \in DOMAIN roles -> [roles EXCEPT ![c.id] = c.role]
    [] OTHER -> roles

\* What the role commands broadcast: the role, and every live session whose
\* grants changed, as update_live_member_roles and strip_live_role return them.
Announced(c) ==
  CASE c.op = "unrole" ->
         <<RoleDeleted(c.id)>> \o SetToSeq({UserUpdated(s, grants[s] \ {c.id}) :
                                             s \in {h \in online : c.id \in grants[h]}})
    [] c.op = "rerole" -> <<RoleUpdated(c.id, c.role)>>
    [] c.op = "grant" /\ c.who \in online -> <<UserUpdated(c.who, c.ids)>>
    [] OTHER -> <<>>

\* The change in memory.  Whoever was greeted since the snapshot was taken holds
\* what this changes and is not in it.
Memory(a) ==
  LET c == busy[a].cmd IN
  /\ busy[a] # NoCommand /\ busy[a].stage = "memory"
  /\ channels' = Changed(c) /\ roles' = Reroled(c) /\ grants' = Regranted(c)
  /\ busy' = [busy EXCEPT ![a].stage = "announce", ![a].touched = Touched(c),
                          ![a].say = Announced(c)]
  /\ raced' = raced \cup (greeted \ DOMAIN busy[a].before)
  /\ UNCHANGED <<seeding, up, disk, online, greeted, queue, clientVars, commands, crashes>>

\* One broadcast, to whoever is on the roster.
Announce(a) ==
  /\ busy[a] # NoCommand /\ busy[a].stage = "announce" /\ busy[a].say # <<>>
  /\ queue' = [s \in Session |->
       IF s \in online THEN Append(queue[s], Head(busy[a].say)) ELSE queue[s]]
  /\ busy' = [busy EXCEPT ![a].say = Tail(@)]
  /\ UNCHANGED <<serverVars, online, greeted, clientVars, commands, crashes, raced>>

\* resync_visibility's second snapshot ...
After(a) ==
  /\ busy[a] # NoCommand /\ busy[a].stage = "announce" /\ busy[a].say = <<>>
  /\ busy' = [busy EXCEPT ![a].stage = "copy", ![a].after = Snapshot]
  /\ UNCHANGED <<serverVars, online, greeted, queue, clientVars, commands, crashes, raced>>

\* ... and its copy of the channels, in another section.
Copy(a) ==
  /\ busy[a] # NoCommand /\ busy[a].stage = "copy"
  /\ busy' = [busy EXCEPT ![a].stage = "send", ![a].rooms = channels]
  /\ UNCHANGED <<serverVars, online, greeted, queue, clientVars, commands, crashes, raced>>

\* Mutant: nobody is told of a channel that it no longer sees.
DifferenceGained(s, b) ==
  LET was == b.before[s] now == b.after[s]
  IN SetToSeq({ChannelCreated(ch, b.rooms[ch]) : ch \in (now \ was) \cap DOMAIN b.rooms})
       \o SetToSeq({ChannelUpdated(ch, b.rooms[ch]) :
                      ch \in b.touched \cap was \cap now \cap DOMAIN b.rooms})

\* What a client of both snapshots is sent, from the copy.
Difference(s, b) ==
  LET was == b.before[s] now == b.after[s]
  IN SetToSeq({ChannelCreated(ch, b.rooms[ch]) : ch \in (now \ was) \cap DOMAIN b.rooms})
       \o SetToSeq({ChannelRemoved(ch) : ch \in was \ now})
       \o SetToSeq({ChannelUpdated(ch, b.rooms[ch]) :
                      ch \in b.touched \cap was \cap now \cap DOMAIN b.rooms})

Send(a, s) ==
  /\ busy[a] # NoCommand /\ busy[a].stage = "send" /\ s \in DOMAIN busy[a].before
  /\ queue' = [queue EXCEPT ![s] =
       @ \o (IF s \in DOMAIN busy[a].after THEN Difference(s, busy[a]) ELSE <<>>)]
  /\ busy' = [busy EXCEPT ![a].before = Minus(@, {s})]
  /\ UNCHANGED <<serverVars, online, greeted, clientVars, commands, crashes, raced>>

\* Everyone is told, and the command is acknowledged.
Acked(a) ==
  /\ busy[a] # NoCommand /\ busy[a].stage = "send" /\ DOMAIN busy[a].before = {}
  /\ busy' = [busy EXCEPT ![a] = NoCommand]
  /\ UNCHANGED <<serverVars, online, greeted, queue, clientVars, commands, crashes, raced>>

-----------------------------------------------------------------------------
Init ==
  /\ seeding = <<>> /\ up = FALSE /\ channels = NoRows
  /\ roles = InitialRoles /\ grants = InitialGrants
  /\ disk \in {[channels |-> t.channels, overwrites |-> t.overwrites,
                roles |-> InitialRoles, grants |-> InitialGrants] : t \in InitialTables}
  /\ online = {} /\ greeted = {} /\ raced = {}
  /\ queue = [s \in Session |-> <<>>]
  /\ list = [s \in Session |-> {}]
  /\ mirror = [s \in Session |-> NoMirror]
  /\ busy = [s \in Session |-> NoCommand]
  /\ commands = 0 /\ crashes = 0

CommandOf(a) ==
  /\ Ready(a)
  /\ \/ \E id \in DOMAIN channels :
          \/ delete_channel(a, id)
          \/ \E p \in DOMAIN channels \cup {None} : update_channel(a, id, p)
          \/ \E t \in Targets : delete_channel_overwrite(a, id, t)
          \/ \E t \in Targets, ow \in Overwrites : set_channel_overwrite(a, id, t, ow)
     \/ \E p \in DOMAIN channels \cup {None} : create_channel(a, p)
     \/ \E r \in DOMAIN roles : delete_role(a, r) \/ \E mask \in Masks : update_role(a, r, mask)
     \/ \E m \in Session, ids \in SUBSET DOMAIN roles : set_member_roles(a, m, ids)

Next ==
  \/ Boot \/ SeedChannel \/ Crash
  \/ \E s \in Session :
       \/ Admit(s) \/ Greet(s) \/ Leave(s) \/ Deliver(s)
       \/ CommandOf(s) \/ Store(s) \/ StoreFails(s) \/ Memory(s)
       \/ Announce(s) \/ After(s) \/ Copy(s) \/ Acked(s) \/ \E x \in Session : Send(s, x)

Spec == Init /\ [][Next]_vars

-----------------------------------------------------------------------------
(* Properties *)

Quiet == up /\ \A s \in Session : busy[s] = NoCommand

\* With no command in flight a restart changes nothing anyone can see: the
\* channels, their parents and their overwrites in memory are what bind would
\* load, after failed writes, after crashes, and though ids come back and a
\* deleted channel's rows must not attach to its successor (store.rs:494).
MemoryIsStore ==
  Quiet => channels = Loaded(disk) /\ roles = disk.roles /\ grants = disk.grants

\* A session that is there throughout a command ends up with what the server
\* has: once the frames have arrived, its list is the channels it may view and
\* what its mirror resolves in each of them is what the server enforces
\* (perms.rs:5), for every session that was not greeted between the snapshot of
\* a command and its change (state.rs, resync_visibility; perms.rs, apply).
MirrorAgrees ==
  Quiet => \A s \in greeted \ raced : queue[s] = <<>> =>
    /\ list[s] = Visible(s) /\ DOMAIN mirror[s].channels = Visible(s)
    /\ \A ch \in Visible(s) : my_permissions(s, ch) = Can(s, ch)

-----------------------------------------------------------------------------
(* What comments in the code say, and the code does not do *)

\* state.rs:799, "the list every client holds is always precisely the channels it
\* may view": once no command is in flight and the frames have arrived, whenever
\* the session was greeted.
ListsPrecise ==
  Quiet => \A s \in greeted : queue[s] = <<>> => list[s] = Visible(s)

\* admin.rs:740, "a real, acyclic parent": no channel is its own ancestor, though
\* parents are deleted and ids come back.
ParentsAcyclic ==
  \A ch \in DOMAIN channels :
    channels[ch].parent \in DOMAIN channels => ch \notin Ancestors(channels[ch].parent)
=============================================================================
