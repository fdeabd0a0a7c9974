# Pickle Chat in TLA+

A model of the parts of Pickle Chat in which order, concurrency and failure matter,
checked with TLC on small instances and, where it counts most, proved with TLAPS for every
value of the constants. Paths below are relative to the repository's root; `state.rs`,
`session.rs`, `moderation.rs`, `admin.rs`, `store.rs` and `lib.rs` without a directory are
those of `crates/pickle-server/src`, `perms.rs` is that of `crates/pickle-proto/src`;
`commands.rs` and `bridge.rs` are those of `apps/desktop/src-tauri/src`.

## 1. The system

A self-hosted voice and text chat. A server (`pickle-server`) keeps who is connected, the
channels, the roles and the history; clients (`pickle-client`, and the desktop application on
top of it) connect over QUIC, authenticate with a key, and then exchange control frames on one
stream and voice in datagrams.

| Component | State it keeps | Operations | Hard behaviours |
| --- | --- | --- | --- |
| Permission rules (`perms.rs`) | none | `resolve`, `can_act_on`, `can_manage_role` | layers of exceptions, deleted roles |
| Roster and rooms (`state.rs`) | `Inner`: clients, channels, id counters, one bounded queue per client | `admit`, `remove`, `join_channel`, `leave_channel`, `eject`, `force_move`, `broadcast`, `send` | many tasks around one lock; a change and its announcement are two sections of it; queues that fill up |
| Session (`session.rs`) | one reader, one writer, one datagram task per connection | handshake, control loop, cleanup | awaits between check and effect, a client that goes away at any point |
| Moderation (`moderation.rs`) | the ban table of the store | kick, ban, unban, mute, move | rank is checked in one section, the effect happens in another, after an await |
| Roles, overwrites and channels (`admin.rs`) | `PermState`, and its copy in the store | create, update, delete, reorder, grant | built from a snapshot, stored, swapped in: a copy on write around an await |
| Visibility resync (`state.rs`) | the difference of two snapshots | `visible_ids_by_client`, `resync_visibility` | admission and other commands between the snapshots |
| Messages and history (`session.rs`, `store.rs`) | id counter, `messages` table | `send_message`, `fetch_history` | id before await, store before announcement, restart |
| Voice relay (`state.rs`, `voice.rs`) | none of its own | `relay_voice` | who hears whom while rooms and mutes change |
| Start-up (`lib.rs`) | the database | seeding, loading | a crash in the middle |
| Client connection and trust (`pickle-client`) | pins by address | `connect`, `apply_trust_policy`, `trust`, `forget` | a server whose identity changed; a file read and written back seconds later |
| Jitter buffer, mixer, gate (`pickle-audio`) | one buffer per speaker, the gate's hangover | `push`, `pop`, `accept`, `render`, `update` | late, lost and reordered frames; wrap-around; a mute in mid-burst |
| Desktop (`apps/desktop`) | connections, one audio engine, one voice route, a mirror of the permissions | commands, event pump, reducer | one engine and several connections, each thread with short locks of its own |
| Identity and vault (`pickle-identity`) | key files | create, unlock, edit, mine, rewrite | crash or failed write between any two steps; edit and save are two sections |

How they interact: every session task calls into `Shared`. `Shared` has two locks, one around
`Inner` and one around the permission snapshot, which is always taken first. Frames leave
through `try_send` on the queue of each client; the writer task of the session takes them from
there to the stream. The store is awaited, and never under a lock. The client turns frames into
events, the desktop's reducer `applyEvent` turns events into what the user sees.

What makes the components correct, in one line each: the roster stays within its limits and
leaks no slot; what clients are told adds up to what is there; a departure is announced of
whoever has left, and of nobody else; a moderator's decision is carried out on everybody it is
about; the resolution of permissions follows its precedence and mints nothing; memory and store
agree whenever no command is in flight; ids are never used twice; a client's channel list is the
list of the channels it may view; frames of voice are played in order, and once; voice is on a
connection that is open, and on one; a key the user was promised survives whatever happens.

## 2. Modules

| Module | Models | Kind |
| --- | --- | --- |
| `Perms` | `perms.rs`: the operators, no state | definitions |
| `PermsCheck`, `MCPermsCheck` | every input of those operators, walked over one edit at a time | checks |
| `PermsProofs` | what holds of them for all roles, masks and overwrites | proofs |
| `Roster` | roster, rooms, queues, sessions, moderation | state machine |
| `MCRoster` | its instances | checks |
| `RosterProofs` | its inductive invariants | proofs |
| `Roles` (on `Perms`) | the role commands, `PermState` and the tables behind it | state machine |
| `MCRoles` | its instances | checks |
| `Messages` | chat from the sender's request to the readers' tabs, through store and restart | state machine |
| `MessageLog` | what the chat promises: a log and its readers | abstract specification |
| `Channels` (on `Perms`) | channel tree, overwrites, resync, the clients' lists and mirrors, seeding | state machine |
| `Desktop` | table of connections, event pumps, voice route, audio engine | state machine |
| `Voice` | one speaker's frames: gate, wire, jitter buffer, mixer | state machine |
| `Vault` | the identity vault, its mutex and its files | state machine |
| `AtomicVault` | what the vault promises: a book and a durable copy | abstract specification |
| `Trust` | the file of pinned servers and who writes it | state machine |
| `MCMessages`, `MCChannels`, `MCDesktop`, `MCVoice`, `MCVault`, `MCTrust` | their instances | checks |
| `RolesProofs`, `MessagesProofs`, `ChannelsProofs`, `DesktopProofs`, `VoiceProofs`, `VaultProofs` | their inductive invariants, and the two refinements | proofs |

### Perms

A mask is the set of its bits, so `contains`, `union`, `without` and `intersect` are the
operations on sets. Names and colours decide nothing and are left out; so does the order of the
grants and the overwrites, since the handlers keep one overwrite for a target. `resolve` is
split where it takes its optional argument: `ResolveServer` without a channel, `ResolveChannel`
with one. `Applied` is the pair of lines that each layer repeats, deny and then allow.
Reserved bits that no build defines are left out: they are carried and grant nothing.

### Roster

| Variable | In the code |
| --- | --- |
| `clients`, `channel` | the keys of `Inner.clients`, and `UserInfo.channel` |
| `channels` | `Inner.channels`, each with what the roster asks of it: voice or not, and `max_users` |
| `queue` | the bounded channel behind `ControlSender` |
| `phase` | where the connection's task is in `serve` and `handshake` |
| `open` | whether the QUIC connection is still up |
| `todo` | what the task has left to do before it reads its next control message |
| `banned` | the `bans` table |
| `view` | the users a client shows: AuthOk's list, then `applyEvent` |
| `announced`, `departed`, `gapped` | history variables; nothing reads them but the properties |

A step is one critical section of the lock around `Inner`, one store operation, or a step of
one task that touches nothing shared. `handle_control` changes the state in one section and
announces in another, so an action that handles a message changes the state and leaves the
announcement in `todo`; any other task may run in between. The moderation commands check in one
step and act in later ones. `eject_and_close`'s 50 ms are the gap between `Eject` and
`CloseTransport`: any length of time. `drop_overflowed` removes under the write lock and tells
the others under the read lock: `DropOverflowed`, then `TellOfDropped`.

Abstractions. A connection stands for its client id (the counter wraps after 2^32 admissions).
`verify_auth`, the security level and the nickname check are taken as passed. Permissions are
constants: who moderates, and who may enter which room; the checks of a moderator's command are
one step, though the code reads the lock up to three times for them. All that is not about the
roster (messages, roles, acknowledgements, refusals) is one `Note` frame: it takes room in the
queue and changes no view. A broadcast is one step, though `broadcast` holds the lock shared;
every property is about one client at a time. The resync after a channel command, which sends
one frame to each client that can see the channel, is one broadcast.

### Roles

| Variable | In the code |
| --- | --- |
| `perms` | `PermState`: the roles, each with its position and its mask, and the grants of each member |
| `disk` | the tables `roles` and `role_members` |
| `live` | `UserInfo.roles` of the member's session, read by `can_globally` |
| `arriving` | the grants `admit` has read from the snapshot before it takes the roster's lock |
| `busy` | a command after its checks: the writes it has left, the `PermState` it will swap in, and what it will tell the live sessions |

A command passes its checks in one step, against the snapshot of that moment, and builds what
it will swap in from that same snapshot. Each of its writes to the store is a step (`Write`),
then comes `swap_perm_state`, then `RefreshLive`. A write may fail, and then the command ends
in a refusal; only the failure of `delete_role`'s renumbering is passed over, as in the code.
Inserting a role whose id is in the table fails on the primary key. `Restart` ends the process
between any two steps and loads memory from the tables, as `lib.rs` does at start-up.

Abstractions. Names and colours of roles decide nothing and are left out: a command that only
renames is an update that keeps the mask. The overwrites that a deleted role leaves behind
belong to the channels. A member has one session at a time. The code reads the lock up to three
times for the checks of one command, without an await; the model reads it once. Nothing in the
code keeps the commands of two sessions apart, and `Spec` does not either: `roles_lost` shows what
then comes of them. `ApartSpec` is `Spec` restricted to behaviours in which they happen not to
overlap (`OneAtATime`), and what is checked of it is said of one administrator at a time.

### Messages and MessageLog

| Variable | In the code |
| --- | --- |
| `stored`, `next_message_id` | the table `messages`, `Inner.next_message_id` |
| `view`; `ReadHistory` | what `Shared::can` and `broadcast_filtered` find; constant pairs |
| `inbox`, `task`, `queue` | requests the control loop has not read, what it awaits, frames to the client |
| `opened`, `listed`, `shown`, `requested` | the tab, its channel list, its messages, `historyRequested` of `App.tsx` |
| `rights`, `lapsed`, `owed` | history variables; nothing reads them but the properties |

`send_message` is `HandleSend` (the checks and the id), `InsertMessage` or `InsertFails`, `Echo`
to the author, `BroadcastFiltered` to the others: four steps, because the store is awaited and
the two sends are two sections of the lock. `fetch_history` is `HandleFetch`, `ReadPage` or
`PageFails`, `Reply`. `Throttled` is the rate limiter and the refusals that depend on a text.
`Restart` takes the server down between any two steps and resumes the ids from the table. A
client that goes away does not stop a handler that is already in the store.

Abstractions. A message is its id, its channel and the request it came from. `SEND_MESSAGES`
goes with `VIEW_CHANNEL`, which comes and goes; the frame that tells the client is queued in
the same step. Queues do not overflow (they do in `Roster`). A tab asks for one page; the
scrolling back with `before` is not modelled. Messages in a tab are a set.

`MessageLog` is a log that only grows, one message to an id, and readers who learn of logged
messages in channels they were let into. `ImplementsLog` maps `stored` to the log and `shown`
to what each reader knows.

### Channels

| Variable | In the code |
| --- | --- |
| `channels`, `roles`, `grants` | `Inner.channels` with parent and overwrites, `PermState` |
| `disk` | the tables `channels`, `channel_overwrites`, `roles`, `role_members` |
| `seeding`, `up` | where `Server::bind` is in its first boot |
| `busy` | a command after its checks: what it was asked, its stage (store, memory, announce, copy, send), the two snapshots and the copy of its resync, the channels it touched and what it has yet to broadcast |
| `list`, `mirror` | the tab's channel list (`connections.ts`), the client's `PermMirror` |
| `raced` | history: sessions greeted between a command's snapshot and its change of memory |

Each of the eight commands is its checks (`create_channel`, ... , `update_role`, `delete_role`,
`set_member_roles`), `Store` or `StoreFails`, `Memory`, one `Announce` for each broadcast, and the
resync, section by section: `After` is its second snapshot, `Copy` its copy of the channels,
`Send` what it sends to one client, `Acked` its end. The overwrite and role commands take their
first snapshot before the store's await, the channel commands after it, as the code does. `Greet`
builds AuthOk, which becomes the list and the mirror; `Deliver` applies a frame to both. `Boot`,
`SeedChannel` and `Crash` are the start-up, one insert at a time. A tree may hold parents that
were deleted: the code leaves them.

Abstractions. Names, topics, kinds and limits decide nothing; occupants are not moved (`Roster`).
`create_role` and `reorder_roles` are in `Roles` only: neither changes what anyone may see, so
positions are not renumbered here, and `RolesReordered`, `RoleCreated` and another member's
`UserJoined`, which leave a client's own permissions as they are, are no frames. A role command
changes the role or the grants it names, where the code swaps in the whole list it read (`Roles`
has that swap). `delete_role`'s three changes of memory (roles, overwrites, live grants) are one
step, and so are the frames that one resync sends to one client. Queues do not overflow
(`Roster`). `Ancestors` follows the parents at most `MaxId` times, which reaches every channel;
the code's loop has no bound.

`MirrorAgrees` speaks of sessions that are not in `raced`, and the instance that checks it has one
administrator. Both limits are needed, and both are shown to be: in `ChannelsRaced.cfg` a session
is greeted inside a command and its list stays wrong, in `ChannelsOverlap.cfg` the commands of two
administrators overlap (section 3).

### Desktop

A member of `Session` is one call of `connect` and its connection; ids are not reused. `pc` is
how far that call has come, `pump` the state of its event pump, `main` what is left of the
synchronous command the main thread is running. `route` is `VoiceRoute`, `engine` whether the
`EngineSlot` holds one, `heard` how many packets of each server's speakers are in its mixer.

`connect` is `Handshake`, `EnsureAudio`, `ConnectOpens` or `ConnectFails`, `SpawnPump`,
`InsertSession`, `FindVoice`, `ConnectRoutes`, `ConnectClears`: one step per lock. A pump takes a
packet only if the route points to its session (`TakePacket`) and hands it over in a second step
(`Accept`); at the end of its stream it gives voice up (`ConnectionLost`, `PumpClears`).
`end_session` is `Disconnect`, `Release`, `ReleaseClears`, `LastOne`, `StopAudio`.

Abstractions. Mute, deafen, volumes and levels are not in it, nor is the permission mirror,
which `Channels` has. `ReleaseStream` is what `Voice` calls `Render` with an idle stream.
Handshakes that fail leave nothing behind and are left out. `route_voice` takes three short
locks, for the lookup, the read of the old target and the exchange; `RouteVoice` is one step. The
entry it looked up leaves the table only on the main thread, once the connect that calls it has
returned, and a route that another call sets in between is one that this call then replaces, so
the three in one reach the same states.

### Voice

`Process` is one capture callback: mute or gate (`Classify`, `Update`, `Close`), then encode and
send. `Deliver` takes the i-th frame under way, which overtakes the ones before it; `Drop` is a
loss, by the network or by a refusal of `relay_voice`. `Render` is one output callback: `Pop` and
the idle count. `Push`, `Extend`, `Trim` and `Pop` are those of `jitter.rs`, with the wrapping
difference of sequence numbers read as a signed number.

Abstractions. One speaker and one listener: buffers of different speakers share nothing. What
the gate wants is free at every frame, which contains every mode and every level. QUIC delivers
no datagram twice. Samples, concealment and the mixing are arithmetic; a frame that does not
decode, or a gap that cannot be concealed, counts as an idle callback, as in `render`, and is
heard by nobody, though it was the last frame given to the decoder.

`KeyIsPlace` speaks of the frames of the burst whose start was received, `PlayedInOrder` of the
time between two fillings of the buffer; what happens outside of these is in section 3.

### Vault and AtomicVault

| Variable | In the code |
| --- | --- |
| `vault`, `draft`, `legacy`, `backup` | `vault.json`, the file written beside it, the key file of version 1, and what it is renamed to |
| `mem`, `holder` | `AppState.vault`, and what the holder of its mutex is doing |
| `waiting` | commands between their edit and their `persist_vault` |
| `miners` | mining threads, each with a copy of an identity |
| `owed`, `removed`, `confirmed`, `unsure` | history: what the user was told |

`Vault::save` is `Save`, `Write`, `RenameSaved`; `rewrite_verified` is `SetVaultPassphrase`,
`WriteCandidate`, `Verify`, `RenameCandidate`, `PassphraseSet`; `Vault::create` is `Create`, `Write`,
`RenameCreated`, `RetireLegacy`. Each step on the disk may fail, and `Crash` ends the program
between any two. Sealing is modelled by what it yields: a file that its passphrase opens, or,
for a change of the passphrase, one that nothing opens, since the code reads the candidate back
to exclude just that. `Vault::create` with a passphrase, which saves sealed and unverified, is
left out: its one caller, `AppState::load`, gives it none. Mining yields a level. External: a rename is atomic and a synced file is whole.

`AtomicVault` has a book in memory and a durable copy that only changes as a whole.
`ImplementsAtomicVault` maps `mem` to the book and what a start would find to the copy.

### Trust

`disk` is the file; `dialling` holds, for each attempt to connect, the copy of the store it
opened before the handshake. `Greeted` is `apply_trust_policy` and the save of that copy, which
may fail without a word; `ForgetServer` and `TrustChangedIdentity` open and save in one command.
`ForgetServer` takes the address as it is spelled, so it may name no pin and change nothing.
`CrashWriting` is the end of the program inside `fs::write`, that of a user's decision included. Pins of older versions are under
the resolved address (`OldPlace`), and are adopted when they match.

## 3. Runs

| Run | Instance | What it shows |
| --- | --- | --- |
| `perms` | two roles, three masks, three overwrites, owner or not; 589,824 states | `resolve` grants what the rule of precedence grants (`ResolveByPrecedence`), overwrites never give a server-wide bit (`OverwritesNeverEscalate`), rank is asymmetric (`NobodyActsOnEachOther`) |
| `roster_presence` | three sessions for two slots, a room for one, queues of two, one request; 1.9 million states up to symmetry | `WithinServerLimit`, `NoLeakedSlot`, `MembersKnown`, `DeparturesSeen`, `RoomsAgree` |
| `roster_moderation` | a member and a moderator, two requests, queues of one; 2.0 million states | `OccupantsHaveRoom`, `NoFalseFarewell`, `OneFarewell`, `RoomsFillWithinLimit` |
| `roster_liveness` | a member and a moderator, one request, a store that may fail, fairness; 41,853 states | `EjectedSessionEnds`, `LostSessionLeaves` |
| `roles` | an owner and a manager, a ladder of two roles and room for a third, three commands or restarts that do not overlap, a store that may fail; 196,807 states | `PositionsUnique`, `SeniorsUntouched` |
| `roles_lost` | the same, two commands that may overlap | violates `NothingToldIsLost` |
| `messages` | two clients, a common room and a staff room, two messages, two changes of a permission, a restart, a store that may fail, pages of one; 321,626 states | what anyone was told is stored (`ShownIsStored`), ids are fresh (`IdsFresh`), a settled tab lacks nothing (`NothingMissed`), the chat implements the log (`ImplementsLog`), every fetch is answered (`FetchAnswered`) |
| `channels` | an administrator and a member, two rooms and room for a third, two commands of any of the eight kinds, a crash, a store that may fail; 903,959 states | `MemoryIsStore`, `MirrorAgrees` |
| `desktop` | two connections and the main thread, fairness; 38,524 states | `VoiceOnOpenSession`, `OneStrayPacket`, `DevicesReleased`, `VoiceReleased`, `StrayReleased` |
| `voice` | two bursts, nine frames, numbers that wrap at 8, two losses, overtakings or failures to encode, one mute, fairness; 409,893 states | `MutedIsSilent`, `KeyIsPlace`, `PlayedInOrder`, `SpeakerReleased` |
| `vault` | two keys, one passphrase, one miner, two commands waiting; 479,695 states | `NoKeyLost`, `UserCanOpen`, `RemovedStaysGone`, `ActiveExists`, `ImplementsAtomicVault` |
| `trust` | two servers, two identities, two attempts | violates `UserDecisionKept` |

The bounds. Two slots for three sessions let the limit bind and a slot be taken over. A room
for one lets the room's limit bind with two. A queue of two overflows with the frames of two
events, a queue of one with any: `CONTROL_QUEUE_DEPTH` only changes how long that takes.
`MaxRequests` bounds the control messages of a behaviour; connecting, losing the connection,
overflowing and leaving are not bounded by it. With two requests a moderator's command meets
another command, a join or a leave at every point; the proofs below have no such bound.
Deadlock is not checked in `Roster`: sessions connect at most once, so the system stops when
all have gone. In `Roles` it is: members come and go for ever.

In `roles` three commands, crashes among them, are enough for a command that fails half-way, or
is cut off, to be followed by one that builds on what it left; the third role is the one
`create_role` inserts. The manager holds the upper role of the ladder; the lower one carries a
bit that it lacks.

In `messages` one message may be older than the page and one newer, and a permission may go and
come back around each step of either handler; only one client reads history, which loses
nothing, since requests of different clients meet only in the table. Two rooms are needed for a
message to reach somebody who was never let in. In `channels` the newest room can be deleted and
its id handed out again, with an overwrite in the table from the start. `desktop` needs two
connections for voice to move and for one to end while the other opens; a mixer counts up to two packets of a server,
one more than `OneStrayPacket` allows. `voice` sends one frame more than the modulus, so the
numbers wrap inside a burst and two frames of it share one; `VoiceAssumption` keeps the faults
below half the modulus, as 2^31 is far beyond what can be in flight. In `vault` two keys are
enough for the selection to move, for one to be removed while it is mined and for two commands
to save in the other order. These modules do not check deadlock: connections are not renewed,
bursts, commands and keys are used up.

Fairness. `FairSpec` lets every task that has something to do do it in the end: the runtime
schedules every task and no section of the lock waits for anything but the lock. Nobody is
obliged to connect, to ask for anything, or to hang up; a client that never reads is allowed
by the transport staying open while nothing is drained only until the writer's next step,
which the transport's own flow control may delay but, on an open connection, does not forbid.
In `Messages` the control tasks are fair, for the same reason; no user and no event pump is. In
`Desktop` a command the main thread has begun, a pump with an event at hand and the output
callback of a running engine are fair. In `Voice` the output callback is: the device asks for
samples as long as it is open.

`RoomsAgree` is checked where nobody moderates. With a moderator it does not hold: a member's
own join and a moderator's move change the room in one order and may be announced in the other,
and `UserJoined` carries the room of the moment of admission. No line of the code says
otherwise, so this is a limit of the design and not a finding. Section 4 proves the property
under a weaker hypothesis, that no client is spoken of by two sessions at once.

### Where the code and its comments disagree

Two runs show a violation of what a comment says.

- `roles_lost`: two commands check against one snapshot, both store, and the second swap undoes
  the first in memory. What its clients were told is gone, until a restart brings it back from
  the tables.
- `trust`: a connection opens the file, the user accepts another server's changed identity, the
  connection pins its own server and writes its copy. The decision is gone.

Nine more are reproduced by configurations that are kept beside the others and not listed as runs:

- `RosterPhantom.cfg` (`MCRoster`, violates `NoPhantoms`): a connects and is admitted; b connects and gets a in its AuthOk; the
  writing of a's AuthOk fails and the guard `Admitted` removes a without a word. b shows a for
  as long as it stays. The guard's comment names phantoms as what it prevents.
- `RosterBanRace.cfg` (`BannedStayOut`): the ban is stored after the handshake asked the store and before it
  admits. The sweep finds no session, and the banned client stays.
- `RosterGap.cfg` (`GapsAreCaught`): the farewell of a dropped client is lost on a queue that is full at that
  moment; that queue is drained before the next frame, so its owner is not caught.
- `RosterZombie.cfg` (`DroppedSessionEnds`): `run_session` awaits the control loop only. A client dropped for a full
  queue keeps its connection, off the roster and mute, until it hangs up itself.
- `RolesMint.cfg` (`MCRoles`, violates `NobodyMints`): `set_member_roles` looks at the rank of the roles it grants and not at their
  bits, so a manager may give, to itself as well, bits it does not hold.
- `RolesStale.cfg` (`SessionsFollowGrants`): an admission reads the grants, a command changes them and finds no
  session to bring up to date, the admission enters with the old ones. `can_globally` goes by
  those for as long as the session lasts.
- `ChannelsCycle.cfg` (`MCChannels`, violates `ParentsAcyclic`): put a channel under another, delete
  that one, create a channel under the first. It gets the id of the deleted one, which the first
  still names as its parent. From then on `parent_would_cycle`, asked about either, does not return.
- `ChannelsRaced.cfg` (`ListsPrecise`): a session is greeted after a command took its first snapshot
  and before it changes memory. It is in no difference, and its list stays wrong; the comment on
  `resync_visibility` says "always precisely".
- `ChannelsOverlap.cfg` (`MirrorAgrees`): the commands of two administrators overlap, each resync
  sends the difference of its own two snapshots, in whatever order, and a client that was there
  throughout ends up with the wrong list.

Read off the code while modelling, without a run of their own; PROJECT.json quotes the comments:

- positions are called dense (`perms.rs:169`), and a crash or a failed write between the two
  writes of `create_role` leaves a hole in the stored ones. They stay unique (`PositionsUnique`),
  which is all `can_manage_role` needs;
- a crash in the middle of the first seeding leaves the rest unseeded;
- messages are stored even where history is switched off;
- a deleted channel's messages are those of the channel that gets its id;
- of two connects that overlap the later takes voice, and a connection that ends before it is
  given voice keeps it;
- an identity that a handshake is using may be removed;
- a frame that arrives late, after the buffer ran dry, is played after its successors, and no
  listener looks at the flag that ends a burst.

## 4. Proofs

What TLC shows on an instance, the theorems show for every value of the constants that meets the
modules' assumptions: any sessions, roles, keys, channels, queue depths and bounds.

| Theorem | Property | Invariant it rests on |
| --- | --- | --- |
| `PermsProofs!ResolutionFollowsPrecedence`, `OverwritesMintNothing`, `RankIsStrict` | `ResolveByPrecedence`, `OverwritesNeverEscalate`, `NobodyActsOnEachOther` | `RolesKnown`, `RanksTyped` |
| `RosterProofs!TypeCorrect`, `SlotsHaveTasks`, `ServerLimitHolds`, `RoomsExist`, `RoomsNeverOverfill` | `TypeOK` (which no run checks by itself), `NoLeakedSlot`, `WithinServerLimit`, `OccupantsHaveRoom`, `RoomsFillWithinLimit` | their conjunction |
| `RosterProofs!FarewellsAreTrue`, `NobodyIsMissed` | `NoFalseFarewell`, `MembersKnown` | `PresenceInv` |
| `RosterProofs!DeparturesAreSeen` | `DeparturesSeen` | `DepartureInv` with `PresenceInv` |
| `RosterProofs!RoomsFollowOneVoice` (no client is spoken of by two sessions at once), `RoomsFollowMembers` (nobody moderates) | `RoomsAgree` | `RoomInv` with the two before |
| `RolesProofs!PlacesAreUnique`, `NobodyReachesUp` (commands that do not overlap) | `PositionsUnique`, `SeniorsUntouched` | `RolesInv`, `SparesInv` |
| `MessagesProofs!ToldIsStored`, `IdsStayFresh`, `ServerIsLog` | `ShownIsStored`, `IdsFresh`, `ImplementsLog` | `LogInv` |
| `MessagesProofs!NoMessageMissed` | `NothingMissed` | `PaneInv` |
| `ChannelsProofs!MemoryFollowsStore` (commands that do not overlap) | `MemoryIsStore` | `MemoryInv` with `FrameInv` |
| `ChannelsProofs!MirrorsFollow` (commands that do not overlap) | `MirrorAgrees` | `ToldInv` with `PlanInv`, `ClientInv`, `TableInv` and the two before |
| `DesktopProofs!VoiceStaysOpen`, `DevicesAreReleased`, `OneStray` | `VoiceOnOpenSession`, `DevicesReleased`, `OneStrayPacket` | themselves, `DevicesInv`, `StrayInv` |
| `VoiceProofs!MuteIsSilence`, `KeysArePlaces`, `BurstPlayedInOrder` | `MutedIsSilent`, `KeyIsPlace`, and `PlayedInOrder` for the burst whose start was received | `MuteInv`, `LineInv` with `HeldInv`, `PlayInv` |
| `VaultProofs!KeysSurvive`, `VaultOpens`, `RemovalIsFinal`, `SelectionExists`, `FilesAreAtomic` | `NoKeyLost`, `UserCanOpen`, `RemovedStaysGone`, `ActiveExists`, `ImplementsAtomicVault` | `IInv` |

### The arguments

**Perms.** `LayeredBit` says what the three layers do to one bit; the theorems follow bit by bit.
`RankIsStrict` needs that a finite set of positions has a maximum.

**Roster.** `NoFalseFarewell` and `MembersKnown` are not inductive by themselves. `PresenceInv`
adds what they rest on: a task between two phases has nothing in `todo`; a `UserJoined` is only ever put into the
queues of the others; whoever is announced has entered; a client that has its AuthOk sees itself.
The argument for `NobodyIsMissed` has one idea: the queue exists from admission on, before the
roster for AuthOk is read. So for y, newly connected, and x, announced: either x was announced
after y was admitted, and the frame is in y's queue, or y is about to be dropped because it did
not fit; or x was on the roster when y's AuthOk was read. `HearSteps` is the first case,
`GreetSteps` the second.

`DeparturesSeen` and `RoomsAgree` speak of settled states, so their invariants say what stands in
for them while frames are on their way. Both go by the last frame on a subject (`LastIn`), which
spares an induction over the queue. `DeparturesKnown`: for y connected and x announced and gone,
the farewell of x is still to be sent to y, or it is in y's queue and no arrival of x comes after
it, or y neither shows x nor is about to. The farewell cannot be overtaken by the arrival, for two
reasons that `DepartureInv` carries: an arrival is alone in its session's todo (`AloneInTodo`), so
it is sent before that session can do anything else, and `announced` marks the moment it was
(`ArrivesOnce`). A client that was dropped while its arrival was still to be sent is not in
`announced`: its farewell may come first and leave it in the views, one of the phantoms that
`NoPhantoms` would exclude. Whoever takes a client off owes its farewell (`LeaverIsOwed`), and a
broadcast reaches whoever it does not doom (`BroadcastReaches`); the one that may be lost without
dooming anyone is that of `drop_overflowed`, and `gapped` names those who missed it.

`RoomsKnown` is the same for rooms: a word on x is still to be sent to y, or the last word on x in
y's queue is true, or y has it right. It needs that whatever is still to be said is true
(`WordsTrue`), and that is where the hypothesis comes in. The handlers change a room under one
lock and announce it under another; if a moderator moves x, or deletes its room, while x's own
announcement is still in x's todo, that announcement becomes false and may be sent last. The same
goes for a client between admission and its `UserJoined`, which says that it is in no room.
`OneVoice` is that this does not happen: at no time do two sessions have a word on the same client
in hand. It allows moderators, moves and deletions, as long as they keep out of each other's way
(TLC agrees on the instance of `roster_moderation`, with `OneVoice` as a state constraint).
`RoomsFollowMembers` discharges it where nobody moderates: there a session speaks of itself alone
(`OwnWords`), and handles one message at a time.

**Roles.** A command in flight has a list of writes left. `Pending` says, for each list that the
five commands can leave, that writing it out takes the tables to the inputs the command will swap
in, and that as long as the command can still be refused the tables hold what memory holds. Only
`delete_role`'s renumbering is past the point of refusal. From there positions are unique after
each single write, which is what a crash between two of them needs. `SparesInv` carries the
hierarchy from the check to the swap: what a command is about to swap in spares its author's
seniors in the inputs that are still in memory. Both theorems have `[]OneAtATime` as a hypothesis,
which the code does not guarantee: two commands that overlap swap one another's work out of
memory (`roles_lost`), and each may put a role where the other has just put one.

**Messages.** `LogInv`: every stored id is below the counter; the message of a handler that has
not inserted yet has an id below the counter, not stored, and not that of any other handler; what
is echoed, broadcast or replied is stored. A restart drops the handlers and takes the counter from
the table, so the first two survive it. The refinement maps each insert to `MessageLog`'s append
and each delivery to a reader's learning; every other step stutters. `NothingMissed` speaks of
settled tabs, so `PaneInv` says what stands in for it before they settle: a message of the channel
is shown, in a frame, in the hands of a handler that will echo, broadcast or reply with it, or
older than a page; and a client that no longer sees the channel has its removal in the queue.

**Channels.** `FrameInv` carries the shape of a command in flight, and that snapshots and channels
are finite, since the order in which a set is sent is left open (`SetToSeq` of an infinite set is
nothing). `MemoryFollowsStore` rests on `MemoryInv`: memory equals what `bind` would load, except
between `Store` and `Memory`, where the tables are ahead by exactly the command in flight
(`Follows`). Eight lemmas (`CreateFollows` to `ReroleFollows`) show of each command that its
statement on the tables and its change of memory commute with loading; `DeleteFollows` is where
the rows of a deleted channel have to go, or they would attach to its successor. In the seeding a
prefix of the configuration is stored, and no overwrite. The hypothesis `[]OneAtATime`, that no
two commands are in flight at once, holds in all of the `channels` run, which has one
administrator. The code does not guarantee it with several: two who set the same overwrite can
store in one order and change memory in the other, and `ChannelsOverlap.cfg` shows of `MirrorAgrees`
that it cannot be dropped.

`MirrorsFollow` has the same hypothesis. What a client will show once its frames have arrived is a
fold over its queue, which the prover cannot do induction on, and the invariant avoids it: a frame
sets what it is about and leaves the rest alone, so only the last frame on a subject counts.
`ToldInv` goes subject by subject (is x listed, what does the mirror hold under x, is x one of the
client's roles, is x a role and with which mask): unless a command still `Owes` the client a word
on x, the last frame in the queue about x is true (`LastWord`), and where no frame is about x the
client already has it right (`NoWord`). It holds before AuthOk as well, when frames are queued for
a client that `Greet` will overwrite. `WordsDelivered` and `WordsQueued` carry it over a delivery
and a send; `MemoryOwes` shows that a change of memory alters for a client only what the command
then owes it; `AnnounceTold` and `SendTold` that a broadcast and the part of a resync that goes to
one client say nothing false and leave nothing out. `PlanInv` is why they do not, though the
resync reads and sends in sections of their own: until memory changes, the first snapshot is what
everyone in it sees and nothing is on its way to anyone who is not in it; after that, what is
left to broadcast is true, and the second snapshot and the copy are of the state the command left.

**Desktop.** The devices can only be given up by the main thread, which looks at the table, the
connects under way and the preview in the step that decides. `StrayInv` counts the packet in a
pump's hands with those in the mixer.

**Voice.** The numbers of frames wrap, so a frame's place is known only relative to the frame that
came last. `LineInv` says that two frames of a burst under way are at most as far apart as their
positions on the wire plus the faults so far; `HeldInv` says the same of the frame that came last
and everything still under way. With fewer faults than half the modulus the signed difference is
the true one (`VoiceAssumption`).

**Vault.** `Staged` says that the mutex keeps the vault still: whoever is about to rename a file
has just what is in memory in it. `Gone` follows a removal from the edit to its confirmation, and
`Started` and `Protected` tie the files and passphrases to what the user was told, with the moment
between the rename of a candidate and the answer to the user as the one exception.

### Assumptions

Each is an `ASSUME` of the module that declares the constants, and TLC evaluates it in every run.
Most say that constants have their types and that markers such as `None` and `Absent` are none of
the values they stand beside (`RosterAssumption`, `PermsAssumption`, `MessagesAssumption`,
`DesktopAssumption`, `VaultAssumption`, `AbsenceAssumption`). `RolesAssumption` has the initial
roles at different positions, `@everyone` at 0, as `lib.rs` seeds them. `ChannelsAssumption` has
the initial tables well-formed: an overwrite row belongs to a stored channel, which
`Store::delete_channel` keeps up. `VoiceAssumption` keeps the faults below half the modulus.

### Only model-checked

- Liveness under fairness, which the prover does not do: `EjectedSessionEnds`,
  `LostSessionLeaves`, `FetchAnswered`, `VoiceReleased`, `StrayReleased`, `SpeakerReleased`.
- `PlayedInOrder` beyond the burst whose start was received: with two bursts in the buffer and
  neither start, frames more than half the modulus apart are taken for older ones, so the property
  is false for some constants, though not for any length of speech the code will see.
- `OneFarewell`, that a departure is told to a client once.

Every other invariant that a passing run checks is stated by a theorem, with the hypotheses named above.

## 5. Plan

The models and the proofs are complete along the first plan. What would come next, in this order:

1. `PlayedInOrder` for bursts whose start was lost, under a hypothesis that bounds the frames
   spoken by half the modulus.
2. Which listener hears which speaker, in a model of the relay that shares `Roster`'s rooms.

## 6. Not modelled

Cryptography and proof of work beyond what they yield, certificates, serialisation,
configuration files, the sample arithmetic of the audio path, device drivers, and rendering:
they keep no state that several actors share, or lie in libraries. Of the store, the schema
migrations, and the two pruning queries that nothing but tests calls. Of the relay, which
listener hears which speaker while rooms and permissions change: it is the lossy link of
`Voice`. Of the desktop, mute and deafen across a rebuild of the engine, push to talk through
the keyboard, the shortcut plugin and the mouse readers, the bookmarks and the settings file:
what these do depends on how the window system orders its callbacks, which nothing in the
repository states. PROJECT.json lists every part with its reason.
