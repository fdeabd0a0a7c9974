------------------------------- MODULE Roster -------------------------------
(***************************************************************************)
(* Who is on the server, in which room, and what every client is told of   *)
(* it: the roster of pickle-server (state.rs), the sessions that enter and *)
(* leave it (session.rs), and the moderators that move people in it        *)
(* (moderation.rs, the channel commands of admin.rs).                      *)
(*                                                                         *)
(* One step of the model is one critical section of the lock around the    *)
(* roster, or one step of a task that touches no shared state.  What a     *)
(* task still has to do between two critical sections is in todo: a        *)
(* handler changes the roster in one section and announces the change in   *)
(* another, and any other task may run in between.                         *)
(*                                                                         *)
(* A connection stands for the client id admit gives it: ids come from a   *)
(* counter and are fresh for the first 2^32 admissions.  Permissions are   *)
(* constants here (Perms and the role commands have modules of their own): *)
(* a moderator sees every channel and outranks whoever is not one.         *)
(*                                                                         *)
(* broadcast holds the lock shared, so two broadcasts may overlap and two  *)
(* clients may see them in different orders; here a broadcast is one step. *)
(* What one client sees is the same either way, and every property of this *)
(* module is about one client at a time.                                   *)
(***************************************************************************)
EXTENDS Integers, Sequences, FiniteSets, Functions

CONSTANTS
  Session,          \* connections; each connects at most once
  Fingerprint,      \* identities
  fingerprint,      \* the identity behind each connection
  Moderators,       \* the fingerprints that may kick, ban, move and edit channels
  Channel,          \* channel ids
  InitialChannels,  \* the channels at startup, with their settings
  Settings,         \* [voice, max_users] settings a moderator may give a channel
  Connectable,      \* <<fingerprint, channel>> pairs with VIEW_CHANNEL and CONNECT
  max_users,        \* the server's limit on clients
  QueueDepth,       \* CONTROL_QUEUE_DEPTH
  StoreFaults,      \* whether the database may fail
  MaxRequests,      \* bound: control messages handled in a behaviour
  None,             \* no channel
  Absent            \* in a client's view: not on the server

ASSUME RosterAssumption ==
  /\ IsFiniteSet(Session)
  /\ fingerprint \in [Session -> Fingerprint]
  /\ Moderators \subseteq Fingerprint
  /\ DOMAIN InitialChannels \subseteq Channel
  /\ \A ch \in DOMAIN InitialChannels : InitialChannels[ch] \in Settings
  /\ \A st \in Settings : st.max_users # None => st.max_users \in Nat
  /\ Connectable \subseteq Fingerprint \X Channel
  /\ max_users \in Nat
  /\ QueueDepth \in Nat
  /\ StoreFaults \in BOOLEAN
  /\ MaxRequests \in Nat
  /\ None \notin Channel
  /\ Absent \notin Channel \cup {None}

VARIABLES
  phase,            \* how far each connection's task is
  open,             \* whether its transport is still open
  clients,          \* the roster: Inner.clients
  channel,          \* the room each client is in: UserInfo.channel
  channels,         \* Inner.channels: id -> settings
  queue,            \* each client's bounded outbound control queue
  view,             \* what each client believes of everyone, once it reads AuthOk
  todo,             \* what each task has left to do for the message in hand
  banned,           \* the ban table of the store
  requests,         \* control messages handled so far (see MaxRequests)
  announced,        \* history: clients whose UserJoined went out while they were on the roster
  departed,         \* history: how each client left the roster
  gapped            \* history: clients that lost a frame and were not dropped for it

vars == <<phase, open, clients, channel, channels, queue, view, todo, banned,
          requests, announced, departed, gapped>>

-----------------------------------------------------------------------------
(* Frames and tasks *)

\* A control frame as far as the roster goes; a "note" is any other frame.
Frame == [k : {"joined", "left", "moved", "updated", "note"},
          c : Session \cup {None}, to : Channel \cup {None}]
UserJoined(c) == [k |-> "joined", c |-> c, to |-> None]
UserLeft(c) == [k |-> "left", c |-> c, to |-> None]
UserMoved(c, to) == [k |-> "moved", c |-> c, to |-> to]
UserUpdated(c, ch) == [k |-> "updated", c |-> c, to |-> ch]
Note == [k |-> "note", c |-> None, to |-> None]

\* What a task may have left to do: mostly frames to queue and clients to act
\* on, and what the moderation and channel commands wait for the store with.
Tasks ==
  [op : {"broadcast", "send", "drop", "gone", "eject", "close", "mute", "move", "evicted"},
   who : SUBSET Session, frame : Frame, arg : {None}]
  \cup [op : {"ban", "unban", "sweep"}, who : {{}}, frame : {Note}, arg : Fingerprint]
  \cup [op : {"update"}, who : {{}}, frame : {Note}, arg : [id : Channel, settings : Settings]]
  \cup [op : {"delete"}, who : {{}}, frame : {Note}, arg : Channel]
Task(op, who, frame, arg) == [op |-> op, who |-> who, frame |-> frame, arg |-> arg]
Broadcast(f, except) == Task("broadcast", except, f, None)
Send(f, to) == Task("send", {to}, f, None)
Drop(who) == Task("drop", who, Note, None)
TellGone(c) == Task("gone", {c}, Note, None)
EjectAll(who) == Task("eject", who, Note, None)
Close(c) == Task("close", {c}, Note, None)
Ack(s) == Send(Note, s)

\* Mutant: a client is queued for only once its session runs.
ListeningOnceRunning(y) == phase[y] = "running"

\* The queue's receiver lives from admission to the end of the control loop.
Listening(y) == phase[y] \in {"admitted", "greeting", "running"}
Full(y) == Len(queue[y]) >= QueueDepth

\* try_queue for each of the clients in `to`.
Queued(to, f) ==
  [y \in Session |-> IF y \in to /\ Listening(y) /\ ~Full(y)
                     THEN Append(queue[y], f) ELSE queue[y]]
Overflowed(to) == {y \in to : Listening(y) /\ Full(y)}

Occupants(ch) == {x \in clients : channel[x] = ch}

\* Mutant: the room's limit is off by one.
FitsOneMore(ch, s) ==
  channels[ch].max_users # None =>
    Cardinality(Occupants(ch) \ {s}) <= channels[ch].max_users

\* Room for s, counting everyone in the room but s itself.
Fits(ch, s) ==
  channels[ch].max_users # None =>
    Cardinality(Occupants(ch) \ {s}) < channels[ch].max_users

\* Mutant: one client too many.
ServerFullPlusOne == Cardinality(clients) > max_users

ServerFull == Cardinality(clients) >= max_users

\* Mutant: the entry stays on the roster.
removeNobody(c) == clients

remove(c) == clients \ {c}

\* The steps of s that remain once the head of its todo is replaced.
Then(s, tasks) == todo' = [todo EXCEPT ![s] = tasks \o Tail(@)]
Doing(s, op) == todo[s] # <<>> /\ Head(todo[s]).op = op

\* What the client makes of a frame (the desktop's applyEvent).
Applied(v, f) ==
  CASE f.k = "joined" -> [v EXCEPT ![f.c] = f.to]
    [] f.k = "left" -> [v EXCEPT ![f.c] = Absent]
    [] f.k \in {"moved", "updated"} ->
         [v EXCEPT ![f.c] = IF @ = Absent THEN Absent ELSE f.to]
    [] OTHER -> v

-----------------------------------------------------------------------------
(* The handshake *)

Init ==
  /\ phase = [s \in Session |-> "idle"]
  /\ open = [s \in Session |-> FALSE]
  /\ clients = {}
  /\ channel = [s \in Session |-> None]
  /\ channels = InitialChannels
  /\ queue = [s \in Session |-> <<>>]
  /\ view = [s \in Session |-> [x \in Session |-> Absent]]
  /\ todo = [s \in Session |-> <<>>]
  /\ banned = {}
  /\ requests = 0
  /\ announced = {}
  /\ departed = [s \in Session |-> "no"]
  /\ gapped = {}

\* Hello, Auth and verify_auth succeed, and the store is asked; a store that
\* fails lets everyone in.
CheckBan(s) ==
  /\ phase[s] = "idle"
  /\ \/ /\ fingerprint[s] \notin banned \/ StoreFaults
        /\ phase' = [phase EXCEPT ![s] = "checked"]
        /\ open' = [open EXCEPT ![s] = TRUE]
     \/ /\ fingerprint[s] \in banned
        /\ phase' = [phase EXCEPT ![s] = "done"]
        /\ UNCHANGED open
  /\ UNCHANGED <<clients, channel, channels, queue, view, todo, banned, requests,
                 announced, departed, gapped>>

\* Capacity is checked and the slot taken under one write lock.
admit(s) ==
  /\ phase[s] = "checked"
  /\ \/ /\ ~ServerFull
        /\ clients' = clients \cup {s}
        /\ phase' = [phase EXCEPT ![s] = "admitted"]
        /\ UNCHANGED open
     \/ /\ ServerFull
        /\ phase' = [phase EXCEPT ![s] = "done"]
        /\ open' = [open EXCEPT ![s] = FALSE]
        /\ UNCHANGED clients
  /\ UNCHANGED <<channel, channels, queue, view, todo, banned, requests, announced,
                 departed, gapped>>

\* AuthOk carries the roster as it is after admission.
Greet(s) ==
  /\ phase[s] = "admitted"
  /\ phase' = [phase EXCEPT ![s] = "greeting"]
  /\ view' = [view EXCEPT ![s] =
                [x \in Session |-> IF x \in clients THEN channel[x] ELSE Absent]]
  /\ UNCHANGED <<open, clients, channel, channels, queue, todo, banned, requests,
                 announced, departed, gapped>>

\* AuthOk is written: the arrival is announced and the session starts.
Welcome(s) ==
  /\ phase[s] = "greeting"
  /\ phase' = [phase EXCEPT ![s] = "running"]
  /\ todo' = [todo EXCEPT ![s] = <<Broadcast(UserJoined(s), {s})>>]
  /\ UNCHANGED <<open, clients, channel, channels, queue, view, banned, requests,
                 announced, departed, gapped>>

\* AuthOk cannot be written: the Admitted guard gives the slot back, silently.
GreetFails(s) ==
  /\ phase[s] = "greeting"
  /\ ~open[s]
  /\ phase' = [phase EXCEPT ![s] = "done"]
  /\ clients' = remove(s)
  /\ channel' = [channel EXCEPT ![s] = None]
  /\ queue' = [queue EXCEPT ![s] = <<>>]
  /\ departed' = [departed EXCEPT ![s] = IF s \in clients THEN "failed" ELSE @]
  /\ UNCHANGED <<open, channels, view, todo, banned, requests, announced, gapped>>

-----------------------------------------------------------------------------
(* Announcements: each is one section of the shared lock *)

\* broadcast and send: whoever is full is dropped once the lock is released.
Deliver(s) ==
  /\ Doing(s, "broadcast") \/ Doing(s, "send")
  /\ LET t == Head(todo[s])
         to == IF t.op = "send" THEN clients \cap t.who ELSE clients \ t.who
         full == Overflowed(to)
     IN /\ queue' = Queued(to, t.frame)
        /\ Then(s, IF full = {} THEN <<>> ELSE <<Drop(full)>>)
        /\ announced' = IF t.frame.k = "joined" THEN announced \cup ({t.frame.c} \cap clients)
                        ELSE announced
  /\ UNCHANGED <<phase, open, clients, channel, channels, view, banned, requests,
                 departed, gapped>>

\* drop_overflowed, one client: its entry goes, its transport stays.
DropOverflowed(s) ==
  /\ Doing(s, "drop")
  /\ \E c \in Head(todo[s]).who :
       LET rest == Head(todo[s]).who \ {c}
       IN /\ Then(s, (IF c \in clients THEN <<TellGone(c)>> ELSE <<>>)
                      \o (IF rest = {} THEN <<>> ELSE <<Drop(rest)>>))
          /\ clients' = remove(c)
          /\ channel' = [channel EXCEPT ![c] = None]
          /\ departed' = [departed EXCEPT ![c] = IF c \in clients THEN "overflow" ELSE @]
  /\ UNCHANGED <<phase, open, channels, queue, view, banned, requests, announced, gapped>>

\* ... and everyone else is told, except those whose own queue is full.
TellOfDropped(s) ==
  /\ Doing(s, "gone")
  /\ \E c \in Head(todo[s]).who : queue' = Queued(clients, UserLeft(c))
  /\ gapped' = gapped \cup Overflowed(clients)
  /\ Then(s, <<>>)
  /\ UNCHANGED <<phase, open, clients, channel, channels, view, banned, requests,
                 announced, departed>>

-----------------------------------------------------------------------------
(* The running session *)

\* The writer task hands one frame to the transport and the client reads it;
\* what is written to a transport that is gone is lost.
Drain(s) ==
  /\ phase[s] = "running"
  /\ queue[s] # <<>>
  /\ queue' = [queue EXCEPT ![s] = Tail(@)]
  /\ view' = IF open[s] THEN [view EXCEPT ![s] = Applied(@, Head(queue[s]))] ELSE view
  /\ UNCHANGED <<phase, open, clients, channel, channels, todo, banned, requests,
                 announced, departed, gapped>>

\* The client goes away, or its network does.
Hangup(s) ==
  /\ open[s]
  /\ open' = [open EXCEPT ![s] = FALSE]
  /\ UNCHANGED <<phase, clients, channel, channels, queue, view, todo, banned,
                 requests, announced, departed, gapped>>

\* control_loop fails to read: writer and datagram task are aborted.
EndLoop(s) ==
  /\ phase[s] = "running"
  /\ todo[s] = <<>>
  /\ ~open[s]
  /\ phase' = [phase EXCEPT ![s] = "closing"]
  /\ queue' = [queue EXCEPT ![s] = <<>>]
  /\ UNCHANGED <<open, clients, channel, channels, view, todo, banned, requests,
                 announced, departed, gapped>>

\* Mutant: the departure is not announced.
FarewellForgotten(s) == <<>>

\* Mutant: the departure is announced though someone else removed the client.
FarewellAlways(s) == <<Broadcast(UserLeft(s), {s})>>

\* Only the one that removes a client announces that it left.
Farewell(s) == IF s \in clients THEN <<Broadcast(UserLeft(s), {s})>> ELSE <<>>

\* serve's cleanup, however the session ended.
Depart(s) ==
  /\ phase[s] = "closing"
  /\ phase' = [phase EXCEPT ![s] = "done"]
  /\ clients' = remove(s)
  /\ channel' = [channel EXCEPT ![s] = None]
  /\ todo' = [todo EXCEPT ![s] = Farewell(s)]
  /\ departed' = [departed EXCEPT ![s] = IF s \in clients THEN "quit" ELSE @]
  /\ UNCHANGED <<open, channels, queue, view, banned, requests, announced, gapped>>

\* A control message of s is taken up: the loop handles one at a time.
Request(s, tasks) ==
  /\ phase[s] = "running"
  /\ open[s]
  /\ todo[s] = <<>>
  /\ requests < MaxRequests
  /\ requests' = requests + 1
  /\ todo' = [todo EXCEPT ![s] = tasks]

\* Ping, and every command that is refused: one frame back to the sender.
Answered(s) ==
  /\ Request(s, <<Send(Note, s)>>)
  /\ UNCHANGED <<phase, open, clients, channel, channels, queue, view, banned,
                 announced, departed, gapped>>

MayEnter(s, ch) ==
  /\ ch \in DOMAIN channels
  /\ s \in clients
  /\ <<fingerprint[s], ch>> \in Connectable
  /\ channels[ch].voice
  /\ Fits(ch, s)

\* Mutant: the mover is left out of its own announcement.
AnnounceMoveToOthers(s, to) == Broadcast(UserMoved(s, to), {s})

AnnounceMove(s, to) == Broadcast(UserMoved(s, to), {})

JoinChannel(s, ch) ==
  /\ MayEnter(s, ch)
  /\ channel' = [channel EXCEPT ![s] = ch]
  /\ Request(s, <<AnnounceMove(s, ch)>>)
  /\ UNCHANGED <<phase, open, clients, channels, queue, view, banned, announced,
                 departed, gapped>>

\* Announced whether or not s was in a room, and whether or not s is still on
\* the roster.
LeaveChannel(s) ==
  /\ channel' = [channel EXCEPT ![s] = None]
  /\ Request(s, <<AnnounceMove(s, None)>>)
  /\ UNCHANGED <<phase, open, clients, channels, queue, view, banned, announced,
                 departed, gapped>>

\* SetVoiceState and SetNickname: the frame carries the whole UserInfo, its
\* channel included, as it was under the lock.
UpdateInfo(s) ==
  /\ s \in clients
  /\ Request(s, <<Broadcast(UserUpdated(s, channel[s]), {})>>)
  /\ UNCHANGED <<phase, open, clients, channel, channels, queue, view, banned,
                 announced, departed, gapped>>

-----------------------------------------------------------------------------
(* Moderators: the check is one section of the lock, the effect another *)

\* authorize_against_online, and ban's checks: the bit, and rank.
Authorized(s, f) ==
  /\ s \in clients
  /\ fingerprint[s] \in Moderators
  /\ f \notin Moderators

Kick(s, x) ==
  /\ x \in clients
  /\ Authorized(s, fingerprint[x])
  /\ Request(s, <<EjectAll({x}), Ack(s)>>)
  /\ UNCHANGED <<phase, open, clients, channel, channels, queue, view, banned,
                 announced, departed, gapped>>

Ban(s, f) ==
  /\ Authorized(s, f)
  /\ Request(s, <<Task("ban", {}, Note, f), Ack(s)>>)
  /\ UNCHANGED <<phase, open, clients, channel, channels, queue, view, banned,
                 announced, departed, gapped>>

Unban(s, f) ==
  /\ s \in clients /\ fingerprint[s] \in Moderators
  /\ Request(s, <<Task("unban", {}, Note, f), Ack(s)>>)
  /\ UNCHANGED <<phase, open, clients, channel, channels, queue, view, banned,
                 announced, departed, gapped>>

\* insert_ban, awaited: stored before enforced; a failure ends in a refusal.
StoreBan(s) ==
  /\ Doing(s, "ban")
  /\ LET f == Head(todo[s]).arg
     IN \/ /\ banned' = banned \cup {f}
           /\ Then(s, <<Task("sweep", {}, Note, f)>>)
        \/ StoreFaults /\ UNCHANGED banned /\ Then(s, <<>>)
  /\ UNCHANGED <<phase, open, clients, channel, channels, queue, view, requests,
                 announced, departed, gapped>>

StoreUnban(s) ==
  /\ Doing(s, "unban")
  /\ \/ banned' = banned \ {Head(todo[s]).arg}
     \/ StoreFaults /\ UNCHANGED banned
  /\ Then(s, <<>>)
  /\ UNCHANGED <<phase, open, clients, channel, channels, queue, view, requests,
                 announced, departed, gapped>>

\* Every session of the fingerprint that is on the roster now.
Victims(f) == {x \in clients : fingerprint[x] = f}

Sweep(s) ==
  /\ Doing(s, "sweep")
  /\ LET victims == Victims(Head(todo[s]).arg)
     IN Then(s, IF victims = {} THEN <<>> ELSE <<EjectAll(victims)>>)
  /\ UNCHANGED <<phase, open, clients, channel, channels, queue, view, banned, requests,
                 announced, departed, gapped>>

\* Mutant: the transport is left for the client to close.
AfterEjectOpen(v) == <<Broadcast(UserLeft(v), {})>>

\* Everyone is told, then the transport is closed after a grace of 50 ms.
AfterEject(v) == <<Broadcast(UserLeft(v), {}), Close(v)>>

\* eject: the victim is told and removed under one write lock.
Eject(s) ==
  /\ Doing(s, "eject")
  /\ \E v \in Head(todo[s]).who :
       LET rest == Head(todo[s]).who \ {v}
       IN /\ Then(s, (IF v \in clients THEN AfterEject(v) ELSE <<>>)
                      \o (IF rest = {} THEN <<>> ELSE <<EjectAll(rest)>>))
          /\ queue' = Queued(clients \cap {v}, UserLeft(v))
          /\ clients' = remove(v)
          /\ channel' = [channel EXCEPT ![v] = None]
          /\ departed' = [departed EXCEPT ![v] = IF v \in clients THEN "ejected" ELSE @]
  /\ UNCHANGED <<phase, open, channels, view, banned, requests, announced, gapped>>

CloseTransport(s) ==
  /\ Doing(s, "close")
  /\ open' = [v \in Session |-> open[v] /\ v \notin Head(todo[s]).who]
  /\ Then(s, <<>>)
  /\ UNCHANGED <<phase, clients, channel, channels, queue, view, banned, requests,
                 announced, departed, gapped>>

SetServerMute(s, x) ==
  /\ x \in clients
  /\ Authorized(s, fingerprint[x])
  /\ Request(s, <<Task("mute", {x}, Note, None)>>)
  /\ UNCHANGED <<phase, open, clients, channel, channels, queue, view, banned,
                 announced, departed, gapped>>

\* set_server_muted clones the info under the write lock.
MuteMember(s) ==
  /\ Doing(s, "mute")
  /\ \E x \in Head(todo[s]).who :
       Then(s, (IF x \in clients THEN <<Broadcast(UserUpdated(x, channel[x]), {})>> ELSE <<>>)
               \o <<Ack(s)>>)
  /\ UNCHANGED <<phase, open, clients, channel, channels, queue, view, banned, requests,
                 announced, departed, gapped>>

\* The mover's own right to the room is checked; the target's is not.
MoveMember(s, x, to) ==
  /\ x \in clients
  /\ Authorized(s, fingerprint[x])
  /\ to = None \/ (to \in DOMAIN channels /\ <<fingerprint[s], to>> \in Connectable)
  /\ Request(s, <<Task("move", {x}, UserMoved(x, to), None)>>)
  /\ UNCHANGED <<phase, open, clients, channel, channels, queue, view, banned,
                 announced, departed, gapped>>

ForceMove(s) ==
  /\ Doing(s, "move")
  /\ \E x \in Head(todo[s]).who :
       LET to == Head(todo[s]).frame.to
           allowed == /\ x \in clients
                      /\ \/ to = None
                         \/ (to \in DOMAIN channels /\ channels[to].voice /\ Fits(to, x))
       IN /\ channel' = IF allowed THEN [channel EXCEPT ![x] = to] ELSE channel
          /\ Then(s, (IF allowed THEN <<AnnounceMove(x, to)>> ELSE <<>>) \o <<Ack(s)>>)
  /\ UNCHANGED <<phase, open, clients, channels, queue, view, banned, requests,
                 announced, departed, gapped>>

UpdateChannel(s, ch, settings) ==
  /\ s \in clients /\ fingerprint[s] \in Moderators
  /\ ch \in DOMAIN channels
  /\ Request(s, <<Task("update", {}, Note, [id |-> ch, settings |-> settings])>>)
  /\ UNCHANGED <<phase, open, clients, channel, channels, queue, view, banned,
                 announced, departed, gapped>>

\* update_channel_mem, after the store; nobody is moved by it.  A store that
\* fails leaves memory alone, and the answer is a refusal.
ChannelUpdated(s) ==
  /\ Doing(s, "update")
  /\ LET u == Head(todo[s]).arg
     IN \/ /\ channels' = [ch \in DOMAIN channels |->
                              IF ch = u.id THEN u.settings ELSE channels[ch]]
           /\ Then(s, (IF u.id \in DOMAIN channels THEN <<Broadcast(Note, {})>> ELSE <<>>)
                       \o <<Ack(s)>>)
        \/ StoreFaults /\ UNCHANGED channels /\ Then(s, <<Ack(s)>>)
  /\ UNCHANGED <<phase, open, clients, channel, queue, view, banned, requests,
                 announced, departed, gapped>>

DeleteChannel(s, ch) ==
  /\ s \in clients /\ fingerprint[s] \in Moderators
  /\ ch \in DOMAIN channels
  /\ Request(s, <<Task("delete", {}, Note, ch)>>)
  /\ UNCHANGED <<phase, open, clients, channel, channels, queue, view, banned,
                 announced, departed, gapped>>

\* Mutant: the occupants are left standing in a room that is gone.
EvictedNobody(ch) == channel

Evicted(ch) == [x \in Session |-> IF channel[x] = ch THEN None ELSE channel[x]]

\* remove_channel_mem, after the store: the room and its occupants' places go
\* under one lock.
ChannelRemoved(s) ==
  /\ Doing(s, "delete")
  /\ LET ch == Head(todo[s]).arg
         out == IF ch \in DOMAIN channels THEN Occupants(ch) ELSE {}
     IN \/ /\ channels' = [c \in DOMAIN channels \ {ch} |-> channels[c]]
           /\ channel' = IF ch \in DOMAIN channels THEN Evicted(ch) ELSE channel
           /\ Then(s, (IF out = {} THEN <<>> ELSE <<Task("evicted", out, Note, None)>>)
                       \o (IF ch \in DOMAIN channels THEN <<Broadcast(Note, {})>> ELSE <<>>)
                       \o <<Ack(s)>>)
        \/ StoreFaults /\ UNCHANGED <<channel, channels>> /\ Then(s, <<Ack(s)>>)
  /\ UNCHANGED <<phase, open, clients, queue, view, banned, requests, announced,
                 departed, gapped>>

\* Each of the evicted is announced twice, as moved and as updated.
AnnounceEvicted(s) ==
  /\ Doing(s, "evicted")
  /\ \E x \in Head(todo[s]).who :
       LET rest == Head(todo[s]).who \ {x}
       IN Then(s, <<Broadcast(UserMoved(x, None), {}), Broadcast(UserUpdated(x, None), {})>>
                  \o (IF rest = {} THEN <<>> ELSE <<Task("evicted", rest, Note, None)>>))
  /\ UNCHANGED <<phase, open, clients, channel, channels, queue, view, banned, requests,
                 announced, departed, gapped>>

-----------------------------------------------------------------------------
Handshake(s) ==
  CheckBan(s) \/ admit(s) \/ Greet(s) \/ Welcome(s) \/ GreetFails(s)

\* What a task does next by itself.
Work(s) ==
  \/ Deliver(s) \/ DropOverflowed(s) \/ TellOfDropped(s)
  \/ StoreBan(s) \/ StoreUnban(s) \/ Sweep(s) \/ Eject(s) \/ CloseTransport(s)
  \/ MuteMember(s) \/ ForceMove(s)
  \/ ChannelUpdated(s) \/ ChannelRemoved(s) \/ AnnounceEvicted(s)

MemberRequest(s) ==
  \/ Answered(s) \/ LeaveChannel(s) \/ UpdateInfo(s)
  \/ \E ch \in Channel : JoinChannel(s, ch)

ModeratorRequest(s) ==
  \/ \E x \in Session : Kick(s, x) \/ SetServerMute(s, x)
  \/ \E x \in Session, to \in Channel \cup {None} : MoveMember(s, x, to)
  \/ \E f \in Fingerprint : Ban(s, f) \/ Unban(s, f)
  \/ \E ch \in Channel, settings \in Settings : UpdateChannel(s, ch, settings)
  \/ \E ch \in Channel : DeleteChannel(s, ch)

Next ==
  \E s \in Session :
    \/ Handshake(s) \/ Work(s) \/ MemberRequest(s) \/ ModeratorRequest(s)
    \/ Drain(s) \/ Hangup(s) \/ EndLoop(s) \/ Depart(s)

Spec == Init /\ [][Next]_vars

\* The tasks are scheduled by the runtime and none of them waits for another,
\* so each of them gets to its next step; nobody is obliged to connect, to send
\* a request or to hang up.
Fairness ==
  \A s \in Session :
    /\ WF_vars(Work(s)) /\ WF_vars(EndLoop(s)) /\ WF_vars(Depart(s))
    /\ WF_vars(Drain(s)) /\ WF_vars(Greet(s)) /\ WF_vars(Welcome(s) \/ GreetFails(s))

FairSpec == Spec /\ Fairness

-----------------------------------------------------------------------------
(* Properties *)

\* Every variable has its type; in particular, whatever a handler leaves to be
\* done names clients, frames and settings that exist.
TypeOK ==
  /\ phase \in [Session -> {"idle", "checked", "admitted", "greeting",
                             "running", "closing", "done"}]
  /\ open \in [Session -> BOOLEAN]
  /\ clients \subseteq Session
  /\ channel \in [Session -> Channel \cup {None}]
  /\ DOMAIN channels \subseteq Channel
  /\ \A ch \in DOMAIN channels : channels[ch] \in Settings
  /\ queue \in [Session -> Seq(Frame)]
  /\ view \in [Session -> [Session -> Channel \cup {None, Absent}]]
  /\ todo \in [Session -> Seq(Tasks)]
  /\ banned \subseteq Fingerprint
  /\ requests \in 0..MaxRequests
  /\ announced \subseteq Session
  /\ departed \in [Session -> {"no", "failed", "overflow", "ejected", "quit"}]
  /\ gapped \subseteq Session

\* The roster never holds more clients than the server's limit, whatever order
\* connections authenticate, fail and leave in (state.rs, admit).
WithinServerLimit == Cardinality(clients) <= max_users

\* The slots and the tasks agree: a client on the roster has a task that will
\* take it off again, so no slot is leaked by a handshake that fails or by a
\* session that was ejected, dropped or lost (session.rs, Admitted and serve).
NoLeakedSlot ==
  \A s \in clients : phase[s] \in {"admitted", "greeting", "running", "closing"}

\* Whoever is in a room is in a room that exists, although rooms are deleted
\* while people join them and are moved into them (remove_channel_mem).
OccupantsHaveRoom ==
  \A s \in Session : channel[s] # None => s \in clients /\ channel[s] \in DOMAIN channels

FillsWithinLimit ==
  \A ch \in DOMAIN channels :
    ~(Occupants(ch)' \subseteq Occupants(ch)) =>
      (channels[ch].max_users # None => Cardinality(Occupants(ch)') <= channels[ch].max_users)

\* A room is never filled past its limit: whoever enters finds it within the
\* limit in force then, although a moderator may lower the limit of a room
\* that is already fuller (join_channel, force_move, update_channel_mem).
RoomsFillWithinLimit == [][FillsWithinLimit]_vars

\* The clients a task is about to drop because their queue was full.
Doomed ==
  {y \in Session : \E s \in Session : \E t \in Range(todo[s]) : t.op = "drop" /\ y \in t.who}

\* What y believes or is about to read.
Hears(y, x) ==
  view[y][x] # Absent \/ \E f \in Range(queue[y]) : f.k = "joined" /\ f.c = x

\* A departure of x is on its way: in a queue, or still to be announced.
Leaving(x) ==
  \/ \E y \in Session : \E f \in Range(queue[y]) : f.k = "left" /\ f.c = x
  \/ \E s \in Session : \E t \in Range(todo[s]) :
       \/ t.frame.k = "left" /\ t.frame.c = x
       \/ t.op = "gone" /\ x \in t.who

\* Nobody is declared gone while it is there: whichever of the ways out takes a
\* client off the roster (quit, kick, ban, overflow), its departure is announced
\* only after, and it never comes back (state.rs, remove, eject and
\* drop_overflowed; session.rs, serve).
NoFalseFarewell ==
  \A x \in Session : Leaving(x) => x \notin clients /\ phase[x] \notin {"idle", "checked"}

\* The announcements of x's departure that y has yet to read: in its queue, or
\* in the hands of a task that will broadcast them.
Farewells(x, y) ==
  {<<y, i>> : i \in {j \in DOMAIN queue[y] : queue[y][j] = UserLeft(x)}}
  \cup {<<"todo", p>> : p \in UNION {{s} \X {j \in DOMAIN todo[s] :
          \/ todo[s][j].frame = UserLeft(x)
          \/ todo[s][j].op = "gone" /\ x \in todo[s][j].who} : s \in Session}}

\* A departure is announced once: when a kick, a ban, an overflow and the
\* session's own end race for one entry, only the one that finds it on the
\* roster speaks of it (state.rs, remove, eject and drop_overflowed;
\* session.rs, serve).
OneFarewell ==
  \A x, y \in Session : x # y => Cardinality(Farewells(x, y)) <= 1

\* Nobody on the server is missed: once a client has been announced, every
\* connected client that has its AuthOk sees it there or has its UserJoined in
\* its queue, unless it is about to be dropped.  The roster of AuthOk and the
\* announcements that overtake it leave no hole between them.
MembersKnown ==
  \A y \in clients, x \in clients \cap announced :
    (phase[y] \in {"greeting", "running"} /\ open[y] /\ y \notin Doomed) => Hears(y, x)

\* Nothing is on its way: every task has done what it had to, and every
\* connected client has read its queue.
Settled ==
  /\ \A s \in Session : todo[s] = <<>>
  /\ \A s \in Session : phase[s] \in {"idle", "checked", "running", "done"}
  /\ \A s \in Session : phase[s] = "running" => open[s] /\ queue[s] = <<>>

\* Once everything is settled, a client that was announced and has left, in
\* whichever way, is in nobody's view, except of a client that was too slow
\* to be told (session.rs, serve; state.rs, drop_overflowed and eject).
DeparturesSeen ==
  Settled => \A y \in clients \ gapped, x \in announced \ clients : view[y][x] = Absent

\* Once everything is settled, every client sees every other in the room the
\* server has it in (state.rs, join_channel and leave_channel; session.rs).
RoomsAgree ==
  Settled => \A y \in clients, x \in clients : view[y][x] # Absent => view[y][x] = channel[x]

\* A kick or a ban ends the session, without the client's cooperation
\* (moderation.rs, eject_and_close).
EjectedSessionEnds ==
  \A s \in Session : departed[s] = "ejected" ~> phase[s] = "done"

\* A client that leaves gives its slot back: a session whose transport is gone
\* is off the roster in the end (session.rs, serve and Admitted).
LostSessionLeaves ==
  \A s \in Session : (s \in clients /\ ~open[s]) ~> s \notin clients

-----------------------------------------------------------------------------
(* What comments in the code say, and the code does not do *)

\* session.rs:70, "Always announce the departure, however the session ended":
\* once everything is settled, nobody sees a client that is not there.
NoPhantoms ==
  Settled => \A y \in clients \ gapped, x \in Session \ clients : view[y][x] = Absent

\* moderation.rs, "Every live session of that fingerprint goes, not just one":
\* once everything is settled, no banned fingerprint is on the roster.
BannedStayOut == Settled => \A s \in clients : fingerprint[s] \notin banned

\* state.rs:640, "anyone who overflows on *this* frame is caught by the next one":
\* a client that missed a departure does not stay on with its stale view.
GapsAreCaught ==
  Settled => \A y \in clients \cap gapped, x \in announced \ clients : view[y][x] = Absent

\* state.rs:626, dropping the entry "ends the session's writer task and tears
\* the connection down through the ordinary path".
DroppedSessionEnds ==
  \A s \in Session : departed[s] = "overflow" ~> phase[s] = "done"

=============================================================================
