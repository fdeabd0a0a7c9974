------------------------------ MODULE Messages ------------------------------
(***************************************************************************)
(* Chat messages from the sender's keyboard to the readers' panes: the     *)
(* handlers send_message and fetch_history (session.rs), the id counter    *)
(* (state.rs), the table messages (store.rs), the resumption at start-up   *)
(* (lib.rs), and what the desktop makes of it (connections.ts, App.tsx).   *)
(*                                                                         *)
(* A session connects at most once.  Its control task handles one request  *)
(* at a time; task is what it waits for the store with.  Where a handler   *)
(* awaits the store, or sends in two critical sections, the model takes    *)
(* two steps and every other task may run in between.                      *)
(*                                                                         *)
(* A message is its id, its channel and the request it came from; wording, *)
(* author, time and order on the screen are left out.  Permissions change  *)
(* from outside, and the frame that tells a client of it is queued in the  *)
(* same step (Channels takes the two apart).  Queues do not overflow here: *)
(* Roster models what happens then.  The refusals that depend on a text's  *)
(* length or on the channel's kind are those of Throttled.                 *)
(***************************************************************************)
EXTENDS Integers, Sequences, FiniteSets, FiniteSetsExt, SequencesExt

CONSTANTS
  Session,          \* connections; each connects at most once
  Channel,          \* text channels
  defaultChannel,   \* the channel a client opens on
  InitialViews,     \* who may view what at the start, as sets of <<session, channel>>
  ReadHistory,      \* <<session, channel>> pairs with READ_HISTORY
  Contested,        \* the pairs whose VIEW_CHANNEL may be changed
  Limit,            \* messages on a page (100 in the desktop)
  HistoryEnabled,   \* the setting history_enabled
  StoreFaults,      \* whether the database may fail
  MaxSends,         \* bound: messages users send
  MaxChanges,       \* bound: changes of a permission
  MaxRestarts,      \* bound: restarts of the server
  MaxInbox          \* bound: requests of one client under way

ASSUME MessagesAssumption ==
  /\ defaultChannel \in Channel
  /\ ReadHistory \subseteq Session \X Channel
  /\ \A v \in InitialViews : v \subseteq Session \X Channel
  /\ Contested \subseteq Session \X Channel
  /\ Limit \in Nat \ {0}
  /\ HistoryEnabled \in BOOLEAN /\ StoreFaults \in BOOLEAN
  /\ {MaxSends, MaxChanges, MaxRestarts, MaxInbox} \subseteq Nat

VARIABLES
  phase,            \* "out", "on" (on the roster), "gone"
  stored,           \* the table messages
  next_message_id,  \* Inner.next_message_id
  view,             \* <<session, channel>> pairs with VIEW_CHANNEL
  inbox,            \* requests the client sent and the server has not read
  task,             \* what each control task is in the middle of
  queue,            \* control frames on their way to the client
  opened,           \* sessions whose tab the desktop has opened
  listed,           \* the channels each tab lists
  shown,            \* the messages each tab holds
  requested,        \* historyRequested: channels whose past was asked for
  sent, changes, restarts,  \* counters for the bounds
  rights,           \* history: pairs that ever had VIEW_CHANNEL
  lapsed,           \* history: <<session, channel>> whose last fetch got no page
  owed              \* history: answers to fetches each session waits for

serverVars == <<phase, stored, next_message_id, view, task, restarts>>
clientVars == <<opened, listed, shown, requested>>
vars == <<serverVars, clientVars, inbox, queue, sent, changes, rights, lapsed, owed>>

-----------------------------------------------------------------------------
(* Messages, requests, frames and tasks *)

Message == [id : Nat, channel : Channel, body : Nat]
Ids(ms) == {m.id : m \in ms}
In(ms, ch) == {m \in ms : m.channel = ch}

SendMessage(ch, body) == [k |-> "send", channel |-> ch, body |-> body]
FetchHistory(ch) == [k |-> "fetch", channel |-> ch, body |-> 0]

MessagePosted(m) == [k |-> "posted", channel |-> m.channel, ms |-> {m}]
History(ch, ms) == [k |-> "history", channel |-> ch, ms |-> ms]
Error == [k |-> "error", channel |-> defaultChannel, ms |-> {}]
ChannelCreated(ch) == [k |-> "created", channel |-> ch, ms |-> {}]
ChannelRemoved(ch) == [k |-> "removed", channel |-> ch, ms |-> {}]

Request == [k : {"send", "fetch"}, channel : Channel, body : Nat]
Frame == [k : {"posted", "history", "error", "created", "removed"},
          channel : Channel, ms : SUBSET Message]
Tasks == [op : {"idle", "insert", "echo", "broadcast", "page", "reply"},
          channel : Channel, ms : SUBSET Message]

\* op: "insert" a message, "echo" it to its author, "broadcast" it, read a
\* "page" or "reply" with it.
Task(op, ch, ms) == [op |-> op, channel |-> ch, ms |-> ms]
Idle == Task("idle", defaultChannel, {})
TheMessage(s) == CHOOSE m \in task[s].ms : TRUE

\* Shared::send: nothing when the client is no longer on the roster.
Sent(s, f) == IF phase[s] = "on" THEN [queue EXCEPT ![s] = Append(@, f)] ELSE queue

-----------------------------------------------------------------------------
(* The desktop *)

\* Mutant: history is asked for once in the life of a tab.
RemovedButRequested(s, ch) == requested

\* The effect of channelRemoved on what was asked for.
ForgetRequest(s, ch) == [requested EXCEPT ![s] = @ \ {ch}]

\* AuthOk carries the channels s may view; the tab opens later.
Connect(s) ==
  /\ phase[s] = "out"
  /\ phase' = [phase EXCEPT ![s] = "on"]
  /\ listed' = [listed EXCEPT ![s] = {ch \in Channel : <<s, ch>> \in view}]
  /\ UNCHANGED <<stored, next_message_id, view, task, restarts, opened, shown,
                 requested, inbox, queue, sent, changes, rights, lapsed, owed>>

\* requestHistoryOnce
Requesting(s, ch) ==
  IF ch \in requested[s] \/ <<s, ch>> \notin ReadHistory
  THEN UNCHANGED <<requested, inbox, owed>>
  ELSE /\ Len(inbox[s]) < MaxInbox
       /\ requested' = [requested EXCEPT ![s] = @ \cup {ch}]
       /\ inbox' = [inbox EXCEPT ![s] = Append(@, FetchHistory(ch))]
       /\ owed' = [owed EXCEPT ![s] = @ + 1]

\* The connect command resolves: the reducer opens the tab, on the default
\* channel if the client may see it.
Open(s) ==
  /\ phase[s] = "on" /\ s \notin opened
  /\ opened' = opened \cup {s}
  /\ IF defaultChannel \in listed[s] THEN Requesting(s, defaultChannel)
     ELSE UNCHANGED <<requested, inbox, owed>>
  /\ UNCHANGED <<serverVars, listed, shown, queue, sent, changes, rights, lapsed>>

\* The user opens a channel of the list.
Select(s, ch) ==
  /\ phase[s] = "on" /\ s \in opened /\ ch \in listed[s]
  /\ ch \notin requested[s] /\ <<s, ch>> \in ReadHistory
  /\ Requesting(s, ch)
  /\ UNCHANGED <<serverVars, opened, listed, shown, queue, sent, changes, rights, lapsed>>

Post(s, ch) ==
  /\ phase[s] = "on" /\ s \in opened /\ ch \in listed[s]
  /\ sent < MaxSends /\ Len(inbox[s]) < MaxInbox
  /\ sent' = sent + 1
  /\ inbox' = [inbox EXCEPT ![s] = Append(@, SendMessage(ch, sent + 1))]
  /\ UNCHANGED <<serverVars, clientVars, queue, changes, rights, lapsed, owed>>

\* The reducer's applyEvent, and the listener beside it.
applyEvent(s, f) ==
  /\ UNCHANGED opened
  /\ shown' = [shown EXCEPT ![s] = @ \cup f.ms]
  /\ listed' = [listed EXCEPT ![s] =
       CASE f.k = "created" -> @ \cup {f.channel}
         [] f.k = "removed" -> @ \ {f.channel}
         [] OTHER -> @]
  /\ requested' = IF f.k = "removed" THEN ForgetRequest(s, f.channel) ELSE requested

\* A frame becomes an event, and the event pump hands it to the reducer.  One
\* that comes before the tab is open finds no connection to patch.
Deliver(s) ==
  /\ queue[s] # <<>>
  /\ queue' = [queue EXCEPT ![s] = Tail(@)]
  /\ IF s \in opened THEN applyEvent(s, Head(queue[s])) ELSE UNCHANGED clientVars
  /\ UNCHANGED <<serverVars, inbox, sent, changes, rights, lapsed, owed>>

-----------------------------------------------------------------------------
(* The server *)

\* Mutant: everyone is told before the store is asked.
EchoFirst == "echo"

\* send_message stores before anyone is told.
AfterBuild == "insert"

\* Store::history without a bound on the id: the newest Limit rows.
Page(ch) ==
  {m \in In(stored, ch) : Cardinality({n \in In(stored, ch) : n.id > m.id}) < Limit}

Answer(s, f) == queue' = Sent(s, f)
Repay(s) == owed' = [owed EXCEPT ![s] = IF @ = 0 THEN 0 ELSE @ - 1]

\* Mutant: a denied read is met with silence.
DenySilently(s, ch) == queue' = queue /\ owed' = owed

\* A denied read gets the same empty page as a channel that does not exist.
Deny(s, ch) == Answer(s, History(ch, {})) /\ Repay(s)

\* The control task reads a request of the kind k.
Reads(s, k) ==
  /\ phase[s] = "on" /\ task[s] = Idle /\ inbox[s] # <<>> /\ Head(inbox[s]).k \in k
  /\ inbox' = [inbox EXCEPT ![s] = Tail(@)]

build_message(r) == [id |-> next_message_id, channel |-> r.channel, body |-> r.body]

\* send_message up to build_message, which takes the id.
HandleSend(s) ==
  LET r == Head(inbox[s]) IN
  /\ Reads(s, {"send"})
  /\ IF <<s, r.channel>> \in view
     THEN /\ next_message_id' = next_message_id + 1
          /\ task' = [task EXCEPT ![s] = Task(AfterBuild, r.channel, {build_message(r)})]
          /\ UNCHANGED queue
     ELSE Answer(s, Error) /\ UNCHANGED <<next_message_id, task>>
  /\ UNCHANGED <<phase, stored, view, restarts, clientVars, sent, changes, rights, lapsed, owed>>

\* fetch_history up to the read of the store.
HandleFetch(s) ==
  LET ch == Head(inbox[s]).channel IN
  /\ Reads(s, {"fetch"})
  /\ IF HistoryEnabled /\ <<s, ch>> \in view \cap ReadHistory
     THEN /\ task' = [task EXCEPT ![s] = Task("page", ch, {})]
          /\ UNCHANGED <<queue, lapsed, owed>>
     ELSE Deny(s, ch) /\ lapsed' = lapsed \cup {<<s, ch>>} /\ UNCHANGED task
  /\ UNCHANGED <<phase, stored, next_message_id, view, restarts, clientVars, sent, changes, rights>>

\* The rate limiter, or a check of the request's content, turns it down.
Throttled(s) ==
  LET r == Head(inbox[s]) IN
  /\ Reads(s, {"send", "fetch"})
  /\ Answer(s, Error)
  /\ IF r.k = "fetch"
     THEN Repay(s) /\ lapsed' = lapsed \cup {<<s, r.channel>>}
     ELSE UNCHANGED <<owed, lapsed>>
  /\ UNCHANGED <<serverVars, clientVars, sent, changes, rights>>

\* Store::insert_message; id is the table's primary key.
InsertMessage(s) ==
  /\ task[s].op = "insert"
  /\ TheMessage(s).id \notin Ids(stored)
  /\ stored' = stored \cup task[s].ms
  /\ task' = [task EXCEPT ![s].op = "echo"]
  /\ UNCHANGED <<phase, next_message_id, view, restarts, clientVars, inbox, queue,
                 sent, changes, rights, lapsed, owed>>

InsertFails(s) ==
  /\ task[s].op = "insert"
  /\ StoreFaults \/ TheMessage(s).id \in Ids(stored)
  /\ task' = [task EXCEPT ![s] = Idle]
  /\ Answer(s, Error)
  /\ UNCHANGED <<phase, stored, next_message_id, view, restarts, clientVars, inbox,
                 sent, changes, rights, lapsed, owed>>

\* The author gets its own copy first, in a section of its own.
Echo(s) ==
  /\ task[s].op = "echo"
  /\ Answer(s, MessagePosted(TheMessage(s)))
  /\ task' = [task EXCEPT ![s].op = "broadcast"]
  /\ UNCHANGED <<phase, stored, next_message_id, view, restarts, clientVars, inbox,
                 sent, changes, rights, lapsed, owed>>

\* Mutant: the fan-out does not ask who may view the channel.
Everyone(ch) == {y \in Session : phase[y] = "on"}

\* broadcast_filtered: who may view the channel when the message goes out.
Viewers(ch) == {y \in Session : phase[y] = "on" /\ <<y, ch>> \in view}

BroadcastFiltered(s) ==
  /\ task[s].op = "broadcast"
  /\ queue' = [y \in Session |->
       IF y \in Viewers(task[s].channel) \ {s}
       THEN Append(queue[y], MessagePosted(TheMessage(s))) ELSE queue[y]]
  /\ task' = [task EXCEPT ![s] = Idle]
  /\ UNCHANGED <<phase, stored, next_message_id, view, restarts, clientVars, inbox,
                 sent, changes, rights, lapsed, owed>>

ReadPage(s) ==
  /\ task[s].op = "page"
  /\ task' = [task EXCEPT ![s] = Task("reply", @.channel, Page(@.channel))]
  /\ lapsed' = lapsed \ {<<s, task[s].channel>>}
  /\ UNCHANGED <<phase, stored, next_message_id, view, restarts, clientVars, inbox,
                 queue, sent, changes, rights, owed>>

PageFails(s) ==
  /\ task[s].op = "page" /\ StoreFaults
  /\ task' = [task EXCEPT ![s] = Idle]
  /\ Answer(s, Error)
  /\ lapsed' = lapsed \cup {<<s, task[s].channel>>}
  /\ Repay(s)
  /\ UNCHANGED <<phase, stored, next_message_id, view, restarts, clientVars, inbox,
                 sent, changes, rights>>

Reply(s) ==
  /\ task[s].op = "reply"
  /\ Answer(s, History(task[s].channel, task[s].ms))
  /\ task' = [task EXCEPT ![s] = Idle]
  /\ Repay(s)
  /\ UNCHANGED <<phase, stored, next_message_id, view, restarts, clientVars, inbox,
                 sent, changes, rights, lapsed>>

\* The connection is lost.  A handler that is waiting for the store goes on;
\* what was queued for the client, or sent by it, is not delivered, and the
\* user closes the tab.  shown keeps what was read.
Gone(who) ==
  /\ phase' = [s \in Session |-> IF s \in who THEN "gone" ELSE phase[s]]
  /\ inbox' = [s \in Session |-> IF s \in who THEN <<>> ELSE inbox[s]]
  /\ queue' = [s \in Session |-> IF s \in who THEN <<>> ELSE queue[s]]
  /\ opened' = opened \ who
  /\ listed' = [s \in Session |-> IF s \in who THEN {} ELSE listed[s]]
  /\ requested' = [s \in Session |-> IF s \in who THEN {} ELSE requested[s]]
  /\ lapsed' = {p \in lapsed : p[1] \notin who}
  /\ owed' = [s \in Session |-> IF s \in who THEN 0 ELSE owed[s]]

Disconnect(s) ==
  /\ phase[s] = "on"
  /\ Gone({s})
  /\ UNCHANGED <<stored, next_message_id, view, task, restarts, shown, sent, changes, rights>>

\* Somebody edits the roles or the overwrites.
ChangeView(s, ch) ==
  LET grants == <<s, ch>> \notin view IN
  /\ <<s, ch>> \in Contested /\ changes < MaxChanges
  /\ changes' = changes + 1
  /\ view' = IF grants THEN view \cup {<<s, ch>>} ELSE view \ {<<s, ch>>}
  /\ rights' = rights \cup view'
  /\ Answer(s, IF grants THEN ChannelCreated(ch) ELSE ChannelRemoved(ch))
  /\ UNCHANGED <<phase, stored, next_message_id, task, restarts, clientVars, inbox,
                 sent, lapsed, owed>>

\* Mutant: the counter starts over at every boot.
ResumedFromOne == 1

\* highest_message_id and resume_message_ids_after
Resumed == IF stored = {} THEN 1 ELSE Max(Ids(stored)) + 1

\* The server dies at any point and comes back with what the store has.
Restart ==
  /\ restarts < MaxRestarts
  /\ restarts' = restarts + 1
  /\ next_message_id' = Resumed
  /\ task' = [s \in Session |-> Idle]
  /\ Gone({s \in Session : phase[s] = "on"})
  /\ UNCHANGED <<stored, view, shown, sent, changes, rights>>

-----------------------------------------------------------------------------
Init ==
  /\ phase = [s \in Session |-> "out"]
  /\ stored = {} /\ next_message_id = 1
  /\ view \in InitialViews
  /\ inbox = [s \in Session |-> <<>>]
  /\ task = [s \in Session |-> Idle]
  /\ queue = [s \in Session |-> <<>>]
  /\ opened = {}
  /\ listed = [s \in Session |-> {}]
  /\ shown = [s \in Session |-> {}]
  /\ requested = [s \in Session |-> {}]
  /\ sent = 0 /\ changes = 0 /\ restarts = 0
  /\ rights = view /\ lapsed = {}
  /\ owed = [s \in Session |-> 0]

\* The steps of a control task and of the client's event pump.
TaskStep(s) ==
  \/ HandleSend(s) \/ HandleFetch(s) \/ Throttled(s) \/ InsertMessage(s) \/ InsertFails(s) \/ Echo(s)
  \/ BroadcastFiltered(s) \/ ReadPage(s) \/ PageFails(s) \/ Reply(s)

Next ==
  \/ \E s \in Session :
       \/ Connect(s) \/ Open(s) \/ Deliver(s) \/ TaskStep(s) \/ Disconnect(s)
       \/ \E ch \in Channel : Select(s, ch) \/ Post(s, ch) \/ ChangeView(s, ch)
  \/ Restart

\* The runtime polls every task that can go on; nothing else is fair.
Spec == Init /\ [][Next]_vars /\ \A s \in Session : WF_vars(TaskStep(s))

-----------------------------------------------------------------------------
(* Properties *)

TypeOK ==
  /\ phase \in [Session -> {"out", "on", "gone"}]
  /\ stored \in SUBSET Message /\ next_message_id \in Nat
  /\ view \subseteq Session \X Channel /\ rights \subseteq Session \X Channel
  /\ inbox \in [Session -> Seq(Request)] /\ queue \in [Session -> Seq(Frame)]
  /\ task \in [Session -> Tasks]
  /\ opened \subseteq Session
  /\ listed \in [Session -> SUBSET Channel] /\ requested \in [Session -> SUBSET Channel]
  /\ shown \in [Session -> SUBSET Message]
  /\ lapsed \subseteq Session \X Channel /\ owed \in [Session -> Nat]
  /\ sent \in Nat /\ changes \in Nat /\ restarts \in Nat

\* What a client was ever told of is in the database, whatever crashed or
\* failed in between: "a message everyone saw" does not "vanish on restart"
\* (session.rs:762).
Told(s) == shown[s] \cup UNION {f.ms : f \in ToSet(queue[s])}
ShownIsStored == \A s \in Session : Told(s) \subseteq stored

\* The id a message was given is not taken when it reaches the table, in spite
\* of failed inserts, lost tasks and restarts in between (state.rs:536).
IdsFresh == \A s \in Session : task[s].op = "insert" => TheMessage(s).id \notin Ids(stored)

\* Nothing is on its way to s.
Settled(s) ==
  /\ phase[s] = "on" /\ s \in opened /\ queue[s] = <<>> /\ inbox[s] = <<>> /\ task[s] = Idle
  /\ \A y \in Session : task[y].op \notin {"echo", "broadcast"}

\* A tab that asked for a channel's past, got a page and has nothing on its
\* way, holds every message of the channel but those older than a page:
\* whatever was posted before, while and after the page was read, and even if
\* the channel was taken from the client and given back (App.tsx:61).
NothingMissed ==
  \A s \in Session : Settled(s) =>
    \A ch \in requested[s] : <<s, ch>> \notin lapsed =>
      \A m \in In(stored, ch) \ shown[s] :
        Cardinality({n \in In(stored, ch) : n.id > m.id}) >= Limit

\* The server implements the log of MessageLog: nothing sent is withdrawn, no
\* id means two messages, and nobody learns of a message in a channel it was
\* never let into (broadcast_filtered, fetch_history).
Log == INSTANCE MessageLog WITH
  Reader <- Session, log <- stored, known <- shown
ImplementsLog == Log!Spec

\* Every request for history is answered, with a page or with an error, as long
\* as the connection lasts: no client is left "waiting on a reply that never
\* comes" (session.rs:629).
FetchAnswered == \A s \in Session : owed[s] > 0 ~> (owed[s] = 0 \/ phase[s] = "gone")
=============================================================================
