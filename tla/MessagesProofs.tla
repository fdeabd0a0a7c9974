--------------------------- MODULE MessagesProofs ---------------------------
(***************************************************************************)
(* Proofs about Messages, for any sessions, channels, rights, page size    *)
(* and bounds: what clients are told is stored, ids are never used twice,  *)
(* the server implements the log, and no tab misses a message.             *)
(***************************************************************************)
EXTENDS Messages, SequenceTheorems, FiniteSetTheorems, WellFoundedInduction, TLAPS

-----------------------------------------------------------------------------
(* The inductive invariant *)

(* The counter is ahead of every id that is in use. *)
Counted == \A m \in stored : m.id < next_message_id

(* A handler that posts has one message.  Before the insert its id is new  *)
(* and its own; after it the message is stored, as is a page that was read.*)
TaskOK(s) ==
  /\ task[s].op \in {"insert", "echo", "broadcast"} =>
       \E m \in task[s].ms : task[s].ms = {m} /\ m.id < next_message_id
  /\ task[s].op = "insert" => \A m \in task[s].ms : m.id \notin Ids(stored)
  /\ task[s].op \in {"echo", "broadcast", "reply"} => task[s].ms \subseteq stored
  /\ task[s].op # "idle" => /\ <<s, task[s].channel>> \in rights
                            /\ \A m \in task[s].ms : m.channel = task[s].channel

OwnIds ==
  \A s, y \in Session : s # y /\ task[s].op = "insert" /\ task[y].op = "insert" =>
    \A m \in task[s].ms, n \in task[y].ms : m.id # n.id

(* Frames carry stored messages of channels their reader was let into. *)
FrameIn(s, f, log, allowed) == f.ms \subseteq log /\ \A m \in f.ms : <<s, m.channel>> \in allowed
FrameOK(s, f) == FrameIn(s, f, stored, rights)

LogInv ==
  /\ Counted /\ OwnIds /\ view \subseteq rights
  /\ \A s \in Session :
       /\ TaskOK(s)
       /\ \A f \in ToSet(queue[s]) : FrameOK(s, f)
       /\ shown[s] \subseteq stored

(* A tab asks for nothing before it is open, and is open while connected.  *)
TabsOK ==
  \A s \in Session :
    /\ s \in opened => phase[s] = "on"
    /\ s \notin opened => requested[s] = {}

(* s asked for ch and no fetch of it is on its way to the server: it has a *)
(* page, the read of one is under way, or the fetch got none (lapsed).     *)
Fetching(s, ch) == task[s].op = "page" /\ task[s].channel = ch
Asked(s, ch) == FetchHistory(ch) \in ToSet(inbox[s])
Losing(s, ch) == ChannelRemoved(ch) \in ToSet(queue[s])

(* With a page, or waiting for it, s is told of the channel, or about to   *)
(* hear that it lost it.                                                   *)
Synced(s, ch) ==
  /\ ch \in requested[s] /\ ~ Asked(s, ch)
  /\ <<s, ch>> \notin lapsed \/ Fetching(s, ch)
  => <<s, ch>> \in view \/ Losing(s, ch)

Newer(m) == {n \in In(stored, m.channel) : n.id > m.id}
Coming(s, m) ==
  \/ \E f \in ToSet(queue[s]) : m \in f.ms
  \/ task[s].op = "reply" /\ m \in task[s].ms
  \/ \E y \in Session : task[y].op = "echo" /\ m \in task[y].ms
  \/ \E y \in Session \ {s} : task[y].op = "broadcast" /\ m \in task[y].ms
Held(s, m) == m \in shown[s] \/ Coming(s, m) \/ Cardinality(Newer(m)) >= Limit

(* With a page, every message of the channel is shown, on its way, or on   *)
(* an older page.                                                          *)
Covered(s, ch) ==
  /\ ch \in requested[s] /\ ~ Asked(s, ch)
  /\ <<s, ch>> \notin lapsed /\ ~ Fetching(s, ch)
  => Losing(s, ch) \/ \A m \in In(stored, ch) : Held(s, m)

PairOK(s, ch) == Synced(s, ch) /\ Covered(s, ch)
PaneInv == IsFiniteSet(stored) /\ TabsOK /\ \A s \in Session, ch \in Channel : PairOK(s, ch)

-----------------------------------------------------------------------------
(* Sequences and the sets of their elements *)

\* Appending adds one element.
LEMMA AppendSet ==
  ASSUME NEW S, NEW q \in Seq(S), NEW e \in S
  PROVE  Append(q, e) \in Seq(S) /\ ToSet(Append(q, e)) = ToSet(q) \cup {e}
<1> DEFINE n == Len(q)
           r == Append(q, e)
<1>1. /\ r \in Seq(S) /\ n \in Nat /\ DOMAIN q = 1 .. n /\ DOMAIN r = 1 .. (n + 1)
      /\ \A i \in 1 .. n : r[i] = q[i]
      /\ r[n + 1] = e
  BY AppendProperties, LenProperties
<1> HIDE DEF n, r
<1>2. \A i \in 1 .. (n + 1) : i \in 1 .. n \/ i = n + 1
  BY <1>1
<1>3. \A i \in 1 .. n : i \in 1 .. (n + 1)
  BY <1>1
<1>4. n + 1 \in 1 .. (n + 1)
  BY <1>1
<1> QED BY <1>1, <1>2, <1>3, <1>4 DEF ToSet, r

\* Taking the head off splits the elements.
LEMMA HeadTailSet ==
  ASSUME NEW S, NEW q \in Seq(S), q # <<>>
  PROVE  /\ Head(q) \in S /\ Tail(q) \in Seq(S)
         /\ ToSet(q) = {Head(q)} \cup ToSet(Tail(q))
<1> DEFINE n == Len(q)
           t == Tail(q)
<1>1. /\ Head(q) \in S /\ t \in Seq(S) /\ n \in Nat \ {0} /\ DOMAIN q = 1 .. n
      /\ Head(q) = q[1] /\ DOMAIN t = 1 .. (n - 1)
      /\ \A i \in 1 .. (n - 1) : t[i] = q[i + 1]
  BY HeadTailProperties, LenProperties, EmptySeq
<1> HIDE DEF n, t
<1>2. \A i \in 1 .. n : i = 1 \/ (i - 1 \in 1 .. (n - 1) /\ (i - 1) + 1 = i)
  BY <1>1
<1>3. \A i \in 1 .. (n - 1) : i + 1 \in 1 .. n
  BY <1>1
<1>4. ASSUME NEW i \in 1 .. n PROVE q[i] = Head(q) \/ q[i] \in ToSet(t)
  <2>1. CASE i = 1
    BY <1>1, <2>1
  <2>2. CASE i # 1
    <3>1. i - 1 \in DOMAIN t /\ t[i - 1] = q[i]
      BY <1>1, <1>2, <2>2
    <3> QED BY <3>1 DEF ToSet
  <2> QED BY <2>1, <2>2
<1>5. \A x \in ToSet(t) : x \in ToSet(q)
  BY <1>1, <1>3 DEF ToSet
<1>6. Head(q) \in ToSet(q)
  BY <1>1 DEF ToSet
<1>7. \A x \in ToSet(q) : x \in {Head(q)} \cup ToSet(t)
  BY <1>1, <1>4 DEF ToSet
<1> QED BY <1>1, <1>5, <1>6, <1>7 DEF t

LEMMA EmptyToSet == ToSet(<<>>) = {}
BY DEF ToSet

\* The elements of a queue are frames, of an inbox requests.
LEMMA ToSetTyped == ASSUME NEW S, NEW q \in Seq(S) PROVE ToSet(q) \subseteq S
BY ElementOfSeq, LenProperties DEF ToSet

\* Shared::send adds at most one frame, to one queue, and does add it while
\* the client is on the roster.
LEMMA SentSet ==
  ASSUME TypeOK, NEW s \in Session, NEW f \in Frame, queue' = Sent(s, f)
  PROVE  /\ queue' \in [Session -> Seq(Frame)]
         /\ \A y \in Session : ToSet(queue[y]) \subseteq ToSet(queue'[y])
         /\ \A y \in Session : \A g \in ToSet(queue'[y]) : g \in ToSet(queue[y]) \/ (g = f /\ y = s)
         /\ phase[s] = "on" => f \in ToSet(queue'[s])
<1>1. queue[s] \in Seq(Frame) /\ queue \in [Session -> Seq(Frame)]
  BY DEF TypeOK
<1>2. /\ Append(queue[s], f) \in Seq(Frame)
      /\ ToSet(Append(queue[s], f)) = ToSet(queue[s]) \cup {f}
  BY <1>1, AppendSet
<1>3. CASE phase[s] = "on"
  <2>1. queue' = [queue EXCEPT ![s] = Append(queue[s], f)]
    BY <1>3 DEF Sent
  <2> QED BY <1>1, <1>2, <2>1
<1>4. CASE phase[s] # "on"
  BY <1>1, <1>4 DEF Sent
<1> QED BY <1>3, <1>4

-----------------------------------------------------------------------------
(* Types *)

LEMMA FrameTypes ==
  /\ Error \in Frame /\ Error.ms = {} /\ Error.k = "error"
  /\ \A ch \in Channel : /\ ChannelCreated(ch) \in Frame /\ ChannelCreated(ch).ms = {}
                          /\ ChannelRemoved(ch) \in Frame /\ ChannelRemoved(ch).ms = {}
                          /\ ChannelRemoved(ch).k = "removed" /\ ChannelRemoved(ch).channel = ch
                          /\ ChannelCreated(ch).k = "created"
  /\ \A ch \in Channel, ms \in SUBSET Message :
       History(ch, ms) \in Frame /\ History(ch, ms).ms = ms
  /\ \A m \in Message : MessagePosted(m) \in Frame /\ MessagePosted(m).ms = {m}
BY MessagesAssumption
   DEF Error, ChannelCreated, ChannelRemoved, History, MessagePosted, Frame, Message

LEMMA TaskTypes ==
  /\ Idle \in Tasks /\ Idle.op = "idle"
  /\ \A ch \in Channel, ms \in SUBSET Message,
        op \in {"idle", "insert", "echo", "broadcast", "page", "reply"} :
       /\ Task(op, ch, ms) \in Tasks /\ Task(op, ch, ms).op = op
       /\ Task(op, ch, ms).channel = ch /\ Task(op, ch, ms).ms = ms
BY MessagesAssumption DEF Idle, Task, Tasks

LEMMA RequestTypes ==
  /\ \A ch \in Channel : /\ FetchHistory(ch) \in Request /\ FetchHistory(ch).k = "fetch"
                          /\ FetchHistory(ch).channel = ch
  /\ \A ch \in Channel, b \in Nat : SendMessage(ch, b) \in Request /\ SendMessage(ch, b).k = "send"
BY DEF FetchHistory, SendMessage, Request

\* The control task takes the head of its inbox.
LEMMA ReadsFacts ==
  ASSUME TypeOK, NEW s \in Session, NEW k, Reads(s, k)
  PROVE  /\ phase[s] = "on" /\ task[s] = Idle /\ inbox[s] # <<>>
         /\ Head(inbox[s]) \in Request /\ Head(inbox[s]).channel \in Channel
         /\ Head(inbox[s]).k \in k
         /\ inbox' \in [Session -> Seq(Request)]
         /\ ToSet(inbox[s]) = {Head(inbox[s])} \cup ToSet(inbox'[s])
         /\ \A y \in Session \ {s} : inbox'[y] = inbox[y]
<1>1. inbox \in [Session -> Seq(Request)] /\ inbox[s] \in Seq(Request)
  BY DEF TypeOK
<1>2. inbox' = [inbox EXCEPT ![s] = Tail(inbox[s])] /\ inbox[s] # <<>>
  BY DEF Reads
<1>3. /\ Head(inbox[s]) \in Request /\ Tail(inbox[s]) \in Seq(Request)
      /\ ToSet(inbox[s]) = {Head(inbox[s])} \cup ToSet(Tail(inbox[s]))
  BY <1>1, <1>2, HeadTailSet
<1> QED BY <1>1, <1>2, <1>3 DEF Reads, Request

\* requestHistoryOnce asks at most once, and marks what it asked for.
LEMMA RequestingFacts ==
  ASSUME TypeOK, NEW s \in Session, NEW ch \in Channel, Requesting(s, ch)
  PROVE  /\ inbox' \in [Session -> Seq(Request)]
         /\ requested' \in [Session -> SUBSET Channel]
         /\ owed' \in [Session -> Nat]
         /\ \A y \in Session : ToSet(inbox[y]) \subseteq ToSet(inbox'[y])
         /\ \A y \in Session : \A c \in requested'[y] :
              c \in requested[y] \/ (y = s /\ c = ch /\ FetchHistory(ch) \in ToSet(inbox'[s]))
<1>1. /\ inbox \in [Session -> Seq(Request)] /\ inbox[s] \in Seq(Request)
      /\ requested \in [Session -> SUBSET Channel] /\ owed \in [Session -> Nat]
  BY DEF TypeOK
<1>2. CASE UNCHANGED <<requested, inbox, owed>>
  BY <1>1, <1>2
<1>3. CASE /\ requested' = [requested EXCEPT ![s] = @ \cup {ch}]
           /\ inbox' = [inbox EXCEPT ![s] = Append(@, FetchHistory(ch))]
           /\ owed' = [owed EXCEPT ![s] = @ + 1]
  <2>1. /\ Append(inbox[s], FetchHistory(ch)) \in Seq(Request)
        /\ ToSet(Append(inbox[s], FetchHistory(ch))) = ToSet(inbox[s]) \cup {FetchHistory(ch)}
    BY <1>1, AppendSet, RequestTypes
  <2> QED BY <1>1, <1>3, <2>1
<1> QED BY <1>2, <1>3 DEF Requesting

\* A handler that posts has its message.
LEMMA TheMessageFacts ==
  ASSUME TypeOK, NEW s \in Session, TaskOK(s), task[s].op \in {"insert", "echo", "broadcast"}
  PROVE  /\ TheMessage(s) \in Message /\ task[s].ms = {TheMessage(s)}
         /\ TheMessage(s).id < next_message_id
         /\ TheMessage(s).channel = task[s].channel
<1>1. PICK m \in task[s].ms : task[s].ms = {m} /\ m.id < next_message_id
  BY DEF TaskOK
<1>2. TheMessage(s) = m
  BY <1>1 DEF TheMessage
<1>3. task[s].ms \subseteq Message
  BY DEF TypeOK, Tasks
<1> QED BY <1>1, <1>2, <1>3 DEF TaskOK

\* One step of a handler's task, typed.
LEMMA OpTyped ==
  ASSUME TypeOK, NEW s \in Session,
         NEW op \in {"idle", "insert", "echo", "broadcast", "page", "reply"},
         task' = [task EXCEPT ![s].op = op]
  PROVE  /\ task' \in [Session -> Tasks]
         /\ task'[s].op = op /\ task'[s].ms = task[s].ms /\ task'[s].channel = task[s].channel
         /\ \A y \in Session \ {s} : task'[y] = task[y]
<1>1. task \in [Session -> Tasks] /\ task[s] \in Tasks
  BY DEF TypeOK
<1>2. [task[s] EXCEPT !.op = op] \in Tasks
  BY <1>1 DEF Tasks
<1> QED BY <1>1, <1>2 DEF Tasks

LEMMA SetTaskTyped ==
  ASSUME TypeOK, NEW s \in Session, NEW t \in Tasks, task' = [task EXCEPT ![s] = t]
  PROVE  /\ task' \in [Session -> Tasks] /\ task'[s] = t
         /\ \A y \in Session \ {s} : task'[y] = task[y]
BY DEF TypeOK

\* A handler is done.
LEMMA IdleTyped ==
  ASSUME TypeOK, NEW s \in Session, task' = [task EXCEPT ![s] = Idle]
  PROVE  task'[s].op = "idle" /\ \A y \in Session \ {s} : task'[y] = task[y]
<1>1. Idle.op = "idle"
  BY TaskTypes
<1>2. task'[s] = Idle /\ \A y \in Session \ {s} : task'[y] = task[y]
  BY DEF TypeOK
<1> QED BY <1>1, <1>2

\* The frame a handler posts carries its message.
LEMMA PostedFacts ==
  ASSUME TypeOK, NEW s \in Session, TaskOK(s), task[s].op \in {"insert", "echo", "broadcast"}
  PROVE  /\ MessagePosted(TheMessage(s)) \in Frame
         /\ MessagePosted(TheMessage(s)).ms = task[s].ms
         /\ \A m \in task[s].ms : m.channel = task[s].channel
<1>1. /\ TheMessage(s) \in Message /\ task[s].ms = {TheMessage(s)}
      /\ TheMessage(s).channel = task[s].channel
  BY TheMessageFacts
<1> QED BY <1>1, FrameTypes

LEMMA RepayTyped == ASSUME TypeOK, NEW s \in Session, Repay(s) PROVE owed' \in [Session -> Nat]
<1>1. owed \in [Session -> Nat] /\ owed[s] \in Nat
  BY DEF TypeOK
<1>2. owed' = [owed EXCEPT ![s] = IF owed[s] = 0 THEN 0 ELSE owed[s] - 1]
  BY DEF Repay
<1>3. (IF owed[s] = 0 THEN 0 ELSE owed[s] - 1) \in Nat
  BY <1>1
<1> QED BY <1>1, <1>2, <1>3

\* A page holds messages of the channel that are stored.
LEMMA PageFacts ==
  ASSUME TypeOK, NEW ch
  PROVE  Page(ch) \subseteq stored /\ Page(ch) \in SUBSET Message /\ \A m \in Page(ch) : m.channel = ch
BY DEF TypeOK, Page, In

\* Losing connections empties their queues and inboxes.
LEMMA GoneFacts ==
  ASSUME TypeOK, NEW who \in SUBSET Session, Gone(who)
  PROVE  /\ phase' \in [Session -> {"out", "on", "gone"}]
         /\ inbox' \in [Session -> Seq(Request)] /\ queue' \in [Session -> Seq(Frame)]
         /\ listed' \in [Session -> SUBSET Channel] /\ requested' \in [Session -> SUBSET Channel]
         /\ opened' \subseteq Session /\ lapsed' \subseteq lapsed /\ owed' \in [Session -> Nat]
         /\ \A y \in Session : ToSet(queue'[y]) \subseteq ToSet(queue[y])
<1>1. <<>> \in Seq(Request) /\ <<>> \in Seq(Frame)
  OBVIOUS
<1>2. /\ phase \in [Session -> {"out", "on", "gone"}]
      /\ inbox \in [Session -> Seq(Request)] /\ queue \in [Session -> Seq(Frame)]
      /\ listed \in [Session -> SUBSET Channel] /\ requested \in [Session -> SUBSET Channel]
      /\ opened \subseteq Session /\ owed \in [Session -> Nat]
  BY DEF TypeOK
<1>3. phase' \in [Session -> {"out", "on", "gone"}]
  BY <1>2 DEF Gone
<1>4. inbox' \in [Session -> Seq(Request)] /\ queue' \in [Session -> Seq(Frame)]
  BY <1>1, <1>2 DEF Gone
<1>5. /\ listed' \in [Session -> SUBSET Channel] /\ requested' \in [Session -> SUBSET Channel]
      /\ opened' \subseteq Session /\ owed' \in [Session -> Nat]
  BY <1>2 DEF Gone
<1>6. lapsed' \subseteq lapsed
  BY DEF Gone
<1>7. \A y \in Session : ToSet(queue'[y]) \subseteq ToSet(queue[y])
  BY EmptyToSet DEF Gone
<1> QED BY <1>3, <1>4, <1>5, <1>6, <1>7

LEMMA TypeInit == Init => TypeOK
BY TaskTypes, MessagesAssumption DEF Init, TypeOK

\* Every set of numbers that is not empty has a least one.
LEMMA LeastNat ==
  ASSUME NEW T \in SUBSET Nat, T # {}
  PROVE  \E n \in T : \A m \in T : n <= m
<1>1. PICK n \in T : \A m \in T : ~ (<<m, n>> \in OpToRel(<, Nat))
  BY WFMin, NatLessThanWellFounded, Zenon
<1>2. \A m \in T : ~ (m < n)
  BY <1>1, Zenon DEF OpToRel
<1> QED BY <1>2

\* The counter resumes after every id in the table.
LEMMA ResumedFacts ==
  ASSUME TypeOK, Counted
  PROVE  Resumed \in Nat /\ \A m \in stored : m.id < Resumed
<1>0. /\ next_message_id \in Nat /\ \A m \in stored : m.id \in Nat
      /\ Ids(stored) \subseteq Nat
  BY DEF TypeOK, Message, Ids
<1>1. CASE stored = {}
  BY <1>1 DEF Resumed
<1>2. CASE stored # {}
  <2> DEFINE above == {n \in Nat : \A m \in stored : m.id < n}
  <2>1. next_message_id \in above
    BY <1>0 DEF Counted
  <2>2. PICK n \in above : \A k \in above : n <= k
    BY <2>1, LeastNat
  <2>3. n \in Nat \ {0}
    BY <1>0, <1>2, <2>2
  <2>4. n - 1 \notin above
    BY <2>2, <2>3
  <2>5. PICK m \in stored : ~ (m.id < n - 1)
    BY <2>3, <2>4
  <2>6. /\ m.id \in Ids(stored) /\ \A i \in Ids(stored) : m.id >= i
    BY <1>0, <2>2, <2>3, <2>5 DEF Ids
  <2>7. Max(Ids(stored)) \in Ids(stored) /\ \A i \in Ids(stored) : Max(Ids(stored)) >= i
    BY <2>6 DEF Max
  <2>8. Resumed = Max(Ids(stored)) + 1 /\ Max(Ids(stored)) \in Nat
    BY <1>0, <1>2, <2>7 DEF Resumed
  <2> QED BY <1>0, <2>7, <2>8 DEF Ids
<1> QED BY <1>1, <1>2

\* Every step of a control task keeps the types.
LEMMA TypeTaskStep == ASSUME TypeOK, LogInv, NEW s \in Session, TaskStep(s) PROVE TypeOK'
<1>0. TaskOK(s)
  BY DEF LogInv
<1>1. CASE HandleSend(s)
  <2> DEFINE r == Head(inbox[s])
  <2>1. r \in Request /\ inbox' \in [Session -> Seq(Request)]
    BY <1>1, ReadsFacts DEF HandleSend
  <2>2. {build_message(r)} \in SUBSET Message /\ r.channel \in Channel
    BY <2>1 DEF build_message, Message, Request, TypeOK
  <2>3. /\ queue' \in [Session -> Seq(Frame)] /\ task' \in [Session -> Tasks]
        /\ next_message_id' \in Nat
    <3>1. CASE <<s, r.channel>> \in view
      <4>1. Task(AfterBuild, r.channel, {build_message(r)}) \in Tasks
        BY <2>2, TaskTypes DEF AfterBuild
      <4>2. task' \in [Session -> Tasks]
        BY <1>1, <3>1, <4>1, SetTaskTyped DEF HandleSend
      <4>3. queue' = queue /\ next_message_id' = next_message_id + 1
        BY <1>1, <3>1 DEF HandleSend
      <4> QED BY <4>2, <4>3 DEF TypeOK
    <3>2. CASE <<s, r.channel>> \notin view
      <4>1. queue' = Sent(s, Error) /\ UNCHANGED <<next_message_id, task>>
        BY <1>1, <3>2 DEF HandleSend, Answer
      <4> QED BY <4>1, SentSet, FrameTypes DEF TypeOK
    <3> QED BY <3>1, <3>2
  <2> QED BY <1>1, <2>1, <2>3 DEF HandleSend, TypeOK, clientVars
<1>2. CASE HandleFetch(s)
  <2> DEFINE ch == Head(inbox[s]).channel
  <2>1. ch \in Channel /\ inbox' \in [Session -> Seq(Request)]
    BY <1>2, ReadsFacts DEF HandleFetch
  <2>2. /\ queue' \in [Session -> Seq(Frame)] /\ task' \in [Session -> Tasks]
        /\ owed' \in [Session -> Nat] /\ lapsed' \subseteq Session \X Channel
    <3>1. CASE HistoryEnabled /\ <<s, ch>> \in view \cap ReadHistory
      <4>1. task' = [task EXCEPT ![s] = Task("page", ch, {})] /\ UNCHANGED <<queue, lapsed, owed>>
        BY <1>2, <3>1 DEF HandleFetch
      <4>2. Task("page", ch, {}) \in Tasks
        BY <2>1, TaskTypes
      <4>3. task' \in [Session -> Tasks]
        BY <4>1, <4>2, SetTaskTyped
      <4> QED BY <4>1, <4>3 DEF TypeOK
    <3>2. CASE ~ (HistoryEnabled /\ <<s, ch>> \in view \cap ReadHistory)
      <4>1. /\ queue' = Sent(s, History(ch, {})) /\ Repay(s)
            /\ lapsed' = lapsed \cup {<<s, ch>>} /\ task' = task
        BY <1>2, <3>2 DEF HandleFetch, Deny, Answer
      <4>2. queue' \in [Session -> Seq(Frame)]
        BY <2>1, <4>1, SentSet, FrameTypes
      <4>3. owed' \in [Session -> Nat]
        BY <4>1, RepayTyped
      <4> QED BY <2>1, <4>1, <4>2, <4>3 DEF TypeOK
    <3> QED BY <3>1, <3>2
  <2> QED BY <1>2, <2>1, <2>2 DEF HandleFetch, TypeOK, clientVars
<1>3. CASE Throttled(s)
  <2> DEFINE r == Head(inbox[s])
  <2>1. r.channel \in Channel /\ inbox' \in [Session -> Seq(Request)]
    BY <1>3, ReadsFacts DEF Throttled
  <2>2. queue' \in [Session -> Seq(Frame)]
    BY <1>3, SentSet, FrameTypes DEF Throttled, Answer
  <2>3. owed' \in [Session -> Nat] /\ lapsed' \subseteq Session \X Channel
    <3>1. CASE r.k = "fetch"
      <4>1. Repay(s) /\ lapsed' = lapsed \cup {<<s, r.channel>>}
        BY <1>3, <3>1 DEF Throttled
      <4>2. owed' \in [Session -> Nat]
        BY <4>1, RepayTyped
      <4> QED BY <2>1, <4>1, <4>2 DEF TypeOK
    <3>2. CASE r.k # "fetch"
      BY <1>3, <3>2 DEF Throttled, TypeOK
    <3> QED BY <3>1, <3>2
  <2> QED BY <1>3, <2>1, <2>2, <2>3 DEF Throttled, TypeOK, clientVars, serverVars
<1>4. CASE InsertMessage(s)
  <2>1. task[s].ms \subseteq Message
    BY DEF TypeOK, Tasks
  <2>2. task' \in [Session -> Tasks]
    BY <1>4, OpTyped DEF InsertMessage
  <2> QED BY <1>4, <2>1, <2>2 DEF InsertMessage, TypeOK, clientVars
<1>5. CASE InsertFails(s)
  <2>1. task' \in [Session -> Tasks] /\ queue' \in [Session -> Seq(Frame)]
    BY <1>5, SetTaskTyped, TaskTypes, SentSet, FrameTypes DEF InsertFails, Answer
  <2> QED BY <1>5, <2>1 DEF InsertFails, TypeOK, clientVars
<1>6. CASE Echo(s)
  <2>1. TheMessage(s) \in Message
    BY <1>0, <1>6, TheMessageFacts DEF Echo
  <2>2. MessagePosted(TheMessage(s)) \in Frame
    BY <2>1, FrameTypes
  <2>3. queue' \in [Session -> Seq(Frame)]
    BY <1>6, <2>2, SentSet DEF Echo, Answer
  <2>4. task' \in [Session -> Tasks]
    BY <1>6, OpTyped DEF Echo
  <2> QED BY <1>6, <2>3, <2>4 DEF Echo, TypeOK, clientVars
<1>7. CASE BroadcastFiltered(s)
  <2> DEFINE f == MessagePosted(TheMessage(s))
  <2>1. f \in Frame
    BY <1>0, <1>7, TheMessageFacts, FrameTypes DEF BroadcastFiltered
  <2>2. \A y \in Session : Append(queue[y], f) \in Seq(Frame) /\ queue[y] \in Seq(Frame)
    BY <2>1, AppendSet DEF TypeOK
  <2>3. queue' = [y \in Session |-> IF y \in Viewers(task[s].channel) \ {s}
                                    THEN Append(queue[y], f) ELSE queue[y]]
    BY <1>7 DEF BroadcastFiltered
  <2> HIDE DEF f
  <2>4. queue' \in [Session -> Seq(Frame)]
    BY <2>2, <2>3
  <2>5. task' \in [Session -> Tasks]
    BY <1>7, SetTaskTyped, TaskTypes DEF BroadcastFiltered
  <2> QED BY <1>7, <2>4, <2>5 DEF BroadcastFiltered, TypeOK, clientVars
<1>8. CASE ReadPage(s)
  <2> DEFINE t == Task("reply", task[s].channel, Page(task[s].channel))
  <2>1. task[s].channel \in Channel
    BY DEF TypeOK, Tasks
  <2>2. t \in Tasks
    BY <2>1, PageFacts, TaskTypes
  <2>3. task' = [task EXCEPT ![s] = t] /\ lapsed' \subseteq lapsed
    BY <1>8 DEF ReadPage
  <2> HIDE DEF t
  <2>4. task' \in [Session -> Tasks]
    BY <2>2, <2>3, SetTaskTyped
  <2> QED BY <1>8, <2>3, <2>4 DEF ReadPage, TypeOK, clientVars
<1>9. CASE PageFails(s)
  <2>1. /\ task' \in [Session -> Tasks] /\ queue' \in [Session -> Seq(Frame)]
        /\ owed' \in [Session -> Nat]
    BY <1>9, SetTaskTyped, TaskTypes, SentSet, FrameTypes, RepayTyped DEF PageFails, Answer
  <2>2. <<s, task[s].channel>> \in Session \X Channel
    BY DEF TypeOK, Tasks
  <2> QED BY <1>9, <2>1, <2>2 DEF PageFails, TypeOK, clientVars
<1>10. CASE Reply(s)
  <2>1. History(task[s].channel, task[s].ms) \in Frame
    BY FrameTypes DEF TypeOK, Tasks
  <2>2. /\ task' \in [Session -> Tasks] /\ queue' \in [Session -> Seq(Frame)]
        /\ owed' \in [Session -> Nat]
    BY <1>10, <2>1, SetTaskTyped, TaskTypes, SentSet, RepayTyped DEF Reply, Answer
  <2> QED BY <1>10, <2>2 DEF Reply, TypeOK, clientVars
<1> QED BY <1>1, <1>2, <1>3, <1>4, <1>5, <1>6, <1>7, <1>8, <1>9, <1>10 DEF TaskStep

\* So do the steps of the clients, the administrator and the machine.
LEMMA TypeNext == TypeOK /\ LogInv /\ [Next]_vars => TypeOK'
<1> SUFFICES ASSUME TypeOK, LogInv, [Next]_vars PROVE TypeOK'
  OBVIOUS
<1>1. ASSUME NEW s \in Session, Connect(s) PROVE TypeOK'
  <2>1. phase' \in [Session -> {"out", "on", "gone"}] /\ listed' \in [Session -> SUBSET Channel]
    BY <1>1 DEF Connect, TypeOK
  <2> QED BY <1>1, <2>1 DEF Connect, TypeOK
<1>2. ASSUME NEW s \in Session, Open(s) PROVE TypeOK'
  <2>1. /\ inbox' \in [Session -> Seq(Request)] /\ requested' \in [Session -> SUBSET Channel]
        /\ owed' \in [Session -> Nat]
    <3>1. CASE defaultChannel \in listed[s]
      BY <1>2, <3>1, RequestingFacts, MessagesAssumption DEF Open
    <3>2. CASE defaultChannel \notin listed[s]
      BY <1>2, <3>2 DEF Open, TypeOK
    <3> QED BY <3>1, <3>2
  <2> QED BY <1>2, <2>1 DEF Open, TypeOK, serverVars
<1>3. ASSUME NEW s \in Session, Deliver(s) PROVE TypeOK'
  <2>1. /\ Head(queue[s]) \in Frame /\ Tail(queue[s]) \in Seq(Frame)
    BY <1>3, HeadTailSet DEF Deliver, TypeOK
  <2>2. queue' \in [Session -> Seq(Frame)]
    BY <1>3, <2>1 DEF Deliver, TypeOK
  <2>3. /\ opened' \subseteq Session /\ listed' \in [Session -> SUBSET Channel]
        /\ requested' \in [Session -> SUBSET Channel] /\ shown' \in [Session -> SUBSET Message]
    <3>1. CASE s \in opened
      <4> DEFINE f == Head(queue[s])
      <4>1. applyEvent(s, f)
        BY <1>3, <3>1 DEF Deliver
      <4>2. f.channel \in Channel /\ f.ms \subseteq Message
        BY <2>1 DEF Frame
      <4> HIDE DEF f
      <4>3. opened' \subseteq Session
        BY <4>1 DEF applyEvent, TypeOK
      <4>4. shown' \in [Session -> SUBSET Message]
        BY <4>1, <4>2 DEF applyEvent, TypeOK
      <4>5. listed' \in [Session -> SUBSET Channel]
        BY <4>1, <4>2 DEF applyEvent, TypeOK
      <4>6. requested' \in [Session -> SUBSET Channel]
        BY <4>1, <4>2 DEF applyEvent, TypeOK, ForgetRequest
      <4> QED BY <4>3, <4>4, <4>5, <4>6
    <3>2. CASE s \notin opened
      BY <1>3, <3>2 DEF Deliver, TypeOK, clientVars
    <3> QED BY <3>1, <3>2
  <2> QED BY <1>3, <2>2, <2>3 DEF Deliver, TypeOK, serverVars
<1>4. ASSUME NEW s \in Session, TaskStep(s) PROVE TypeOK'
  BY <1>4, TypeTaskStep
<1>5. ASSUME NEW s \in Session, Disconnect(s) PROVE TypeOK'
  BY <1>5, GoneFacts DEF Disconnect, TypeOK
<1>6. ASSUME NEW s \in Session, NEW ch \in Channel, Select(s, ch) PROVE TypeOK'
  BY <1>6, RequestingFacts DEF Select, TypeOK, serverVars
<1>7. ASSUME NEW s \in Session, NEW ch \in Channel, Post(s, ch) PROVE TypeOK'
  <2>1. Append(inbox[s], SendMessage(ch, sent + 1)) \in Seq(Request)
    BY AppendSet, RequestTypes DEF TypeOK
  <2>2. inbox' \in [Session -> Seq(Request)] /\ sent' \in Nat
    BY <1>7, <2>1 DEF Post, TypeOK
  <2> QED BY <1>7, <2>2 DEF Post, TypeOK, serverVars, clientVars
<1>8. ASSUME NEW s \in Session, NEW ch \in Channel, ChangeView(s, ch) PROVE TypeOK'
  <2>1. queue' \in [Session -> Seq(Frame)]
    <3>1. PICK f \in Frame : queue' = Sent(s, f)
      BY <1>8, FrameTypes DEF ChangeView, Answer
    <3> QED BY <3>1, SentSet
  <2>2. view' \subseteq Session \X Channel /\ rights' \subseteq Session \X Channel
    BY <1>8 DEF ChangeView, TypeOK
  <2>3. /\ changes' \in Nat
        /\ UNCHANGED <<phase, stored, next_message_id, task, restarts, clientVars, inbox, sent, lapsed, owed>>
    BY <1>8 DEF ChangeView, TypeOK
  <2> QED BY <2>1, <2>2, <2>3 DEF TypeOK, clientVars
<1>9. CASE Restart
  <2>1. Gone({s \in Session : phase[s] = "on"})
    BY <1>9 DEF Restart
  <2>2. Resumed \in Nat
    BY ResumedFacts DEF LogInv
  <2>3. task' \in [Session -> Tasks]
    BY <1>9, TaskTypes DEF Restart
  <2>4. /\ restarts' \in Nat /\ next_message_id' \in Nat
        /\ UNCHANGED <<stored, view, shown, sent, changes, rights>>
    BY <1>9, <2>2 DEF Restart, TypeOK
  <2>5. {s \in Session : phase[s] = "on"} \in SUBSET Session
    OBVIOUS
  <2>6. /\ phase' \in [Session -> {"out", "on", "gone"}]
        /\ inbox' \in [Session -> Seq(Request)] /\ queue' \in [Session -> Seq(Frame)]
        /\ listed' \in [Session -> SUBSET Channel] /\ requested' \in [Session -> SUBSET Channel]
        /\ opened' \subseteq Session /\ lapsed' \subseteq lapsed /\ owed' \in [Session -> Nat]
    BY <2>1, <2>5, GoneFacts
  <2> QED BY <2>3, <2>4, <2>6 DEF TypeOK
<1>10. CASE UNCHANGED vars
  BY <1>10 DEF vars, serverVars, clientVars, TypeOK
<1> QED BY <1>1, <1>2, <1>3, <1>4, <1>5, <1>6, <1>7, <1>8, <1>9, <1>10 DEF Next

-----------------------------------------------------------------------------
(* Ids, the table and what is told of it *)

\* What a step that touches one task has to show.
LEMMA LogKeeps ==
  ASSUME TypeOK, TypeOK', LogInv, NEW s \in Session,
         stored \subseteq stored', rights \subseteq rights', view' \subseteq rights',
         next_message_id <= next_message_id',
         \A m \in stored' : m.id < next_message_id',
         \A y \in Session \ {s} : task'[y] = task[y],
         \A y \in Session \ {s} : task[y].op = "insert" =>
           \A m \in task[y].ms : m.id \notin Ids(stored)',
         TaskOK(s)',
         task'[s].op = "insert" =>
           \A y \in Session \ {s} : task[y].op = "insert" =>
             \A m \in task'[s].ms, n \in task[y].ms : m.id # n.id,
         \A y \in Session : \A f \in ToSet(queue'[y]) : f \in ToSet(queue[y]) \/ FrameIn(y, f, stored', rights'),
         \A y \in Session : shown'[y] \subseteq stored'
  PROVE  LogInv'
<1>1. Counted' /\ (view \subseteq rights)'
  BY DEF Counted
<1>2. ASSUME NEW y \in Session PROVE TaskOK(y)'
  <2>1. CASE y = s
    BY <2>1
  <2>2. CASE y # s
    <3>1. TaskOK(y) /\ task'[y] = task[y]
      BY <2>2 DEF LogInv
    <3>2. task[y].ms \subseteq Message
      BY DEF TypeOK, Tasks
    <3>3. \A m \in Message : m.id < next_message_id => m.id < next_message_id'
      BY DEF TypeOK, Message
    <3> QED BY <2>2, <3>1, <3>2, <3>3 DEF TaskOK
  <2> QED BY <2>1, <2>2
<1>3. OwnIds'
  <2>1. SUFFICES ASSUME NEW x \in Session, NEW y \in Session, x # y,
                        task'[x].op = "insert", task'[y].op = "insert",
                        NEW m \in task'[x].ms, NEW n \in task'[y].ms
                 PROVE  m.id # n.id
    BY DEF OwnIds
  <2>2. CASE x # s /\ y # s
    BY <2>1, <2>2 DEF LogInv, OwnIds
  <2>3. CASE x = s \/ y = s
    BY <2>1, <2>3
  <2> QED BY <2>2, <2>3
<1>4. ASSUME NEW y \in Session, NEW f \in ToSet(queue'[y]) PROVE FrameIn(y, f, stored', rights')
  <2>1. CASE f \in ToSet(queue[y])
    BY <2>1 DEF LogInv, FrameOK, FrameIn
  <2> QED BY <2>1
<1> QED BY <1>1, <1>2, <1>3, <1>4 DEF LogInv, FrameOK

\* A step that leaves the log, the tasks and the counter alone.
LEMMA LogQuiet ==
  ASSUME TypeOK, TypeOK', LogInv,
         UNCHANGED <<stored, rights, view, next_message_id, task>>,
         \A y \in Session : \A f \in ToSet(queue'[y]) :
           f \in ToSet(queue[y]) \/ FrameIn(y, f, stored', rights'),
         \A y \in Session : shown'[y] \subseteq stored
  PROVE  LogInv'
BY DEF LogInv, Counted, OwnIds, TaskOK, FrameOK, FrameIn, Ids

\* Shared::send of a frame that is good keeps the queues good; one without
\* messages is.
LEMMA SentGood ==
  ASSUME TypeOK, NEW s \in Session, NEW f \in Frame, queue' = Sent(s, f),
         FrameIn(s, f, stored', rights')
  PROVE  \A y \in Session : \A g \in ToSet(queue'[y]) :
           g \in ToSet(queue[y]) \/ FrameIn(y, g, stored', rights')
BY SentSet

LEMMA EmptyGood == ASSUME NEW s, NEW f, f.ms = {} PROVE FrameIn(s, f, stored', rights')
BY DEF FrameIn

LEMMA LogTaskStep == ASSUME TypeOK, TypeOK', LogInv, NEW s \in Session, TaskStep(s) PROVE LogInv'
<1>0. /\ TaskOK(s) /\ next_message_id \in Nat /\ view \subseteq rights
      /\ \A m \in stored : m.id < next_message_id
      /\ \A y \in Session : shown[y] \subseteq stored
      /\ \A y \in Session : task[y].op = "insert" => \A m \in task[y].ms : m.id \notin Ids(stored)
  BY DEF LogInv, TypeOK, Counted, TaskOK
<1>1. CASE HandleSend(s)
  <2> DEFINE r == Head(inbox[s])
             m == build_message(r)
  <2>1. r.channel \in Channel /\ r \in Request
    BY <1>1, ReadsFacts DEF HandleSend
  <2>2. UNCHANGED <<stored, rights, view, shown>>
    BY <1>1 DEF HandleSend, clientVars
  <2>3. CASE <<s, r.channel>> \in view
    <3>1. /\ next_message_id' = next_message_id + 1 /\ queue' = queue
          /\ task' = [task EXCEPT ![s] = Task("insert", r.channel, {m})]
      BY <1>1, <2>3 DEF HandleSend, AfterBuild
    <3>2. m \in Message /\ m.id = next_message_id /\ m.channel = r.channel
      BY <1>0, <2>1 DEF build_message, Message, Request
    <3> HIDE DEF m, r
    <3>3. /\ task'[s].op = "insert" /\ task'[s].ms = {m} /\ task'[s].channel = r.channel
          /\ \A y \in Session \ {s} : task'[y] = task[y]
      <4> DEFINE t == Task("insert", r.channel, {m})
      <4>1. {m} \in SUBSET Message
        BY <3>2
      <4>2. t \in Tasks /\ t.op = "insert" /\ t.ms = {m} /\ t.channel = r.channel
        BY <2>1, <4>1, TaskTypes
      <4> HIDE DEF t
      <4> QED BY <3>1, <4>2, SetTaskTyped DEF t
    <3>4. m.id \notin Ids(stored)
      BY <1>0, <3>2 DEF Ids
    <3>5. TaskOK(s)'
      <4>1. m.id < next_message_id' /\ m \in task'[s].ms
        BY <1>0, <3>1, <3>2, <3>3
      <4>2. m.id \notin Ids(stored)'
        BY <2>2, <3>4 DEF Ids
      <4>3. <<s, r.channel>> \in rights'
        BY <1>0, <2>2, <2>3
      <4> QED BY <3>2, <3>3, <4>1, <4>2, <4>3 DEF TaskOK
    <3>6. ASSUME NEW y \in Session \ {s}, task[y].op = "insert", NEW n \in task[y].ms
          PROVE  m.id # n.id
      <4>1. TaskOK(y) /\ task[y].ms \subseteq Message
        BY DEF LogInv, TypeOK, Tasks
      <4>2. n.id < next_message_id /\ n.id \in Nat
        BY <3>6, <4>1 DEF TaskOK, Message
      <4> QED BY <1>0, <3>2, <4>2
    <3>7. \A n \in stored' : n.id < next_message_id'
      BY <1>0, <2>2, <3>1 DEF TypeOK, Message
    <3>8. next_message_id <= next_message_id'
      BY <1>0, <3>1
    <3> QED BY <1>0, <2>2, <3>1, <3>3, <3>5, <3>6, <3>7, <3>8, LogKeeps DEF Ids
  <2>4. CASE <<s, r.channel>> \notin view
    <3>1. queue' = Sent(s, Error) /\ UNCHANGED <<next_message_id, task>>
      BY <1>1, <2>4 DEF HandleSend, Answer
    <3>2. \A y \in Session : \A g \in ToSet(queue'[y]) :
            g \in ToSet(queue[y]) \/ FrameIn(y, g, stored', rights')
      BY <3>1, SentGood, FrameTypes, EmptyGood
    <3> QED BY <1>0, <2>2, <3>1, <3>2, LogQuiet
  <2> QED BY <2>3, <2>4
<1>2. CASE HandleFetch(s)
  <2> DEFINE ch == Head(inbox[s]).channel
  <2>1. ch \in Channel
    BY <1>2, ReadsFacts DEF HandleFetch
  <2>2. UNCHANGED <<stored, rights, view, shown, next_message_id>>
    BY <1>2 DEF HandleFetch, clientVars
  <2>3. CASE HistoryEnabled /\ <<s, ch>> \in view \cap ReadHistory
    <3>1. task' = [task EXCEPT ![s] = Task("page", ch, {})] /\ queue' = queue
      BY <1>2, <2>3 DEF HandleFetch
    <3>2. /\ task'[s].op = "page" /\ task'[s].ms = {} /\ task'[s].channel = ch
          /\ \A y \in Session \ {s} : task'[y] = task[y]
      <4> DEFINE t == Task("page", ch, {})
      <4>1. t \in Tasks /\ t.op = "page" /\ t.ms = {} /\ t.channel = ch
        BY <2>1, TaskTypes
      <4> HIDE DEF t
      <4> QED BY <3>1, <4>1, SetTaskTyped DEF t
    <3>3. TaskOK(s)'
      BY <1>0, <2>2, <2>3, <3>2 DEF TaskOK
    <3> QED BY <1>0, <2>2, <3>1, <3>2, <3>3, LogKeeps DEF Ids
  <2>4. CASE ~ (HistoryEnabled /\ <<s, ch>> \in view \cap ReadHistory)
    <3>1. queue' = Sent(s, History(ch, {})) /\ task' = task
      BY <1>2, <2>4 DEF HandleFetch, Deny, Answer
    <3>2. History(ch, {}) \in Frame /\ History(ch, {}).ms = {}
      BY <2>1, FrameTypes
    <3>3. \A y \in Session : \A g \in ToSet(queue'[y]) :
            g \in ToSet(queue[y]) \/ FrameIn(y, g, stored', rights')
      BY <3>1, <3>2, SentGood, EmptyGood
    <3> QED BY <1>0, <2>2, <3>1, <3>3, LogQuiet
  <2> QED BY <2>3, <2>4
<1>3. CASE Throttled(s)
  <2>1. queue' = Sent(s, Error) /\ UNCHANGED <<stored, rights, view, shown, next_message_id, task>>
    BY <1>3 DEF Throttled, Answer, serverVars, clientVars
  <2>2. \A y \in Session : \A g \in ToSet(queue'[y]) :
          g \in ToSet(queue[y]) \/ FrameIn(y, g, stored', rights')
    BY <2>1, SentGood, FrameTypes, EmptyGood
  <2> QED BY <1>0, <2>1, <2>2, LogQuiet
<1>4. CASE InsertMessage(s)
  <2> DEFINE m == TheMessage(s)
  <2>1. /\ m \in Message /\ task[s].ms = {m} /\ m.id < next_message_id
        /\ m.channel = task[s].channel /\ task[s].op = "insert"
    BY <1>0, <1>4, TheMessageFacts DEF InsertMessage
  <2>2. stored' = stored \cup {m} /\ UNCHANGED <<queue, rights, view, shown, next_message_id>>
    BY <1>4, <2>1 DEF InsertMessage, clientVars
  <2>3. /\ task'[s].op = "echo" /\ task'[s].ms = {m} /\ task'[s].channel = task[s].channel
        /\ \A y \in Session \ {s} : task'[y] = task[y]
    BY <1>4, <2>1, OpTyped DEF InsertMessage
  <2> HIDE DEF m
  <2>4. TaskOK(s)'
    BY <1>0, <2>1, <2>2, <2>3 DEF TaskOK
  <2>5. ASSUME NEW y \in Session \ {s}, task[y].op = "insert", NEW n \in task[y].ms
        PROVE  n.id \notin Ids(stored)'
    <3>1. n.id # m.id
      BY <2>1, <2>5 DEF LogInv, OwnIds
    <3> QED BY <1>0, <2>2, <2>5, <3>1 DEF Ids
  <2>6. \A n \in stored' : n.id < next_message_id'
    BY <1>0, <2>1, <2>2
  <2>7. /\ stored \subseteq stored' /\ next_message_id <= next_message_id'
        /\ \A y \in Session : shown'[y] \subseteq stored'
        /\ rights \subseteq rights' /\ view' \subseteq rights'
    BY <1>0, <2>2
  <2>8. /\ task'[s].op # "insert"
        /\ \A y \in Session : \A f \in ToSet(queue'[y]) : f \in ToSet(queue[y])
    BY <2>2, <2>3
  <2>9. \A y \in Session \ {s} : task[y].op = "insert" =>
          \A n \in task[y].ms : n.id \notin Ids(stored)'
    BY <2>5
  <2> QED BY <2>3, <2>4, <2>6, <2>7, <2>8, <2>9, LogKeeps
<1>5. CASE InsertFails(s)
  <2>1. /\ queue' = Sent(s, Error) /\ UNCHANGED <<stored, rights, view, shown, next_message_id>>
        /\ task' = [task EXCEPT ![s] = Idle]
    BY <1>5 DEF InsertFails, Answer, clientVars
  <2>2. task'[s].op = "idle" /\ \A y \in Session \ {s} : task'[y] = task[y]
    BY <2>1, SetTaskTyped, TaskTypes
  <2>3. TaskOK(s)'
    BY <2>2 DEF TaskOK
  <2>4. \A y \in Session : \A f \in ToSet(queue'[y]) : f \in ToSet(queue[y]) \/ FrameIn(y, f, stored', rights')
    BY <2>1, SentGood, FrameTypes, EmptyGood
  <2> QED BY <1>0, <2>1, <2>2, <2>3, <2>4, LogKeeps DEF Ids
<1>6. CASE Echo(s)
  <2> DEFINE m == TheMessage(s)
             f == MessagePosted(m)
  <2>1. /\ m \in Message /\ task[s].ms = {m} /\ m.id < next_message_id
        /\ m.channel = task[s].channel /\ task[s].op = "echo"
    BY <1>0, <1>6, TheMessageFacts DEF Echo
  <2>2. f \in Frame /\ f.ms = {m}
    BY <2>1, FrameTypes
  <2>3. queue' = Sent(s, f) /\ UNCHANGED <<stored, rights, view, shown, next_message_id>>
    BY <1>6 DEF Echo, Answer, clientVars
  <2>4. /\ task'[s].op = "broadcast" /\ task'[s].ms = {m} /\ task'[s].channel = task[s].channel
        /\ \A y \in Session \ {s} : task'[y] = task[y]
    BY <1>6, <2>1, OpTyped DEF Echo
  <2> HIDE DEF m, f
  <2>5. TaskOK(s)' /\ FrameIn(s, f, stored', rights')
    BY <1>0, <2>1, <2>2, <2>3, <2>4 DEF TaskOK, FrameIn
  <2>6. \A y \in Session : \A g \in ToSet(queue'[y]) : g \in ToSet(queue[y]) \/ FrameIn(y, g, stored', rights')
    BY <2>2, <2>3, <2>5, SentGood
  <2> QED BY <1>0, <2>3, <2>4, <2>5, <2>6, LogKeeps DEF Ids
<1>7. CASE BroadcastFiltered(s)
  <2> DEFINE m == TheMessage(s)
             f == MessagePosted(m)
  <2>1. /\ m \in Message /\ task[s].ms = {m} /\ m.channel = task[s].channel
        /\ task[s].op = "broadcast"
    BY <1>0, <1>7, TheMessageFacts DEF BroadcastFiltered
  <2>2. f \in Frame /\ f.ms = {m}
    BY <2>1, FrameTypes
  <2>3. /\ queue' = [y \in Session |-> IF y \in Viewers(m.channel) \ {s}
                                       THEN Append(queue[y], f) ELSE queue[y]]
        /\ UNCHANGED <<stored, rights, view, shown, next_message_id>>
        /\ task' = [task EXCEPT ![s] = Idle]
    BY <1>7, <2>1 DEF BroadcastFiltered, clientVars
  <2>4. task'[s].op = "idle" /\ \A y \in Session \ {s} : task'[y] = task[y]
    BY <2>3, SetTaskTyped, TaskTypes
  <2>5. TaskOK(s)'
    BY <2>4 DEF TaskOK
  <2> HIDE DEF m, f
  <2>6. ASSUME NEW y \in Session, NEW g \in ToSet(queue'[y])
        PROVE  g \in ToSet(queue[y]) \/ FrameIn(y, g, stored', rights')
    <3>1. CASE y \in Viewers(m.channel) \ {s}
      <4>1. queue[y] \in Seq(Frame) /\ queue'[y] = Append(queue[y], f)
        BY <2>3, <3>1 DEF TypeOK
      <4>2. g \in ToSet(queue[y]) \/ g = f
        BY <2>2, <2>6, <4>1, AppendSet
      <4>3. <<y, m.channel>> \in rights /\ m \in stored
        BY <1>0, <2>1, <3>1 DEF Viewers, TaskOK
      <4>4. FrameIn(y, f, stored', rights')
        BY <2>2, <2>3, <4>3 DEF FrameIn
      <4> QED BY <4>2, <4>4
    <3>2. CASE y \notin Viewers(m.channel) \ {s}
      BY <2>3, <2>6, <3>2
    <3> QED BY <3>1, <3>2
  <2> QED BY <1>0, <2>3, <2>4, <2>5, <2>6, LogKeeps DEF Ids
<1>8. CASE ReadPage(s)
  <2> DEFINE ch == task[s].channel
  <2>1. ch \in Channel /\ <<s, ch>> \in rights
    BY <1>0, <1>8 DEF TypeOK, Tasks, TaskOK, ReadPage
  <2>2. /\ task' = [task EXCEPT ![s] = Task("reply", ch, Page(ch))]
        /\ UNCHANGED <<queue, stored, rights, view, shown, next_message_id>>
    BY <1>8 DEF ReadPage, clientVars
  <2>3. Page(ch) \subseteq stored /\ Page(ch) \in SUBSET Message /\ \A m \in Page(ch) : m.channel = ch
    BY PageFacts
  <2> HIDE DEF ch
  <2>4. /\ task'[s].op = "reply" /\ task'[s].ms = Page(ch) /\ task'[s].channel = ch
        /\ \A y \in Session \ {s} : task'[y] = task[y]
    <3> DEFINE t == Task("reply", ch, Page(ch))
    <3>1. t \in Tasks /\ t.op = "reply" /\ t.ms = Page(ch) /\ t.channel = ch
      BY <2>1, <2>3, TaskTypes
    <3> HIDE DEF t
    <3> QED BY <2>2, <3>1, SetTaskTyped DEF t
  <2>5. TaskOK(s)'
    BY <2>1, <2>2, <2>3, <2>4 DEF TaskOK
  <2> QED BY <1>0, <2>2, <2>4, <2>5, LogKeeps DEF Ids
<1>9. CASE PageFails(s)
  <2>1. /\ queue' = Sent(s, Error) /\ UNCHANGED <<stored, rights, view, shown, next_message_id>>
        /\ task' = [task EXCEPT ![s] = Idle]
    BY <1>9 DEF PageFails, Answer, clientVars
  <2>2. task'[s].op = "idle" /\ \A y \in Session \ {s} : task'[y] = task[y]
    BY <2>1, SetTaskTyped, TaskTypes
  <2>3. TaskOK(s)'
    BY <2>2 DEF TaskOK
  <2>4. \A y \in Session : \A f \in ToSet(queue'[y]) : f \in ToSet(queue[y]) \/ FrameIn(y, f, stored', rights')
    BY <2>1, SentGood, FrameTypes, EmptyGood
  <2> QED BY <1>0, <2>1, <2>2, <2>3, <2>4, LogKeeps DEF Ids
<1>10. CASE Reply(s)
  <2> DEFINE f == History(task[s].channel, task[s].ms)
  <2>1. f \in Frame /\ f.ms = task[s].ms
    BY FrameTypes DEF TypeOK, Tasks
  <2>2. /\ queue' = Sent(s, f) /\ UNCHANGED <<stored, rights, view, shown, next_message_id>>
        /\ task' = [task EXCEPT ![s] = Idle] /\ task[s].op = "reply"
    BY <1>10 DEF Reply, Answer, clientVars
  <2> HIDE DEF f
  <2>3. task'[s].op = "idle" /\ \A y \in Session \ {s} : task'[y] = task[y]
    BY <2>2, SetTaskTyped, TaskTypes
  <2>4. TaskOK(s)' /\ FrameIn(s, f, stored', rights')
    BY <1>0, <2>1, <2>2, <2>3 DEF TaskOK, FrameIn
  <2>5. \A y \in Session : \A g \in ToSet(queue'[y]) : g \in ToSet(queue[y]) \/ FrameIn(y, g, stored', rights')
    BY <2>1, <2>2, <2>4, SentGood
  <2> QED BY <1>0, <2>2, <2>3, <2>4, <2>5, LogKeeps DEF Ids
<1> QED BY <1>1, <1>2, <1>3, <1>4, <1>5, <1>6, <1>7, <1>8, <1>9, <1>10 DEF TaskStep

LEMMA LogInit == Init => LogInv
BY TaskTypes, EmptyToSet DEF Init, LogInv, Counted, OwnIds, TaskOK

LEMMA LogNext == TypeOK /\ TypeOK' /\ LogInv /\ [Next]_vars => LogInv'
<1> SUFFICES ASSUME TypeOK, TypeOK', LogInv, [Next]_vars PROVE LogInv'
  OBVIOUS
<1>0. \A y \in Session : shown[y] \subseteq stored
  BY DEF LogInv
<1>1. ASSUME UNCHANGED <<stored, rights, view, next_message_id, task, queue, shown>> PROVE LogInv'
  BY <1>0, <1>1, LogQuiet
<1>2. ASSUME NEW s \in Session, Connect(s) PROVE LogInv'
  BY <1>1, <1>2 DEF Connect
<1>3. ASSUME NEW s \in Session, Open(s) PROVE LogInv'
  BY <1>1, <1>3 DEF Open, serverVars
<1>4. ASSUME NEW s \in Session, Deliver(s) PROVE LogInv'
  <2> DEFINE f == Head(queue[s])
  <2>1. ToSet(queue[s]) = {f} \cup ToSet(Tail(queue[s]))
    BY <1>4, HeadTailSet DEF Deliver, TypeOK
  <2>2. f.ms \subseteq stored
    BY <2>1 DEF LogInv, FrameOK, FrameIn
  <2>3. \A y \in Session : ToSet(queue'[y]) \subseteq ToSet(queue[y])
    BY <1>4, <2>1 DEF Deliver, TypeOK
  <2>4. \A y \in Session : shown'[y] \subseteq stored
    <3>1. CASE s \in opened
      <4>1. shown' = [shown EXCEPT ![s] = @ \cup f.ms]
        BY <1>4, <3>1 DEF Deliver, applyEvent
      <4>2. shown \in [Session -> SUBSET Message]
        BY DEF TypeOK
      <4> HIDE DEF f
      <4>3. \A y \in Session : shown'[y] = shown[y] \/ shown'[y] = shown[y] \cup f.ms
        BY <4>1, <4>2
      <4> QED BY <1>0, <2>2, <4>3
    <3>2. CASE s \notin opened
      BY <1>0, <1>4, <3>2 DEF Deliver, clientVars
    <3> QED BY <3>1, <3>2
  <2>5. UNCHANGED <<stored, rights, view, next_message_id, task>>
    BY <1>4 DEF Deliver, serverVars
  <2> QED BY <2>3, <2>4, <2>5, LogQuiet
<1>5. ASSUME NEW s \in Session, TaskStep(s) PROVE LogInv'
  BY <1>5, LogTaskStep
<1>6. ASSUME NEW s \in Session, Disconnect(s) PROVE LogInv'
  BY <1>0, <1>6, GoneFacts, LogQuiet DEF Disconnect
<1>7. ASSUME NEW s \in Session, NEW ch \in Channel, Select(s, ch) \/ Post(s, ch) PROVE LogInv'
  BY <1>1, <1>7 DEF Select, Post, serverVars, clientVars
<1>8. ASSUME NEW s \in Session, NEW ch \in Channel, ChangeView(s, ch) PROVE LogInv'
  <2>1. /\ UNCHANGED <<stored, next_message_id, task, shown>>
        /\ rights' = rights \cup view'
    BY <1>8 DEF ChangeView, clientVars
  <2>2. PICK f \in Frame : queue' = Sent(s, f) /\ f.ms = {}
    BY <1>8, FrameTypes DEF ChangeView, Answer
  <2>3. \A y \in Session : \A g \in ToSet(queue'[y]) :
          g \in ToSet(queue[y]) \/ FrameIn(y, g, stored', rights')
    BY <2>2, SentGood, EmptyGood
  <2>4. TaskOK(s)'
    BY <2>1 DEF LogInv, TaskOK, Ids
  <2>5. next_message_id <= next_message_id' /\ \A m \in stored' : m.id < next_message_id'
    BY <2>1 DEF LogInv, TypeOK, Counted
  <2>6. \A y \in Session : task[y].op = "insert" => \A m \in task[y].ms : m.id \notin Ids(stored)'
    BY <2>1 DEF LogInv, TaskOK, Ids
  <2>7. task[s].op = "insert" =>
          \A y \in Session \ {s} : task[y].op = "insert" =>
            \A m \in task[s].ms, n \in task[y].ms : m.id # n.id
    BY DEF LogInv, OwnIds
  <2> QED BY <1>0, <2>1, <2>3, <2>4, <2>5, <2>6, <2>7, LogKeeps
<1>9. CASE Restart
  <2>1. /\ UNCHANGED <<stored, view, rights, shown>>
        /\ next_message_id' = Resumed
        /\ \A s \in Session : task'[s] = Idle
        /\ Gone({s \in Session : phase[s] = "on"})
    BY <1>9 DEF Restart
  <2>2. \A y \in Session : ToSet(queue'[y]) \subseteq ToSet(queue[y])
    BY <2>1, GoneFacts
  <2>3. Counted'
    BY <2>1, ResumedFacts DEF LogInv, Counted
  <2>4. \A s \in Session : TaskOK(s)' /\ task'[s].op # "insert"
    BY <2>1, TaskTypes DEF TaskOK
  <2>5. OwnIds'
    BY <2>4 DEF OwnIds
  <2> QED BY <1>0, <2>1, <2>2, <2>3, <2>4, <2>5 DEF LogInv, FrameOK
<1>10. CASE UNCHANGED vars
  BY <1>1, <1>10 DEF vars, serverVars, clientVars
<1> QED BY <1>2, <1>3, <1>4, <1>5, <1>6, <1>7, <1>8, <1>9, <1>10 DEF Next

LEMMA LogHolds == Spec => [](TypeOK /\ LogInv)
<1>1. Init => TypeOK /\ LogInv
  BY TypeInit, LogInit
<1>2. (TypeOK /\ LogInv) /\ [Next]_vars => (TypeOK /\ LogInv)'
  BY TypeNext, LogNext
<1> QED BY <1>1, <1>2, PTL DEF Spec

\* What a client was told of is stored: no crash, failed insert or lost task
\* makes "a message everyone saw" vanish.
THEOREM ToldIsStored == Spec => []ShownIsStored
<1>1. LogInv => ShownIsStored
  <2> SUFFICES ASSUME LogInv, NEW s \in Session PROVE Told(s) \subseteq stored
    BY DEF ShownIsStored
  <2>1. \A f \in ToSet(queue[s]) : f.ms \subseteq stored
    BY DEF LogInv, FrameOK, FrameIn
  <2>2. shown[s] \subseteq stored
    BY DEF LogInv
  <2>3. UNION {f.ms : f \in ToSet(queue[s])} \subseteq stored
    BY <2>1
  <2> QED BY <2>2, <2>3 DEF Told
<1> QED BY <1>1, LogHolds, PTL

\* An id that was handed out is free when its message reaches the table,
\* across restarts too: Store::insert_message never meets a taken key.
THEOREM IdsStayFresh == Spec => []IdsFresh
<1>1. TypeOK /\ LogInv => IdsFresh
  <2> SUFFICES ASSUME TypeOK, LogInv, NEW s \in Session, task[s].op = "insert"
               PROVE  TheMessage(s).id \notin Ids(stored)
    BY DEF IdsFresh
  <2>1. TaskOK(s)
    BY DEF LogInv
  <2>2. task[s].ms = {TheMessage(s)}
    BY <2>1, TheMessageFacts
  <2> QED BY <2>1, <2>2 DEF TaskOK
<1> QED BY <1>1, LogHolds, PTL

-----------------------------------------------------------------------------
(* The server implements the log *)

LEMMA LogRefinesInit == Init => Log!Init
BY MessagesAssumption DEF Init, Log!Init

\* Storing a message posts it, delivering a frame teaches its reader, a grant
\* allows; every other step leaves the log, the rights and the panes alone.
LEMMA LogRefinesNext ==
  TypeOK /\ LogInv /\ [Next]_vars => [Log!Next]_<<stored, rights, shown>>
<1> SUFFICES ASSUME TypeOK, LogInv, [Next]_vars
             PROVE  [Log!Next]_<<stored, rights, shown>>
  OBVIOUS
<1>1. CASE UNCHANGED <<stored, rights, shown>>
  BY <1>1
<1>2. ASSUME NEW s \in Session, InsertMessage(s) PROVE Log!Next
  <2> DEFINE m == TheMessage(s)
  <2>1. m \in Message /\ task[s].ms = {m}
    BY <1>2, TheMessageFacts DEF InsertMessage, LogInv
  <2>2. stored' = stored \cup {m} /\ m.id \notin Ids(stored) /\ UNCHANGED <<rights, shown>>
    BY <1>2, <2>1 DEF InsertMessage, clientVars
  <2> HIDE DEF m
  <2>3. Log!Post(m)
    BY <2>2 DEF Log!Post, Ids
  <2> QED BY <2>1, <2>2, <2>3 DEF Log!Next
<1>3. ASSUME NEW s \in Session, Deliver(s), s \in opened PROVE Log!Next
  <2> DEFINE f == Head(queue[s])
  <2>1. f \in ToSet(queue[s])
    BY <1>3, HeadTailSet DEF Deliver, TypeOK
  <2>2. f.ms \subseteq stored /\ \A m \in f.ms : <<s, m.channel>> \in rights
    BY <2>1 DEF LogInv, FrameOK, FrameIn
  <2>3. /\ shown' = [shown EXCEPT ![s] = @ \cup f.ms]
        /\ UNCHANGED <<stored, rights>>
    BY <1>3 DEF Deliver, applyEvent, serverVars
  <2> HIDE DEF f
  <2>4. Log!Learn(s, f.ms)
    BY <2>2, <2>3 DEF Log!Learn
  <2> QED BY <2>2, <2>4 DEF Log!Next
<1>4. ASSUME NEW s \in Session, NEW ch \in Channel, ChangeView(s, ch), ~ UNCHANGED rights
      PROVE  Log!Next
  <2>1. /\ rights' = rights \cup view' /\ view' \subseteq view \cup {<<s, ch>>}
        /\ UNCHANGED <<stored, shown>>
    BY <1>4 DEF ChangeView, clientVars
  <2>2. view \subseteq rights
    BY DEF LogInv
  <2>3. rights' = rights \cup {<<s, ch>>}
    BY <1>4, <2>1, <2>2
  <2>4. Log!Allow(s, ch)
    BY <2>1, <2>3 DEF Log!Allow
  <2> QED BY <2>4 DEF Log!Next
<1>5. ASSUME NEW s \in Session, TaskStep(s), ~ InsertMessage(s) PROVE UNCHANGED <<stored, rights, shown>>
  BY <1>5 DEF TaskStep, HandleSend, HandleFetch, Throttled, InsertFails, Echo, BroadcastFiltered,
       ReadPage, PageFails, Reply, clientVars, serverVars
<1>6. ASSUME NEW s \in Session,
             \/ Connect(s) \/ Open(s) \/ Disconnect(s) \/ (Deliver(s) /\ s \notin opened)
             \/ \E ch \in Channel : Select(s, ch) \/ Post(s, ch)
      PROVE  UNCHANGED <<stored, rights, shown>>
  BY <1>6 DEF Connect, Open, Disconnect, Deliver, Select, Post, clientVars, serverVars
<1>7. ASSUME NEW s \in Session, NEW ch \in Channel, ChangeView(s, ch) PROVE UNCHANGED <<stored, shown>>
  BY <1>7 DEF ChangeView, clientVars
<1>8. CASE Restart \/ UNCHANGED vars
  BY <1>8 DEF Restart, vars, serverVars, clientVars
<1> QED BY <1>1, <1>2, <1>3, <1>4, <1>5, <1>6, <1>7, <1>8 DEF Next

\* The tasks, queues, the database and the restarts implement a log that only
\* grows, with one message to an id, read only by those who were let in.
THEOREM ServerIsLog == Spec => ImplementsLog
<1>1. TypeOK /\ LogInv /\ [Next]_vars => [Log!Next]_<<stored, rights, shown>>
  BY LogRefinesNext
<1> QED BY <1>1, LogRefinesInit, LogHolds, PTL DEF Spec, ImplementsLog, Log!Spec

-----------------------------------------------------------------------------
(* No tab misses a message *)

\* A pair is disturbed only by a step that makes a request, loses one, reads a
\* page, stores, or takes something off the way.
LEMMA PairKeeps ==
  ASSUME NEW y \in Session, NEW c \in Channel, PairOK(y, c), stored' = stored,
         c \in requested[y],
         Asked(y, c) => Asked(y, c)',
         <<y, c>> \in lapsed <=> <<y, c>> \in lapsed',
         Fetching(y, c) <=> Fetching(y, c)',
         <<y, c>> \in view => <<y, c>> \in view' \/ Losing(y, c)',
         Losing(y, c) => Losing(y, c)',
         \A m \in In(stored, c) : m \in shown[y] => m \in shown'[y],
         ~ Asked(y, c)' /\ <<y, c>> \notin lapsed' /\ ~ Losing(y, c)' =>
           \A m \in In(stored, c) : Coming(y, m) => m \in shown'[y] \/ Coming(y, m)'
  PROVE  PairOK(y, c)'
<1>1. Synced(y, c)'
  BY DEF PairOK, Synced
<1>2. \A m \in In(stored, c) : Newer(m)' = Newer(m)
  BY DEF Newer, In
<1>3. Covered(y, c)'
  <2> SUFFICES ASSUME ~ Asked(y, c)', <<y, c>> \notin lapsed', ~ Fetching(y, c)', ~ Losing(y, c)',
                      NEW m \in In(stored', c)
               PROVE  Held(y, m)'
    BY DEF Covered
  <2>1. m \in In(stored, c)
    BY DEF In
  <2>2. Held(y, m)
    BY <2>1 DEF PairOK, Covered
  <2> QED BY <1>2, <2>1, <2>2 DEF Held
<1> QED BY <1>1, <1>3 DEF PairOK

\* A step that leaves the server and the queues alone, and marks as requested
\* only what it asks for.
LEMMA PairAsks ==
  ASSUME PaneInv, UNCHANGED <<stored, view, task, queue, shown, lapsed>>,
         \A y \in Session : ToSet(inbox[y]) \subseteq ToSet(inbox'[y]),
         \A y \in Session : \A c \in requested'[y] : c \in requested[y] \/ Asked(y, c)'
  PROVE  \A y \in Session, c \in Channel : PairOK(y, c)'
<1> SUFFICES ASSUME NEW y \in Session, NEW c \in Channel PROVE PairOK(y, c)'
  OBVIOUS
<1>1. PairOK(y, c)
  BY DEF PaneInv
<1>2. CASE c \in requested[y]
  <2>1. /\ Asked(y, c) => Asked(y, c)'
        /\ Fetching(y, c) <=> Fetching(y, c)'
        /\ Losing(y, c) => Losing(y, c)'
    BY DEF Asked, Fetching, Losing
  <2>2. \A m \in In(stored, c) : Coming(y, m) => Coming(y, m)'
    BY DEF Coming
  <2> QED BY <1>1, <1>2, <2>1, <2>2, PairKeeps
<1>3. CASE c \notin requested'[y] \/ Asked(y, c)'
  BY <1>3 DEF PairOK, Synced, Covered
<1> QED BY <1>2, <1>3

\* What a task step of s may do to a pair of another session,
LEMMA PairOthers ==
  ASSUME PaneInv, NEW s \in Session, NEW y \in Session \ {s}, NEW c \in Channel,
         c \in requested[y], UNCHANGED <<stored, view, shown>>,
         inbox'[y] = inbox[y], <<y, c>> \in lapsed <=> <<y, c>> \in lapsed',
         \A x \in Session \ {s} : task'[x] = task[x],
         ToSet(queue[y]) \subseteq ToSet(queue'[y]),
         /\ task[s].op \in {"echo", "broadcast"}
         /\ ~ Asked(y, c)' /\ <<y, c>> \notin lapsed' /\ ~ Losing(y, c)'
         => \A m \in task[s].ms : m.channel = c => Coming(y, m)'
  PROVE  PairOK(y, c)'
<1>1. PairOK(y, c)
  BY DEF PaneInv
<1>2. /\ Asked(y, c) => Asked(y, c)'
      /\ Fetching(y, c) <=> Fetching(y, c)'
      /\ Losing(y, c) => Losing(y, c)'
  BY DEF Asked, Fetching, Losing
<1>3. ASSUME ~ Asked(y, c)', <<y, c>> \notin lapsed', ~ Losing(y, c)',
             NEW m \in In(stored, c), Coming(y, m)
      PROVE  Coming(y, m)'
  <2>1. CASE task[s].op \in {"echo", "broadcast"} /\ m \in task[s].ms
    BY <1>3, <2>1 DEF In
  <2>2. CASE ~ (task[s].op \in {"echo", "broadcast"} /\ m \in task[s].ms)
    BY <1>3, <2>2 DEF Coming
  <2> QED BY <2>1, <2>2
<1> QED BY <1>1, <1>2, <1>3, PairKeeps

\* and to its own.
LEMMA PairOwn ==
  ASSUME PaneInv, NEW s \in Session, NEW c \in Channel,
         c \in requested[s], UNCHANGED <<stored, view, shown>>,
         Asked(s, c) => Asked(s, c)', <<s, c>> \in lapsed <=> <<s, c>> \in lapsed',
         Fetching(s, c) <=> Fetching(s, c)',
         \A x \in Session \ {s} : task'[x] = task[x],
         ToSet(queue[s]) \subseteq ToSet(queue'[s]),
         task[s].op \in {"echo", "reply"} => \A m \in task[s].ms : Coming(s, m)'
  PROVE  PairOK(s, c)'
<1>1. PairOK(s, c)
  BY DEF PaneInv
<1>2. Losing(s, c) => Losing(s, c)'
  BY DEF Losing
<1>3. ASSUME NEW m \in In(stored, c), Coming(s, m) PROVE Coming(s, m)'
  <2>1. CASE task[s].op \in {"echo", "reply"} /\ m \in task[s].ms
    BY <2>1
  <2>2. CASE ~ (task[s].op \in {"echo", "reply"} /\ m \in task[s].ms)
    BY <1>3, <2>2 DEF Coming
  <2> QED BY <2>1, <2>2
<1> QED BY <1>1, <1>2, <1>3, PairKeeps

\* A fetch leaves the inbox only when it is the one read.
LEMMA AskedReads ==
  ASSUME TypeOK, NEW s \in Session, NEW k, Reads(s, k), NEW c \in Channel,
         Head(inbox[s]).k = "fetch" => Head(inbox[s]).channel # c
  PROVE  Asked(s, c) => Asked(s, c)'
<1>1. ToSet(inbox[s]) = {Head(inbox[s])} \cup ToSet(inbox'[s])
  BY ReadsFacts
<1>2. FetchHistory(c) # Head(inbox[s])
  BY RequestTypes
<1> QED BY <1>1, <1>2 DEF Asked

\* Every task step but the insert keeps every pair.
LEMMA PairTaskStep ==
  ASSUME TypeOK, TypeOK', LogInv, PaneInv, NEW s \in Session, TaskStep(s), ~ InsertMessage(s)
  PROVE  \A y \in Session, c \in Channel : PairOK(y, c)'
<1>0. /\ TaskOK(s) /\ UNCHANGED <<stored, view, shown, requested>>
      /\ \A y \in Session : requested[y] # {} => phase[y] = "on"
  <2>1. TaskOK(s)
    BY DEF LogInv
  <2>2. UNCHANGED <<stored, view, shown, requested>>
    BY DEF TaskStep, HandleSend, HandleFetch, Throttled, InsertFails, Echo, BroadcastFiltered,
       ReadPage, PageFails, Reply, clientVars, serverVars
  <2> QED BY <2>1, <2>2 DEF PaneInv, TabsOK
<1> SUFFICES ASSUME NEW y \in Session, NEW c \in Channel, c \in requested[y] PROVE PairOK(y, c)'
  BY <1>0 DEF PairOK, Synced, Covered
<1>1. CASE HandleSend(s)
  <2>1. /\ Head(inbox[s]).k = "send" /\ task[s].op = "idle"
        /\ \A x \in Session \ {s} : inbox'[x] = inbox[x]
    BY <1>1, ReadsFacts, TaskTypes DEF HandleSend
  <2>2. lapsed' = lapsed
    BY <1>1 DEF HandleSend
  <2>3. /\ \A x \in Session \ {s} : task'[x] = task[x]
        /\ task'[s].op \in {"idle", "insert"}
    <3> DEFINE r == Head(inbox[s])
               t == Task("insert", r.channel, {build_message(r)})
    <3>1. CASE <<s, r.channel>> \in view
      <4>1. task' = [task EXCEPT ![s] = t]
        BY <1>1, <3>1 DEF HandleSend, AfterBuild
      <4>2. t.op = "insert"
        BY DEF Task
      <4> HIDE DEF t
      <4> QED BY <4>1, <4>2 DEF TypeOK
    <3>2. CASE <<s, r.channel>> \notin view
      BY <1>1, <2>1, <3>2 DEF HandleSend
    <3> QED BY <3>1, <3>2
  <2>4. ToSet(queue[y]) \subseteq ToSet(queue'[y])
    <3>1. queue' = queue \/ queue' = Sent(s, Error)
      BY <1>1 DEF HandleSend, Answer
    <3>2. Error \in Frame
      BY FrameTypes
    <3> QED BY <3>1, <3>2, SentSet
  <2>5. CASE y = s
    <3>1. Asked(s, c) => Asked(s, c)'
      BY <1>1, <2>1, AskedReads DEF HandleSend
    <3>2. Fetching(s, c) <=> Fetching(s, c)'
      BY <2>1, <2>3 DEF Fetching
    <3> QED BY <1>0, <2>1, <2>2, <2>3, <2>4, <2>5, <3>1, <3>2, PairOwn
  <2>6. CASE y # s
    BY <1>0, <2>1, <2>2, <2>3, <2>4, <2>6, PairOthers
  <2> QED BY <2>5, <2>6
<1>2. CASE HandleFetch(s)
  <2> DEFINE ch == Head(inbox[s]).channel
  <2>1. /\ task[s].op = "idle" /\ ch \in Channel /\ phase[s] = "on"
        /\ \A x \in Session \ {s} : inbox'[x] = inbox[x]
    BY <1>2, ReadsFacts, TaskTypes DEF HandleFetch
  <2>2. c # ch => (Asked(s, c) => Asked(s, c)')
    BY <1>2, AskedReads DEF HandleFetch
  <2>3. CASE HistoryEnabled /\ <<s, ch>> \in view \cap ReadHistory
    <3>1. task' = [task EXCEPT ![s] = Task("page", ch, {})] /\ UNCHANGED <<queue, lapsed>>
      BY <1>2, <2>3 DEF HandleFetch
    <3>2. /\ \A x \in Session \ {s} : task'[x] = task[x]
          /\ task'[s].op = "page" /\ task'[s].channel = ch
      <4> DEFINE t == Task("page", ch, {})
      <4>1. t \in Tasks /\ t.op = "page" /\ t.channel = ch
        BY <2>1, TaskTypes
      <4> HIDE DEF t, ch
      <4> QED BY <3>1, <4>1, SetTaskTyped DEF t
    <3> HIDE DEF ch
    <3>3. CASE y = s /\ c = ch
      BY <1>0, <2>3, <3>2, <3>3 DEF PairOK, Synced, Covered, Fetching
    <3>4. CASE y = s /\ c # ch
      <4>1. Fetching(s, c) <=> Fetching(s, c)'
        BY <2>1, <3>2, <3>4 DEF Fetching
      <4> QED BY <1>0, <2>1, <2>2, <3>1, <3>2, <3>4, <4>1, PairOwn
    <3>5. CASE y # s
      BY <1>0, <2>1, <3>1, <3>2, <3>5, PairOthers
    <3> QED BY <3>3, <3>4, <3>5
  <2>4. CASE ~ (HistoryEnabled /\ <<s, ch>> \in view \cap ReadHistory)
    <3>1. /\ queue' = Sent(s, History(ch, {})) /\ lapsed' = lapsed \cup {<<s, ch>>}
          /\ task' = task
      BY <1>2, <2>4 DEF HandleFetch, Deny, Answer
    <3>2. ToSet(queue[y]) \subseteq ToSet(queue'[y])
      BY <2>1, <3>1, SentSet, FrameTypes
    <3> HIDE DEF ch
    <3>3. CASE y = s /\ c = ch
      BY <2>1, <3>1, <3>3 DEF PairOK, Synced, Covered, Fetching
    <3>4. CASE y = s /\ c # ch
      <4>1. Fetching(s, c) <=> Fetching(s, c)'
        BY <3>1 DEF Fetching
      <4> QED BY <1>0, <2>1, <2>2, <3>1, <3>2, <3>4, <4>1, PairOwn
    <3>5. CASE y # s
      BY <1>0, <2>1, <3>1, <3>2, <3>5, PairOthers
    <3> QED BY <3>3, <3>4, <3>5
  <2> QED BY <2>3, <2>4
<1>3. CASE Throttled(s)
  <2> DEFINE r == Head(inbox[s])
  <2>1. /\ task[s].op = "idle" /\ r.channel \in Channel /\ task' = task
        /\ \A x \in Session \ {s} : inbox'[x] = inbox[x]
    BY <1>3, ReadsFacts, TaskTypes DEF Throttled, serverVars
  <2>2. ToSet(queue[y]) \subseteq ToSet(queue'[y])
    BY <1>3, SentSet, FrameTypes DEF Throttled, Answer
  <2>3. ~ (r.k = "fetch" /\ c = r.channel) => (Asked(s, c) => Asked(s, c)')
    BY <1>3, AskedReads DEF Throttled
  <2>4. lapsed' = IF r.k = "fetch" THEN lapsed \cup {<<s, r.channel>>} ELSE lapsed
    BY <1>3 DEF Throttled
  <2> HIDE DEF r
  <2>5. CASE y = s /\ r.k = "fetch" /\ c = r.channel
    BY <2>1, <2>4, <2>5 DEF PairOK, Synced, Covered, Fetching
  <2>6. CASE y = s /\ ~ (r.k = "fetch" /\ c = r.channel)
    <3>1. Fetching(s, c) <=> Fetching(s, c)'
      BY <2>1 DEF Fetching
    <3>2. <<s, c>> \in lapsed <=> <<s, c>> \in lapsed'
      BY <2>4, <2>6
    <3> QED BY <1>0, <2>1, <2>2, <2>3, <2>6, <3>1, <3>2, PairOwn
  <2>7. CASE y # s
    <3>1. <<y, c>> \in lapsed <=> <<y, c>> \in lapsed'
      BY <2>4, <2>7
    <3> QED BY <1>0, <2>1, <2>2, <2>7, <3>1, PairOthers
  <2> QED BY <2>5, <2>6, <2>7
<1>4. CASE InsertFails(s)
  <2>1. /\ queue' = Sent(s, Error) /\ UNCHANGED <<inbox, lapsed>> /\ task[s].op = "insert"
        /\ task' = [task EXCEPT ![s] = Idle]
    BY <1>4 DEF InsertFails, Answer
  <2>2. task'[s].op = "idle" /\ \A x \in Session \ {s} : task'[x] = task[x]
    BY <2>1, IdleTyped
  <2>3. ToSet(queue[y]) \subseteq ToSet(queue'[y])
    BY <2>1, SentSet, FrameTypes
  <2>4. (Fetching(s, c) <=> Fetching(s, c)') /\ (Asked(s, c) => Asked(s, c)')
    BY <2>1, <2>2 DEF Fetching, Asked
  <2>5. CASE y = s
    BY <1>0, <2>1, <2>2, <2>3, <2>4, <2>5, PairOwn
  <2>6. CASE y # s
    BY <1>0, <2>1, <2>2, <2>3, <2>6, PairOthers
  <2> QED BY <2>5, <2>6
<1>5. CASE Echo(s)
  <2> DEFINE f == MessagePosted(TheMessage(s))
  <2>1. f \in Frame /\ f.ms = task[s].ms /\ task[s].op = "echo"
    BY <1>0, <1>5, PostedFacts DEF Echo
  <2>2. queue' = Sent(s, f) /\ UNCHANGED <<inbox, lapsed>>
    BY <1>5 DEF Echo, Answer
  <2>3. /\ task'[s].op = "broadcast" /\ task'[s].ms = task[s].ms
        /\ \A x \in Session \ {s} : task'[x] = task[x]
    BY <1>5, OpTyped DEF Echo
  <2> HIDE DEF f
  <2>4. ToSet(queue[y]) \subseteq ToSet(queue'[y]) /\ (phase[s] = "on" => f \in ToSet(queue'[s]))
    BY <2>1, <2>2, SentSet
  <2>5. CASE y = s
    <3>1. (Fetching(s, c) <=> Fetching(s, c)') /\ (Asked(s, c) => Asked(s, c)')
      BY <2>1, <2>2, <2>3 DEF Fetching, Asked
    <3>2. f \in ToSet(queue'[s])
      BY <1>0, <2>4, <2>5
    <3>3. \A m \in task[s].ms : Coming(s, m)'
      BY <2>1, <3>2 DEF Coming
    <3> QED BY <1>0, <2>2, <2>3, <2>4, <2>5, <3>1, <3>3, PairOwn
  <2>6. CASE y # s
    <3>1. \A m \in task[s].ms : Coming(y, m)'
      BY <2>3, <2>6 DEF Coming
    <3> QED BY <1>0, <2>2, <2>3, <2>4, <2>6, <3>1, PairOthers
  <2> QED BY <2>5, <2>6
<1>6. CASE BroadcastFiltered(s)
  <2> DEFINE f == MessagePosted(TheMessage(s))
             ch == task[s].channel
  <2>1. /\ f \in Frame /\ f.ms = task[s].ms /\ task[s].op = "broadcast"
        /\ \A m \in task[s].ms : m.channel = ch
    BY <1>0, <1>6, PostedFacts DEF BroadcastFiltered
  <2>2. /\ queue' = [x \in Session |-> IF x \in Viewers(ch) \ {s} THEN Append(queue[x], f) ELSE queue[x]]
        /\ UNCHANGED <<inbox, lapsed>> /\ task' = [task EXCEPT ![s] = Idle]
    BY <1>6 DEF BroadcastFiltered
  <2>3. task'[s].op = "idle" /\ \A x \in Session \ {s} : task'[x] = task[x]
    BY <2>2, IdleTyped
  <2> HIDE DEF f, ch
  <2>4. /\ ToSet(queue[y]) \subseteq ToSet(queue'[y])
        /\ y \in Viewers(ch) \ {s} => f \in ToSet(queue'[y])
    <3>1. queue[y] \in Seq(Frame)
      BY DEF TypeOK
    <3>2. ToSet(Append(queue[y], f)) = ToSet(queue[y]) \cup {f}
      BY <2>1, <3>1, AppendSet
    <3> QED BY <2>2, <3>2
  <2>5. CASE y = s
    <3>1. (Fetching(s, c) <=> Fetching(s, c)') /\ (Asked(s, c) => Asked(s, c)')
      BY <2>1, <2>2, <2>3 DEF Fetching, Asked
    <3> QED BY <1>0, <2>1, <2>2, <2>3, <2>4, <2>5, <3>1, PairOwn
  <2>6. CASE y # s
    <3>1. ASSUME ~ Asked(y, c)', <<y, c>> \notin lapsed', ~ Losing(y, c)', ch = c
          PROVE  f \in ToSet(queue'[y])
      <4>1. ~ Asked(y, c) /\ ~ Losing(y, c)
        BY <2>2, <2>4, <3>1 DEF Asked, Losing
      <4>2. <<y, c>> \in view
        BY <2>2, <3>1, <4>1 DEF PaneInv, PairOK, Synced
      <4>3. y \in Viewers(ch) \ {s}
        BY <1>0, <2>6, <3>1, <4>2 DEF Viewers
      <4> QED BY <2>4, <4>3
    <3>2. ~ Asked(y, c)' /\ <<y, c>> \notin lapsed' /\ ~ Losing(y, c)' =>
             \A m \in task[s].ms : m.channel = c => Coming(y, m)'
      BY <2>1, <3>1 DEF Coming
    <3> QED BY <1>0, <2>2, <2>3, <2>4, <2>6, <3>2, PairOthers
  <2> QED BY <2>5, <2>6
<1>7. CASE ReadPage(s)
  <2> DEFINE ch == task[s].channel
  <2>1. ch \in Channel /\ task[s].op = "page"
    BY <1>7 DEF TypeOK, Tasks, ReadPage
  <2>2. /\ task' = [task EXCEPT ![s] = Task("reply", ch, Page(ch))]
        /\ UNCHANGED <<queue, inbox>> /\ lapsed' = lapsed \ {<<s, ch>>}
    BY <1>7 DEF ReadPage
  <2>3. Page(ch) \in SUBSET Message
    BY PageFacts
  <2>4. /\ task'[s].op = "reply" /\ task'[s].ms = Page(ch)
        /\ \A x \in Session \ {s} : task'[x] = task[x]
    <3> DEFINE t == Task("reply", ch, Page(ch))
    <3>1. t \in Tasks /\ t.op = "reply" /\ t.ms = Page(ch)
      BY <2>1, <2>3, TaskTypes
    <3> HIDE DEF t
    <3> QED BY <2>2, <3>1, SetTaskTyped DEF t
  <2>5. CASE y = s /\ c = ch
    <3>1. PairOK(s, c) /\ Fetching(s, c)
      BY <2>1, <2>5 DEF PaneInv, Fetching
    <3> HIDE DEF ch
    <3>2. Synced(s, c)'
      BY <1>0, <2>2, <2>5, <3>1 DEF PairOK, Synced, Asked, Losing
    <3>3. ASSUME NEW m \in In(stored, ch), m \notin Page(ch) PROVE Cardinality(Newer(m)') >= Limit
      <4>1. Newer(m)' = Newer(m) /\ Newer(m) = {n \in In(stored, ch) : n.id > m.id}
        BY <1>0, <3>3 DEF Newer, In
      <4>2. ~ (Cardinality(Newer(m)) < Limit)
        BY <3>3, <4>1 DEF Page
      <4>3. Cardinality(Newer(m)) \in Nat
        <5>1. Newer(m) \subseteq stored
          BY DEF Newer, In
        <5> QED BY <5>1, FS_Subset, FS_CardinalityType DEF PaneInv
      <4> QED BY <4>1, <4>2, <4>3, MessagesAssumption
    <3>4. Covered(s, c)'
      <4>1. ASSUME NEW m \in In(stored', c) PROVE Held(s, m)'
        <5>1. m \in In(stored, ch)
          BY <1>0, <2>5, <4>1 DEF In
        <5>2. CASE m \in Page(ch)
          BY <2>4, <5>2 DEF Held, Coming
        <5>3. CASE m \notin Page(ch)
          BY <3>3, <5>1, <5>3 DEF Held
        <5> QED BY <5>2, <5>3
      <4> QED BY <4>1 DEF Covered
    <3> QED BY <2>5, <3>2, <3>4 DEF PairOK
  <2>6. CASE y = s /\ c # ch
    <3>1. (Fetching(s, c) <=> Fetching(s, c)') /\ (Asked(s, c) => Asked(s, c)')
      BY <2>2, <2>4, <2>6 DEF Fetching, Asked
    <3>2. <<s, c>> \in lapsed <=> <<s, c>> \in lapsed'
      BY <2>2, <2>6
    <3> QED BY <1>0, <2>1, <2>2, <2>4, <2>6, <3>1, <3>2, PairOwn
  <2>7. CASE y # s
    <3>1. <<y, c>> \in lapsed <=> <<y, c>> \in lapsed'
      BY <2>2, <2>7
    <3> QED BY <1>0, <2>1, <2>2, <2>4, <2>7, <3>1, PairOthers
  <2> QED BY <2>5, <2>6, <2>7
<1>8. CASE PageFails(s)
  <2> DEFINE ch == task[s].channel
  <2>1. /\ queue' = Sent(s, Error) /\ UNCHANGED inbox /\ task[s].op = "page"
        /\ lapsed' = lapsed \cup {<<s, ch>>}
        /\ task' = [task EXCEPT ![s] = Idle]
    BY <1>8 DEF PageFails, Answer
  <2>2. task'[s].op = "idle" /\ \A x \in Session \ {s} : task'[x] = task[x]
    BY <2>1, IdleTyped
  <2>3. ToSet(queue[y]) \subseteq ToSet(queue'[y])
    BY <2>1, SentSet, FrameTypes
  <2>4. CASE y = s /\ c = ch
    BY <2>1, <2>2, <2>4 DEF PairOK, Synced, Covered, Fetching
  <2>5. CASE y = s /\ c # ch
    <3>1. (Fetching(s, c) <=> Fetching(s, c)') /\ (Asked(s, c) => Asked(s, c)')
      BY <2>1, <2>2, <2>5 DEF Fetching, Asked
    <3>2. <<s, c>> \in lapsed <=> <<s, c>> \in lapsed'
      BY <2>1, <2>5
    <3> QED BY <1>0, <2>1, <2>2, <2>3, <2>5, <3>1, <3>2, PairOwn
  <2>6. CASE y # s
    <3>1. <<y, c>> \in lapsed <=> <<y, c>> \in lapsed'
      BY <2>1, <2>6
    <3> QED BY <1>0, <2>1, <2>2, <2>3, <2>6, <3>1, PairOthers
  <2> QED BY <2>4, <2>5, <2>6
<1>9. CASE Reply(s)
  <2> DEFINE f == History(task[s].channel, task[s].ms)
  <2>1. f \in Frame /\ f.ms = task[s].ms
    BY FrameTypes DEF TypeOK, Tasks
  <2>2. /\ queue' = Sent(s, f) /\ UNCHANGED <<inbox, lapsed>>
        /\ task' = [task EXCEPT ![s] = Idle] /\ task[s].op = "reply"
    BY <1>9 DEF Reply, Answer
  <2> HIDE DEF f
  <2>3. task'[s].op = "idle" /\ \A x \in Session \ {s} : task'[x] = task[x]
    BY <2>2, IdleTyped
  <2>4. ToSet(queue[y]) \subseteq ToSet(queue'[y]) /\ (phase[s] = "on" => f \in ToSet(queue'[s]))
    BY <2>1, <2>2, SentSet
  <2>5. CASE y = s
    <3>1. (Fetching(s, c) <=> Fetching(s, c)') /\ (Asked(s, c) => Asked(s, c)')
      BY <2>2, <2>3 DEF Fetching, Asked
    <3>2. f \in ToSet(queue'[s])
      BY <1>0, <2>4, <2>5
    <3>3. \A m \in task[s].ms : Coming(s, m)'
      BY <2>1, <3>2 DEF Coming
    <3> QED BY <1>0, <2>2, <2>3, <2>4, <2>5, <3>1, <3>3, PairOwn
  <2>6. CASE y # s
    BY <1>0, <2>2, <2>3, <2>4, <2>6, PairOthers
  <2> QED BY <2>5, <2>6
<1> QED BY <1>1, <1>2, <1>3, <1>4, <1>5, <1>6, <1>7, <1>8, <1>9 DEF TaskStep

\* A message that is stored is on its way to everyone, and pushes older ones
\* down the page.
LEMMA PairInsert ==
  ASSUME TypeOK, LogInv, PaneInv, NEW s \in Session, InsertMessage(s)
  PROVE  IsFiniteSet(stored') /\ \A y \in Session, c \in Channel : PairOK(y, c)'
<1> DEFINE new == TheMessage(s)
<1>1. /\ task[s].op = "insert" /\ stored' = stored \cup task[s].ms
      /\ UNCHANGED <<view, inbox, queue, lapsed, shown, requested>>
  BY DEF InsertMessage, clientVars
<1>2. task[s].ms = {new}
  <2>1. TaskOK(s)
    BY DEF LogInv
  <2> QED BY <1>1, <2>1, TheMessageFacts
<1>3. /\ task'[s].op = "echo" /\ task'[s].ms = task[s].ms
      /\ \A x \in Session \ {s} : task'[x] = task[x]
  BY OpTyped DEF InsertMessage
<1> HIDE DEF new
<1>4. IsFiniteSet(stored')
  BY <1>1, <1>2, FS_AddElement DEF PaneInv
<1> SUFFICES ASSUME NEW y \in Session, NEW c \in Channel PROVE PairOK(y, c)'
  BY <1>4
<1>5. /\ PairOK(y, c)
      /\ Asked(y, c)' <=> Asked(y, c)
      /\ Losing(y, c)' <=> Losing(y, c)
      /\ Fetching(y, c)' <=> Fetching(y, c)
  BY <1>1, <1>3 DEF PaneInv, Asked, Losing, Fetching
<1>6. Synced(y, c)'
  BY <1>1, <1>5 DEF PairOK, Synced
<1>7. ASSUME NEW m \in In(stored', c), Held(y, m) \/ m \notin stored PROVE Held(y, m)'
  <2>1. CASE m \in task[s].ms
    BY <1>3, <2>1 DEF Held, Coming
  <2>2. CASE Coming(y, m)
    BY <1>1, <1>3, <2>2 DEF Held, Coming
  <2>3. CASE m \in shown[y]
    BY <1>1, <2>3 DEF Held
  <2>4. CASE Cardinality(Newer(m)) >= Limit
    <3>1. Newer(m) \subseteq Newer(m)' /\ Newer(m)' \subseteq stored'
      BY <1>1 DEF Newer, In
    <3>2. IsFiniteSet(Newer(m)')
      BY <1>4, <3>1, FS_Subset
    <3>3. /\ IsFiniteSet(Newer(m)) /\ Cardinality(Newer(m)) <= Cardinality(Newer(m)')
      BY <3>1, <3>2, FS_Subset
    <3>4. Cardinality(Newer(m)) \in Nat /\ Cardinality(Newer(m)') \in Nat
      BY <3>2, <3>3, FS_CardinalityType
    <3>5. Cardinality(Newer(m)') >= Limit
      BY <2>4, <3>3, <3>4, MessagesAssumption
    <3> QED BY <3>5 DEF Held
  <2> QED BY <1>1, <1>7, <2>1, <2>2, <2>3, <2>4 DEF Held, In
<1>8. Covered(y, c)'
  <2> SUFFICES ASSUME c \in requested[y], ~ Asked(y, c), <<y, c>> \notin lapsed, ~ Fetching(y, c),
                      ~ Losing(y, c), NEW m \in In(stored', c)
               PROVE  Held(y, m)'
    BY <1>1, <1>5 DEF Covered
  <2>1. m \in stored => Held(y, m)
    BY <1>5 DEF PairOK, Covered, In
  <2> QED BY <1>7, <2>1
<1> QED BY <1>6, <1>8 DEF PairOK

\* A frame that reaches an open tab is shown; the one that takes a channel
\* away also takes back that it was asked for.
LEMMA PairDeliver ==
  ASSUME TypeOK, PaneInv, NEW s \in Session, Deliver(s)
  PROVE  TabsOK' /\ \A y \in Session, c \in Channel : PairOK(y, c)'
<1> DEFINE f == Head(queue[s])
<1>1. ToSet(queue[s]) = {f} \cup ToSet(Tail(queue[s])) /\ f \in Frame
  BY HeadTailSet DEF Deliver, TypeOK
<1>2. /\ \A y \in Session \ {s} : queue'[y] = queue[y]
      /\ queue'[s] = Tail(queue[s])
      /\ UNCHANGED <<phase, stored, view, task, inbox, lapsed, opened>>
  BY DEF Deliver, TypeOK, serverVars, clientVars, applyEvent
<1>3. s \notin opened => UNCHANGED <<shown, requested>> /\ requested[s] = {}
  BY DEF Deliver, clientVars, PaneInv, TabsOK
<1>4. s \in opened =>
        /\ shown' = [shown EXCEPT ![s] = @ \cup f.ms]
        /\ requested' = IF f.k = "removed" THEN [requested EXCEPT ![s] = @ \ {f.channel}]
                        ELSE requested
  BY DEF Deliver, applyEvent, ForgetRequest
<1>5. shown \in [Session -> SUBSET Message] /\ requested \in [Session -> SUBSET Channel]
  BY DEF TypeOK
<1> HIDE DEF f
<1>6. \A y \in Session : shown[y] \subseteq shown'[y] /\ requested'[y] \subseteq requested[y]
  BY <1>3, <1>4, <1>5
<1>7. TabsOK'
  BY <1>2, <1>6 DEF PaneInv, TabsOK
<1>8. ASSUME NEW y \in Session, NEW c \in Channel, c \in requested'[y] PROVE PairOK(y, c)'
  <2>1. /\ c \in requested[y] /\ PairOK(y, c)
        /\ Asked(y, c) => Asked(y, c)'
        /\ Fetching(y, c) <=> Fetching(y, c)'
    BY <1>2, <1>6, <1>8 DEF PaneInv, Asked, Fetching
  <2>2. CASE y # s
    <3>1. Losing(y, c) => Losing(y, c)'
      BY <1>2, <2>2 DEF Losing
    <3>2. \A m \in In(stored, c) : Coming(y, m) => Coming(y, m)'
      BY <1>2, <2>2 DEF Coming
    <3> QED BY <1>2, <1>6, <2>1, <3>1, <3>2, PairKeeps
  <2>3. CASE y = s
    <3>1. s \in opened
      BY <1>3, <1>8, <2>1, <2>3
    <3>2. f # ChannelRemoved(c)
      <4>1. ChannelRemoved(c).k = "removed" /\ ChannelRemoved(c).channel = c
        BY FrameTypes
      <4> QED BY <1>4, <1>5, <1>8, <2>3, <3>1, <4>1
    <3>3. Losing(y, c) => Losing(y, c)'
      BY <1>1, <1>2, <2>3, <3>2 DEF Losing
    <3>4. f.ms \subseteq shown'[s]
      BY <1>4, <1>5, <3>1
    <3>5. \A m \in In(stored, c) : Coming(y, m) => m \in shown'[y] \/ Coming(y, m)'
      BY <1>1, <1>2, <2>3, <3>4 DEF Coming
    <3> QED BY <1>2, <1>6, <2>1, <3>3, <3>5, PairKeeps
  <2> QED BY <2>2, <2>3
<1>9. ASSUME NEW y \in Session, NEW c \in Channel, c \notin requested'[y] PROVE PairOK(y, c)'
  BY <1>9 DEF PairOK, Synced, Covered
<1> QED BY <1>7, <1>8, <1>9

\* A grant and its loss are told to whoever is connected.
LEMMA PairView ==
  ASSUME TypeOK, PaneInv, NEW s \in Session, NEW ch \in Channel, ChangeView(s, ch)
  PROVE  \A y \in Session, c \in Channel : PairOK(y, c)'
<1>1. UNCHANGED <<stored, task, inbox, lapsed, shown, requested>>
  BY DEF ChangeView, clientVars
<1>2. PICK f \in Frame : /\ queue' = Sent(s, f)
                         /\ <<s, ch>> \in view => f = ChannelRemoved(ch)
  BY FrameTypes DEF ChangeView, Answer
<1>3. \A y \in Session, c \in Channel : <<y, c>> \in view => <<y, c>> \in view' \/ (y = s /\ c = ch)
  BY DEF ChangeView
<1>4. /\ \A y \in Session : ToSet(queue[y]) \subseteq ToSet(queue'[y])
      /\ phase[s] = "on" => f \in ToSet(queue'[s])
  BY <1>2, SentSet
<1>5. ASSUME NEW y \in Session, NEW c \in Channel, c \in requested[y] PROVE PairOK(y, c)'
  <2>1. /\ PairOK(y, c) /\ phase[y] = "on"
        /\ Asked(y, c) => Asked(y, c)'
        /\ Fetching(y, c) <=> Fetching(y, c)'
    BY <1>1, <1>5 DEF PaneInv, TabsOK, Asked, Fetching
  <2>2. Losing(y, c) => Losing(y, c)'
    BY <1>4 DEF Losing
  <2>3. <<y, c>> \in view => <<y, c>> \in view' \/ Losing(y, c)'
    BY <1>2, <1>3, <1>4, <2>1 DEF Losing
  <2>4. \A m \in In(stored, c) : Coming(y, m) => Coming(y, m)'
    BY <1>1, <1>4 DEF Coming
  <2> QED BY <1>1, <1>5, <2>1, <2>2, <2>3, <2>4, PairKeeps
<1>6. ASSUME NEW y \in Session, NEW c \in Channel, c \notin requested[y] PROVE PairOK(y, c)'
  BY <1>1, <1>6 DEF PairOK, Synced, Covered
<1> QED BY <1>5, <1>6

LEMMA PaneInit == Init => PaneInv
BY FS_EmptySet DEF Init, PaneInv, TabsOK, PairOK, Synced, Covered

LEMMA PaneNext == TypeOK /\ TypeOK' /\ LogInv /\ PaneInv /\ [Next]_vars => PaneInv'
<1> SUFFICES ASSUME TypeOK, TypeOK', LogInv, PaneInv, [Next]_vars PROVE PaneInv'
  OBVIOUS
<1>0. /\ IsFiniteSet(stored) /\ phase \in [Session -> {"out", "on", "gone"}]
      /\ requested \in [Session -> SUBSET Channel]
      /\ \A s \in Session : (s \in opened => phase[s] = "on") /\ (s \notin opened => requested[s] = {})
  BY DEF PaneInv, TypeOK, TabsOK
<1>1. ASSUME NEW s \in Session, Connect(s) PROVE PaneInv'
  <2>1. /\ UNCHANGED <<stored, view, task, queue, shown, lapsed, inbox, requested, opened>>
        /\ phase' = [phase EXCEPT ![s] = "on"]
    BY <1>1 DEF Connect
  <2>2. TabsOK'
    BY <1>0, <2>1 DEF TabsOK
  <2>3. \A y \in Session, c \in Channel : PairOK(y, c)'
    BY <2>1, PairAsks
  <2> QED BY <1>0, <2>1, <2>2, <2>3 DEF PaneInv
<1>2. ASSUME NEW s \in Session, NEW ch \in Channel,
             UNCHANGED <<stored, view, task, queue, shown, lapsed, phase>>,
             phase[s] = "on", opened' = opened \cup {s},
             Requesting(s, ch) \/ UNCHANGED <<requested, inbox>>
      PROVE  PaneInv'
  <2>1. /\ \A y \in Session : ToSet(inbox[y]) \subseteq ToSet(inbox'[y])
        /\ \A y \in Session : \A c \in requested'[y] :
             c \in requested[y] \/ (y = s /\ c = ch /\ FetchHistory(ch) \in ToSet(inbox'[s]))
    BY <1>2, RequestingFacts
  <2>2. \A y \in Session : \A c \in requested'[y] : c \in requested[y] \/ Asked(y, c)'
    BY <2>1 DEF Asked
  <2>3. \A y \in Session, c \in Channel : PairOK(y, c)'
    BY <1>2, <2>1, <2>2, PairAsks
  <2>4. TabsOK'
    BY <1>0, <1>2, <2>1 DEF TabsOK
  <2> QED BY <1>0, <1>2, <2>3, <2>4 DEF PaneInv
<1>3. ASSUME NEW s \in Session, Open(s) PROVE PaneInv'
  <2>1. /\ UNCHANGED <<stored, view, task, queue, shown, lapsed, phase>> /\ phase[s] = "on"
        /\ opened' = opened \cup {s}
        /\ Requesting(s, defaultChannel) \/ UNCHANGED <<requested, inbox>>
    BY <1>3 DEF Open, serverVars
  <2> QED BY <1>2, <2>1, MessagesAssumption
<1>4. ASSUME NEW s \in Session, NEW ch \in Channel, Select(s, ch) PROVE PaneInv'
  <2>1. /\ UNCHANGED <<stored, view, task, queue, shown, lapsed, phase>> /\ phase[s] = "on"
        /\ opened' = opened \cup {s}
        /\ Requesting(s, ch)
    BY <1>4 DEF Select, serverVars
  <2> QED BY <1>2, <2>1
<1>5. ASSUME NEW s \in Session, NEW ch \in Channel, Post(s, ch) PROVE PaneInv'
  <2>1. /\ UNCHANGED <<stored, view, task, queue, shown, lapsed, phase, requested, opened>>
        /\ inbox' = [inbox EXCEPT ![s] = Append(@, SendMessage(ch, sent + 1))]
    BY <1>5 DEF Post, serverVars, clientVars
  <2>2. inbox \in [Session -> Seq(Request)] /\ sent + 1 \in Nat
    BY DEF TypeOK
  <2>3. ToSet(Append(inbox[s], SendMessage(ch, sent + 1)))
          = ToSet(inbox[s]) \cup {SendMessage(ch, sent + 1)}
    BY <2>2, AppendSet, RequestTypes
  <2>4. \A y \in Session : ToSet(inbox[y]) \subseteq ToSet(inbox'[y])
    BY <2>1, <2>2, <2>3
  <2>5. \A y \in Session, c \in Channel : PairOK(y, c)'
    BY <2>1, <2>4, PairAsks
  <2> QED BY <1>0, <2>1, <2>5 DEF PaneInv, TabsOK
<1>6. ASSUME NEW s \in Session, Deliver(s) PROVE PaneInv'
  <2>1. UNCHANGED stored
    BY <1>6 DEF Deliver, serverVars
  <2> QED BY <1>0, <1>6, <2>1, PairDeliver DEF PaneInv
<1>7. ASSUME NEW s \in Session, TaskStep(s) PROVE PaneInv'
  <2>1. UNCHANGED <<phase, opened, requested>>
    BY <1>7 DEF TaskStep, HandleSend, HandleFetch, Throttled, InsertMessage, InsertFails, Echo,
         BroadcastFiltered, ReadPage, PageFails, Reply, clientVars, serverVars
  <2>2. TabsOK'
    BY <1>0, <2>1 DEF TabsOK
  <2>3. CASE InsertMessage(s)
    BY <2>2, <2>3, PairInsert DEF PaneInv
  <2>4. CASE ~ InsertMessage(s)
    <3>1. UNCHANGED stored
      BY <1>7, <2>4 DEF TaskStep, HandleSend, HandleFetch, Throttled, InsertFails, Echo,
           BroadcastFiltered, ReadPage, PageFails, Reply, serverVars
    <3> QED BY <1>0, <1>7, <2>2, <2>4, <3>1, PairTaskStep DEF PaneInv
  <2> QED BY <2>3, <2>4
<1>8. ASSUME NEW s \in Session, Disconnect(s) PROVE PaneInv'
  <2>1. /\ Gone({s}) /\ UNCHANGED <<stored, view, task, shown>>
    BY <1>8 DEF Disconnect
  <2>2. \A y \in Session \ {s} : /\ queue'[y] = queue[y] /\ inbox'[y] = inbox[y]
                                 /\ requested'[y] = requested[y] /\ phase'[y] = phase[y]
    BY <2>1 DEF Gone
  <2>3. /\ requested'[s] = {} /\ opened' = opened \ {s}
        /\ lapsed' = {p \in lapsed : p[1] \notin {s}}
    BY <2>1 DEF Gone
  <2>4. TabsOK'
    BY <1>0, <2>2, <2>3 DEF TabsOK
  <2>5. ASSUME NEW y \in Session, NEW c \in Channel PROVE PairOK(y, c)'
    <3>1. CASE y = s \/ c \notin requested'[y]
      BY <2>3, <3>1 DEF PairOK, Synced, Covered
    <3>2. CASE y # s /\ c \in requested'[y]
      <4>1. /\ PairOK(y, c) /\ c \in requested[y]
            /\ Asked(y, c) => Asked(y, c)'
            /\ Fetching(y, c) <=> Fetching(y, c)'
            /\ Losing(y, c) => Losing(y, c)'
        BY <2>1, <2>2, <3>2 DEF PaneInv, Asked, Fetching, Losing
      <4>2. <<y, c>> \in lapsed <=> <<y, c>> \in lapsed'
        BY <2>3, <3>2
      <4>3. \A m \in In(stored, c) : Coming(y, m) => Coming(y, m)'
        BY <2>1, <2>2, <3>2 DEF Coming
      <4> QED BY <2>1, <4>1, <4>2, <4>3, PairKeeps
    <3> QED BY <3>1, <3>2
  <2> QED BY <1>0, <2>1, <2>4, <2>5 DEF PaneInv
<1>9. ASSUME NEW s \in Session, NEW ch \in Channel, ChangeView(s, ch) PROVE PaneInv'
  <2>1. UNCHANGED <<stored, phase, opened, requested>>
    BY <1>9 DEF ChangeView, clientVars
  <2>2. TabsOK'
    BY <1>0, <2>1 DEF TabsOK
  <2> QED BY <1>0, <1>9, <2>1, <2>2, PairView DEF PaneInv
<1>10. CASE Restart
  <2> DEFINE who == {s \in Session : phase[s] = "on"}
  <2>1. UNCHANGED stored /\ Gone(who)
    BY <1>10 DEF Restart
  <2>2. \A y \in Session : requested'[y] = {} /\ y \notin opened'
    BY <1>0, <2>1 DEF Gone
  <2>3. TabsOK' /\ \A y \in Session, c \in Channel : PairOK(y, c)'
    BY <2>2 DEF TabsOK, PairOK, Synced, Covered
  <2> QED BY <1>0, <2>1, <2>3 DEF PaneInv
<1>11. CASE UNCHANGED vars
  <2>1. UNCHANGED <<stored, view, task, queue, shown, lapsed, phase, opened, requested, inbox>>
    BY <1>11 DEF vars, serverVars, clientVars
  <2>2. \A y \in Session, c \in Channel : PairOK(y, c)'
    BY <2>1, PairAsks
  <2> QED BY <1>0, <2>1, <2>2 DEF PaneInv, TabsOK
<1> QED BY <1>1, <1>3, <1>4, <1>5, <1>6, <1>7, <1>8, <1>9, <1>10, <1>11 DEF Next

\* A tab that asked for a channel and has nothing on its way holds all of it
\* down to a page's depth, however pages, posts, changes of permission and
\* disconnects interleave.
THEOREM NoMessageMissed == Spec => []NothingMissed
<1>1. Init => PaneInv
  BY PaneInit
<1>2. TypeOK /\ LogInv /\ PaneInv /\ TypeOK' /\ [Next]_vars => PaneInv'
  BY PaneNext
<1>3. TypeOK /\ PaneInv => NothingMissed
  <2> SUFFICES ASSUME TypeOK, PaneInv, NEW s \in Session, Settled(s),
                      NEW ch \in requested[s], <<s, ch>> \notin lapsed,
                      NEW m \in In(stored, ch) \ shown[s]
               PROVE  Cardinality({n \in In(stored, ch) : n.id > m.id}) >= Limit
    BY DEF NothingMissed
  <2>1. ch \in Channel
    BY DEF TypeOK
  <2>2. ToSet(queue[s]) = {} /\ ToSet(inbox[s]) = {} /\ task[s].op = "idle"
    BY EmptyToSet, TaskTypes DEF Settled
  <2>3. ~ Asked(s, ch) /\ ~ Losing(s, ch) /\ ~ Fetching(s, ch) /\ ~ Coming(s, m)
    BY <2>2 DEF Asked, Losing, Fetching, Coming, Settled
  <2>4. Held(s, m)
    BY <2>1, <2>3 DEF PaneInv, PairOK, Covered
  <2>5. Newer(m) = {n \in In(stored, ch) : n.id > m.id}
    BY DEF Newer, In
  <2> QED BY <2>3, <2>4, <2>5 DEF Held
<1> QED BY <1>1, <1>2, <1>3, LogHolds, PTL DEF Spec
=============================================================================
