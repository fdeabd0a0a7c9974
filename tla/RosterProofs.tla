---------------------------- MODULE RosterProofs ----------------------------
(***************************************************************************)
(* Proofs about Roster, for any number of sessions, channels, identities   *)
(* and requests and for any queue depth.                                   *)
(***************************************************************************)
EXTENDS Roster, SequenceTheorems, FiniteSetTheorems, TLAPS

-----------------------------------------------------------------------------
(* Sequences and the sets of their elements *)

\* Taking the head off a sequence splits the set of its elements.
LEMMA HeadTailRange ==
  ASSUME NEW S, NEW q \in Seq(S), q # <<>>
  PROVE  /\ Head(q) \in S
         /\ Tail(q) \in Seq(S)
         /\ Range(q) = {Head(q)} \cup Range(Tail(q))
<1>1. Head(q) \in S /\ Tail(q) \in Seq(S)
  BY HeadTailProperties
<1>2. /\ Len(q) \in Nat \ {0}
      /\ DOMAIN q = 1..Len(q)
      /\ Head(q) = q[1]
      /\ DOMAIN Tail(q) = 1..(Len(q) - 1)
      /\ \A i \in 1..(Len(q) - 1) : Tail(q)[i] = q[i + 1]
  BY <1>1, HeadTailProperties, LenProperties, EmptySeq
<1>3. ASSUME NEW e
      PROVE e \in Range(q) <=> e \in {Head(q)} \cup Range(Tail(q))
  <2>1. e \in Range(q) => e = Head(q) \/ e \in Range(Tail(q))
    <3>1. SUFFICES ASSUME NEW i \in 1..Len(q), e = q[i], i # 1
                   PROVE  e \in Range(Tail(q))
      BY <1>2 DEF Range
    <3>2. i - 1 \in 1..(Len(q) - 1) /\ Tail(q)[i - 1] = q[i]
      BY <1>2, <3>1
    <3> QED BY <1>2, <3>1, <3>2 DEF Range
  <2>2. e = Head(q) => e \in Range(q)
    BY <1>2 DEF Range
  <2>3. e \in Range(Tail(q)) => e \in Range(q)
    <3>1. SUFFICES ASSUME NEW i \in 1..(Len(q) - 1), e = Tail(q)[i]
                   PROVE  e \in Range(q)
      BY <1>2 DEF Range
    <3> QED BY <1>2, <3>1, i + 1 \in 1..Len(q) DEF Range
  <2> QED BY <2>1, <2>2, <2>3
<1> QED BY <1>1, <1>3

\* Appending adds one element.
LEMMA AppendRange ==
  ASSUME NEW S, NEW q \in Seq(S), NEW e \in S
  PROVE  /\ Append(q, e) \in Seq(S)
         /\ Range(Append(q, e)) = Range(q) \cup {e}
<1>1. /\ Append(q, e) \in Seq(S)
      /\ Append(q, e) = q \o <<e>>
  BY AppendProperties, AppendIsConcat
<1>2. <<e>> \in Seq(S) /\ Range(<<e>>) = {e}
  BY DEF Range
<1>3. Range(q \o <<e>>) = Range(q) \cup Range(<<e>>)
  BY <1>2, RangeConcatenation
<1> QED BY <1>1, <1>2, <1>3

\* The elements of short sequences.
LEMMA ShortRanges ==
  /\ Range(<<>>) = {}
  /\ \A x : Range(<<x>>) = {x}
  /\ \A x, y : Range(<<x, y>>) = {x, y}
<1>1. Range(<<>>) = {}
  BY DEF Range
<1>2. ASSUME NEW x PROVE Range(<<x>>) = {x}
  BY DEF Range
<1>3. ASSUME NEW x, NEW y PROVE Range(<<x, y>>) = {x, y}
  <2>1. DOMAIN <<x, y>> = {1, 2}
    OBVIOUS
  <2> QED BY <2>1 DEF Range
<1> QED BY <1>1, <1>2, <1>3

-----------------------------------------------------------------------------
(* Types *)

\* Every frame the handlers build is a frame, every task a task.
LEMMA FrameTypes ==
  /\ Note \in Frame
  /\ \A c \in Session : UserJoined(c) \in Frame /\ UserLeft(c) \in Frame
  /\ \A c \in Session, ch \in Channel \cup {None} :
       UserMoved(c, ch) \in Frame /\ UserUpdated(c, ch) \in Frame
BY DEF Frame, Note, UserJoined, UserLeft, UserMoved, UserUpdated

LEMMA TaskTypes ==
  ASSUME NEW f \in Frame, NEW w \in SUBSET Session, NEW c \in Session
  PROVE  /\ Broadcast(f, w) \in Tasks
         /\ Send(f, c) \in Tasks
         /\ Drop(w) \in Tasks
         /\ TellGone(c) \in Tasks
         /\ EjectAll(w) \in Tasks
         /\ Close(c) \in Tasks
         /\ Ack(c) \in Tasks
         /\ Task("mute", w, f, None) \in Tasks
         /\ Task("move", w, f, None) \in Tasks
         /\ Task("evicted", w, f, None) \in Tasks
<1>1. Note \in Frame
  BY FrameTypes
<1>2. \A op \in {"broadcast", "send", "drop", "gone", "eject", "close", "mute", "move", "evicted"},
         u \in SUBSET Session, g \in Frame : Task(op, u, g, None) \in Tasks
  BY DEF Task, Tasks
<1> QED BY <1>1, <1>2 DEF Broadcast, Send, Drop, TellGone, EjectAll, Close, Ack

LEMMA StoreTaskTypes ==
  /\ \A f \in Fingerprint : /\ Task("ban", {}, Note, f) \in Tasks
                            /\ Task("unban", {}, Note, f) \in Tasks
                            /\ Task("sweep", {}, Note, f) \in Tasks
  /\ \A ch \in Channel : Task("delete", {}, Note, ch) \in Tasks
  /\ \A u \in [id : Channel, settings : Settings] : Task("update", {}, Note, u) \in Tasks
BY DEF Task, Tasks

\* What a task of each kind carries.
LEMMA TaskFields ==
  ASSUME NEW t \in Tasks
  PROVE  /\ t.who \subseteq Session
         /\ t.frame \in Frame
         /\ t.op \in {"ban", "unban", "sweep"} => t.arg \in Fingerprint
         /\ t.op = "update" => t.arg.id \in Channel /\ t.arg.settings \in Settings
         /\ t.op = "delete" => t.arg \in Channel
BY FrameTypes DEF Tasks

\* Replacing the head of a todo by typed tasks keeps it typed.
LEMMA ThenTyped ==
  ASSUME NEW s \in Session, NEW new \in Seq(Tasks),
         todo \in [Session -> Seq(Tasks)], todo[s] # <<>>, Then(s, new)
  PROVE  /\ todo' \in [Session -> Seq(Tasks)]
         /\ Range(todo'[s]) = Range(new) \cup Range(Tail(todo[s]))
         /\ \A x \in Session \ {s} : todo'[x] = todo[x]
<1>1. Tail(todo[s]) \in Seq(Tasks)
  BY HeadTailRange
<1>2. /\ new \o Tail(todo[s]) \in Seq(Tasks)
      /\ Range(new \o Tail(todo[s])) = Range(new) \cup Range(Tail(todo[s]))
  BY <1>1, ConcatProperties, RangeConcatenation
<1>3. todo' = [todo EXCEPT ![s] = new \o Tail(todo[s])]
  BY DEF Then
<1> QED BY <1>2, <1>3

\* The head of a todo is a task.
LEMMA DoingTyped ==
  ASSUME NEW s \in Session, NEW op, todo \in [Session -> Seq(Tasks)], Doing(s, op)
  PROVE  /\ todo[s] # <<>>
         /\ Head(todo[s]) \in Tasks
         /\ Head(todo[s]).op = op
         /\ Range(todo[s]) = {Head(todo[s])} \cup Range(Tail(todo[s]))
BY HeadTailRange DEF Doing

LEMMA QueuedTyped ==
  ASSUME NEW to, NEW f \in Frame, queue \in [Session -> Seq(Frame)]
  PROVE  /\ Queued(to, f) \in [Session -> Seq(Frame)]
         /\ \A y \in Session :
              Range(Queued(to, f)[y]) =
                IF y \in to /\ Listening(y) /\ ~Full(y) THEN Range(queue[y]) \cup {f}
                ELSE Range(queue[y])
<1>1. \A y \in Session : /\ Append(queue[y], f) \in Seq(Frame)
                         /\ Range(Append(queue[y], f)) = Range(queue[y]) \cup {f}
  BY AppendRange
<1> QED BY <1>1 DEF Queued

\* A request writes the whole todo of its session, which was empty.
LEMMA RequestTyped ==
  ASSUME NEW s \in Session, NEW new \in Seq(Tasks),
         todo \in [Session -> Seq(Tasks)], requests \in 0..MaxRequests, Request(s, new)
  PROVE  /\ todo' \in [Session -> Seq(Tasks)]
         /\ todo[s] = <<>>
         /\ todo'[s] = new
         /\ \A x \in Session \ {s} : todo'[x] = todo[x]
         /\ requests' \in 0..MaxRequests
BY RosterAssumption DEF Request

-----------------------------------------------------------------------------
(* The work that is left *)

\* A frame that says in which room x is.
Word(f, x) == f.k \in {"joined", "moved", "updated"} /\ f.c = x

\* A task that will say so to others, and the room it will name.  A move that
\* is still to be made says nothing yet; the evicted are in no room.
About(t, x) ==
  \/ t.op # "move" /\ Word(t.frame, x)
  \/ t.op = "evicted" /\ x \in t.who
Says(t) == IF t.op = "evicted" THEN None ELSE t.frame.to

\* The eviction of x is still to be announced.
Evicting(x) == \E s \in Session : \E t \in Range(todo[s]) : t.op = "evicted" /\ x \in t.who

\* What a step may have to say of x: where x is after it, or the eviction
\* that it found still to be announced.
Grounded(x, to) ==
  /\ x \in clients \/ (x \in Session /\ phase[x] = "running") \/ Evicting(x)
  /\ to = channel'[x] \/ (to = None /\ Evicting(x))

\* A task that a step may add: a departure is of a client that this very step
\* took off the roster, and what is said of a client's room has its ground.
FreshTask(t) ==
  /\ t.op \notin {"move", "delete"} /\ t.frame.k # "joined"
  /\ t.frame.k = "left" => t.frame.c \in clients /\ t.frame.c \notin clients'
  /\ t.op = "gone" => \E x \in clients : x \notin clients' /\ t.who = {x}
  /\ \A x : About(t, x) => Grounded(x, Says(t))

\* The tasks that are alone in their todo: the announcement of an arrival, and
\* the two commands that will change where others are.
Alone(t) == t.op \in {"move", "delete"} \/ t.frame.k = "joined"
Opening(t) ==
  \/ t.op = "move" /\ t.frame.k = "moved"
  \/ t.op = "delete" /\ t.frame = Note
Arrival(s) == Broadcast(UserJoined(s), {s})

FreshSeq(q) == q \in Seq(Tasks) /\ \A t \in Range(q) : FreshTask(t)

LEMMA FreshSeqs ==
  /\ FreshSeq(<<>>)
  /\ \A t \in Tasks : FreshTask(t) => FreshSeq(<<t>>)
  /\ \A t, u \in Tasks : FreshTask(t) /\ FreshTask(u) => FreshSeq(<<t, u>>)
  /\ \A q, r \in Seq(Tasks) : FreshSeq(q) /\ FreshSeq(r) => FreshSeq(q \o r)
<1>1. FreshSeq(<<>>)
  BY EmptySeq, ShortRanges DEF FreshSeq
<1>2. ASSUME NEW t \in Tasks, FreshTask(t) PROVE FreshSeq(<<t>>)
  BY <1>2, ShortRanges DEF FreshSeq
<1>3. ASSUME NEW t \in Tasks, NEW u \in Tasks, FreshTask(t), FreshTask(u) PROVE FreshSeq(<<t, u>>)
  BY <1>3, ShortRanges DEF FreshSeq
<1>4. ASSUME NEW q \in Seq(Tasks), NEW r \in Seq(Tasks), FreshSeq(q), FreshSeq(r)
      PROVE FreshSeq(q \o r)
  <2>1. q \o r \in Seq(Tasks) /\ Range(q \o r) = Range(q) \cup Range(r)
    BY ConcatProperties, RangeConcatenation
  <2> QED BY <1>4, <2>1 DEF FreshSeq
<1> QED BY <1>1, <1>2, <1>3, <1>4

LEMMA FreshConcat ==
  ASSUME NEW q, NEW r, FreshSeq(q), FreshSeq(r)
  PROVE  FreshSeq(q \o r)
BY FreshSeqs DEF FreshSeq

\* Most tasks concern nobody's coming or going, nor where anyone is.
LEMMA PlainTasks ==
  ASSUME NEW w, NEW c, NEW a
  PROVE  /\ FreshTask(Ack(c)) /\ FreshTask(Send(Note, c))
         /\ FreshTask(Broadcast(Note, w))
         /\ FreshTask(Drop(w)) /\ FreshTask(EjectAll(w)) /\ FreshTask(Close(c))
         /\ \A op \in {"mute", "ban", "unban", "sweep", "update"} :
              FreshTask(Task(op, w, Note, a))
<1>1. \A op \in {"broadcast", "send", "drop", "eject", "close", "mute", "ban", "unban", "sweep", "update"} :
        \A x, u, b : ~About(Task(op, u, Note, b), x)
  BY DEF About, Word, Task, Note
<1> QED BY <1>1 DEF FreshTask, Broadcast, Send, Ack, Drop, EjectAll, Close, Task, Note

\* Telling of a room, and of the evicted, needs a ground.
LEMMA WordTasks ==
  ASSUME NEW c, NEW ch, NEW w, Grounded(c, ch)
  PROVE  /\ FreshTask(AnnounceMove(c, ch))
         /\ FreshTask(Broadcast(UserUpdated(c, ch), w))
         /\ FreshTask(Broadcast(UserMoved(c, ch), w))
<1>1. ASSUME NEW x, NEW f \in {UserUpdated(c, ch), UserMoved(c, ch)}, NEW u, About(Broadcast(f, u), x)
      PROVE  Grounded(x, Says(Broadcast(f, u)))
  <2>1. x = c /\ Says(Broadcast(f, u)) = ch
    BY <1>1 DEF About, Says, Word, Broadcast, Task, UserUpdated, UserMoved
  <2> QED BY <2>1
<1>2. \A f \in {UserUpdated(c, ch), UserMoved(c, ch)} : \A u : FreshTask(Broadcast(f, u))
  <2> SUFFICES ASSUME NEW f \in {UserUpdated(c, ch), UserMoved(c, ch)}, NEW u
               PROVE  FreshTask(Broadcast(f, u))
    OBVIOUS
  <2>1. /\ Broadcast(f, u).op = "broadcast"
        /\ Broadcast(f, u).frame.k \in {"moved", "updated"}
    BY DEF Broadcast, Task, UserUpdated, UserMoved
  <2> QED BY <1>1, <2>1 DEF FreshTask
<1> QED BY <1>2 DEF AnnounceMove

LEMMA EvictedTask ==
  ASSUME NEW w, \A x \in w : Grounded(x, None)
  PROVE  FreshTask(Task("evicted", w, Note, None))
<1>1. \A x : About(Task("evicted", w, Note, None), x) => x \in w
  BY DEF About, Word, Task, Note
<1>2. Says(Task("evicted", w, Note, None)) = None
  BY DEF Says, Task
<1> QED BY <1>1, <1>2 DEF FreshTask, Task, Note

\* Whoever is to be dropped stays so, until it is off the roster.
DropsKept(s, new) ==
  Head(todo[s]).op = "drop" =>
    \A y \in Head(todo[s]).who \cap clients' : \E t \in Range(new) : t.op = "drop" /\ y \in t.who

\* Every step of the work replaces the head of a todo by fresh tasks.
MovesOn(s) ==
  /\ todo[s] # <<>>
  /\ \E new : FreshSeq(new) /\ DropsKept(s, new) /\ Then(s, new)

LEMMA WorkMovesOn ==
  ASSUME TypeOK, NEW s \in Session, Work(s)
  PROVE  MovesOn(s)
<1>t. todo \in [Session -> Seq(Tasks)]
  BY DEF TypeOK
<1>k. ASSUME NEW op, Doing(s, op)
      PROVE  todo[s] # <<>> /\ Head(todo[s]) \in Tasks /\ Head(todo[s]).op = op
  BY <1>t, <1>k, DoingTyped
<1>m. ASSUME NEW new, FreshSeq(new), Then(s, new), todo[s] # <<>>, Head(todo[s]).op # "drop"
      PROVE  MovesOn(s)
  BY <1>m DEF MovesOn, DropsKept
<1>Deliver. CASE Deliver(s)
  <2> DEFINE t == Head(todo[s])
             to == IF t.op = "send" THEN clients \cap t.who ELSE clients \ t.who
             full == Overflowed(to)
             new == IF full = {} THEN <<>> ELSE <<Drop(full)>>
  <2>1. todo[s] # <<>> /\ t.op # "drop"
    BY <1>k, <1>Deliver DEF Deliver
  <2>4. Then(s, new)
    BY <1>Deliver DEF Deliver
  <2>2. full \subseteq Session
    BY DEF Overflowed, TypeOK
  <2>3. FreshSeq(new)
    BY <2>2, FreshSeqs, FrameTypes, TaskTypes, PlainTasks
  <2> QED BY <1>m, <2>1, <2>3, <2>4
<1>DropOverflowed. CASE DropOverflowed(s)
  <2> DEFINE rest(c) == Head(todo[s]).who \ {c}
             new1(c) == IF c \in clients THEN <<TellGone(c)>> ELSE <<>>
             new2(c) == IF rest(c) = {} THEN <<>> ELSE <<Drop(rest(c))>>
  <2>1. todo[s] # <<>> /\ Head(todo[s]) \in Tasks
    BY <1>k, <1>DropOverflowed DEF DropOverflowed
  <2>2. PICK c \in Head(todo[s]).who : Then(s, new1(c) \o new2(c)) /\ clients' = remove(c)
    BY <1>DropOverflowed DEF DropOverflowed
  <2>3. c \in Session /\ rest(c) \subseteq Session
    BY <2>1, TaskFields
  <2>4. c \in clients => TellGone(c) \in Tasks /\ FreshTask(TellGone(c))
    BY <2>2, <2>3, FrameTypes, TaskTypes DEF TellGone, Task, FreshTask, remove, Note, About, Word
  <2>5. FreshSeq(new1(c)) /\ FreshSeq(new2(c))
    BY <2>3, <2>4, FreshSeqs, FrameTypes, TaskTypes, PlainTasks
  <2>6. FreshSeq(new1(c) \o new2(c))
    BY <2>5, FreshConcat
  <2>7. ASSUME NEW y \in Head(todo[s]).who \cap clients'
        PROVE  \E t \in Range(new1(c) \o new2(c)) : t.op = "drop" /\ y \in t.who
    <3>1. y \in rest(c)
      BY <2>2, <2>7 DEF remove
    <3>2. Drop(rest(c)) \in Range(new2(c))
      BY <3>1, ShortRanges
    <3> HIDE DEF new1, new2
    <3>3. new1(c) \in Seq(Tasks) /\ new2(c) \in Seq(Tasks)
      BY <2>5 DEF FreshSeq
    <3>4. Range(new1(c) \o new2(c)) = Range(new1(c)) \cup Range(new2(c))
      BY <3>3, RangeConcatenation
    <3>5. Drop(rest(c)).op = "drop" /\ y \in Drop(rest(c)).who
      BY <3>1 DEF Drop, Task
    <3> QED BY <3>2, <3>4, <3>5
  <2> QED BY <2>1, <2>2, <2>6, <2>7 DEF MovesOn, DropsKept
<1>TellOfDropped. CASE TellOfDropped(s)
  BY <1>k, <1>m, <1>TellOfDropped, FreshSeqs DEF TellOfDropped
<1>StoreBan. CASE StoreBan(s)
  <2> DEFINE sweep == Task("sweep", {}, Note, Head(todo[s]).arg)
  <2>1. todo[s] # <<>> /\ Head(todo[s]) \in Tasks /\ Head(todo[s]).op = "ban"
    BY <1>k, <1>StoreBan DEF StoreBan
  <2>2. sweep \in Tasks /\ FreshTask(sweep)
    BY <2>1, TaskFields, StoreTaskTypes, PlainTasks
  <2>3. Then(s, <<sweep>>) \/ Then(s, <<>>)
    BY <1>StoreBan DEF StoreBan
  <2> QED BY <1>m, <2>1, <2>2, <2>3, FreshSeqs
<1>StoreUnban. CASE StoreUnban(s)
  BY <1>k, <1>m, <1>StoreUnban, FreshSeqs DEF StoreUnban
<1>Sweep. CASE Sweep(s)
  <2> DEFINE victims == Victims(Head(todo[s]).arg)
             new == IF victims = {} THEN <<>> ELSE <<EjectAll(victims)>>
  <2>1. todo[s] # <<>> /\ Head(todo[s]).op # "drop" /\ Then(s, new)
    BY <1>k, <1>Sweep DEF Sweep
  <2>2. victims \subseteq Session
    BY DEF Victims, TypeOK
  <2>3. FreshSeq(new)
    BY <2>2, FreshSeqs, FrameTypes, TaskTypes, PlainTasks
  <2> QED BY <1>m, <2>1, <2>3
<1>Eject. CASE Eject(s)
  <2> DEFINE rest(v) == Head(todo[s]).who \ {v}
             new1(v) == IF v \in clients THEN AfterEject(v) ELSE <<>>
             new2(v) == IF rest(v) = {} THEN <<>> ELSE <<EjectAll(rest(v))>>
  <2>1. todo[s] # <<>> /\ Head(todo[s]) \in Tasks /\ Head(todo[s]).op # "drop"
    BY <1>k, <1>Eject DEF Eject
  <2>2. PICK v \in Head(todo[s]).who : Then(s, new1(v) \o new2(v)) /\ clients' = remove(v)
    BY <1>Eject DEF Eject
  <2>3. v \in Session /\ rest(v) \subseteq Session
    BY <2>1, TaskFields
  <2>4. v \in clients => /\ Broadcast(UserLeft(v), {}) \in Tasks
                         /\ FreshTask(Broadcast(UserLeft(v), {}))
    BY <2>2, <2>3, FrameTypes, TaskTypes DEF Broadcast, Task, UserLeft, FreshTask, remove, About, Word
  <2>5. Close(v) \in Tasks /\ FreshTask(Close(v))
    BY <2>3, FrameTypes, TaskTypes, PlainTasks
  <2>6. FreshSeq(new1(v))
    BY <2>4, <2>5, FreshSeqs DEF AfterEject
  <2>7. FreshSeq(new2(v))
    BY <2>3, FreshSeqs, FrameTypes, TaskTypes, PlainTasks
  <2>8. FreshSeq(new1(v) \o new2(v))
    BY <2>6, <2>7, FreshConcat
  <2> QED BY <1>m, <2>1, <2>2, <2>8
<1>CloseTransport. CASE CloseTransport(s)
  BY <1>k, <1>m, <1>CloseTransport, FreshSeqs DEF CloseTransport
<1>MuteMember. CASE MuteMember(s)
  <2> DEFINE new1(x) == IF x \in clients THEN <<Broadcast(UserUpdated(x, channel[x]), {})>> ELSE <<>>
  <2>1. todo[s] # <<>> /\ Head(todo[s]) \in Tasks /\ Head(todo[s]).op # "drop"
    BY <1>k, <1>MuteMember DEF MuteMember
  <2>2. PICK x \in Head(todo[s]).who : Then(s, new1(x) \o <<Ack(s)>>)
    BY <1>MuteMember DEF MuteMember
  <2>3. x \in Session /\ UserUpdated(x, channel[x]) \in Frame
    BY <2>1, TaskFields, FrameTypes DEF TypeOK
  <2>g. x \in clients => Grounded(x, channel[x])
    BY <1>MuteMember DEF MuteMember, Grounded
  <2>4. FreshSeq(new1(x)) /\ FreshSeq(<<Ack(s)>>)
    BY <2>3, <2>g, FreshSeqs, TaskTypes, PlainTasks, WordTasks
  <2>5. FreshSeq(new1(x) \o <<Ack(s)>>)
    BY <2>4, FreshConcat
  <2> QED BY <1>m, <2>1, <2>2, <2>5
<1>ForceMove. CASE ForceMove(s)
  <2> DEFINE to == Head(todo[s]).frame.to
             allowed(x) == /\ x \in clients
                           /\ \/ to = None
                              \/ (to \in DOMAIN channels /\ channels[to].voice /\ Fits(to, x))
             new1(x) == IF allowed(x) THEN <<AnnounceMove(x, to)>> ELSE <<>>
  <2>1. todo[s] # <<>> /\ Head(todo[s]) \in Tasks /\ Head(todo[s]).op # "drop"
    BY <1>k, <1>ForceMove DEF ForceMove
  <2>2. PICK x \in Head(todo[s]).who :
          /\ Then(s, new1(x) \o <<Ack(s)>>)
          /\ channel' = IF allowed(x) THEN [channel EXCEPT ![x] = to] ELSE channel
    BY <1>ForceMove DEF ForceMove
  <2>3. x \in Session /\ to \in Channel \cup {None}
    BY <2>1, TaskFields DEF Frame
  <2>g. allowed(x) => Grounded(x, to)
    BY <2>2, <2>3 DEF Grounded, TypeOK
  <2> HIDE DEF allowed
  <2>4. /\ AnnounceMove(x, to) \in Tasks
        /\ allowed(x) => FreshTask(AnnounceMove(x, to))
    BY <2>3, <2>g, FrameTypes, TaskTypes, WordTasks DEF AnnounceMove
  <2>5. FreshSeq(new1(x)) /\ FreshSeq(<<Ack(s)>>)
    BY <2>4, FreshSeqs, FrameTypes, TaskTypes, PlainTasks
  <2>6. FreshSeq(new1(x) \o <<Ack(s)>>)
    BY <2>5, FreshConcat
  <2> QED BY <1>m, <2>1, <2>2, <2>6
<1>ChannelUpdated. CASE ChannelUpdated(s)
  <2> DEFINE new1 == IF Head(todo[s]).arg.id \in DOMAIN channels THEN <<Broadcast(Note, {})>> ELSE <<>>
  <2>1. todo[s] # <<>> /\ Head(todo[s]).op # "drop"
    BY <1>k, <1>ChannelUpdated DEF ChannelUpdated
  <2>2. FreshSeq(new1) /\ FreshSeq(<<Ack(s)>>)
    BY FreshSeqs, FrameTypes, TaskTypes, PlainTasks
  <2>3. FreshSeq(new1 \o <<Ack(s)>>)
    BY <2>2, FreshConcat
  <2>4. Then(s, new1 \o <<Ack(s)>>) \/ Then(s, <<Ack(s)>>)
    BY <1>ChannelUpdated DEF ChannelUpdated
  <2> QED BY <1>m, <2>1, <2>2, <2>3, <2>4
<1>ChannelRemoved. CASE ChannelRemoved(s)
  <2> DEFINE ch == Head(todo[s]).arg
             out == IF ch \in DOMAIN channels THEN Occupants(ch) ELSE {}
             new1 == IF out = {} THEN <<>> ELSE <<Task("evicted", out, Note, None)>>
             new2 == IF ch \in DOMAIN channels THEN <<Broadcast(Note, {})>> ELSE <<>>
  <2>1. todo[s] # <<>> /\ Head(todo[s]).op # "drop"
    BY <1>k, <1>ChannelRemoved DEF ChannelRemoved
  <2>2. \/ /\ Then(s, (new1 \o new2) \o <<Ack(s)>>)
           /\ channel' = IF ch \in DOMAIN channels THEN Evicted(ch) ELSE channel
        \/ Then(s, <<Ack(s)>>)
    BY <1>ChannelRemoved DEF ChannelRemoved
  <2>3. out \subseteq Session
    BY DEF TypeOK, Occupants
  <2>4. FreshSeq(new2) /\ FreshSeq(<<Ack(s)>>)
    BY FreshSeqs, FrameTypes, TaskTypes, PlainTasks
  <2>5. CASE Then(s, <<Ack(s)>>)
    BY <1>m, <2>1, <2>4, <2>5
  <2>6. CASE /\ Then(s, (new1 \o new2) \o <<Ack(s)>>)
             /\ channel' = IF ch \in DOMAIN channels THEN Evicted(ch) ELSE channel
    <3>1. \A x \in out : Grounded(x, None)
      BY <2>3, <2>6 DEF Grounded, Evicted, Occupants
    <3>2. FreshSeq(new1)
      BY <2>3, <3>1, FreshSeqs, FrameTypes, TaskTypes, EvictedTask
    <3>3. FreshSeq((new1 \o new2) \o <<Ack(s)>>)
      BY <2>4, <3>2, FreshConcat
    <3> QED BY <1>m, <2>1, <2>6, <3>3
  <2> QED BY <2>2, <2>5, <2>6
<1>AnnounceEvicted. CASE AnnounceEvicted(s)
  <2> DEFINE rest(x) == Head(todo[s]).who \ {x}
             new1(x) == <<Broadcast(UserMoved(x, None), {}), Broadcast(UserUpdated(x, None), {})>>
             new2(x) == IF rest(x) = {} THEN <<>> ELSE <<Task("evicted", rest(x), Note, None)>>
  <2>1. todo[s] # <<>> /\ Head(todo[s]) \in Tasks /\ Head(todo[s]).op = "evicted"
    BY <1>k, <1>AnnounceEvicted DEF AnnounceEvicted
  <2>2. PICK x \in Head(todo[s]).who : Then(s, new1(x) \o new2(x))
    BY <1>AnnounceEvicted DEF AnnounceEvicted
  <2>3. x \in Session /\ rest(x) \subseteq Session
    BY <2>1, TaskFields
  <2>g. \A z \in Head(todo[s]).who : Grounded(z, None)
    BY <1>t, <2>1, HeadTailRange DEF Grounded, Evicting
  <2>4. FreshSeq(new1(x)) /\ FreshSeq(new2(x))
    BY <2>3, <2>g, FreshSeqs, FrameTypes, TaskTypes, WordTasks, EvictedTask
  <2>5. FreshSeq(new1(x) \o new2(x))
    BY <2>4, FreshConcat
  <2> QED BY <1>m, <2>1, <2>2, <2>5
<1> QED
  BY <1>Deliver, <1>DropOverflowed, <1>TellOfDropped, <1>StoreBan, <1>StoreUnban, <1>Sweep, <1>Eject,
     <1>CloseTransport, <1>MuteMember, <1>ForceMove, <1>ChannelUpdated, <1>ChannelRemoved,
     <1>AnnounceEvicted
     DEF Work

\* What a request gives an idle session: fresh tasks, or one that stays alone.
StartSeq(q) == FreshSeq(q) \/ \E t \in Tasks : q = <<t>> /\ Opening(t)
Starts(s) == \E new \in Seq(Tasks) : StartSeq(new) /\ Request(s, new)

LEMMA RequestsAreFresh ==
  ASSUME TypeOK, NEW s \in Session, MemberRequest(s) \/ ModeratorRequest(s)
  PROVE  Starts(s)
<1>f. ASSUME NEW new, FreshSeq(new), Request(s, new) PROVE Starts(s)
  BY <1>f DEF Starts, StartSeq, FreshSeq
<1>o. ASSUME NEW t \in Tasks, Opening(t), Request(s, <<t>>) PROVE Starts(s)
  <2>1. <<t>> \in Seq(Tasks) /\ StartSeq(<<t>>)
    BY <1>o DEF StartSeq
  <2> QED BY <1>o, <2>1 DEF Starts
<1> USE FreshSeqs, FrameTypes, TaskTypes, StoreTaskTypes, PlainTasks
<1>1. CASE Answered(s)
  BY <1>1, <1>f DEF Answered
<1>2. CASE LeaveChannel(s)
  <2>1. AnnounceMove(s, None) \in Tasks
    BY DEF AnnounceMove
  <2>2. Grounded(s, None)
    BY <1>2 DEF LeaveChannel, Request, Grounded, TypeOK
  <2>3. FreshTask(AnnounceMove(s, None))
    BY <2>2, WordTasks
  <2> QED BY <1>2, <1>f, <2>1, <2>3 DEF LeaveChannel
<1>3. CASE UpdateInfo(s)
  <2>1. channel[s] \in Channel \cup {None}
    BY DEF TypeOK
  <2>2. Broadcast(UserUpdated(s, channel[s]), {}) \in Tasks
    BY <2>1
  <2>3. Grounded(s, channel[s])
    BY <1>3 DEF UpdateInfo, Grounded
  <2>4. FreshTask(Broadcast(UserUpdated(s, channel[s]), {}))
    BY <2>3, WordTasks
  <2> QED BY <1>3, <1>f, <2>2, <2>4 DEF UpdateInfo
<1>4. ASSUME NEW ch \in Channel, JoinChannel(s, ch) PROVE Starts(s)
  <2>1. AnnounceMove(s, ch) \in Tasks
    BY DEF AnnounceMove
  <2>2. Grounded(s, ch)
    BY <1>4 DEF JoinChannel, Request, Grounded, TypeOK
  <2>3. FreshTask(AnnounceMove(s, ch))
    BY <2>2, WordTasks
  <2> QED BY <1>4, <1>f, <2>1, <2>3 DEF JoinChannel
<1>5. ASSUME NEW x \in Session, Kick(s, x) PROVE Starts(s)
  BY <1>5, <1>f DEF Kick
<1>6. ASSUME NEW x \in Session, SetServerMute(s, x) PROVE Starts(s)
  BY <1>6, <1>f DEF SetServerMute
<1>7. ASSUME NEW x \in Session, NEW to \in Channel \cup {None}, MoveMember(s, x, to)
      PROVE  Starts(s)
  <2>1. /\ Task("move", {x}, UserMoved(x, to), None) \in Tasks
        /\ Opening(Task("move", {x}, UserMoved(x, to), None))
    BY DEF Opening, Task, UserMoved
  <2> QED BY <1>7, <1>o, <2>1 DEF MoveMember
<1>8. ASSUME NEW f \in Fingerprint, Ban(s, f) \/ Unban(s, f) PROVE Starts(s)
  BY <1>8, <1>f DEF Ban, Unban
<1>9. ASSUME NEW ch \in Channel, NEW settings \in Settings, UpdateChannel(s, ch, settings)
      PROVE  Starts(s)
  BY <1>9, <1>f DEF UpdateChannel
<1>10. ASSUME NEW ch \in Channel, DeleteChannel(s, ch) PROVE Starts(s)
  <2>1. Task("delete", {}, Note, ch) \in Tasks /\ Opening(Task("delete", {}, Note, ch))
    BY DEF Opening, Task
  <2> QED BY <1>10, <1>o, <2>1 DEF DeleteChannel
<1> QED BY <1>1, <1>2, <1>3, <1>4, <1>5, <1>6, <1>7, <1>8, <1>9, <1>10
        DEF MemberRequest, ModeratorRequest

-----------------------------------------------------------------------------
(* Type correctness *)

LEMMA TypeInit == Init => TypeOK
BY RosterAssumption, EmptySeq DEF Init, TypeOK

\* The work and the requests keep the todos typed, so what remains is the rest.
LEMMA TodoTyped ==
  ASSUME TypeOK, NEW s \in Session, Work(s) \/ MemberRequest(s) \/ ModeratorRequest(s)
  PROVE  todo' \in [Session -> Seq(Tasks)]
<1>t. todo \in [Session -> Seq(Tasks)] /\ requests \in 0..MaxRequests
  BY DEF TypeOK
<1>1. CASE Work(s)
  BY <1>t, <1>1, WorkMovesOn, ThenTyped DEF MovesOn, FreshSeq
<1>2. CASE MemberRequest(s) \/ ModeratorRequest(s)
  BY <1>t, <1>2, RequestsAreFresh, RequestTyped DEF Starts
<1> QED BY <1>1, <1>2

LEMMA TypeNext == TypeOK /\ [Next]_vars => TypeOK'
<1> SUFFICES ASSUME TypeOK, Next PROVE TypeOK'
  BY DEF TypeOK, vars
<1> PICK s \in Session :
      \/ Handshake(s) \/ Work(s) \/ MemberRequest(s) \/ ModeratorRequest(s)
      \/ Drain(s) \/ Hangup(s) \/ EndLoop(s) \/ Depart(s)
  BY DEF Next
<1>t. todo \in [Session -> Seq(Tasks)] /\ queue \in [Session -> Seq(Frame)]
  BY DEF TypeOK
<1>e. <<>> \in Seq(Tasks) /\ <<>> \in Seq(Frame)
  BY EmptySeq
<1>k. ASSUME NEW op, Doing(s, op) PROVE Head(todo[s]) \in Tasks /\ Head(todo[s]).op = op
  BY <1>t, <1>k, DoingTyped
<1>w. (Work(s) \/ MemberRequest(s) \/ ModeratorRequest(s)) => todo' \in [Session -> Seq(Tasks)]
  BY TodoTyped
<1>CheckBan. CASE CheckBan(s)
  BY <1>CheckBan DEF CheckBan, TypeOK
<1>admit. CASE admit(s)
  BY <1>admit DEF admit, TypeOK
<1>Greet. CASE Greet(s)
  BY <1>Greet DEF Greet, TypeOK
<1>Welcome. CASE Welcome(s)
  <2>1. <<Broadcast(UserJoined(s), {s})>> \in Seq(Tasks)
    BY FrameTypes, TaskTypes
  <2> QED BY <1>Welcome, <2>1 DEF Welcome, TypeOK
<1>GreetFails. CASE GreetFails(s)
  BY <1>GreetFails, <1>e DEF GreetFails, TypeOK, remove
<1>Deliver. CASE Deliver(s)
  <2>1. Head(todo[s]).frame \in Frame
    BY <1>k, <1>Deliver, TaskFields DEF Deliver
  <2>2. queue' \in [Session -> Seq(Frame)] /\ announced' \subseteq Session
    BY <1>t, <1>Deliver, <2>1, QueuedTyped DEF Deliver, TypeOK
  <2> QED BY <1>w, <1>Deliver, <2>2 DEF Deliver, Work, TypeOK
<1>DropOverflowed. CASE DropOverflowed(s)
  <2>1. Head(todo[s]).who \subseteq Session
    BY <1>k, <1>DropOverflowed, TaskFields DEF DropOverflowed
  <2> QED BY <1>w, <1>DropOverflowed, <2>1 DEF DropOverflowed, Work, TypeOK, remove
<1>TellOfDropped. CASE TellOfDropped(s)
  <2>1. Head(todo[s]).who \subseteq Session
    BY <1>k, <1>TellOfDropped, TaskFields DEF TellOfDropped
  <2>2. queue' \in [Session -> Seq(Frame)]
    BY <1>t, <1>TellOfDropped, <2>1, FrameTypes, QueuedTyped DEF TellOfDropped
  <2> QED BY <1>w, <1>TellOfDropped, <2>2 DEF TellOfDropped, Work, TypeOK, Overflowed
<1>StoreBan. CASE StoreBan(s)
  <2>1. Head(todo[s]).arg \in Fingerprint
    BY <1>k, <1>StoreBan, TaskFields DEF StoreBan
  <2> QED BY <1>w, <1>StoreBan, <2>1 DEF StoreBan, Work, TypeOK
<1>StoreUnban. CASE StoreUnban(s)
  BY <1>w, <1>StoreUnban DEF StoreUnban, Work, TypeOK
<1>Eject. CASE Eject(s)
  <2>1. Head(todo[s]).who \subseteq Session
    BY <1>k, <1>Eject, TaskFields DEF Eject
  <2>2. PICK v \in Session : queue' = Queued(clients \cap {v}, UserLeft(v))
    BY <1>Eject, <2>1 DEF Eject
  <2>3. UserLeft(v) \in Frame
    BY FrameTypes
  <2>4. queue' \in [Session -> Seq(Frame)]
    BY <1>t, <2>2, <2>3, QueuedTyped
  <2> QED BY <1>w, <1>Eject, <2>1, <2>4 DEF Eject, Work, TypeOK, remove
<1>CloseTransport. CASE CloseTransport(s)
  BY <1>w, <1>CloseTransport DEF CloseTransport, Work, TypeOK
<1>ForceMove. CASE ForceMove(s)
  <2>1. Head(todo[s]).who \subseteq Session /\ Head(todo[s]).frame.to \in Channel \cup {None}
    BY <1>k, <1>ForceMove, TaskFields DEF ForceMove, Frame
  <2> QED BY <1>w, <1>ForceMove, <2>1 DEF ForceMove, Work, TypeOK
<1>ChannelUpdated. CASE ChannelUpdated(s)
  <2>1. Head(todo[s]).arg.settings \in Settings
    BY <1>k, <1>ChannelUpdated, TaskFields DEF ChannelUpdated
  <2> QED BY <1>w, <1>ChannelUpdated, <2>1 DEF ChannelUpdated, Work, TypeOK
<1>ChannelRemoved. CASE ChannelRemoved(s)
  BY <1>w, <1>ChannelRemoved DEF ChannelRemoved, Work, TypeOK, Evicted
<1>quiet. CASE Sweep(s) \/ MuteMember(s) \/ AnnounceEvicted(s)
  BY <1>w, <1>quiet DEF Sweep, MuteMember, AnnounceEvicted, Work, TypeOK
<1>requests. CASE MemberRequest(s) \/ ModeratorRequest(s)
  <2>1. requests' \in 0..MaxRequests
    BY <1>t, <1>requests, RequestsAreFresh, RequestTyped DEF Starts, TypeOK
  <2>2. channel' \in [Session -> Channel \cup {None}]
    BY <1>requests DEF TypeOK, MemberRequest, ModeratorRequest, Answered, LeaveChannel, UpdateInfo,
       JoinChannel, Kick, SetServerMute, MoveMember, Ban, Unban, UpdateChannel, DeleteChannel
  <2> QED BY <1>w, <1>requests, <2>1, <2>2 DEF TypeOK, MemberRequest, ModeratorRequest, Answered,
             LeaveChannel, UpdateInfo, JoinChannel, Kick, SetServerMute, MoveMember, Ban, Unban,
             UpdateChannel, DeleteChannel
<1>Drain. CASE Drain(s)
  <2>1. Head(queue[s]) \in Frame /\ Tail(queue[s]) \in Seq(Frame)
    BY <1>t, <1>Drain, HeadTailRange DEF Drain
  <2>2. queue' \in [Session -> Seq(Frame)]
    BY <1>t, <1>Drain, <2>1 DEF Drain
  <2>3. Applied(view[s], Head(queue[s])) \in [Session -> Channel \cup {None, Absent}]
    BY <2>1 DEF Applied, Frame, TypeOK
  <2>4. view' \in [Session -> [Session -> Channel \cup {None, Absent}]]
    BY <1>Drain, <2>3 DEF Drain, TypeOK
  <2> QED BY <1>Drain, <2>2, <2>4 DEF Drain, TypeOK
<1>Hangup. CASE Hangup(s)
  BY <1>Hangup DEF Hangup, TypeOK
<1>EndLoop. CASE EndLoop(s)
  BY <1>EndLoop, <1>e DEF EndLoop, TypeOK
<1>Depart. CASE Depart(s)
  <2>1. Farewell(s) \in Seq(Tasks)
    BY <1>e, FrameTypes, TaskTypes DEF Farewell
  <2> QED BY <1>Depart, <2>1 DEF Depart, TypeOK, remove
<1> QED
  BY <1>CheckBan, <1>admit, <1>Greet, <1>Welcome, <1>GreetFails, <1>Deliver, <1>DropOverflowed,
     <1>TellOfDropped, <1>StoreBan, <1>StoreUnban, <1>Eject, <1>CloseTransport, <1>ForceMove,
     <1>ChannelUpdated, <1>ChannelRemoved, <1>quiet, <1>requests, <1>Drain, <1>Hangup, <1>EndLoop,
     <1>Depart
     DEF Handshake, Work

\* Every value stays within its type: in particular every handler only ever
\* queues frames about real clients and rooms, whatever the interleaving.
THEOREM TypeCorrect == Spec => []TypeOK
BY TypeInit, TypeNext, PTL DEF Spec

-----------------------------------------------------------------------------
(* The roster *)

\* What any step does to the phases and to the roster: phases only move on, a
\* client enters the roster by admission alone, and a session whose task ends
\* is off the roster by then.
RosterStep ==
  \A x \in Session :
    \/ phase'[x] = phase[x] /\ (x \in clients' => x \in clients)
    \/ phase[x] = "idle" /\ phase'[x] \in {"checked", "done"} /\ (x \in clients' <=> x \in clients)
    \/ phase[x] = "checked" /\ phase'[x] = "admitted"
    \/ phase[x] = "checked" /\ phase'[x] = "done" /\ (x \in clients' <=> x \in clients)
    \/ phase[x] = "admitted" /\ phase'[x] = "greeting" /\ (x \in clients' <=> x \in clients)
    \/ phase[x] = "greeting" /\ phase'[x] = "running" /\ (x \in clients' <=> x \in clients)
    \/ phase[x] = "running" /\ phase'[x] = "closing" /\ (x \in clients' <=> x \in clients)
    \/ phase[x] \in {"greeting", "closing"} /\ phase'[x] = "done" /\ x \notin clients'

LEMMA RosterSteps == TypeOK /\ [Next]_vars => RosterStep
<1> SUFFICES ASSUME TypeOK, [Next]_vars PROVE RosterStep
  OBVIOUS
<1>1. CASE UNCHANGED vars
  BY <1>1 DEF vars, RosterStep
<1>2. ASSUME NEW s \in Session, Handshake(s) PROVE RosterStep
  BY <1>2 DEF RosterStep, TypeOK, Handshake, CheckBan, admit, Greet, Welcome, GreetFails, remove
<1>3. ASSUME NEW s \in Session, Work(s) PROVE RosterStep
  BY <1>3 DEF RosterStep, TypeOK, Work, Deliver, DropOverflowed, TellOfDropped, StoreBan,
     StoreUnban, Sweep, Eject, CloseTransport, MuteMember, ForceMove, ChannelUpdated,
     ChannelRemoved, AnnounceEvicted, remove
<1>4. ASSUME NEW s \in Session, MemberRequest(s) PROVE RosterStep
  BY <1>4 DEF RosterStep, MemberRequest, Answered, LeaveChannel, UpdateInfo, JoinChannel
<1>5. ASSUME NEW s \in Session, ModeratorRequest(s) PROVE RosterStep
  BY <1>5 DEF RosterStep, ModeratorRequest, Kick, SetServerMute, MoveMember, Ban, Unban,
     UpdateChannel, DeleteChannel
<1>6. ASSUME NEW s \in Session, Drain(s) \/ Hangup(s) \/ EndLoop(s) \/ Depart(s) PROVE RosterStep
  BY <1>6 DEF RosterStep, TypeOK, Drain, Hangup, EndLoop, Depart, remove
<1> QED BY <1>1, <1>2, <1>3, <1>4, <1>5, <1>6 DEF Next

\* No slot is leaked, on any path out of the handshake or the session: whoever
\* is on the roster has a task that has yet to take it off.
THEOREM SlotsHaveTasks == Spec => []NoLeakedSlot
<1>1. Init => NoLeakedSlot
  BY DEF Init, NoLeakedSlot
<1>2. TypeOK /\ NoLeakedSlot /\ [Next]_vars => NoLeakedSlot'
  <2> SUFFICES ASSUME TypeOK, NoLeakedSlot, RosterStep, TypeOK' PROVE NoLeakedSlot'
    BY RosterSteps, TypeNext
  <2> QED BY DEF NoLeakedSlot, RosterStep, TypeOK
<1> QED BY <1>1, <1>2, TypeCorrect, PTL DEF Spec

\* The server's limit holds in every interleaving of admissions and departures,
\* because the check and the insertion are one critical section.
THEOREM ServerLimitHolds == Spec => []WithinServerLimit
<1>1. Init => WithinServerLimit
  BY FS_EmptySet, RosterAssumption DEF Init, WithinServerLimit
<1>2. TypeOK /\ WithinServerLimit /\ [Next]_vars => WithinServerLimit'
  <2> SUFFICES ASSUME TypeOK, WithinServerLimit, [Next]_vars PROVE WithinServerLimit'
    OBVIOUS
  <2>1. IsFiniteSet(clients) /\ Cardinality(clients) \in Nat
    BY RosterAssumption, FS_Subset, FS_CardinalityType DEF TypeOK
  <2>2. ASSUME clients' \subseteq clients PROVE WithinServerLimit'
    <3>1. Cardinality(clients') \in Nat /\ Cardinality(clients') <= Cardinality(clients)
      BY <2>1, <2>2, FS_Subset, FS_CardinalityType
    <3> QED BY <2>1, <3>1, RosterAssumption DEF WithinServerLimit
  <2>3. ASSUME NEW s \in Session, admit(s) PROVE WithinServerLimit'
    <3>1. CASE ServerFull
      BY <2>2, <2>3, <3>1 DEF admit
    <3>2. CASE ~ServerFull
      <4>1. Cardinality(clients \cup {s}) <= Cardinality(clients) + 1
        BY <2>1, FS_AddElement
      <4>2. Cardinality(clients \cup {s}) \in Nat
        <5>1. IsFiniteSet(clients \cup {s})
          BY <2>1, FS_AddElement
        <5> QED BY <5>1, FS_CardinalityType
      <4>3. clients' = clients \cup {s}
        BY <2>3, <3>2 DEF admit
      <4>4. Cardinality(clients) + 1 <= max_users
        BY <2>1, <3>2, RosterAssumption DEF ServerFull
      <4> QED BY <2>1, <4>1, <4>2, <4>3, <4>4, RosterAssumption DEF WithinServerLimit
    <3> QED BY <3>1, <3>2
  <2>4. CASE UNCHANGED vars
    BY <2>2, <2>4 DEF vars
  <2>5. ASSUME NEW s \in Session, Handshake(s), ~admit(s) PROVE clients' \subseteq clients
    BY <2>5 DEF Handshake, CheckBan, Greet, Welcome, GreetFails, remove
  <2>6. ASSUME NEW s \in Session, Work(s) PROVE clients' \subseteq clients
    BY <2>6 DEF Work, Deliver, DropOverflowed, TellOfDropped, StoreBan, StoreUnban, Sweep, Eject,
       CloseTransport, MuteMember, ForceMove, ChannelUpdated, ChannelRemoved, AnnounceEvicted, remove
  <2>7. ASSUME NEW s \in Session, MemberRequest(s) \/ ModeratorRequest(s) PROVE clients' \subseteq clients
    BY <2>7 DEF MemberRequest, Answered, LeaveChannel, UpdateInfo, JoinChannel, ModeratorRequest, Kick,
       SetServerMute, MoveMember, Ban, Unban, UpdateChannel, DeleteChannel
  <2>8. ASSUME NEW s \in Session, Drain(s) \/ Hangup(s) \/ EndLoop(s) \/ Depart(s)
        PROVE clients' \subseteq clients
    BY <2>8 DEF Drain, Hangup, EndLoop, Depart, remove
  <2> QED BY <2>2, <2>3, <2>4, <2>5, <2>6, <2>7, <2>8 DEF Next
<1> QED BY <1>1, <1>2, TypeCorrect, PTL DEF Spec

\* Whoever is in a room is on the roster and its room exists, although rooms are
\* deleted and emptied while people join them and are moved into them.
THEOREM RoomsExist == Spec => []OccupantsHaveRoom
<1>1. Init => OccupantsHaveRoom
  BY DEF Init, OccupantsHaveRoom
<1>2. TypeOK /\ OccupantsHaveRoom /\ [Next]_vars => OccupantsHaveRoom'
  <2> SUFFICES ASSUME TypeOK, OccupantsHaveRoom, [Next]_vars PROVE OccupantsHaveRoom'
    OBVIOUS
  <2>1. CASE UNCHANGED vars
    BY <2>1 DEF vars, OccupantsHaveRoom
  <2>2. ASSUME NEW s \in Session, Handshake(s) PROVE OccupantsHaveRoom'
    BY <2>2 DEF OccupantsHaveRoom, TypeOK, Handshake, CheckBan, admit, Greet, Welcome, GreetFails, remove
  <2>3. ASSUME NEW s \in Session, DropOverflowed(s) \/ Eject(s) PROVE OccupantsHaveRoom'
    BY <2>3 DEF OccupantsHaveRoom, TypeOK, DropOverflowed, Eject, remove
  <2>4. ASSUME NEW s \in Session, ForceMove(s) PROVE OccupantsHaveRoom'
    BY <2>4 DEF OccupantsHaveRoom, TypeOK, ForceMove
  <2>5. ASSUME NEW s \in Session, ChannelUpdated(s) PROVE OccupantsHaveRoom'
    BY <2>5 DEF OccupantsHaveRoom, ChannelUpdated
  <2>6. ASSUME NEW s \in Session, ChannelRemoved(s) PROVE OccupantsHaveRoom'
    BY <2>6 DEF OccupantsHaveRoom, TypeOK, ChannelRemoved, Evicted
  <2>7. ASSUME NEW s \in Session, Work(s),
               ~(DropOverflowed(s) \/ Eject(s) \/ ForceMove(s) \/ ChannelUpdated(s) \/ ChannelRemoved(s))
        PROVE OccupantsHaveRoom'
    BY <2>7 DEF OccupantsHaveRoom, Work, Deliver, TellOfDropped, StoreBan, StoreUnban, Sweep,
       CloseTransport, MuteMember, AnnounceEvicted
  <2>8. ASSUME NEW s \in Session, MemberRequest(s) PROVE OccupantsHaveRoom'
    BY <2>8 DEF OccupantsHaveRoom, TypeOK, MemberRequest, Answered, LeaveChannel, UpdateInfo,
       JoinChannel, MayEnter
  <2>9. ASSUME NEW s \in Session, ModeratorRequest(s) PROVE OccupantsHaveRoom'
    BY <2>9 DEF OccupantsHaveRoom, ModeratorRequest, Kick, SetServerMute, MoveMember, Ban, Unban,
       UpdateChannel, DeleteChannel
  <2>10. ASSUME NEW s \in Session, Drain(s) \/ Hangup(s) \/ EndLoop(s) \/ Depart(s) PROVE OccupantsHaveRoom'
    BY <2>10 DEF OccupantsHaveRoom, TypeOK, Drain, Hangup, EndLoop, Depart, remove
  <2> QED BY <2>1, <2>2, <2>3, <2>4, <2>5, <2>6, <2>7, <2>8, <2>9, <2>10 DEF Next
<1> QED BY <1>1, <1>2, TypeCorrect, PTL DEF Spec

\* Whoever moves into a room with a free place leaves it within its limit.
LEMMA EntrantFits ==
  ASSUME TypeOK, NEW x \in Session, NEW to \in DOMAIN channels, Fits(to, x),
         clients' = clients, channel' = [channel EXCEPT ![x] = to]
  PROVE  FillsWithinLimit
<1>1. ASSUME NEW ch \in DOMAIN channels, ch # to PROVE Occupants(ch)' \subseteq Occupants(ch)
  BY <1>1 DEF Occupants, TypeOK
<1>2. ASSUME channels[to].max_users # None
      PROVE  Cardinality(Occupants(to)') <= channels[to].max_users
  <2> DEFINE others == Occupants(to) \ {x}
             limit == channels[to].max_users
  <2>1. limit \in Nat
    BY <1>2, RosterAssumption DEF TypeOK
  <2>2. IsFiniteSet(others) /\ Cardinality(others) \in Nat
    BY RosterAssumption, FS_Subset, FS_CardinalityType DEF TypeOK, Occupants
  <2>3. Cardinality(others) < limit
    BY <1>2 DEF Fits
  <2>4. Occupants(to)' \subseteq others \cup {x}
    BY DEF Occupants, TypeOK
  <2> HIDE DEF others, limit
  <2>5. /\ IsFiniteSet(others \cup {x})
        /\ Cardinality(others \cup {x}) <= Cardinality(others) + 1
        /\ Cardinality(others \cup {x}) \in Nat
    <3>1. /\ IsFiniteSet(others \cup {x})
          /\ Cardinality(others \cup {x}) = IF x \in others THEN Cardinality(others)
                                            ELSE Cardinality(others) + 1
      BY <2>2, FS_AddElement
    <3> QED BY <2>2, <3>1
  <2>6. /\ Cardinality(Occupants(to)') \in Nat
        /\ Cardinality(Occupants(to)') <= Cardinality(others \cup {x})
    BY <2>4, <2>5, FS_Subset, FS_CardinalityType
  <2>7. Cardinality(Occupants(to)') <= limit
    BY <2>1, <2>2, <2>3, <2>5, <2>6
  <2> QED BY <2>7 DEF limit
<1> QED BY <1>1, <1>2 DEF FillsWithinLimit

\* No step fills a room past its limit: a member that joins and a member that is
\* moved are counted under the same lock, and nothing else fills a room.
THEOREM RoomsNeverOverfill == Spec => RoomsFillWithinLimit
<1>1. TypeOK /\ NoLeakedSlot /\ OccupantsHaveRoom /\ [Next]_vars => [FillsWithinLimit]_vars
  <2> SUFFICES ASSUME TypeOK, NoLeakedSlot, OccupantsHaveRoom, Next PROVE FillsWithinLimit
    OBVIOUS
  <2>c. \A ch \in DOMAIN channels : ch # None
    BY RosterAssumption DEF TypeOK
  <2>less. ASSUME \A ch \in DOMAIN channels : Occupants(ch)' \subseteq Occupants(ch)
           PROVE  FillsWithinLimit
    BY <2>less DEF FillsWithinLimit
  <2>1. ASSUME NEW s \in Session, Handshake(s) PROVE FillsWithinLimit
    <3>1. \A ch \in DOMAIN channels : Occupants(ch)' \subseteq Occupants(ch)
      BY <2>1, <2>c DEF OccupantsHaveRoom, NoLeakedSlot, Occupants, TypeOK, Handshake, CheckBan, admit,
         Greet, Welcome, GreetFails, remove
    <3> QED BY <2>less, <3>1
  <2>2. ASSUME NEW s \in Session, DropOverflowed(s) \/ Eject(s) PROVE FillsWithinLimit
    <3>1. \A ch \in DOMAIN channels : Occupants(ch)' \subseteq Occupants(ch)
      BY <2>2, <2>c DEF Occupants, TypeOK, DropOverflowed, Eject, remove
    <3> QED BY <2>less, <3>1
  <2>3. ASSUME NEW s \in Session, ForceMove(s) PROVE FillsWithinLimit
    <3> DEFINE to == Head(todo[s]).frame.to
    <3>1. Head(todo[s]).who \subseteq Session
      BY <2>3, DoingTyped, TaskFields DEF ForceMove, TypeOK
    <3>2. PICK x \in Session :
            \/ channel' = channel
            \/ /\ channel' = [channel EXCEPT ![x] = to]
               /\ to = None \/ (to \in DOMAIN channels /\ Fits(to, x))
      BY <2>3, <3>1 DEF ForceMove
    <3>3. clients' = clients
      BY <2>3 DEF ForceMove
    <3>4. CASE channel' = channel
      BY <2>less, <3>3, <3>4 DEF Occupants
    <3>5. CASE channel' = [channel EXCEPT ![x] = to] /\ to = None
      <4>1. \A ch \in DOMAIN channels : Occupants(ch)' \subseteq Occupants(ch)
        BY <2>c, <3>3, <3>5 DEF Occupants, TypeOK
      <4> QED BY <2>less, <4>1
    <3>6. CASE channel' = [channel EXCEPT ![x] = to] /\ to \in DOMAIN channels /\ Fits(to, x)
      BY <3>3, <3>6, EntrantFits
    <3> QED BY <3>2, <3>4, <3>5, <3>6
  <2>4. ASSUME NEW s \in Session, ChannelRemoved(s) PROVE FillsWithinLimit
    <3>1. \A ch \in DOMAIN channels : Occupants(ch)' \subseteq Occupants(ch)
      BY <2>4, <2>c DEF Occupants, TypeOK, ChannelRemoved, Evicted
    <3> QED BY <2>less, <3>1
  <2>5. ASSUME NEW s \in Session, Work(s),
               ~(DropOverflowed(s) \/ Eject(s) \/ ForceMove(s) \/ ChannelRemoved(s))
        PROVE FillsWithinLimit
    BY <2>5, <2>less DEF Occupants, Work, Deliver, TellOfDropped, StoreBan, StoreUnban, Sweep,
       CloseTransport, MuteMember, ChannelUpdated, AnnounceEvicted
  <2>6. ASSUME NEW s \in Session, NEW ch \in Channel, JoinChannel(s, ch) PROVE FillsWithinLimit
    BY <2>6, EntrantFits DEF JoinChannel, MayEnter
  <2>7. ASSUME NEW s \in Session, Answered(s) \/ LeaveChannel(s) \/ UpdateInfo(s) PROVE FillsWithinLimit
    <3>1. \A ch \in DOMAIN channels : Occupants(ch)' \subseteq Occupants(ch)
      BY <2>7, <2>c DEF Occupants, TypeOK, Answered, LeaveChannel, UpdateInfo
    <3> QED BY <2>less, <3>1
  <2>8. ASSUME NEW s \in Session, ModeratorRequest(s) PROVE FillsWithinLimit
    BY <2>8, <2>less DEF Occupants, ModeratorRequest, Kick, SetServerMute, MoveMember, Ban, Unban,
       UpdateChannel, DeleteChannel
  <2>9. ASSUME NEW s \in Session, Drain(s) \/ Hangup(s) \/ EndLoop(s) \/ Depart(s) PROVE FillsWithinLimit
    <3>1. \A ch \in DOMAIN channels : Occupants(ch)' \subseteq Occupants(ch)
      BY <2>9, <2>c DEF Occupants, TypeOK, Drain, Hangup, EndLoop, Depart, remove
    <3> QED BY <2>less, <3>1
  <2> QED BY <2>1, <2>2, <2>3, <2>4, <2>5, <2>6, <2>7, <2>8, <2>9 DEF Next, MemberRequest
<1> QED BY <1>1, TypeCorrect, SlotsHaveTasks, RoomsExist, PTL DEF Spec, RoomsFillWithinLimit

-----------------------------------------------------------------------------
(* Presence *)

\* A session has work left only while it runs, or when its last farewell is
\* still to be announced.
IdleBetween ==
  \A s \in Session :
    phase[s] \in {"idle", "checked", "admitted", "greeting", "closing"} => todo[s] = <<>>

\* An arrival is announced to everyone but the one who arrives.
JoinsGoToOthers ==
  \A s \in Session : \A t \in Range(todo[s]) :
    t.frame.k = "joined" => t.op = "broadcast" /\ t.who = {t.frame.c}

AnnouncedEntered == \A x \in announced : phase[x] \notin {"idle", "checked"}

\* A client finds itself in its own AuthOk and is never told that it left
\* while it is there.
SeesItself ==
  \A x \in clients : phase[x] \in {"greeting", "running"} /\ open[x] => view[x][x] # Absent

\* MembersKnown, made inductive.
PresenceInv ==
  /\ NoLeakedSlot
  /\ IdleBetween
  /\ NoFalseFarewell
  /\ JoinsGoToOthers
  /\ AnnouncedEntered
  /\ SeesItself
  /\ MembersKnown

LEMMA IdleStep ==
  TypeOK /\ IdleBetween /\ [Next]_vars => IdleBetween'
<1> SUFFICES ASSUME TypeOK, IdleBetween, [Next]_vars PROVE IdleBetween'
  OBVIOUS
<1>1. CASE UNCHANGED vars
  BY <1>1 DEF vars, IdleBetween
<1>2. ASSUME NEW s \in Session, Handshake(s) PROVE IdleBetween'
  BY <1>2 DEF IdleBetween, TypeOK, Handshake, CheckBan, admit, Greet, Welcome, GreetFails
<1>3. ASSUME NEW s \in Session, Work(s) PROVE IdleBetween'
  <2>1. phase' = phase
    BY <1>3 DEF Work, Deliver, DropOverflowed, TellOfDropped, StoreBan, StoreUnban, Sweep, Eject,
       CloseTransport, MuteMember, ForceMove, ChannelUpdated, ChannelRemoved, AnnounceEvicted
  <2>2. todo[s] # <<>> /\ \A x \in Session \ {s} : todo'[x] = todo[x]
    BY <1>3, WorkMovesOn, ThenTyped DEF MovesOn, FreshSeq, TypeOK
  <2> QED BY <2>1, <2>2 DEF IdleBetween
<1>4. ASSUME NEW s \in Session, MemberRequest(s) \/ ModeratorRequest(s) PROVE IdleBetween'
  <2>1. phase' = phase
    BY <1>4 DEF MemberRequest, Answered, LeaveChannel, UpdateInfo, JoinChannel, ModeratorRequest,
       Kick, SetServerMute, MoveMember, Ban, Unban, UpdateChannel, DeleteChannel
  <2>2. phase[s] = "running" /\ \A x \in Session \ {s} : todo'[x] = todo[x]
    BY <1>4, RequestsAreFresh, RequestTyped DEF Starts, TypeOK, Request
  <2> QED BY <2>1, <2>2 DEF IdleBetween
<1>5. ASSUME NEW s \in Session, Drain(s) \/ Hangup(s) \/ EndLoop(s) \/ Depart(s) PROVE IdleBetween'
  BY <1>5 DEF IdleBetween, TypeOK, Drain, Hangup, EndLoop, Depart
<1> QED BY <1>1, <1>2, <1>3, <1>4, <1>5 DEF Next

\* y is among those the session s is about to drop.
ToDrop(y, s) == \E t \in Range(todo[s]) : t.op = "drop" /\ y \in t.who

\* The only task of s after the step, where s had none.
Opens(s, t) ==
  /\ todo[s] = <<>> /\ todo'[s] = <<t>>
  /\ \/ Opening(t)
     \/ t = Arrival(s) /\ phase[s] = "greeting" /\ phase'[s] = "running"

\* What any step does to the work that is left.
TodoStep ==
  \A s \in Session :
    /\ \A t \in Range(todo'[s]) : t \in Range(todo[s]) \/ FreshTask(t) \/ Opens(s, t)
    /\ \A y \in clients' : ToDrop(y, s) => ToDrop(y, s)'

LEMMA TodoSteps ==
  TypeOK /\ IdleBetween /\ [Next]_vars => TodoStep
<1> SUFFICES ASSUME TypeOK, IdleBetween, [Next]_vars PROVE TodoStep
  OBVIOUS
<1>t. todo \in [Session -> Seq(Tasks)]
  BY DEF TypeOK
<1>same. ASSUME todo' = todo PROVE TodoStep
  BY <1>same DEF TodoStep, ToDrop
<1>1. CASE UNCHANGED vars
  BY <1>1, <1>same DEF vars
<1>fresh. ASSUME NEW s \in Session, todo[s] = <<>>, NEW new, FreshSeq(new),
                 todo' = [todo EXCEPT ![s] = new]
          PROVE  TodoStep
  BY <1>t, <1>fresh, ShortRanges DEF TodoStep, ToDrop, FreshSeq
<1>open. ASSUME NEW s \in Session, todo[s] = <<>>, NEW t, Opens(s, t), todo' = [todo EXCEPT ![s] = <<t>>]
         PROVE  TodoStep
  BY <1>t, <1>open, ShortRanges DEF TodoStep, ToDrop
<1>2. ASSUME NEW s \in Session, Handshake(s) PROVE TodoStep
  <2>1. CASE Welcome(s)
    <3>1. todo[s] = <<>>
      BY <2>1 DEF Welcome, IdleBetween
    <3>2. /\ todo' = [todo EXCEPT ![s] = <<Arrival(s)>>]
          /\ phase[s] = "greeting" /\ phase'[s] = "running"
      BY <2>1 DEF Welcome, Arrival, TypeOK
    <3>3. todo'[s] = <<Arrival(s)>> /\ Opens(s, Arrival(s))
      BY <1>t, <3>1, <3>2 DEF Opens
    <3> QED BY <1>open, <3>1, <3>2, <3>3
  <2>2. CASE ~Welcome(s)
    BY <1>2, <1>same, <2>2 DEF Handshake, CheckBan, admit, Greet, GreetFails
  <2> QED BY <2>1, <2>2
<1>3. ASSUME NEW s \in Session, Work(s) PROVE TodoStep
  <2>1. MovesOn(s)
    BY <1>3, WorkMovesOn
  <2>2. PICK new : FreshSeq(new) /\ DropsKept(s, new) /\ Then(s, new)
    BY <2>1 DEF MovesOn
  <2>3. /\ Range(todo'[s]) = Range(new) \cup Range(Tail(todo[s]))
        /\ \A x \in Session \ {s} : todo'[x] = todo[x]
    BY <1>t, <2>1, <2>2, ThenTyped DEF MovesOn, FreshSeq
  <2>4. Range(todo[s]) = {Head(todo[s])} \cup Range(Tail(todo[s]))
    BY <1>t, <2>1, HeadTailRange DEF MovesOn
  <2>5. \A t \in Range(todo'[s]) : t \in Range(todo[s]) \/ FreshTask(t) \/ Opens(s, t)
    BY <2>2, <2>3, <2>4 DEF FreshSeq
  <2>6. ASSUME NEW y \in clients', ToDrop(y, s) PROVE ToDrop(y, s)'
    BY <2>2, <2>3, <2>4, <2>6 DEF ToDrop, DropsKept
  <2> QED BY <2>3, <2>5, <2>6 DEF TodoStep, ToDrop
<1>4. ASSUME NEW s \in Session, MemberRequest(s) \/ ModeratorRequest(s) PROVE TodoStep
  <2>1. PICK new \in Seq(Tasks) : StartSeq(new) /\ Request(s, new)
    BY <1>4, RequestsAreFresh DEF Starts
  <2>2. todo[s] = <<>> /\ todo' = [todo EXCEPT ![s] = new] /\ todo'[s] = new
    BY <1>t, <2>1 DEF Request
  <2>3. CASE FreshSeq(new)
    BY <1>fresh, <2>2, <2>3
  <2>4. ASSUME NEW t \in Tasks, new = <<t>>, Opening(t) PROVE TodoStep
    <3>1. Opens(s, t)
      BY <2>2, <2>4 DEF Opens
    <3> QED BY <1>open, <2>2, <2>4, <3>1
  <2> QED BY <2>1, <2>3, <2>4 DEF StartSeq
<1>5. ASSUME NEW s \in Session, Depart(s) PROVE TodoStep
  <2>1. todo[s] = <<>> /\ todo' = [todo EXCEPT ![s] = Farewell(s)] /\ clients' = remove(s)
    BY <1>5 DEF Depart, IdleBetween
  <2>2. s \in clients => FreshTask(Broadcast(UserLeft(s), {s}))
    BY <2>1 DEF FreshTask, Broadcast, Task, UserLeft, remove, About, Word
  <2>3. FreshSeq(Farewell(s))
    BY <2>2, FrameTypes, TaskTypes, FreshSeqs DEF Farewell
  <2> QED BY <1>fresh, <2>1, <2>3
<1>6. ASSUME NEW s \in Session, Drain(s) \/ Hangup(s) \/ EndLoop(s) PROVE TodoStep
  BY <1>6, <1>same DEF Drain, Hangup, EndLoop
<1> QED BY <1>1, <1>2, <1>3, <1>4, <1>5, <1>6 DEF Next

\* What queueing a frame for some clients does to every queue.
LEMMA QueuedStep ==
  ASSUME NEW to, NEW f \in Frame, queue \in [Session -> Seq(Frame)], queue' = Queued(to, f),
         NEW y \in Session
  PROVE  /\ \A g \in Range(queue'[y]) : g \in Range(queue[y]) \/ (g = f /\ y \in to)
         /\ Range(queue[y]) \subseteq Range(queue'[y])
         /\ y \in to /\ Listening(y) /\ ~Full(y) => f \in Range(queue'[y])
<1>1. Range(Queued(to, f)[y]) = IF y \in to /\ Listening(y) /\ ~Full(y) THEN Range(queue[y]) \cup {f}
                                ELSE Range(queue[y])
  BY QueuedTyped
<1>2. queue'[y] = Queued(to, f)[y]
  OBVIOUS
<1> QED BY <1>1, <1>2

\* A departure appears in a queue only if it was on its way, or if this very
\* step took the client off the roster.
QueueStep ==
  \A y \in Session : \A f \in Range(queue'[y]) :
    \/ f \in Range(queue[y])
    \/ f.k # "left"
    \/ Leaving(f.c)
    \/ f.c \in clients /\ f.c \notin clients'

LEMMA QueueSteps ==
  TypeOK /\ [Next]_vars => QueueStep
<1> SUFFICES ASSUME TypeOK, [Next]_vars PROVE QueueStep
  OBVIOUS
<1>t. todo \in [Session -> Seq(Tasks)] /\ queue \in [Session -> Seq(Frame)]
  BY DEF TypeOK
<1>same. ASSUME queue' = queue PROVE QueueStep
  BY <1>same DEF QueueStep
<1>1. CASE UNCHANGED vars
  BY <1>1, <1>same DEF vars
<1>2. ASSUME NEW s \in Session, Handshake(s) PROVE QueueStep
  <2>1. CASE GreetFails(s)
    <3>1. queue' = [queue EXCEPT ![s] = <<>>]
      BY <2>1 DEF GreetFails
    <3> QED BY <1>t, <3>1, ShortRanges DEF QueueStep
  <2>2. CASE ~GreetFails(s)
    BY <1>2, <1>same, <2>2 DEF Handshake, CheckBan, admit, Greet, Welcome
  <2> QED BY <2>1, <2>2
<1>3. ASSUME NEW s \in Session, Deliver(s) PROVE QueueStep
  <2> DEFINE f == Head(todo[s]).frame
  <2>1. Head(todo[s]) \in Tasks /\ Head(todo[s]) \in Range(todo[s])
    BY <1>t, <1>3, DoingTyped DEF Deliver
  <2>2. f \in Frame
    BY <2>1, TaskFields
  <2>3. PICK to : queue' = Queued(to, f)
    BY <1>3 DEF Deliver
  <2>4. \A y \in Session : \A g \in Range(queue'[y]) : g \in Range(queue[y]) \/ g = f
    BY <1>t, <2>2, <2>3, QueuedStep
  <2>5. f.k = "left" => Leaving(f.c)
    BY <2>1 DEF Leaving
  <2> QED BY <2>4, <2>5 DEF QueueStep
<1>4. ASSUME NEW s \in Session, TellOfDropped(s) PROVE QueueStep
  <2>1. /\ Head(todo[s]) \in Tasks /\ Head(todo[s]) \in Range(todo[s])
        /\ Head(todo[s]).op = "gone"
    BY <1>t, <1>4, DoingTyped DEF TellOfDropped
  <2>2. PICK c \in Head(todo[s]).who : queue' = Queued(clients, UserLeft(c))
    BY <1>4 DEF TellOfDropped
  <2>3. c \in Session /\ UserLeft(c) \in Frame /\ UserLeft(c).c = c
    BY <2>1, TaskFields, FrameTypes DEF UserLeft
  <2>4. \A y \in Session : \A g \in Range(queue'[y]) : g \in Range(queue[y]) \/ g = UserLeft(c)
    BY <1>t, <2>2, <2>3, QueuedStep
  <2>5. Leaving(c)
    BY <2>1 DEF Leaving
  <2> QED BY <2>3, <2>4, <2>5 DEF QueueStep
<1>5. ASSUME NEW s \in Session, Eject(s) PROVE QueueStep
  <2>1. Head(todo[s]) \in Tasks
    BY <1>t, <1>5, DoingTyped DEF Eject
  <2>2. PICK v \in Head(todo[s]).who : /\ queue' = Queued(clients \cap {v}, UserLeft(v))
                                       /\ clients' = remove(v)
    BY <1>5 DEF Eject
  <2>3. v \in Session /\ UserLeft(v) \in Frame /\ UserLeft(v).c = v
    BY <2>1, TaskFields, FrameTypes DEF UserLeft
  <2>4. \A y \in Session : \A g \in Range(queue'[y]) :
          g \in Range(queue[y]) \/ (g = UserLeft(v) /\ y \in clients \cap {v})
    BY <1>t, <2>2, <2>3, QueuedStep
  <2> QED BY <2>2, <2>3, <2>4 DEF QueueStep, remove
<1>6. ASSUME NEW s \in Session, Work(s), ~Deliver(s), ~TellOfDropped(s), ~Eject(s) PROVE QueueStep
  BY <1>6, <1>same DEF Work, DropOverflowed, StoreBan, StoreUnban, Sweep, CloseTransport, MuteMember,
     ForceMove, ChannelUpdated, ChannelRemoved, AnnounceEvicted
<1>7. ASSUME NEW s \in Session, MemberRequest(s) \/ ModeratorRequest(s) PROVE QueueStep
  BY <1>7, <1>same DEF MemberRequest, Answered, LeaveChannel, UpdateInfo, JoinChannel,
     ModeratorRequest, Kick, SetServerMute, MoveMember, Ban, Unban, UpdateChannel, DeleteChannel
<1>8. ASSUME NEW s \in Session, Drain(s) PROVE QueueStep
  <2>1. queue[s] # <<>> /\ queue' = [queue EXCEPT ![s] = Tail(queue[s])]
    BY <1>8 DEF Drain
  <2>2. Range(Tail(queue[s])) \subseteq Range(queue[s])
    BY <1>t, <2>1, HeadTailRange
  <2> QED BY <1>t, <2>1, <2>2 DEF QueueStep
<1>9. ASSUME NEW s \in Session, EndLoop(s) PROVE QueueStep
  <2>1. queue' = [queue EXCEPT ![s] = <<>>]
    BY <1>9 DEF EndLoop
  <2> QED BY <1>t, <2>1, ShortRanges DEF QueueStep
<1>10. ASSUME NEW s \in Session, Hangup(s) \/ Depart(s) PROVE QueueStep
  BY <1>10, <1>same DEF Hangup, Depart
<1> QED BY <1>1, <1>2, <1>3, <1>4, <1>5, <1>6, <1>7, <1>8, <1>9, <1>10 DEF Next

LEMMA FarewellStep ==
  TypeOK /\ NoLeakedSlot /\ IdleBetween /\ NoFalseFarewell /\ [Next]_vars => NoFalseFarewell'
<1> SUFFICES ASSUME TypeOK, NoLeakedSlot, NoFalseFarewell, RosterStep, TodoStep, QueueStep,
                    NEW x \in Session, Leaving(x)'
             PROVE  x \notin clients' /\ phase'[x] \notin {"idle", "checked"}
  BY RosterSteps, TodoSteps, QueueSteps DEF NoFalseFarewell
<1>1. Leaving(x) \/ (x \in clients /\ x \notin clients')
  <2>1. CASE \E y \in Session : \E f \in Range(queue'[y]) : f.k = "left" /\ f.c = x
    BY <2>1 DEF QueueStep, Leaving
  <2>2. CASE \E s \in Session : \E t \in Range(todo'[s]) :
               \/ t.frame.k = "left" /\ t.frame.c = x
               \/ t.op = "gone" /\ x \in t.who
    <3>1. ASSUME NEW s, NEW t, Opens(s, t) PROVE t.frame.k # "left" /\ t.op # "gone"
      BY <3>1 DEF Opens, Opening, Arrival, Broadcast, Task, UserJoined, Note
    <3> QED BY <2>2, <3>1 DEF TodoStep, FreshTask, Leaving
  <2> QED BY <2>1, <2>2 DEF Leaving
<1>2. CASE Leaving(x)
  BY <1>2 DEF NoFalseFarewell, RosterStep, TypeOK
<1>3. CASE x \in clients /\ x \notin clients'
  BY <1>3 DEF NoLeakedSlot, RosterStep
<1> QED BY <1>1, <1>2, <1>3

LEMMA JoinsStep ==
  JoinsGoToOthers /\ TodoStep => JoinsGoToOthers'
<1>1. ASSUME NEW s, NEW t, Opens(s, t), t.frame.k = "joined" PROVE t.op = "broadcast" /\ t.who = {t.frame.c}
  BY <1>1 DEF Opens, Opening, Arrival, Broadcast, Task, UserJoined, Note
<1> QED BY <1>1 DEF JoinsGoToOthers, TodoStep, FreshTask

\* Only the delivery of an arrival announces anyone.
AnnounceStep ==
  \/ announced' = announced
  \/ \E s \in Session :
       /\ Deliver(s)
       /\ Head(todo[s]).frame.k = "joined"
       /\ announced' = announced \cup ({Head(todo[s]).frame.c} \cap clients)

LEMMA AnnounceSteps ==
  [Next]_vars => AnnounceStep
<1> SUFFICES ASSUME [Next]_vars PROVE AnnounceStep
  OBVIOUS
<1>1. CASE UNCHANGED vars
  BY <1>1 DEF vars, AnnounceStep
<1>2. ASSUME NEW s \in Session, Handshake(s) PROVE AnnounceStep
  BY <1>2 DEF AnnounceStep, Handshake, CheckBan, admit, Greet, Welcome, GreetFails
<1>3. ASSUME NEW s \in Session, Deliver(s) PROVE AnnounceStep
  <2>1. announced' = IF Head(todo[s]).frame.k = "joined"
                     THEN announced \cup ({Head(todo[s]).frame.c} \cap clients) ELSE announced
    BY <1>3 DEF Deliver
  <2> QED BY <1>3, <2>1 DEF AnnounceStep
<1>4. ASSUME NEW s \in Session, Work(s), ~Deliver(s) PROVE AnnounceStep
  BY <1>4 DEF AnnounceStep, Work, DropOverflowed, TellOfDropped, StoreBan, StoreUnban, Sweep, Eject,
     CloseTransport, MuteMember, ForceMove, ChannelUpdated, ChannelRemoved, AnnounceEvicted
<1>5. ASSUME NEW s \in Session, MemberRequest(s) \/ ModeratorRequest(s) PROVE AnnounceStep
  BY <1>5 DEF AnnounceStep, MemberRequest, Answered, LeaveChannel, UpdateInfo, JoinChannel,
     ModeratorRequest, Kick, SetServerMute, MoveMember, Ban, Unban, UpdateChannel, DeleteChannel
<1>6. ASSUME NEW s \in Session, Drain(s) \/ Hangup(s) \/ EndLoop(s) \/ Depart(s) PROVE AnnounceStep
  BY <1>6 DEF AnnounceStep, Drain, Hangup, EndLoop, Depart
<1> QED BY <1>1, <1>2, <1>3, <1>4, <1>5, <1>6 DEF Next

LEMMA AnnouncedStep ==
  TypeOK /\ NoLeakedSlot /\ AnnouncedEntered /\ [Next]_vars => AnnouncedEntered'
<1> SUFFICES ASSUME TypeOK, NoLeakedSlot, AnnouncedEntered, RosterStep, AnnounceStep
             PROVE  AnnouncedEntered'
  BY RosterSteps, AnnounceSteps
<1>1. announced' \subseteq announced \cup clients
  BY DEF AnnounceStep
<1>2. \A x \in announced \cup clients : x \in Session /\ phase[x] \notin {"idle", "checked"}
  BY DEF TypeOK, AnnouncedEntered, NoLeakedSlot
<1> QED BY <1>1, <1>2 DEF AnnouncedEntered, RosterStep

\* What a client believes of another: a step may forget it only when a
\* departure is read, and a pending arrival only by being read.
HearStep ==
  \A y \in clients', x \in clients :
    /\ phase[y] \in {"greeting", "running"}
    /\ phase'[y] \in {"greeting", "running"}
    /\ open'[y]
    => /\ Hears(y, x) => Hears(y, x)'
       /\ view[y][x] # Absent => view'[y][x] # Absent

LEMMA HearSteps ==
  TypeOK /\ NoFalseFarewell /\ [Next]_vars => HearStep
<1> SUFFICES ASSUME TypeOK, NoFalseFarewell, [Next]_vars PROVE HearStep
  OBVIOUS
<1>t. todo \in [Session -> Seq(Tasks)] /\ queue \in [Session -> Seq(Frame)]
  BY DEF TypeOK
<1>v. clients' \subseteq Session /\ clients \subseteq Session
  BY TypeNext DEF TypeOK
<1>same. ASSUME view' = view, \A y \in Session : Range(queue[y]) \subseteq Range(queue'[y]) PROVE HearStep
  BY <1>v, <1>same DEF HearStep, Hears
<1>keep. ASSUME view' = view, queue' = queue PROVE HearStep
  BY <1>same, <1>keep
<1>1. CASE UNCHANGED vars
  BY <1>1, <1>keep DEF vars
<1>2. ASSUME NEW s \in Session, Handshake(s) PROVE HearStep
  <2>1. CASE Greet(s)
    <3>1. phase[s] = "admitted" /\ queue' = queue /\ \A y \in Session \ {s} : view'[y] = view[y]
      BY <2>1 DEF Greet, TypeOK
    <3> QED BY <1>v, <3>1 DEF HearStep, Hears
  <2>2. CASE GreetFails(s)
    <3>1. phase'[s] = "done" /\ view' = view /\ \A y \in Session \ {s} : queue'[y] = queue[y]
      BY <2>2 DEF GreetFails, TypeOK
    <3> QED BY <1>v, <3>1 DEF HearStep, Hears
  <2>3. CASE CheckBan(s) \/ admit(s) \/ Welcome(s)
    BY <1>keep, <2>3 DEF CheckBan, admit, Welcome
  <2> QED BY <1>2, <2>1, <2>2, <2>3 DEF Handshake
<1>3. ASSUME NEW s \in Session, Deliver(s) PROVE HearStep
  <2>1. Head(todo[s]).frame \in Frame
    BY <1>t, <1>3, DoingTyped, TaskFields DEF Deliver
  <2>2. PICK to : queue' = Queued(to, Head(todo[s]).frame)
    BY <1>3 DEF Deliver
  <2>3. \A y \in Session : Range(queue[y]) \subseteq Range(queue'[y])
    BY <1>t, <2>1, <2>2, QueuedStep
  <2> QED BY <1>3, <1>same, <2>3 DEF Deliver
<1>4. ASSUME NEW s \in Session, TellOfDropped(s) \/ Eject(s) PROVE HearStep
  <2>1. Head(todo[s]).who \subseteq Session
    BY <1>t, <1>4, DoingTyped, TaskFields DEF TellOfDropped, Eject
  <2>2. \E to : \E c \in Session : queue' = Queued(to, UserLeft(c))
    BY <1>4, <2>1 DEF TellOfDropped, Eject
  <2>3. PICK to : \E c \in Session : queue' = Queued(to, UserLeft(c))
    BY <2>2
  <2>4. \A y \in Session : Range(queue[y]) \subseteq Range(queue'[y])
    BY <1>t, <2>3, FrameTypes, QueuedStep
  <2> QED BY <1>4, <1>same, <2>4 DEF TellOfDropped, Eject
<1>5. ASSUME NEW s \in Session, Work(s), ~Deliver(s), ~TellOfDropped(s), ~Eject(s) PROVE HearStep
  BY <1>5, <1>keep DEF Work, DropOverflowed, StoreBan, StoreUnban, Sweep, CloseTransport, MuteMember,
     ForceMove, ChannelUpdated, ChannelRemoved, AnnounceEvicted
<1>6. ASSUME NEW s \in Session, MemberRequest(s) \/ ModeratorRequest(s) PROVE HearStep
  BY <1>6, <1>keep DEF MemberRequest, Answered, LeaveChannel, UpdateInfo, JoinChannel,
     ModeratorRequest, Kick, SetServerMute, MoveMember, Ban, Unban, UpdateChannel, DeleteChannel
<1>7. ASSUME NEW s \in Session, Drain(s) PROVE HearStep
  <2> DEFINE f == Head(queue[s])
  <2>1. queue[s] # <<>> /\ queue' = [queue EXCEPT ![s] = Tail(queue[s])] /\ open' = open
    BY <1>7 DEF Drain
  <2>2. f \in Frame /\ Range(queue[s]) = {f} \cup Range(Tail(queue[s]))
    BY <1>t, <2>1, HeadTailRange
  <2>3. \A y \in Session \ {s} : queue'[y] = queue[y] /\ view'[y] = view[y]
    BY <1>7, <2>1 DEF Drain, TypeOK
  <2>4. ASSUME NEW x \in clients, s \in clients', open'[s]
        PROVE  /\ Hears(s, x) => Hears(s, x)'
               /\ view[s][x] # Absent => view'[s][x] # Absent
    <3>1. view'[s] = Applied(view[s], f)
      BY <1>7, <2>1, <2>4 DEF Drain, TypeOK
    <3>2. ~(f.k = "left" /\ f.c = x)
      BY <1>v, <2>2 DEF NoFalseFarewell, Leaving
    <3>3. f.to # Absent
      BY <2>2, RosterAssumption DEF Frame
    <3>4. view[s] \in [Session -> Channel \cup {None, Absent}] /\ x \in Session
      BY <1>v DEF TypeOK
    <3>5. /\ view[s][x] # Absent => Applied(view[s], f)[x] # Absent
          /\ f.k = "joined" /\ f.c = x => Applied(view[s], f)[x] # Absent
      BY <3>2, <3>3, <3>4 DEF Applied
    <3>6. queue'[s] = Tail(queue[s])
      BY <1>t, <2>1
    <3> QED BY <2>2, <3>1, <3>5, <3>6 DEF Hears
  <2> QED BY <1>v, <2>3, <2>4 DEF HearStep, Hears
<1>8. ASSUME NEW s \in Session, EndLoop(s) PROVE HearStep
  <2>1. phase'[s] = "closing" /\ view' = view /\ \A y \in Session \ {s} : queue'[y] = queue[y]
    BY <1>8 DEF EndLoop, TypeOK
  <2> QED BY <1>v, <2>1 DEF HearStep, Hears
<1>9. ASSUME NEW s \in Session, Hangup(s) \/ Depart(s) PROVE HearStep
  BY <1>9, <1>keep DEF Hangup, Depart
<1> QED BY <1>1, <1>2, <1>3, <1>4, <1>5, <1>6, <1>7, <1>8, <1>9 DEF Next

\* A client that has its AuthOk after a step had it before, or has just been
\* given the roster as it is; a transport never opens again.
GreetStep ==
  /\ \A y \in clients' :
       phase'[y] \in {"greeting", "running"} =>
         \/ y \in clients /\ phase[y] \in {"greeting", "running"}
         \/ /\ clients' = clients
            /\ announced' = announced
            /\ \A x \in clients : view'[y][x] # Absent
  /\ \A y \in Session : open'[y] /\ phase[y] # "idle" => open[y]

LEMMA GreetSteps ==
  TypeOK /\ NoLeakedSlot /\ [Next]_vars => GreetStep
<1> SUFFICES ASSUME TypeOK, NoLeakedSlot, [Next]_vars PROVE GreetStep
  OBVIOUS
<1>1. CASE UNCHANGED vars
  BY <1>1 DEF vars, GreetStep
<1>2. ASSUME NEW s \in Session, Greet(s) PROVE GreetStep
  <2>1. /\ clients' = clients /\ open' = open /\ announced' = announced
        /\ \A x \in clients : view'[s][x] = channel[x]
        /\ \A y \in Session \ {s} : phase'[y] = phase[y]
    BY <1>2 DEF Greet, TypeOK
  <2>2. \A x \in clients : channel[x] # Absent
    BY RosterAssumption DEF TypeOK
  <2> QED BY <2>1, <2>2 DEF GreetStep, TypeOK
<1>3. ASSUME NEW s \in Session, Handshake(s), ~Greet(s) PROVE GreetStep
  BY <1>3 DEF GreetStep, TypeOK, NoLeakedSlot, Handshake, CheckBan, admit, Welcome, GreetFails, remove
<1>4. ASSUME NEW s \in Session, Work(s) PROVE GreetStep
  BY <1>4 DEF GreetStep, TypeOK, Work, Deliver, DropOverflowed, TellOfDropped, StoreBan, StoreUnban,
     Sweep, Eject, CloseTransport, MuteMember, ForceMove, ChannelUpdated, ChannelRemoved,
     AnnounceEvicted, remove
<1>5. ASSUME NEW s \in Session, MemberRequest(s) \/ ModeratorRequest(s) PROVE GreetStep
  BY <1>5 DEF GreetStep, MemberRequest, Answered, LeaveChannel, UpdateInfo, JoinChannel,
     ModeratorRequest, Kick, SetServerMute, MoveMember, Ban, Unban, UpdateChannel, DeleteChannel
<1>6. ASSUME NEW s \in Session, Drain(s) \/ Hangup(s) \/ EndLoop(s) \/ Depart(s) PROVE GreetStep
  BY <1>6 DEF GreetStep, TypeOK, Drain, Hangup, EndLoop, Depart, remove
<1> QED BY <1>1, <1>2, <1>3, <1>4, <1>5, <1>6 DEF Next

\* As long as it is on the roster, a client whose transport is open sees itself.
LEMMA SelfStep ==
  TypeOK /\ NoLeakedSlot /\ NoFalseFarewell /\ SeesItself /\ [Next]_vars => SeesItself'
<1> SUFFICES ASSUME TypeOK, TypeOK', SeesItself, GreetStep, HearStep,
                    NEW x \in clients', phase'[x] \in {"greeting", "running"}, open'[x]
             PROVE  view'[x][x] # Absent
  BY GreetSteps, HearSteps, TypeNext DEF SeesItself
<1>1. x \in Session
  BY DEF TypeOK
<1>2. CASE x \in clients /\ phase[x] \in {"greeting", "running"}
  BY <1>1, <1>2 DEF SeesItself, HearStep, GreetStep
<1>3. CASE clients' = clients /\ \A z \in clients : view'[x][z] # Absent
  BY <1>3
<1> QED BY <1>2, <1>3 DEF GreetStep

LEMMA MembersStep ==
  TypeOK /\ PresenceInv /\ [Next]_vars => MembersKnown'
<1> SUFFICES ASSUME TypeOK, TypeOK', PresenceInv, RosterStep, TodoStep, AnnounceStep, GreetStep, HearStep,
                    NEW y \in clients', NEW x \in clients' \cap announced',
                    phase'[y] \in {"greeting", "running"}, open'[y], y \notin Doomed'
             PROVE  Hears(y, x)'
  BY RosterSteps, TodoSteps, AnnounceSteps, GreetSteps, HearSteps, TypeNext
     DEF MembersKnown, PresenceInv
<1>1. x \in Session /\ y \in Session
  BY DEF TypeOK
<1>2. CASE /\ clients' = clients
           /\ announced' = announced
           /\ \A z \in clients : view'[y][z] # Absent
  BY <1>2 DEF Hears
<1>3. CASE y \in clients /\ phase[y] \in {"greeting", "running"}
  <2>1. open[y]
    BY <1>1, <1>3 DEF GreetStep
  <2>2. y \notin Doomed
    BY <1>1 DEF Doomed, TodoStep, ToDrop
  <2>3. x \in clients
    <3>1. announced' \subseteq announced \cup clients
      BY DEF AnnounceStep
    <3> QED BY <1>1, <3>1 DEF PresenceInv, AnnouncedEntered, RosterStep
  <2>4. CASE x \in announced
    BY <1>3, <2>1, <2>2, <2>3, <2>4 DEF PresenceInv, MembersKnown, HearStep
  <2>5. CASE x \notin announced
    <3>1. PICK s \in Session : /\ Deliver(s)
                               /\ Head(todo[s]).frame.k = "joined"
                               /\ announced' = announced \cup ({Head(todo[s]).frame.c} \cap clients)
      BY <2>5 DEF AnnounceStep
    <3> DEFINE t == Head(todo[s])
               to == IF t.op = "send" THEN clients \cap t.who ELSE clients \ t.who
               full == Overflowed(to)
               new == IF full = {} THEN <<>> ELSE <<Drop(full)>>
    <3>2. t.frame.c = x
      BY <2>5, <3>1
    <3>3. todo[s] # <<>> /\ t \in Tasks /\ t \in Range(todo[s])
      BY <3>1, DoingTyped DEF Deliver, TypeOK
    <3>4. t.op = "broadcast" /\ t.who = {x}
      BY <3>1, <3>2, <3>3 DEF PresenceInv, JoinsGoToOthers
    <3>5. view' = view /\ queue' = Queued(to, t.frame) /\ Then(s, new)
      BY <3>1 DEF Deliver
    <3>6. CASE y = x
      BY <1>3, <2>1, <2>3, <3>5, <3>6 DEF PresenceInv, SeesItself, Hears
    <3>7. CASE y # x
      <4>1. y \in to /\ Listening(y)
        BY <1>3, <3>4, <3>7 DEF Listening
      <4>2. ~Full(y)
        <5> SUFFICES ASSUME Full(y) PROVE FALSE
          OBVIOUS
        <5>1. y \in full
          BY <4>1 DEF Overflowed
        <5>2. full \subseteq Session
          BY DEF Overflowed, TypeOK
        <5>3. new = <<Drop(full)>>
          BY <5>1
        <5> HIDE DEF full, new
        <5>4. Drop(full) \in Tasks
          BY <5>2, FrameTypes, TaskTypes
        <5>5. new \in Seq(Tasks) /\ Range(new) = {Drop(full)}
          BY <5>3, <5>4, ShortRanges
        <5>6. todo \in [Session -> Seq(Tasks)]
          BY DEF TypeOK
        <5>7. Range(todo'[s]) = Range(new) \cup Range(Tail(todo[s]))
          BY <3>3, <3>5, <5>5, <5>6, ThenTyped
        <5>8. Drop(full).op = "drop" /\ y \in Drop(full).who
          BY <5>1 DEF Drop, Task
        <5> QED BY <1>1, <5>5, <5>7, <5>8 DEF Doomed
      <4>3. t.frame \in Frame
        BY <3>3, TaskFields
      <4>4. t.frame \in Range(queue'[y])
        <5> HIDE DEF t, to
        <5>1. queue \in [Session -> Seq(Frame)]
          BY DEF TypeOK
        <5> QED BY <1>1, <3>5, <4>1, <4>2, <4>3, <5>1, QueuedStep
      <4> QED BY <3>1, <3>2, <4>4 DEF Hears
    <3> QED BY <3>6, <3>7
  <2> QED BY <2>4, <2>5
<1> QED BY <1>2, <1>3 DEF GreetStep

LEMMA PresenceInit == Init => PresenceInv
<1> SUFFICES ASSUME Init PROVE PresenceInv
  OBVIOUS
<1>1. \A s \in Session : Range(queue[s]) = {} /\ Range(todo[s]) = {}
  BY ShortRanges DEF Init
<1> QED BY <1>1 DEF Init, PresenceInv, NoLeakedSlot, IdleBetween, NoFalseFarewell, Leaving,
           JoinsGoToOthers, AnnouncedEntered, SeesItself, MembersKnown

LEMMA PresenceNext == TypeOK /\ PresenceInv /\ [Next]_vars => PresenceInv'
<1> SUFFICES ASSUME TypeOK, PresenceInv, [Next]_vars PROVE PresenceInv'
  OBVIOUS
<1>1. NoLeakedSlot'
  BY RosterSteps, TypeNext DEF PresenceInv, NoLeakedSlot, RosterStep, TypeOK
<1>2. IdleBetween'
  BY IdleStep DEF PresenceInv
<1>3. NoFalseFarewell'
  BY FarewellStep DEF PresenceInv
<1>4. JoinsGoToOthers'
  BY JoinsStep, TodoSteps DEF PresenceInv
<1>5. AnnouncedEntered'
  BY AnnouncedStep DEF PresenceInv
<1>6. SeesItself'
  BY SelfStep DEF PresenceInv
<1>7. MembersKnown'
  BY MembersStep
<1> QED BY <1>1, <1>2, <1>3, <1>4, <1>5, <1>6, <1>7 DEF PresenceInv

LEMMA PresenceHolds == Spec => []PresenceInv
BY PresenceInit, PresenceNext, TypeCorrect, PTL DEF Spec

\* Nobody is declared gone while it is there, and nobody who was comes back.
THEOREM FarewellsAreTrue == Spec => []NoFalseFarewell
<1>1. PresenceInv => NoFalseFarewell
  BY DEF PresenceInv
<1> QED BY <1>1, PresenceHolds, PTL

\* Between the roster in AuthOk and the announcements queued around it there is
\* no hole: an announced member is known to every connected client, or about to
\* be read by it, unless that client is about to be dropped for being slow.
THEOREM NobodyIsMissed == Spec => []MembersKnown
<1>1. PresenceInv => MembersKnown
  BY DEF PresenceInv
<1> QED BY <1>1, PresenceHolds, PTL

-----------------------------------------------------------------------------
(* The last frame on a subject *)

\* A frame of G is in the queue q, and none of W comes after it.
LastIn(q, W, G) == \E i \in 1..Len(q) : q[i] \in G /\ \A j \in 1..Len(q) : j > i => q[j] \notin W
NoneIn(q, W) == \A i \in 1..Len(q) : q[i] \notin W

\* A frame that is queued has the last word, or leaves the last word alone.
LEMMA LastQueued ==
  ASSUME NEW q \in Seq(Frame), NEW f \in Frame, NEW W, NEW G
  PROVE  /\ f \in G => LastIn(Append(q, f), W, G)
         /\ f \notin W /\ LastIn(q, W, G) => LastIn(Append(q, f), W, G)
         /\ f \notin W /\ NoneIn(q, W) => NoneIn(Append(q, f), W)
<1> DEFINE r == Append(q, f)
<1>1. /\ Len(q) \in Nat
      /\ Len(r) = Len(q) + 1
      /\ \A i \in 1..Len(q) : r[i] = q[i]
      /\ r[Len(q) + 1] = f
  BY AppendProperties, LenProperties
<1> HIDE DEF r
<1>2. ASSUME f \in G PROVE LastIn(r, W, G)
  <2>1. Len(q) + 1 \in 1..Len(r) /\ \A j \in 1..Len(r) : ~(j > Len(q) + 1)
    BY <1>1
  <2> QED BY <1>1, <1>2, <2>1 DEF LastIn
<1>3. ASSUME f \notin W, LastIn(q, W, G) PROVE LastIn(r, W, G)
  <2>1. PICK i \in 1..Len(q) : q[i] \in G /\ \A j \in 1..Len(q) : j > i => q[j] \notin W
    BY <1>3 DEF LastIn
  <2>2. i \in 1..Len(r) /\ r[i] \in G
    BY <1>1, <2>1
  <2>3. ASSUME NEW j \in 1..Len(r), j > i PROVE r[j] \notin W
    <3>1. j \in 1..Len(q) \/ j = Len(q) + 1
      BY <1>1
    <3> QED BY <1>1, <1>3, <2>1, <2>3, <3>1
  <2> QED BY <2>2, <2>3 DEF LastIn
<1>4. ASSUME f \notin W, NoneIn(q, W) PROVE NoneIn(r, W)
  <2> SUFFICES ASSUME NEW j \in 1..Len(r) PROVE r[j] \notin W
    BY DEF NoneIn
  <2>1. j \in 1..Len(q) \/ j = Len(q) + 1
    BY <1>1
  <2> QED BY <1>1, <1>4, <2>1 DEF NoneIn
<1> QED BY <1>2, <1>3, <1>4 DEF r

\* Taking the head off a queue leaves the last word, or was the last word.
LEMMA LastTaken ==
  ASSUME NEW q \in Seq(Frame), q # <<>>, NEW W, NEW G
  PROVE  /\ LastIn(q, W, G) => LastIn(Tail(q), W, G) \/ (Head(q) \in G /\ NoneIn(Tail(q), W))
         /\ NoneIn(q, W) => Head(q) \notin W /\ NoneIn(Tail(q), W)
<1> DEFINE r == Tail(q)
<1>1. /\ Len(q) \in Nat \ {0}
      /\ Len(r) = Len(q) - 1
      /\ Head(q) = q[1]
      /\ \A i \in 1..Len(r) : r[i] = q[i + 1]
  BY HeadTailProperties, LenProperties, EmptySeq
<1> HIDE DEF r
<1>2. ASSUME LastIn(q, W, G) PROVE LastIn(r, W, G) \/ (Head(q) \in G /\ NoneIn(r, W))
  <2>1. PICK i \in 1..Len(q) : q[i] \in G /\ \A j \in 1..Len(q) : j > i => q[j] \notin W
    BY <1>2 DEF LastIn
  <2>2. CASE i = 1
    <3>1. \A j \in 1..Len(r) : j + 1 \in 1..Len(q) /\ j + 1 > i
      BY <1>1, <2>2
    <3>2. NoneIn(r, W)
      BY <1>1, <2>1, <3>1 DEF NoneIn
    <3> QED BY <1>1, <2>1, <2>2, <3>2
  <2>3. CASE i # 1
    <3>1. i - 1 \in 1..Len(r) /\ (i - 1) + 1 = i
      BY <1>1, <2>3
    <3>2. r[i - 1] \in G
      BY <1>1, <2>1, <3>1
    <3>3. \A j \in 1..Len(r) : j > i - 1 => j + 1 \in 1..Len(q) /\ j + 1 > i
      BY <1>1
    <3>4. \A j \in 1..Len(r) : j > i - 1 => r[j] \notin W
      BY <1>1, <2>1, <3>3
    <3> QED BY <3>1, <3>2, <3>4 DEF LastIn
  <2> QED BY <2>2, <2>3
<1>3. ASSUME NoneIn(q, W) PROVE Head(q) \notin W /\ NoneIn(r, W)
  <2>1. 1 \in 1..Len(q) /\ \A j \in 1..Len(r) : j + 1 \in 1..Len(q)
    BY <1>1
  <2> QED BY <1>1, <1>3, <2>1 DEF NoneIn
<1> QED BY <1>2, <1>3 DEF r

LEMMA NothingQueued ==
  ASSUME NEW W, NEW G
  PROVE  NoneIn(<<>>, W) /\ ~LastIn(<<>>, W, G)
BY DEF NoneIn, LastIn

-----------------------------------------------------------------------------
(* What a step does to one client and to one todo *)

\* Each todo stays as it is, is begun, or has its head replaced.
LEMMA TodoCases ==
  ASSUME TypeOK, IdleBetween, [Next]_vars, NEW s \in Session
  PROVE  todo'[s] = todo[s] \/ todo[s] = <<>> \/ (Work(s) /\ MovesOn(s))
<1>t. todo \in [Session -> Seq(Tasks)]
  BY DEF TypeOK
<1>1. CASE UNCHANGED vars
  BY <1>1 DEF vars
<1>2. ASSUME NEW r \in Session, Handshake(r) \/ Drain(r) \/ Hangup(r) \/ EndLoop(r) \/ Depart(r)
      PROVE  todo'[s] = todo[s] \/ todo[s] = <<>>
  BY <1>t, <1>2 DEF IdleBetween, Handshake, CheckBan, admit, Greet, Welcome, GreetFails, Drain, Hangup,
     EndLoop, Depart
<1>3. ASSUME NEW r \in Session, MemberRequest(r) \/ ModeratorRequest(r)
      PROVE  todo'[s] = todo[s] \/ todo[s] = <<>>
  <2>1. PICK new \in Seq(Tasks) : Request(r, new)
    BY <1>3, RequestsAreFresh DEF Starts
  <2> QED BY <1>t, <2>1 DEF Request
<1>4. ASSUME NEW r \in Session, Work(r) PROVE todo'[s] = todo[s] \/ (Work(s) /\ MovesOn(s))
  <2>1. MovesOn(r)
    BY <1>4, WorkMovesOn
  <2>2. s # r => todo'[s] = todo[s]
    BY <1>t, <2>1, ThenTyped DEF MovesOn, FreshSeq
  <2> QED BY <1>4, <2>1, <2>2
<1> QED BY <1>1, <1>2, <1>3, <1>4 DEF Next

\* A task stays until its session works on it.
LEMMA TaskStays ==
  ASSUME TypeOK, IdleBetween, [Next]_vars, NEW s \in Session, NEW t \in Range(todo[s])
  PROVE  \/ t \in Range(todo'[s])
         \/ todo[s] # <<>> /\ t = Head(todo[s]) /\ Work(s)
<1>t. todo \in [Session -> Seq(Tasks)]
  BY DEF TypeOK
<1>1. todo[s] # <<>>
  BY ShortRanges
<1>2. CASE todo'[s] = todo[s]
  BY <1>2
<1>3. CASE Work(s) /\ MovesOn(s)
  <2>1. PICK new : FreshSeq(new) /\ Then(s, new)
    BY <1>3 DEF MovesOn
  <2>2. Range(todo'[s]) = Range(new) \cup Range(Tail(todo[s]))
    BY <1>t, <1>1, <2>1, ThenTyped DEF FreshSeq
  <2>3. t = Head(todo[s]) \/ t \in Range(Tail(todo[s]))
    BY <1>t, <1>1, HeadTailRange
  <2> QED BY <1>1, <1>3, <2>2, <2>3
<1> QED BY <1>1, <1>2, <1>3, TodoCases

\* The work on a task is that of its kind.
LEMMA WorkByKind ==
  ASSUME NEW s \in Session, Work(s)
  PROVE  /\ Head(todo[s]).op = "broadcast" => Deliver(s)
         /\ Head(todo[s]).op = "gone" => TellOfDropped(s)
         /\ Head(todo[s]).op = "evicted" => AnnounceEvicted(s)
BY DEF Work, Doing, Deliver, DropOverflowed, TellOfDropped, StoreBan, StoreUnban, Sweep, Eject,
   CloseTransport, MuteMember, ForceMove, ChannelUpdated, ChannelRemoved, AnnounceEvicted

\* A client that is on the roster, listens, and is not about to be dropped.
Connected(y) == y \in clients /\ Listening(y) /\ open[y] /\ y \notin Doomed

\* What a step may do to a client that stays connected: nothing, queue a frame
\* for it, hand it the head of its queue, or read the roster for its AuthOk.
Still(y) ==
  /\ queue'[y] = queue[y] /\ view'[y] = view[y]
  /\ phase'[y] = "admitted" <=> phase[y] = "admitted"
IsSent(y, f) == queue'[y] = Append(queue[y], f) /\ view'[y] = view[y] /\ phase' = phase
Delivered(y) == \E s \in Session : Deliver(s) /\ IsSent(y, Head(todo[s]).frame)
ToldGone(y) == \E c \in Session : IsSent(y, UserLeft(c))
Reads(y) ==
  /\ phase[y] = "running" /\ phase' = phase
  /\ queue[y] # <<>> /\ queue'[y] = Tail(queue[y])
  /\ view'[y] = Applied(view[y], Head(queue[y]))
IsGreeted(y) ==
  /\ queue'[y] = queue[y]
  /\ clients' = clients /\ channel' = channel
  /\ view'[y] = [x \in Session |-> IF x \in clients THEN channel[x] ELSE Absent]

LEMMA ListenSteps ==
  ASSUME TypeOK, [Next]_vars, NEW y \in Session, Connected(y), Connected(y)'
  PROVE  Still(y) \/ Delivered(y) \/ ToldGone(y) \/ Reads(y) \/ IsGreeted(y)
<1>t. /\ todo \in [Session -> Seq(Tasks)] /\ queue \in [Session -> Seq(Frame)]
      /\ phase \in [Session -> {"idle", "checked", "admitted", "greeting", "running", "closing", "done"}]
      /\ view \in [Session -> [Session -> Channel \cup {None, Absent}]]
  BY DEF TypeOK
<1>y. /\ y \in clients /\ y \in clients' /\ open[y]
      /\ phase[y] \in {"admitted", "greeting", "running"}
      /\ phase'[y] \in {"admitted", "greeting", "running"}
  BY DEF Connected, Listening
<1>same. ASSUME queue' = queue, view' = view, phase' = phase PROVE Still(y)
  BY <1>same DEF Still
<1>1. CASE UNCHANGED vars
  BY <1>1, <1>same DEF vars
<1>2. ASSUME NEW s \in Session, Handshake(s) PROVE Still(y) \/ IsGreeted(y)
  <2>1. CASE Greet(s) /\ s = y
    BY <1>t, <2>1 DEF Greet, IsGreeted
  <2>2. CASE s # y
    BY <1>2, <1>t, <2>2 DEF Still, Handshake, CheckBan, admit, Greet, Welcome, GreetFails
  <2>3. CASE s = y /\ ~Greet(s)
    BY <1>2, <1>t, <1>y, <2>3 DEF Still, Handshake, CheckBan, admit, Welcome, GreetFails
  <2> QED BY <2>1, <2>2, <2>3
<1>3. ASSUME NEW s \in Session, Deliver(s) PROVE Still(y) \/ Delivered(y)
  <2> DEFINE f == Head(todo[s]).frame
  <2>1. PICK to : queue' = Queued(to, f)
    BY <1>3 DEF Deliver
  <2>2. view' = view /\ phase' = phase
    BY <1>3 DEF Deliver
  <2>3. queue'[y] = Append(queue[y], f) \/ queue'[y] = queue[y]
    BY <2>1 DEF Queued
  <2> QED BY <1>3, <2>2, <2>3 DEF Still, Delivered, IsSent
<1>4. ASSUME NEW s \in Session, TellOfDropped(s) PROVE Still(y) \/ ToldGone(y)
  <2>1. Head(todo[s]).who \subseteq Session
    BY <1>t, <1>4, DoingTyped, TaskFields DEF TellOfDropped
  <2>2. PICK c \in Head(todo[s]).who : queue' = Queued(clients, UserLeft(c))
    BY <1>4 DEF TellOfDropped
  <2>3. queue'[y] = Append(queue[y], UserLeft(c)) \/ queue'[y] = queue[y]
    BY <2>2 DEF Queued
  <2>4. view' = view /\ phase' = phase
    BY <1>4 DEF TellOfDropped
  <2> QED BY <2>1, <2>2, <2>3, <2>4 DEF Still, ToldGone, IsSent
<1>5. ASSUME NEW s \in Session, Eject(s) PROVE Still(y)
  <2>1. PICK v \in Head(todo[s]).who : /\ queue' = Queued(clients \cap {v}, UserLeft(v))
                                       /\ clients' = remove(v)
    BY <1>5 DEF Eject
  <2>2. y # v
    BY <1>y, <2>1 DEF remove
  <2>3. queue'[y] = queue[y]
    BY <2>1, <2>2 DEF Queued
  <2> QED BY <1>5, <2>3 DEF Still, Eject
<1>6. ASSUME NEW s \in Session, Work(s), ~Deliver(s), ~TellOfDropped(s), ~Eject(s) PROVE Still(y)
  BY <1>6, <1>same DEF Work, DropOverflowed, StoreBan, StoreUnban, Sweep, CloseTransport, MuteMember,
     ForceMove, ChannelUpdated, ChannelRemoved, AnnounceEvicted
<1>7. ASSUME NEW s \in Session, MemberRequest(s) \/ ModeratorRequest(s) PROVE Still(y)
  BY <1>7, <1>same DEF MemberRequest, Answered, LeaveChannel, UpdateInfo, JoinChannel,
     ModeratorRequest, Kick, SetServerMute, MoveMember, Ban, Unban, UpdateChannel, DeleteChannel
<1>8. ASSUME NEW s \in Session, Drain(s) PROVE Still(y) \/ Reads(y)
  BY <1>8, <1>t, <1>y DEF Still, Reads, Drain
<1>9. ASSUME NEW s \in Session, EndLoop(s) \/ Depart(s) \/ Hangup(s) PROVE Still(y)
  BY <1>9, <1>t, <1>y DEF Still, EndLoop, Depart, Hangup
<1> QED BY <1>1, <1>2, <1>3, <1>4, <1>5, <1>6, <1>7, <1>8, <1>9 DEF Next

\* A client that is connected after a step was so before, or has just entered.
Enters(y) == phase[y] = "checked" /\ phase'[y] = "admitted" /\ queue'[y] = queue[y]

LEMMA ConnectedSteps ==
  ASSUME TypeOK, TypeOK', NoLeakedSlot, IdleBetween, [Next]_vars, NEW y \in Session, Connected(y)'
  PROVE  Connected(y) \/ Enters(y)
<1>1. RosterStep /\ TodoStep /\ GreetStep
  BY RosterSteps, TodoSteps, GreetSteps
<1>2. y \in clients' /\ Listening(y)' /\ open'[y] /\ y \notin Doomed'
  BY DEF Connected
<1>3. phase'[y] \in {"admitted", "greeting", "running"}
  BY <1>2 DEF Listening
<1>4. CASE y \in clients
  <2>1. phase[y] \in {"admitted", "greeting", "running"}
    BY <1>1, <1>3, <1>4 DEF RosterStep, NoLeakedSlot
  <2>2. open[y]
    BY <1>1, <1>2, <2>1 DEF GreetStep
  <2>3. y \notin Doomed
    BY <1>1, <1>2 DEF Doomed, TodoStep, ToDrop
  <2> QED BY <1>4, <2>1, <2>2, <2>3 DEF Connected, Listening
<1>5. CASE y \notin clients
  <2>1. phase[y] = "checked" /\ phase'[y] = "admitted"
    BY <1>1, <1>2, <1>3, <1>5 DEF RosterStep
  <2>2. admit(y)
    <3>1. ASSUME NEW s \in Session, Handshake(s) PROVE admit(y)
      BY <2>1, <3>1 DEF Handshake, CheckBan, admit, Greet, Welcome, GreetFails, TypeOK
    <3>2. ASSUME NEW s \in Session, Work(s) PROVE phase' = phase
      BY <3>2 DEF Work, Deliver, DropOverflowed, TellOfDropped, StoreBan, StoreUnban, Sweep, Eject,
         CloseTransport, MuteMember, ForceMove, ChannelUpdated, ChannelRemoved, AnnounceEvicted
    <3>3. ASSUME NEW s \in Session, MemberRequest(s) \/ ModeratorRequest(s) PROVE phase' = phase
      BY <3>3 DEF MemberRequest, Answered, LeaveChannel, UpdateInfo, JoinChannel, ModeratorRequest,
         Kick, SetServerMute, MoveMember, Ban, Unban, UpdateChannel, DeleteChannel
    <3>4. ASSUME NEW s \in Session, Drain(s) \/ Hangup(s) \/ EndLoop(s) \/ Depart(s)
          PROVE  phase'[y] # "admitted" \/ phase'[y] = phase[y]
      BY <3>4 DEF Drain, Hangup, EndLoop, Depart, TypeOK
    <3>5. ~UNCHANGED vars
      BY <2>1 DEF vars
    <3> QED BY <2>1, <3>1, <3>2, <3>3, <3>4, <3>5 DEF Next
  <2> QED BY <2>1, <2>2 DEF admit, Enters
<1> QED BY <1>4, <1>5

-----------------------------------------------------------------------------
(* Departures *)

\* The arrival of a client, and the two commands that change where others
\* are, are alone in their todo.
AloneInTodo == \A s \in Session : \A t \in Range(todo[s]) : Alone(t) => todo[s] = <<t>>

\* An arrival is announced by the one who arrives, once.
ArrivesOnce ==
  /\ \A s \in Session : \A t \in Range(todo[s]) :
       t.frame.k = "joined" => t.frame.c = s /\ s \notin announced
  /\ \A x \in announced : phase[x] \in {"running", "closing", "done"}

\* Nothing is queued for a client before it is admitted.
QueueStartsEmpty == \A y \in Session : phase[y] \in {"idle", "checked"} => queue[y] = <<>>

\* Those that drop_overflowed takes off are announced one by one.
GoneOneByOne ==
  \A s \in Session : \A t \in Range(todo[s]) : t.op = "gone" => \E c \in Session : t.who = {c}

\* Frames that make a client show x.
Arrivals(x) == {f \in Frame : f.k = "joined" /\ f.c = x}

\* How a client y comes to know that x has left: the farewell is still to be
\* sent to y, or it is in y's queue and no arrival of x after it, or there is
\* nothing to know.
FarewellOwed(y, x) ==
  \E s \in Session : \E t \in Range(todo[s]) :
    \/ t.op = "broadcast" /\ t.frame = UserLeft(x) /\ y \notin t.who
    \/ t.op = "gone" /\ t.who = {x}
FarewellQueued(y, x) == LastIn(queue[y], Arrivals(x), {UserLeft(x)})
NothingToKnow(y, x) ==
  /\ phase[y] = "admitted" \/ view[y][x] = Absent
  /\ NoneIn(queue[y], Arrivals(x))

DepartureKnown(y, x) == FarewellOwed(y, x) \/ FarewellQueued(y, x) \/ NothingToKnow(y, x)

DeparturesKnown ==
  \A y \in clients \ gapped, x \in announced \ clients : Connected(y) => DepartureKnown(y, x)

\* DeparturesSeen, made inductive.
DepartureInv ==
  /\ AloneInTodo
  /\ ArrivesOnce
  /\ QueueStartsEmpty
  /\ GoneOneByOne
  /\ DeparturesKnown

\* Once a task that was alone is worked on, what is left is fresh.
LEMMA AloneDone ==
  ASSUME TypeOK, AloneInTodo, NEW s \in Session, MovesOn(s), NEW t \in Range(todo[s]), Alone(t)
  PROVE  \A u \in Range(todo'[s]) : FreshTask(u)
<1>t. todo \in [Session -> Seq(Tasks)]
  BY DEF TypeOK
<1>1. PICK new : FreshSeq(new) /\ Then(s, new)
  BY DEF MovesOn
<1>2. todo[s] # <<>> /\ Range(todo'[s]) = Range(new) \cup Range(Tail(todo[s]))
  BY <1>t, <1>1, ThenTyped DEF FreshSeq, MovesOn
<1>3. todo[s] = <<t>>
  BY DEF AloneInTodo
<1>4. Range(Tail(todo[s])) = {}
  BY <1>3, ShortRanges
<1> QED BY <1>1, <1>2, <1>4 DEF FreshSeq

LEMMA AloneStep ==
  TypeOK /\ IdleBetween /\ AloneInTodo /\ [Next]_vars => AloneInTodo'
<1> SUFFICES ASSUME TypeOK, IdleBetween, AloneInTodo, [Next]_vars,
                    NEW s \in Session, NEW t \in Range(todo'[s]), Alone(t)
             PROVE  todo'[s] = <<t>>
  BY DEF AloneInTodo
<1>1. TodoStep
  BY TodoSteps
<1>2. ~FreshTask(t)
  BY DEF FreshTask, Alone
<1>3. CASE Opens(s, t)
  BY <1>3 DEF Opens
<1>4. CASE t \in Range(todo[s])
  <2>1. todo[s] # <<>>
    BY <1>4, ShortRanges
  <2>2. CASE todo'[s] = todo[s]
    BY <1>4, <2>2 DEF AloneInTodo
  <2>3. CASE MovesOn(s)
    BY <1>2, <1>4, <2>3, AloneDone
  <2> QED BY <2>1, <2>2, <2>3, TodoCases
<1> QED BY <1>1, <1>2, <1>3, <1>4 DEF TodoStep

\* Whoever is announced by a step is on the roster, before and after it, and
\* had its arrival as the one task in its todo.
LEMMA NewlyAnnounced ==
  ASSUME TypeOK, ArrivesOnce, [Next]_vars, NEW x \in announced', x \notin announced
  PROVE  /\ x \in Session /\ x \in clients /\ x \in clients' /\ phase'[x] = phase[x]
         /\ Work(x) /\ todo[x] # <<>> /\ Head(todo[x]) \in Range(todo[x])
         /\ Head(todo[x]).frame.k = "joined"
<1>1. AnnounceStep
  BY AnnounceSteps
<1>2. PICK s \in Session : /\ Deliver(s)
                           /\ Head(todo[s]).frame.k = "joined"
                           /\ announced' = announced \cup ({Head(todo[s]).frame.c} \cap clients)
  BY <1>1 DEF AnnounceStep
<1>3. todo[s] # <<>> /\ Head(todo[s]) \in Range(todo[s])
  BY <1>2, DoingTyped DEF Deliver, TypeOK
<1>4. x = Head(todo[s]).frame.c /\ x \in clients
  BY <1>2
<1>5. x = s
  BY <1>2, <1>3, <1>4 DEF ArrivesOnce
<1>6. clients' = clients /\ phase' = phase /\ Work(s)
  BY <1>2 DEF Deliver, Work
<1> QED BY <1>2, <1>3, <1>4, <1>5, <1>6

LEMMA ArrivesStep ==
  TypeOK /\ IdleBetween /\ AloneInTodo /\ ArrivesOnce /\ [Next]_vars => ArrivesOnce'
<1> SUFFICES ASSUME TypeOK, IdleBetween, AloneInTodo, ArrivesOnce, [Next]_vars PROVE ArrivesOnce'
  OBVIOUS
<1>1. TodoStep /\ RosterStep
  BY TodoSteps, RosterSteps
<1>2. ASSUME NEW s \in Session, NEW t \in Range(todo'[s]), t.frame.k = "joined"
      PROVE  t.frame.c = s /\ s \notin announced'
  <2>1. ~FreshTask(t) /\ Alone(t)
    BY <1>2 DEF FreshTask, Alone
  <2>2. CASE Opens(s, t)
    <3>1. t = Arrival(s) /\ phase[s] = "greeting" /\ todo[s] = <<>>
      BY <1>2, <2>2 DEF Opens, Opening, Note
    <3>2. t.frame.c = s /\ s \notin announced
      BY <3>1 DEF Arrival, Broadcast, Task, UserJoined, ArrivesOnce
    <3> QED BY <3>1, <3>2, NewlyAnnounced
  <2>3. CASE t \in Range(todo[s])
    <3>1. t.frame.c = s /\ s \notin announced
      BY <1>2, <2>3 DEF ArrivesOnce
    <3>2. ASSUME s \in announced' PROVE FALSE
      <4>1. Work(s)
        BY <3>1, <3>2, NewlyAnnounced
      <4>2. MovesOn(s)
        BY <4>1, WorkMovesOn
      <4> QED BY <2>1, <2>3, <4>2, AloneDone
    <3> QED BY <3>1, <3>2
  <2> QED BY <1>1, <2>1, <2>2, <2>3 DEF TodoStep
<1>3. ASSUME NEW x \in announced' PROVE phase'[x] \in {"running", "closing", "done"}
  <2>1. CASE x \in announced
    BY <1>1, <2>1 DEF ArrivesOnce, RosterStep, TypeOK
  <2>2. CASE x \notin announced
    <3>1. x \in Session /\ todo[x] # <<>> /\ phase'[x] = phase[x]
      BY <2>2, NewlyAnnounced
    <3> QED BY <3>1 DEF IdleBetween, TypeOK
  <2> QED BY <2>1, <2>2
<1> QED BY <1>2, <1>3 DEF ArrivesOnce

LEMMA QueueStartStep ==
  TypeOK /\ QueueStartsEmpty /\ [Next]_vars => QueueStartsEmpty'
<1> SUFFICES ASSUME TypeOK, QueueStartsEmpty, [Next]_vars,
                    NEW y \in Session, phase'[y] \in {"idle", "checked"}
             PROVE  queue'[y] = <<>>
  BY DEF QueueStartsEmpty
<1>1. phase[y] \in {"idle", "checked"} /\ ~Listening(y)
  BY RosterSteps DEF RosterStep, Listening
<1>2. queue[y] = <<>>
  BY <1>1 DEF QueueStartsEmpty
<1>3. \A to, f : Queued(to, f)[y] = queue[y]
  BY <1>1 DEF Queued
<1>4. CASE UNCHANGED vars
  BY <1>2, <1>4 DEF vars
<1>5. ASSUME NEW s \in Session, Handshake(s) PROVE queue'[y] = <<>>
  BY <1>2, <1>5 DEF TypeOK, Handshake, CheckBan, admit, Greet, Welcome, GreetFails
<1>6. ASSUME NEW s \in Session, Deliver(s) \/ TellOfDropped(s) \/ Eject(s) PROVE queue'[y] = <<>>
  <2>1. \E to, f : queue' = Queued(to, f)
    BY <1>6 DEF Deliver, TellOfDropped, Eject
  <2> QED BY <1>2, <1>3, <2>1
<1>7. ASSUME NEW s \in Session, Work(s), ~Deliver(s), ~TellOfDropped(s), ~Eject(s) PROVE queue'[y] = <<>>
  BY <1>2, <1>7 DEF Work, DropOverflowed, StoreBan, StoreUnban, Sweep, CloseTransport, MuteMember,
     ForceMove, ChannelUpdated, ChannelRemoved, AnnounceEvicted
<1>8. ASSUME NEW s \in Session, MemberRequest(s) \/ ModeratorRequest(s) PROVE queue'[y] = <<>>
  BY <1>2, <1>8 DEF MemberRequest, Answered, LeaveChannel, UpdateInfo, JoinChannel,
     ModeratorRequest, Kick, SetServerMute, MoveMember, Ban, Unban, UpdateChannel, DeleteChannel
<1>9. ASSUME NEW s \in Session, Drain(s) \/ Hangup(s) \/ EndLoop(s) \/ Depart(s) PROVE queue'[y] = <<>>
  BY <1>1, <1>2, <1>9 DEF TypeOK, Drain, Hangup, EndLoop, Depart
<1> QED BY <1>4, <1>5, <1>6, <1>7, <1>8, <1>9 DEF Next

LEMMA GoneStep ==
  TypeOK /\ GoneOneByOne /\ TodoStep => GoneOneByOne'
<1>1. ASSUME NEW s, NEW t, Opens(s, t) PROVE t.op # "gone"
  BY <1>1 DEF Opens, Opening, Arrival, Broadcast, Task
<1> QED BY <1>1 DEF GoneOneByOne, TodoStep, FreshTask, TypeOK

\* Whoever a step takes off the roster is said farewell by the one that took it
\* off, unless its handshake had not ended.
LEMMA LeaverIsOwed ==
  ASSUME TypeOK, IdleBetween, [Next]_vars, NEW x \in clients, x \notin clients',
         phase[x] # "greeting", NEW y \in clients'
  PROVE  FarewellOwed(y, x)'
<1>t. todo \in [Session -> Seq(Tasks)] /\ clients \subseteq Session
  BY DEF TypeOK
<1>w. ASSUME NEW s \in Session, NEW t \in Range(todo'[s]),
             \/ t = Broadcast(UserLeft(x), {}) \/ t = TellGone(x)
             \/ t = Broadcast(UserLeft(x), {x})
      PROVE  FarewellOwed(y, x)'
  <2>1. y # x
    OBVIOUS
  <2>2. \/ t.op = "broadcast" /\ t.frame = UserLeft(x) /\ y \notin t.who
        \/ t.op = "gone" /\ t.who = {x}
    BY <1>w, <2>1 DEF Broadcast, TellGone, Task
  <2> QED BY <1>w, <2>2 DEF FarewellOwed
<1>n. ASSUME NEW s \in Session, NEW new \in Seq(Tasks), NEW rest \in Seq(Tasks),
             todo[s] # <<>>, Then(s, new \o rest)
      PROVE  Range(new) \subseteq Range(todo'[s])
  <2>1. new \o rest \in Seq(Tasks) /\ Range(new \o rest) = Range(new) \cup Range(rest)
    BY ConcatProperties, RangeConcatenation
  <2>2. Range(todo'[s]) = Range(new \o rest) \cup Range(Tail(todo[s]))
    BY <1>t, <1>n, <2>1, ThenTyped
  <2> QED BY <2>1, <2>2
<1>1. ASSUME NEW s \in Session, DropOverflowed(s) PROVE FarewellOwed(y, x)'
  <2> DEFINE rest(c) == Head(todo[s]).who \ {c}
             new2(c) == IF rest(c) = {} THEN <<>> ELSE <<Drop(rest(c))>>
  <2>1. todo[s] # <<>> /\ Head(todo[s]) \in Tasks
    BY <1>t, <1>1, DoingTyped DEF DropOverflowed
  <2>2. PICK c \in Head(todo[s]).who :
          /\ Then(s, (IF c \in clients THEN <<TellGone(c)>> ELSE <<>>) \o new2(c))
          /\ clients' = remove(c)
    BY <1>1 DEF DropOverflowed
  <2>3. c = x
    BY <2>2 DEF remove
  <2>4. Then(s, <<TellGone(x)>> \o new2(x))
    BY <2>2, <2>3
  <2>5. x \in Session /\ rest(x) \subseteq Session
    BY <1>t, <2>1, TaskFields
  <2>6. <<TellGone(x)>> \in Seq(Tasks) /\ new2(x) \in Seq(Tasks)
    BY <2>5, FrameTypes, TaskTypes, EmptySeq
  <2> HIDE DEF new2
  <2>7. TellGone(x) \in Range(todo'[s])
    BY <1>n, <2>1, <2>4, <2>6, ShortRanges
  <2> QED BY <1>w, <2>7
<1>2. ASSUME NEW s \in Session, Eject(s) PROVE FarewellOwed(y, x)'
  <2> DEFINE rest(v) == Head(todo[s]).who \ {v}
             new2(v) == IF rest(v) = {} THEN <<>> ELSE <<EjectAll(rest(v))>>
  <2>1. todo[s] # <<>> /\ Head(todo[s]) \in Tasks
    BY <1>t, <1>2, DoingTyped DEF Eject
  <2>2. PICK v \in Head(todo[s]).who :
          /\ Then(s, (IF v \in clients THEN AfterEject(v) ELSE <<>>) \o new2(v))
          /\ clients' = remove(v)
    BY <1>2 DEF Eject
  <2>3. v = x
    BY <2>2 DEF remove
  <2>4. Then(s, AfterEject(x) \o new2(x))
    BY <2>2, <2>3
  <2>5. x \in Session /\ rest(x) \subseteq Session
    BY <1>t, <2>1, TaskFields
  <2>6. new2(x) \in Seq(Tasks)
    BY <2>5, FrameTypes, TaskTypes, EmptySeq
  <2>8. AfterEject(x) \in Seq(Tasks) /\ Broadcast(UserLeft(x), {}) \in Range(AfterEject(x))
    <3>1. Broadcast(UserLeft(x), {}) \in Tasks /\ Close(x) \in Tasks
      BY <2>5, FrameTypes, TaskTypes
    <3> QED BY <3>1, ShortRanges DEF AfterEject
  <2> HIDE DEF new2
  <2>7. Broadcast(UserLeft(x), {}) \in Range(todo'[s])
    BY <1>n, <2>1, <2>4, <2>6, <2>8
  <2> QED BY <1>w, <2>7
<1>3. ASSUME NEW s \in Session, Depart(s) PROVE FarewellOwed(y, x)'
  <2>1. s = x
    BY <1>3 DEF Depart, remove
  <2>2. todo'[x] = <<Broadcast(UserLeft(x), {x})>>
    BY <1>t, <1>3, <2>1 DEF Depart, Farewell
  <2>3. Broadcast(UserLeft(x), {x}) \in Range(todo'[x])
    BY <2>2, ShortRanges
  <2> QED BY <1>t, <1>w, <2>3
<1>4. ASSUME NEW s \in Session, Handshake(s) PROVE FALSE
  BY <1>4 DEF Handshake, CheckBan, admit, Greet, Welcome, GreetFails, remove
<1>5. ASSUME NEW s \in Session, Work(s), ~DropOverflowed(s), ~Eject(s) PROVE FALSE
  BY <1>5 DEF Work, Deliver, TellOfDropped, StoreBan, StoreUnban, Sweep, CloseTransport, MuteMember,
     ForceMove, ChannelUpdated, ChannelRemoved, AnnounceEvicted
<1>6. ASSUME NEW s \in Session, MemberRequest(s) \/ ModeratorRequest(s) PROVE FALSE
  BY <1>6 DEF MemberRequest, Answered, LeaveChannel, UpdateInfo, JoinChannel,
     ModeratorRequest, Kick, SetServerMute, MoveMember, Ban, Unban, UpdateChannel, DeleteChannel
<1>7. ASSUME NEW s \in Session, Drain(s) \/ Hangup(s) \/ EndLoop(s) PROVE FALSE
  BY <1>7 DEF Drain, Hangup, EndLoop
<1>8. ~UNCHANGED vars
  BY DEF vars
<1> QED BY <1>1, <1>2, <1>3, <1>4, <1>5, <1>6, <1>7, <1>8 DEF Next

\* The history of gaps only grows.
LEMMA GapsStay ==
  [Next]_vars => gapped \subseteq gapped'
<1> SUFFICES ASSUME [Next]_vars PROVE gapped \subseteq gapped'
  OBVIOUS
<1>1. CASE UNCHANGED vars
  BY <1>1 DEF vars
<1>2. ASSUME NEW s \in Session, Handshake(s) PROVE gapped \subseteq gapped'
  BY <1>2 DEF Handshake, CheckBan, admit, Greet, Welcome, GreetFails
<1>3. ASSUME NEW s \in Session, Work(s) PROVE gapped \subseteq gapped'
  BY <1>3 DEF Work, Deliver, DropOverflowed, TellOfDropped, StoreBan, StoreUnban, Sweep, Eject,
     CloseTransport, MuteMember, ForceMove, ChannelUpdated, ChannelRemoved, AnnounceEvicted
<1>4. ASSUME NEW s \in Session, MemberRequest(s) \/ ModeratorRequest(s) PROVE gapped \subseteq gapped'
  BY <1>4 DEF MemberRequest, Answered, LeaveChannel, UpdateInfo, JoinChannel,
     ModeratorRequest, Kick, SetServerMute, MoveMember, Ban, Unban, UpdateChannel, DeleteChannel
<1>5. ASSUME NEW s \in Session, Drain(s) \/ Hangup(s) \/ EndLoop(s) \/ Depart(s) PROVE gapped \subseteq gapped'
  BY <1>5 DEF Drain, Hangup, EndLoop, Depart
<1> QED BY <1>1, <1>2, <1>3, <1>4, <1>5 DEF Next

\* A broadcast reaches every client it does not except, or dooms it.
LEMMA BroadcastReaches ==
  ASSUME TypeOK, NEW s \in Session, Deliver(s), Head(todo[s]).op = "broadcast",
         NEW y \in Session, Connected(y), y \notin Head(todo[s]).who, y \notin Doomed'
  PROVE  queue'[y] = Append(queue[y], Head(todo[s]).frame)
<1> DEFINE t == Head(todo[s])
           to == IF t.op = "send" THEN clients \cap t.who ELSE clients \ t.who
           full == Overflowed(to)
           new == IF full = {} THEN <<>> ELSE <<Drop(full)>>
<1>1. queue' = Queued(to, t.frame) /\ Then(s, new) /\ todo[s] # <<>>
  BY DEF Deliver, Doing
<1>2. y \in to /\ Listening(y)
  BY DEF Connected
<1>3. ~Full(y)
  <2> SUFFICES ASSUME Full(y) PROVE FALSE
    OBVIOUS
  <2>1. y \in full
    BY <1>2 DEF Overflowed
  <2>2. full \subseteq Session
    BY DEF Overflowed, TypeOK
  <2>3. new = <<Drop(full)>>
    BY <2>1
  <2> HIDE DEF full, new
  <2>4. Drop(full) \in Tasks
    BY <2>2, FrameTypes, TaskTypes
  <2>5. new \in Seq(Tasks) /\ Range(new) = {Drop(full)}
    BY <2>3, <2>4, ShortRanges
  <2>6. todo \in [Session -> Seq(Tasks)]
    BY DEF TypeOK
  <2>7. Range(todo'[s]) = Range(new) \cup Range(Tail(todo[s]))
    BY <1>1, <2>5, <2>6, ThenTyped
  <2>8. Drop(full).op = "drop" /\ y \in Drop(full).who
    BY <2>1 DEF Drop, Task
  <2> QED BY <2>5, <2>7, <2>8 DEF Doomed
<1> HIDE DEF to
<1> QED BY <1>1, <1>2, <1>3 DEF Queued

\* Nothing that is queued for y says that x arrives, once x was announced.
LEMMA NoSecondArrival ==
  ASSUME TypeOK, ArrivesOnce, NEW x \in announced, NEW y \in Session, Delivered(y)
  PROVE  \E f \in Frame : f \notin Arrivals(x) /\ IsSent(y, f)
<1>1. PICK s \in Session : Deliver(s) /\ IsSent(y, Head(todo[s]).frame)
  BY DEF Delivered
<1>2. Head(todo[s]) \in Tasks /\ Head(todo[s]) \in Range(todo[s])
  BY <1>1, DoingTyped DEF Deliver, TypeOK
<1>3. Head(todo[s]).frame \in Frame
  BY <1>2, TaskFields
<1>4. Head(todo[s]).frame \notin Arrivals(x)
  BY <1>2 DEF Arrivals, ArrivesOnce
<1> QED BY <1>1, <1>3, <1>4

\* What y knows of the departure of x survives a step that leaves both where
\* they are, unless the step is the farewell itself.
LEMMA DepartureHeard ==
  ASSUME TypeOK, ArrivesOnce, [Next]_vars,
         NEW x \in announced, x \notin clients, NEW y \in Session, Connected(y), Connected(y)',
         FarewellQueued(y, x) \/ NothingToKnow(y, x)
  PROVE  DepartureKnown(y, x)'
<1> DEFINE W == Arrivals(x)
           G == {UserLeft(x)}
<1>t. /\ x \in Session /\ queue[y] \in Seq(Frame)
      /\ view[y] \in [Session -> Channel \cup {None, Absent}]
  BY DEF TypeOK
<1>d. /\ LastIn(queue[y], W, G)' => DepartureKnown(y, x)'
      /\ (phase'[y] = "admitted" \/ view'[y][x] = Absent) /\ NoneIn(queue[y], W)'
           => DepartureKnown(y, x)'
  BY DEF DepartureKnown, FarewellQueued, NothingToKnow, Arrivals
<1>l. ASSUME FarewellQueued(y, x) PROVE LastIn(queue[y], W, G)
  BY <1>l DEF FarewellQueued
<1>k. ASSUME NothingToKnow(y, x)
      PROVE  (phase[y] = "admitted" \/ view[y][x] = Absent) /\ NoneIn(queue[y], W)
  BY <1>k DEF NothingToKnow
<1>sent. ASSUME NEW f \in Frame, f \notin W, IsSent(y, f) PROVE DepartureKnown(y, x)'
  <2>1. queue'[y] = Append(queue[y], f) /\ view'[y] = view[y] /\ phase'[y] = phase[y]
    BY <1>sent DEF IsSent
  <2> HIDE DEF W, G
  <2>2. LastIn(queue[y], W, G) => LastIn(queue'[y], W, G)
    BY <1>t, <1>sent, <2>1, LastQueued
  <2>3. NoneIn(queue[y], W) => NoneIn(queue'[y], W)
    BY <1>t, <1>sent, <2>1, LastQueued
  <2> QED BY <1>d, <1>l, <1>k, <2>1, <2>2, <2>3 DEF W, G
<1>1. CASE Still(y)
  BY <1>d, <1>l, <1>k, <1>1 DEF Still
<1>2. CASE Delivered(y)
  BY <1>2, <1>sent, NoSecondArrival
<1>3. CASE ToldGone(y)
  <2>1. PICK c \in Session : IsSent(y, UserLeft(c))
    BY <1>3 DEF ToldGone
  <2>2. UserLeft(c) \in Frame /\ UserLeft(c) \notin W
    BY FrameTypes DEF Arrivals, UserLeft
  <2> QED BY <1>sent, <2>1, <2>2
<1>4. CASE Reads(y)
  <2> DEFINE f == Head(queue[y])
  <2>1. /\ queue[y] # <<>> /\ queue'[y] = Tail(queue[y]) /\ phase[y] = "running"
        /\ view'[y] = Applied(view[y], f)
    BY <1>4 DEF Reads
  <2>2. f \in Frame
    BY <1>t, <2>1, HeadTailRange
  <2>3. f \in G => Applied(view[y], f)[x] = Absent
    BY <1>t DEF Applied, UserLeft
  <2>4. f \notin W /\ view[y][x] = Absent => Applied(view[y], f)[x] = Absent
    BY <1>t, <2>2 DEF Applied, Arrivals
  <2> HIDE DEF W, G, f
  <2>5. CASE FarewellQueued(y, x)
    <3>1. LastIn(Tail(queue[y]), W, G) \/ (f \in G /\ NoneIn(Tail(queue[y]), W))
      BY <1>t, <1>l, <2>1, <2>5, LastTaken DEF f
    <3> QED BY <1>d, <2>1, <2>3, <3>1 DEF W, G
  <2>6. CASE NothingToKnow(y, x)
    <3>1. f \notin W /\ NoneIn(Tail(queue[y]), W) /\ view[y][x] = Absent
      BY <1>t, <1>k, <2>1, <2>6, LastTaken DEF f
    <3> QED BY <1>d, <2>1, <2>4, <3>1 DEF W, G
  <2> QED BY <2>5, <2>6
<1>5. CASE IsGreeted(y)
  <2>1. queue'[y] = queue[y] /\ view'[y][x] = Absent
    BY <1>t, <1>5 DEF IsGreeted
  <2> QED BY <1>d, <1>l, <1>k, <2>1
<1> QED BY <1>1, <1>2, <1>3, <1>4, <1>5, ListenSteps

\* A farewell that is owed stays owed until it is queued, unless y is too slow.
LEMMA FarewellReaches ==
  ASSUME TypeOK, IdleBetween, GoneOneByOne, [Next]_vars, NEW x \in Session, NEW y \in Session,
         Connected(y), Connected(y)', y \notin gapped', FarewellOwed(y, x)
  PROVE  DepartureKnown(y, x)'
<1>t. queue[y] \in Seq(Frame) /\ UserLeft(x) \in Frame
  BY FrameTypes DEF TypeOK
<1>q. ASSUME queue'[y] = Append(queue[y], UserLeft(x)) PROVE DepartureKnown(y, x)'
  <2>1. LastIn(queue'[y], Arrivals(x), {UserLeft(x)})
    BY <1>t, <1>q, LastQueued
  <2> QED BY <2>1 DEF DepartureKnown, FarewellQueued, Arrivals
<1>0. PICK s \in Session : \E t \in Range(todo[s]) :
        \/ t.op = "broadcast" /\ t.frame = UserLeft(x) /\ y \notin t.who
        \/ t.op = "gone" /\ t.who = {x}
  BY DEF FarewellOwed
<1>1. PICK t \in Range(todo[s]) :
        \/ t.op = "broadcast" /\ t.frame = UserLeft(x) /\ y \notin t.who
        \/ t.op = "gone" /\ t.who = {x}
  BY <1>0
<1>2. CASE t \in Range(todo'[s])
  BY <1>1, <1>2 DEF DepartureKnown, FarewellOwed
<1>3. CASE todo[s] # <<>> /\ t = Head(todo[s]) /\ Work(s)
  <2>1. CASE t.op = "broadcast" /\ t.frame = UserLeft(x) /\ y \notin t.who
    <3>1. Deliver(s)
      BY <1>3, <2>1, WorkByKind
    <3>2. y \notin Doomed'
      BY DEF Connected
    <3>3. queue'[y] = Append(queue[y], UserLeft(x))
      BY <1>3, <2>1, <3>1, <3>2, BroadcastReaches
    <3> QED BY <1>q, <3>3
  <2>2. CASE t.op = "gone" /\ t.who = {x}
    <3>1. TellOfDropped(s)
      BY <1>3, <2>2, WorkByKind
    <3>2. queue' = Queued(clients, UserLeft(x)) /\ gapped' = gapped \cup Overflowed(clients)
      BY <1>3, <2>2, <3>1 DEF TellOfDropped
    <3>3. y \in clients /\ Listening(y) /\ ~Full(y)
      BY <3>2 DEF Connected, Overflowed
    <3>4. queue'[y] = Append(queue[y], UserLeft(x))
      BY <3>2, <3>3 DEF Queued
    <3> QED BY <1>q, <3>4
  <2> QED BY <1>1, <2>1, <2>2
<1> QED BY <1>2, <1>3, TaskStays

LEMMA DepartureStep ==
  TypeOK /\ PresenceInv /\ DepartureInv /\ [Next]_vars => DeparturesKnown'
<1> SUFFICES ASSUME TypeOK, TypeOK', PresenceInv, DepartureInv, [Next]_vars,
                    NEW y \in clients', y \notin gapped', NEW x \in announced', x \notin clients',
                    Connected(y)'
             PROVE  DepartureKnown(y, x)'
  BY TypeNext DEF DeparturesKnown
<1>1. x \in Session /\ y \in Session
  BY DEF TypeOK
<1>2. NoLeakedSlot /\ IdleBetween /\ ArrivesOnce /\ QueueStartsEmpty /\ GoneOneByOne /\ DeparturesKnown
  BY DEF PresenceInv, DepartureInv
<1>3. x \in announced
  BY <1>2, NewlyAnnounced
<1>4. y \notin gapped
  BY GapsStay
<1>5. CASE Enters(y)
  <2>1. queue'[y] = <<>> /\ phase'[y] = "admitted"
    BY <1>1, <1>2, <1>5 DEF Enters, QueueStartsEmpty
  <2> QED BY <2>1, NothingQueued DEF DepartureKnown, NothingToKnow, Arrivals
<1>6. CASE Connected(y)
  <2>1. CASE x \in clients
    <3>1. phase[x] # "greeting"
      BY <1>2, <1>3 DEF ArrivesOnce
    <3>2. FarewellOwed(y, x)'
      BY <1>2, <2>1, <3>1, LeaverIsOwed
    <3> QED BY <3>2 DEF DepartureKnown
  <2>2. CASE x \notin clients
    <3>1. DepartureKnown(y, x)
      BY <1>2, <1>3, <1>4, <1>6, <2>2 DEF DeparturesKnown, Connected
    <3>2. CASE FarewellOwed(y, x)
      BY <1>1, <1>2, <1>6, <3>2, FarewellReaches
    <3>3. CASE FarewellQueued(y, x) \/ NothingToKnow(y, x)
      BY <1>1, <1>2, <1>3, <1>6, <2>2, <3>3, DepartureHeard
    <3> QED BY <3>1, <3>2, <3>3 DEF DepartureKnown
  <2> QED BY <2>1, <2>2
<1> QED BY <1>1, <1>2, <1>5, <1>6, ConnectedSteps

LEMMA DepartureInit == Init => DepartureInv
<1> SUFFICES ASSUME Init PROVE DepartureInv
  OBVIOUS
<1>1. \A s \in Session : Range(todo[s]) = {}
  BY ShortRanges DEF Init
<1> QED BY <1>1 DEF Init, DepartureInv, AloneInTodo, ArrivesOnce, QueueStartsEmpty, GoneOneByOne,
           DeparturesKnown

LEMMA DepartureNext ==
  TypeOK /\ PresenceInv /\ DepartureInv /\ [Next]_vars => DepartureInv'
<1> SUFFICES ASSUME TypeOK, PresenceInv, DepartureInv, [Next]_vars PROVE DepartureInv'
  OBVIOUS
<1>1. IdleBetween /\ TodoStep
  BY TodoSteps DEF PresenceInv
<1>2. AloneInTodo'
  BY <1>1, AloneStep DEF DepartureInv
<1>3. ArrivesOnce'
  BY <1>1, ArrivesStep DEF DepartureInv
<1>4. QueueStartsEmpty'
  BY QueueStartStep DEF DepartureInv
<1>5. GoneOneByOne'
  BY <1>1, GoneStep DEF DepartureInv
<1>6. DeparturesKnown'
  BY DepartureStep
<1> QED BY <1>2, <1>3, <1>4, <1>5, <1>6 DEF DepartureInv

LEMMA DepartureHolds == Spec => []DepartureInv
BY DepartureInit, DepartureNext, TypeCorrect, PresenceHolds, PTL DEF Spec

\* A settled client on the roster has nothing left to hear.
LEMMA SettledClient ==
  ASSUME NoLeakedSlot, Settled, NEW y \in Session, y \in clients
  PROVE  /\ Connected(y) /\ phase[y] = "running" /\ queue[y] = <<>>
         /\ \A s \in Session : Range(todo[s]) = {}
<1>1. \A s \in Session : Range(todo[s]) = {}
  BY ShortRanges DEF Settled
<1>2. phase[y] = "running" /\ open[y] /\ queue[y] = <<>>
  BY DEF Settled, NoLeakedSlot
<1>3. y \notin Doomed
  BY <1>1 DEF Doomed
<1> QED BY <1>1, <1>2, <1>3 DEF Connected, Listening

\* Whichever way a client leaves (it quits, is kicked, banned or dropped), and
\* whatever its arrival, its moves and its farewell overtake on the way, once
\* everything is delivered no client shows it that was not itself too slow.
THEOREM DeparturesAreSeen == Spec => []DeparturesSeen
<1>1. TypeOK /\ PresenceInv /\ DepartureInv => DeparturesSeen
  <2> SUFFICES ASSUME TypeOK, PresenceInv, DepartureInv, Settled,
                      NEW y \in clients, y \notin gapped, NEW x \in announced, x \notin clients
               PROVE  view[y][x] = Absent
    BY DEF DeparturesSeen
  <2>1. y \in Session /\ NoLeakedSlot
    BY DEF TypeOK, PresenceInv
  <2>2. /\ Connected(y) /\ phase[y] = "running" /\ queue[y] = <<>>
        /\ \A s \in Session : Range(todo[s]) = {}
    BY <2>1, SettledClient
  <2>3. DepartureKnown(y, x)
    BY <2>2 DEF DepartureInv, DeparturesKnown
  <2>4. ~FarewellOwed(y, x)
    BY <2>2 DEF FarewellOwed
  <2>5. ~FarewellQueued(y, x)
    BY <2>2, NothingQueued DEF FarewellQueued
  <2> QED BY <2>2, <2>3, <2>4, <2>5 DEF DepartureKnown, NothingToKnow
<1> QED BY <1>1, TypeCorrect, PresenceHolds, DepartureHolds, PTL

-----------------------------------------------------------------------------
(* Rooms *)

\* The session s has a word on x in hand: a task that will say where x is, or,
\* from x's admission on, the arrival that x is to announce itself.
Speaks(s, x) ==
  \/ s = x /\ phase[x] \in {"admitted", "greeting"}
  \/ \E t \in Range(todo[s]) : About(t, x)

\* Nobody on the roster is spoken of by two sessions at once: a moderator who
\* moves a member waits until the member's own announcement is out, and the
\* member for the moderator's.  The handlers do nothing to ensure it.
OneVoice == \A x \in clients : \A s, r \in Session : Speaks(s, x) /\ Speaks(r, x) => s = r

\* x is on the roster, or still to come.
Present(x) == x \in clients \/ phase[x] \in {"idle", "checked"}

\* Whatever is still to be said of a client is where the client is.
WordsTrue ==
  \A x \in Session : Present(x) =>
    \A s \in Session : \A t \in Range(todo[s]) : About(t, x) => Says(t) = channel[x]

\* Until its arrival is announced, a client is in no room.
NewcomersOutside ==
  \A x \in Session : phase[x] \in {"idle", "checked", "admitted", "greeting"} => channel[x] = None

Words(x) == {f \in Frame : Word(f, x)}
TrueWords(x, ch) == {f \in Frame : Word(f, x) /\ f.to = ch}

\* A task that will tell y where x is.
Tells(t, y, x) ==
  \/ t.op = "evicted" /\ x \in t.who
  \/ t.op = "broadcast" /\ y \notin t.who /\ Word(t.frame, x)

\* How a client y comes to show x where x is: a word on x is still to be sent
\* to y, or the last one in y's queue is true, or y has it right.
WordOwed(y, x) == \E s \in Session : \E t \in Range(todo[s]) : Tells(t, y, x)
LastWordTrue(y, x) == LastIn(queue[y], Words(x), TrueWords(x, channel[x]))
HasItRight(y, x) ==
  /\ phase[y] = "admitted" \/ view[y][x] \in {Absent, channel[x]}
  /\ NoneIn(queue[y], Words(x))

RoomKnown(y, x) == WordOwed(y, x) \/ LastWordTrue(y, x) \/ HasItRight(y, x)

RoomsKnown == \A y \in clients, x \in Session : Connected(y) /\ Present(x) => RoomKnown(y, x)

\* RoomsAgree, made inductive.
RoomInv ==
  /\ WordsTrue
  /\ NewcomersOutside
  /\ RoomsKnown

\* Whoever is present was so before: nobody comes back.
LEMMA PresentBefore ==
  ASSUME TypeOK, [Next]_vars, NEW x \in Session, Present(x)'
  PROVE  Present(x)
BY RosterSteps DEF Present, RosterStep

LEMMA JoinedTasks ==
  ASSUME NEW q \in Seq(Tasks), NEW r \in Seq(Tasks)
  PROVE  q \o r \in Seq(Tasks) /\ Range(q \o r) = Range(q) \cup Range(r)
BY ConcatProperties, RangeConcatenation

\* What tells of nobody.
LEMMA MuteTasks ==
  ASSUME NEW w, NEW c, NEW x
  PROVE  /\ ~About(Ack(c), x) /\ ~About(Broadcast(Note, w), x) /\ ~About(Send(Note, c), x)
         /\ ~About(Drop(w), x) /\ ~About(TellGone(c), x) /\ ~About(Broadcast(UserLeft(c), w), x)
BY DEF About, Word, Ack, Send, Broadcast, Drop, TellGone, Task, Note, UserLeft

\* What tells everyone of x.
LEMMA MoveTasks ==
  ASSUME NEW x, NEW y, NEW ch, NEW w
  PROVE  /\ Tells(AnnounceMove(x, ch), y, x) /\ Says(AnnounceMove(x, ch)) = ch
         /\ Tells(Broadcast(UserMoved(x, ch), {}), y, x)
         /\ x \in w => Tells(Task("evicted", w, Note, None), y, x)
         /\ Says(Task("evicted", w, Note, None)) = None
<1>1. \A c : c \notin {}
  OBVIOUS
<1> QED BY <1>1 DEF Tells, About, Word, Says, AnnounceMove, Broadcast, Task, UserMoved

\* The session s has just put in hand, alone, what tells everyone of x.
Announced(s, x) ==
  /\ \A y : \E t \in Range(todo'[s]) : Tells(t, y, x)
  /\ \A t \in Range(todo'[s]) : About(t, x) => Says(t) = channel'[x]

\* Whatever moves a client announces it.
LEMMA MovesAreAnnounced ==
  ASSUME TypeOK, AloneInTodo, [Next]_vars, NEW x \in Session, x \in clients', channel'[x] # channel[x]
  PROVE  \E s \in Session : Announced(s, x)
<1>t. todo \in [Session -> Seq(Tasks)] /\ channel \in [Session -> Channel \cup {None}]
  BY DEF TypeOK
<1>one. ASSUME NEW s \in Session, NEW ch, todo'[s] = <<AnnounceMove(x, ch)>>, channel'[x] = ch
        PROVE  Announced(s, x)
  <2>1. Range(todo'[s]) = {AnnounceMove(x, ch)}
    BY <1>one, ShortRanges
  <2> QED BY <1>one, <2>1, MoveTasks DEF Announced
<1>alone. ASSUME NEW s \in Session, todo[s] # <<>>, Alone(Head(todo[s])), NEW new \in Seq(Tasks), Then(s, new)
          PROVE  Range(todo'[s]) = Range(new)
  <2>1. PICK h \in Range(todo[s]) : h = Head(todo[s])
    BY <1>t, <1>alone, HeadTailRange
  <2>2. todo[s] = <<h>>
    BY <1>alone, <2>1 DEF AloneInTodo
  <2>3. Range(Tail(todo[s])) = {}
    BY <2>2, ShortRanges
  <2> QED BY <1>t, <1>alone, <2>3, ThenTyped
<1>1. ASSUME NEW s \in Session, NEW ch \in Channel, JoinChannel(s, ch) PROVE Announced(s, x)
  <2>1. channel' = [channel EXCEPT ![s] = ch] /\ todo'[s] = <<AnnounceMove(s, ch)>>
    BY <1>t, <1>1 DEF JoinChannel, Request
  <2>2. x = s /\ channel'[x] = ch
    BY <1>t, <2>1
  <2> QED BY <1>one, <2>1, <2>2
<1>2. ASSUME NEW s \in Session, LeaveChannel(s) PROVE Announced(s, x)
  <2>1. channel' = [channel EXCEPT ![s] = None] /\ todo'[s] = <<AnnounceMove(s, None)>>
    BY <1>t, <1>2 DEF LeaveChannel, Request
  <2>2. x = s /\ channel'[x] = None
    BY <1>t, <2>1
  <2> QED BY <1>one, <2>1, <2>2
<1>3. ASSUME NEW s \in Session, ForceMove(s) PROVE Announced(s, x)
  <2> DEFINE to == Head(todo[s]).frame.to
             allowed(z) == /\ z \in clients
                           /\ \/ to = None
                              \/ (to \in DOMAIN channels /\ channels[to].voice /\ Fits(to, z))
             new1(z) == IF allowed(z) THEN <<AnnounceMove(z, to)>> ELSE <<>>
  <2>1. todo[s] # <<>> /\ Head(todo[s]) \in Tasks /\ Head(todo[s]).op = "move"
    BY <1>t, <1>3, DoingTyped DEF ForceMove
  <2>2. PICK z \in Head(todo[s]).who :
          /\ Then(s, new1(z) \o <<Ack(s)>>)
          /\ channel' = IF allowed(z) THEN [channel EXCEPT ![z] = to] ELSE channel
    BY <1>3 DEF ForceMove
  <2> HIDE DEF allowed
  <2>3. allowed(z) /\ x = z /\ channel'[x] = to
    BY <1>t, <2>2
  <2>4. Then(s, <<AnnounceMove(x, to)>> \o <<Ack(s)>>)
    BY <2>2, <2>3
  <2>5. to \in Channel \cup {None}
    BY <2>1, TaskFields DEF Frame
  <2>6. <<AnnounceMove(x, to)>> \in Seq(Tasks) /\ <<Ack(s)>> \in Seq(Tasks)
    BY <2>5, FrameTypes, TaskTypes DEF AnnounceMove
  <2>7. /\ <<AnnounceMove(x, to)>> \o <<Ack(s)>> \in Seq(Tasks)
        /\ Range(<<AnnounceMove(x, to)>> \o <<Ack(s)>>) = {AnnounceMove(x, to), Ack(s)}
    <3>1. /\ <<AnnounceMove(x, to)>> \o <<Ack(s)>> \in Seq(Tasks)
          /\ Range(<<AnnounceMove(x, to)>> \o <<Ack(s)>>)
               = Range(<<AnnounceMove(x, to)>>) \cup Range(<<Ack(s)>>)
      BY <2>6, JoinedTasks
    <3>2. Range(<<AnnounceMove(x, to)>>) = {AnnounceMove(x, to)} /\ Range(<<Ack(s)>>) = {Ack(s)}
      BY ShortRanges
    <3> QED BY <3>1, <3>2
  <2>8. Range(todo'[s]) = {AnnounceMove(x, to), Ack(s)}
    BY <1>alone, <2>1, <2>4, <2>7 DEF Alone
  <2> QED BY <2>3, <2>8, MoveTasks, MuteTasks DEF Announced
<1>4. ASSUME NEW s \in Session, ChannelRemoved(s) PROVE Announced(s, x)
  <2> DEFINE ch == Head(todo[s]).arg
             out == IF ch \in DOMAIN channels THEN Occupants(ch) ELSE {}
             evicted == Task("evicted", out, Note, None)
             new1 == IF out = {} THEN <<>> ELSE <<evicted>>
             new2 == IF ch \in DOMAIN channels THEN <<Broadcast(Note, {})>> ELSE <<>>
  <2>1. todo[s] # <<>> /\ Head(todo[s]).op = "delete" /\ clients' = clients
    BY <1>t, <1>4, DoingTyped DEF ChannelRemoved
  <2>2. /\ Then(s, (new1 \o new2) \o <<Ack(s)>>)
        /\ channel' = IF ch \in DOMAIN channels THEN Evicted(ch) ELSE channel
    BY <1>4 DEF ChannelRemoved
  <2>3. ch \in DOMAIN channels /\ channel[x] = ch /\ channel'[x] = None
    BY <1>t, <2>2 DEF Evicted
  <2>4. x \in out /\ out \subseteq Session
    BY <2>1, <2>3 DEF Occupants, TypeOK
  <2>5. new1 = <<evicted>> /\ new2 = <<Broadcast(Note, {})>>
    BY <2>3, <2>4
  <2>6. evicted \in Tasks /\ Broadcast(Note, {}) \in Tasks /\ Ack(s) \in Tasks
    BY <2>4, FrameTypes, TaskTypes
  <2> HIDE DEF out, evicted, new1, new2, ch
  <2>7. <<evicted>> \in Seq(Tasks) /\ <<Broadcast(Note, {})>> \in Seq(Tasks) /\ <<Ack(s)>> \in Seq(Tasks)
    BY <2>6
  <2>8. /\ new1 \o new2 \in Seq(Tasks)
        /\ Range(new1 \o new2) = {evicted, Broadcast(Note, {})}
    <3>1. Range(new1) = {evicted} /\ Range(new2) = {Broadcast(Note, {})}
      BY <2>5, ShortRanges
    <3>2. new1 \o new2 \in Seq(Tasks) /\ Range(new1 \o new2) = Range(new1) \cup Range(new2)
      BY <2>5, <2>7, JoinedTasks
    <3> QED BY <3>1, <3>2
  <2>9. /\ (new1 \o new2) \o <<Ack(s)>> \in Seq(Tasks)
        /\ Range((new1 \o new2) \o <<Ack(s)>>) = {evicted, Broadcast(Note, {}), Ack(s)}
    <3>1. Range(<<Ack(s)>>) = {Ack(s)}
      BY ShortRanges
    <3>2. /\ (new1 \o new2) \o <<Ack(s)>> \in Seq(Tasks)
          /\ Range((new1 \o new2) \o <<Ack(s)>>) = Range(new1 \o new2) \cup Range(<<Ack(s)>>)
      BY <2>7, <2>8, JoinedTasks
    <3> QED BY <2>8, <3>1, <3>2
  <2>10. Range(todo'[s]) = {evicted, Broadcast(Note, {}), Ack(s)}
    BY <1>alone, <2>1, <2>2, <2>9 DEF Alone
  <2>11. Says(evicted) = None /\ \A y : Tells(evicted, y, x)
    BY <2>4, MoveTasks DEF evicted
  <2> QED BY <2>3, <2>10, <2>11, MuteTasks DEF Announced
<1>5. ASSUME NEW s \in Session, Handshake(s) \/ Depart(s) PROVE FALSE
  BY <1>t, <1>5 DEF Handshake, CheckBan, admit, Greet, Welcome, GreetFails, Depart, remove
<1>6. ASSUME NEW s \in Session, DropOverflowed(s) \/ Eject(s) PROVE FALSE
  BY <1>t, <1>6 DEF DropOverflowed, Eject, remove
<1>7. ASSUME NEW s \in Session, Work(s),
             ~(DropOverflowed(s) \/ Eject(s) \/ ForceMove(s) \/ ChannelRemoved(s))
      PROVE FALSE
  BY <1>7 DEF Work, Deliver, TellOfDropped, StoreBan, StoreUnban, Sweep, CloseTransport, MuteMember,
     ChannelUpdated, AnnounceEvicted
<1>8. ASSUME NEW s \in Session, ModeratorRequest(s) \/ Answered(s) \/ UpdateInfo(s) PROVE FALSE
  BY <1>8 DEF ModeratorRequest, Kick, SetServerMute, MoveMember, Ban, Unban, UpdateChannel,
     DeleteChannel, Answered, UpdateInfo
<1>9. ASSUME NEW s \in Session, Drain(s) \/ Hangup(s) \/ EndLoop(s) PROVE FALSE
  BY <1>9 DEF Drain, Hangup, EndLoop
<1>10. ~UNCHANGED vars
  BY DEF vars
<1> QED BY <1>1, <1>2, <1>3, <1>4, <1>5, <1>6, <1>7, <1>8, <1>9, <1>10 DEF Next, MemberRequest

\* The place of a client that is still to come does not change.
LEMMA MoversArePresent ==
  ASSUME TypeOK, OccupantsHaveRoom, OccupantsHaveRoom', NoLeakedSlot, [Next]_vars,
         NEW x \in Session, Present(x)', channel'[x] # channel[x]
  PROVE  x \in clients'
<1>1. Present(x) /\ RosterStep
  BY PresentBefore, RosterSteps
<1>2. ASSUME x \notin clients' PROVE FALSE
  <2>1. phase'[x] \in {"idle", "checked"} /\ channel'[x] = None
    BY <1>2 DEF Present, OccupantsHaveRoom
  <2>2. phase[x] \in {"idle", "checked"}
    BY <1>1, <2>1 DEF RosterStep
  <2>3. channel[x] = None
    BY <2>2 DEF OccupantsHaveRoom, NoLeakedSlot
  <2> QED BY <2>1, <2>3
<1> QED BY <1>2

LEMMA WordsStep ==
  ASSUME TypeOK, NoLeakedSlot, IdleBetween, OccupantsHaveRoom, OccupantsHaveRoom',
         AloneInTodo, WordsTrue, NewcomersOutside, [Next]_vars, OneVoice'
  PROVE  WordsTrue'
<1> SUFFICES ASSUME NEW x \in Session, Present(x)', NEW s \in Session, NEW t \in Range(todo'[s]), About(t, x)
             PROVE  Says(t) = channel'[x]
  BY DEF WordsTrue, About, Word, Says
<1>1. TodoStep /\ Present(x)
  BY TodoSteps, PresentBefore
<1>2. CASE channel'[x] # channel[x]
  <2>1. x \in clients'
    BY <1>2, MoversArePresent
  <2>2. PICK r \in Session : Announced(r, x)
    BY <1>2, <2>1, MovesAreAnnounced
  <2>3. Speaks(s, x)' /\ Speaks(r, x)'
    BY <2>2 DEF Speaks, Announced, Tells, About, Word
  <2>4. s = r
    BY <2>1, <2>3 DEF OneVoice
  <2> QED BY <2>2, <2>4 DEF Announced
<1>3. CASE channel'[x] = channel[x]
  <2>1. CASE t \in Range(todo[s])
    BY <1>1, <1>3, <2>1 DEF WordsTrue
  <2>2. CASE FreshTask(t)
    <3>1. Says(t) = channel'[x] \/ (Says(t) = None /\ Evicting(x))
      BY <2>2 DEF FreshTask, Grounded
    <3>2. Evicting(x) => channel[x] = None
      BY <1>1 DEF Evicting, WordsTrue, About, Says
    <3> QED BY <1>3, <3>1, <3>2
  <2>3. CASE Opens(s, t)
    <3>1. ~Opening(t)
      BY DEF Opening, About, Word, Note
    <3>2. t = Arrival(s) /\ phase[s] = "greeting"
      BY <2>3, <3>1 DEF Opens
    <3>3. x = s /\ Says(t) = None
      BY <3>2 DEF About, Word, Says, Arrival, Broadcast, Task, UserJoined
    <3> QED BY <1>3, <3>2, <3>3 DEF NewcomersOutside
  <2> QED BY <1>1, <2>1, <2>2, <2>3 DEF TodoStep
<1> QED BY <1>2, <1>3

LEMMA NewcomersStep ==
  ASSUME TypeOK, TypeOK', NoLeakedSlot, IdleBetween', OccupantsHaveRoom, OccupantsHaveRoom',
         AloneInTodo, NewcomersOutside, [Next]_vars, OneVoice'
  PROVE  NewcomersOutside'
<1> SUFFICES ASSUME NEW x \in Session, phase'[x] \in {"idle", "checked", "admitted", "greeting"},
                    channel'[x] # None
             PROVE  FALSE
  BY DEF NewcomersOutside
<1>1. phase[x] \in {"idle", "checked", "admitted", "greeting"}
  BY RosterSteps DEF RosterStep
<1>2. x \in clients' /\ channel'[x] # channel[x]
  BY <1>1 DEF OccupantsHaveRoom, NewcomersOutside
<1>3. PICK r \in Session : Announced(r, x)
  BY <1>2, MovesAreAnnounced
<1>4. phase'[x] \in {"admitted", "greeting"}
  <2>1. phase[x] \in {"admitted", "greeting"} \/ phase[x] = "checked"
    BY <1>1, <1>2, RosterSteps DEF RosterStep, NoLeakedSlot
  <2> QED BY <1>2, <2>1, RosterSteps DEF RosterStep, NoLeakedSlot
<1>5. Speaks(r, x)' /\ Speaks(x, x)'
  BY <1>3, <1>4 DEF Speaks, Announced, Tells, About, Word
<1>6. r = x
  BY <1>2, <1>5 DEF OneVoice
<1>7. todo'[x] = <<>>
  BY <1>4 DEF IdleBetween
<1>8. Range(todo'[x]) = {}
  BY <1>7, ShortRanges
<1> QED BY <1>3, <1>6, <1>8 DEF Announced

\* What y has read or is about to read of x stays right, as long as x stays
\* where it is: whatever else is queued for y is true.
LEMMA WordHeard ==
  ASSUME TypeOK, WordsTrue, [Next]_vars, NEW x \in Session, Present(x), channel'[x] = channel[x],
         NEW y \in Session, Connected(y), Connected(y)', LastWordTrue(y, x) \/ HasItRight(y, x)
  PROVE  RoomKnown(y, x)'
<1> DEFINE W == Words(x)
           G == TrueWords(x, channel[x])
<1>t. /\ queue[y] \in Seq(Frame)
      /\ view[y] \in [Session -> Channel \cup {None, Absent}]
  BY DEF TypeOK
<1>d. /\ LastIn(queue'[y], W, G) => RoomKnown(y, x)'
      /\ (phase'[y] = "admitted" \/ view'[y][x] \in {Absent, channel[x]}) /\ NoneIn(queue'[y], W)
           => RoomKnown(y, x)'
  BY DEF RoomKnown, LastWordTrue, HasItRight, Words, TrueWords, Word
<1>l. ASSUME LastWordTrue(y, x) PROVE LastIn(queue[y], W, G)
  BY <1>l DEF LastWordTrue
<1>k. ASSUME HasItRight(y, x)
      PROVE  (phase[y] = "admitted" \/ view[y][x] \in {Absent, channel[x]}) /\ NoneIn(queue[y], W)
  BY <1>k DEF HasItRight
<1>sent. ASSUME NEW f \in Frame, f \notin W \/ f \in G, IsSent(y, f) PROVE RoomKnown(y, x)'
  <2>1. queue'[y] = Append(queue[y], f) /\ view'[y] = view[y] /\ phase'[y] = phase[y]
    BY <1>sent DEF IsSent
  <2> HIDE DEF W, G
  <2>2. CASE f \in G
    BY <1>t, <1>d, <2>1, <2>2, LastQueued
  <2>3. CASE f \notin W
    <3>1. LastIn(queue[y], W, G) => LastIn(queue'[y], W, G)
      BY <1>t, <2>1, <2>3, LastQueued
    <3>2. NoneIn(queue[y], W) => NoneIn(queue'[y], W)
      BY <1>t, <2>1, <2>3, LastQueued
    <3> QED BY <1>d, <1>l, <1>k, <2>1, <3>1, <3>2 DEF W, G
  <2> QED BY <1>sent, <2>2, <2>3
<1>1. CASE Still(y)
  BY <1>d, <1>l, <1>k, <1>1 DEF Still
<1>2. CASE Delivered(y)
  <2>1. PICK s \in Session : Deliver(s) /\ IsSent(y, Head(todo[s]).frame)
    BY <1>2 DEF Delivered
  <2>2. /\ Head(todo[s]) \in Tasks /\ Head(todo[s]) \in Range(todo[s])
        /\ Head(todo[s]).op \in {"broadcast", "send"}
    BY <2>1, DoingTyped DEF Deliver, TypeOK
  <2>3. Head(todo[s]).frame \in Frame
    BY <2>2, TaskFields
  <2>4. Head(todo[s]).frame \in W => Head(todo[s]).frame \in G
    <3> SUFFICES ASSUME Word(Head(todo[s]).frame, x) PROVE Head(todo[s]).frame.to = channel[x]
      BY <2>3 DEF Words, TrueWords
    <3>1. About(Head(todo[s]), x) /\ Says(Head(todo[s])) = Head(todo[s]).frame.to
      BY <2>2 DEF About, Says
    <3> QED BY <2>2, <3>1 DEF WordsTrue
  <2> QED BY <1>sent, <2>1, <2>3, <2>4
<1>3. CASE ToldGone(y)
  <2>1. PICK c \in Session : IsSent(y, UserLeft(c))
    BY <1>3 DEF ToldGone
  <2>2. UserLeft(c) \in Frame /\ UserLeft(c) \notin W
    BY FrameTypes DEF Words, Word, UserLeft
  <2> QED BY <1>sent, <2>1, <2>2
<1>4. CASE Reads(y)
  <2> DEFINE f == Head(queue[y])
  <2>1. /\ queue[y] # <<>> /\ queue'[y] = Tail(queue[y]) /\ phase[y] = "running"
        /\ view'[y] = Applied(view[y], f)
    BY <1>4 DEF Reads
  <2>2. f \in Frame
    BY <1>t, <2>1, HeadTailRange
  <2>3. f \in G => Applied(view[y], f)[x] \in {Absent, channel[x]}
    BY <1>t DEF Applied, TrueWords, Word
  <2>4. f \notin W /\ view[y][x] \in {Absent, channel[x]} => Applied(view[y], f)[x] \in {Absent, channel[x]}
    BY <1>t, <2>2 DEF Applied, Words, Word
  <2> HIDE DEF W, G, f
  <2>5. CASE LastWordTrue(y, x)
    <3>1. LastIn(Tail(queue[y]), W, G) \/ (f \in G /\ NoneIn(Tail(queue[y]), W))
      BY <1>t, <1>l, <2>1, <2>5, LastTaken DEF f
    <3> QED BY <1>d, <2>1, <2>3, <3>1 DEF W, G
  <2>6. CASE HasItRight(y, x)
    <3>1. f \notin W /\ NoneIn(Tail(queue[y]), W) /\ view[y][x] \in {Absent, channel[x]}
      BY <1>t, <1>k, <2>1, <2>6, LastTaken DEF f
    <3> QED BY <1>d, <2>1, <2>4, <3>1 DEF W, G
  <2> QED BY <2>5, <2>6
<1>5. CASE IsGreeted(y)
  <2>1. queue'[y] = queue[y] /\ view'[y][x] \in {Absent, channel[x]}
    BY <1>t, <1>5 DEF IsGreeted
  <2> QED BY <1>d, <1>l, <1>k, <2>1
<1> QED BY <1>1, <1>2, <1>3, <1>4, <1>5, ListenSteps

\* Those still to be announced as evicted are told of one by one.
LEMMA EvictionsGoOn ==
  ASSUME TypeOK, NEW s \in Session, AnnounceEvicted(s), NEW x \in Head(todo[s]).who, NEW y
  PROVE  \E t \in Range(todo'[s]) : Tells(t, y, x)
<1> DEFINE rest(z) == Head(todo[s]).who \ {z}
           new1(z) == <<Broadcast(UserMoved(z, None), {}), Broadcast(UserUpdated(z, None), {})>>
           new2(z) == IF rest(z) = {} THEN <<>> ELSE <<Task("evicted", rest(z), Note, None)>>
<1>t. todo \in [Session -> Seq(Tasks)]
  BY DEF TypeOK
<1>1. todo[s] # <<>> /\ Head(todo[s]).who \subseteq Session
  BY <1>t, DoingTyped, TaskFields DEF AnnounceEvicted
<1>2. PICK z \in Head(todo[s]).who : Then(s, new1(z) \o new2(z))
  BY DEF AnnounceEvicted
<1>3. z \in Session /\ rest(z) \subseteq Session
  BY <1>1
<1>4. /\ Broadcast(UserMoved(z, None), {}) \in Tasks /\ Broadcast(UserUpdated(z, None), {}) \in Tasks
      /\ Task("evicted", rest(z), Note, None) \in Tasks
  BY <1>3, FrameTypes, TaskTypes
<1>5. new1(z) \in Seq(Tasks) /\ Broadcast(UserMoved(z, None), {}) \in Range(new1(z))
  BY <1>4, ShortRanges
<1>6. new2(z) \in Seq(Tasks)
  BY <1>4, EmptySeq
<1>7. x # z => Task("evicted", rest(z), Note, None) \in Range(new2(z))
  BY ShortRanges
<1>8. x # z => x \in rest(z)
  OBVIOUS
<1> HIDE DEF rest, new1, new2
<1>9. Range(new1(z)) \cup Range(new2(z)) \subseteq Range(todo'[s])
  <2>1. new1(z) \o new2(z) \in Seq(Tasks) /\ Range(new1(z) \o new2(z)) = Range(new1(z)) \cup Range(new2(z))
    BY <1>5, <1>6, JoinedTasks
  <2>2. Range(todo'[s]) = Range(new1(z) \o new2(z)) \cup Range(Tail(todo[s]))
    BY <1>t, <1>1, <1>2, <2>1, ThenTyped
  <2> QED BY <2>1, <2>2
<1>10. CASE x = z
  BY <1>5, <1>9, <1>10, MoveTasks
<1>11. CASE x # z
  BY <1>7, <1>8, <1>9, <1>11, MoveTasks
<1> QED BY <1>10, <1>11

\* A word that is owed stays owed until it is queued.
LEMMA WordReaches ==
  ASSUME TypeOK, IdleBetween, WordsTrue, [Next]_vars, NEW x \in Session, Present(x), channel'[x] = channel[x],
         NEW y \in Session, Connected(y), Connected(y)', WordOwed(y, x)
  PROVE  RoomKnown(y, x)'
<1>t. queue[y] \in Seq(Frame) /\ todo \in [Session -> Seq(Tasks)]
  BY DEF TypeOK
<1>1. PICK s \in Session : \E t \in Range(todo[s]) : Tells(t, y, x)
  BY DEF WordOwed
<1>2. PICK t \in Range(todo[s]) : Tells(t, y, x)
  BY <1>1
<1>o. ASSUME NEW u \in Range(todo'[s]), Tells(u, y, x) PROVE RoomKnown(y, x)'
  BY <1>o DEF RoomKnown, WordOwed, Tells, Word
<1>3. CASE t \in Range(todo'[s])
  BY <1>2, <1>3, <1>o
<1>4. CASE todo[s] # <<>> /\ t = Head(todo[s]) /\ Work(s)
  <2>1. CASE t.op = "evicted" /\ x \in t.who
    <3>1. AnnounceEvicted(s)
      BY <1>4, <2>1, WorkByKind
    <3>2. \E u \in Range(todo'[s]) : Tells(u, y, x)
      BY <1>4, <2>1, <3>1, EvictionsGoOn
    <3> QED BY <1>o, <3>2
  <2>2. CASE t.op = "broadcast" /\ y \notin t.who /\ Word(t.frame, x)
    <3>1. Deliver(s)
      BY <1>4, <2>2, WorkByKind
    <3>2. y \notin Doomed'
      BY DEF Connected
    <3>3. queue'[y] = Append(queue[y], t.frame)
      BY <1>4, <2>2, <3>1, <3>2, BroadcastReaches
    <3>4. About(t, x) /\ Says(t) = t.frame.to
      BY <2>2 DEF About, Says
    <3>5. t.frame.to = channel[x]
      BY <3>4 DEF WordsTrue
    <3>6. t.frame \in Frame
      BY <1>t, <1>4, HeadTailRange, TaskFields
    <3>7. t.frame \in TrueWords(x, channel[x])
      BY <2>2, <3>5, <3>6 DEF TrueWords
    <3>8. LastIn(queue'[y], Words(x), TrueWords(x, channel[x]))
      BY <1>t, <3>3, <3>6, <3>7, LastQueued
    <3> QED BY <3>8 DEF RoomKnown, LastWordTrue, Words, TrueWords, Word
  <2> QED BY <1>2, <2>1, <2>2 DEF Tells
<1> QED BY <1>3, <1>4, TaskStays

LEMMA RoomsStep ==
  ASSUME TypeOK, TypeOK', NoLeakedSlot, IdleBetween, QueueStartsEmpty, AloneInTodo,
         OccupantsHaveRoom, OccupantsHaveRoom', WordsTrue, RoomsKnown, [Next]_vars
  PROVE  RoomsKnown'
<1> SUFFICES ASSUME NEW y \in clients', NEW x \in Session, Connected(y)', Present(x)'
             PROVE  RoomKnown(y, x)'
  BY DEF RoomsKnown
<1>1. y \in Session /\ Present(x)
  BY PresentBefore DEF TypeOK
<1>2. CASE Enters(y)
  <2>1. queue'[y] = <<>> /\ phase'[y] = "admitted"
    BY <1>1, <1>2 DEF Enters, QueueStartsEmpty
  <2>2. NoneIn(queue'[y], Words(x))
    BY <2>1, NothingQueued
  <2> QED BY <2>1, <2>2 DEF RoomKnown, HasItRight, Words, Word
<1>3. CASE channel'[x] # channel[x]
  <2>1. x \in clients'
    BY <1>3, MoversArePresent
  <2>2. PICK s \in Session : Announced(s, x)
    BY <1>3, <2>1, MovesAreAnnounced
  <2>3. \E t \in Range(todo'[s]) : Tells(t, y, x)
    BY <2>2 DEF Announced
  <2> QED BY <2>3 DEF RoomKnown, WordOwed, Tells, Word
<1>4. CASE Connected(y) /\ channel'[x] = channel[x]
  <2>1. RoomKnown(y, x)
    BY <1>1, <1>4 DEF RoomsKnown, Connected
  <2>2. CASE WordOwed(y, x)
    BY <1>1, <1>4, <2>2, WordReaches
  <2>3. CASE LastWordTrue(y, x) \/ HasItRight(y, x)
    BY <1>1, <1>4, <2>3, WordHeard
  <2> QED BY <2>1, <2>2, <2>3 DEF RoomKnown
<1> QED BY <1>1, <1>2, <1>3, <1>4, ConnectedSteps

LEMMA RoomInit == Init => RoomInv
<1> SUFFICES ASSUME Init PROVE RoomInv
  OBVIOUS
<1>1. \A s \in Session : Range(todo[s]) = {}
  BY ShortRanges DEF Init
<1> QED BY <1>1 DEF Init, RoomInv, WordsTrue, NewcomersOutside, RoomsKnown

LEMMA RoomNext ==
  /\ TypeOK /\ TypeOK' /\ PresenceInv /\ PresenceInv' /\ DepartureInv
  /\ OccupantsHaveRoom /\ OccupantsHaveRoom' /\ OneVoice' /\ RoomInv /\ [Next]_vars
  => RoomInv'
<1> SUFFICES ASSUME TypeOK, TypeOK', PresenceInv, PresenceInv', DepartureInv,
                    OccupantsHaveRoom, OccupantsHaveRoom', OneVoice', RoomInv, [Next]_vars
             PROVE  RoomInv'
  OBVIOUS
<1>1. NoLeakedSlot /\ IdleBetween /\ IdleBetween' /\ AloneInTodo /\ QueueStartsEmpty
  BY DEF PresenceInv, DepartureInv
<1>2. WordsTrue /\ NewcomersOutside /\ RoomsKnown
  BY DEF RoomInv
<1>3. WordsTrue'
  BY <1>1, <1>2, WordsStep
<1>4. NewcomersOutside'
  BY <1>1, <1>2, NewcomersStep
<1>5. RoomsKnown'
  BY <1>1, <1>2, RoomsStep
<1> QED BY <1>3, <1>4, <1>5 DEF RoomInv

\* Whichever of the paths a move takes (a member's own, a moderator's, a room
\* that is deleted), and however its announcement overtakes arrivals, greetings
\* and other moves, once everything is delivered every client shows every other
\* where the server has it, if no client was ever spoken of by two sessions
\* at once.  Without that, two announcements may pass each other.
THEOREM RoomsFollowOneVoice == Spec /\ []OneVoice => []RoomsAgree
<1>1. TypeOK /\ PresenceInv /\ RoomInv => RoomsAgree
  <2> SUFFICES ASSUME TypeOK, PresenceInv, RoomInv, Settled,
                      NEW y \in clients, NEW x \in clients, view[y][x] # Absent
               PROVE  view[y][x] = channel[x]
    BY DEF RoomsAgree
  <2>1. y \in Session /\ x \in Session /\ NoLeakedSlot
    BY DEF TypeOK, PresenceInv
  <2>2. /\ Connected(y) /\ phase[y] = "running" /\ queue[y] = <<>>
        /\ \A s \in Session : Range(todo[s]) = {}
    BY <2>1, SettledClient
  <2>3. RoomKnown(y, x)
    BY <2>1, <2>2 DEF RoomInv, RoomsKnown, Present
  <2>4. ~WordOwed(y, x)
    BY <2>2 DEF WordOwed
  <2>5. ~LastWordTrue(y, x)
    BY <2>2, NothingQueued DEF LastWordTrue
  <2> QED BY <2>2, <2>3, <2>4, <2>5 DEF RoomKnown, HasItRight
<1>2. Spec /\ []OneVoice => []RoomInv
  BY RoomInit, RoomNext, TypeCorrect, PresenceHolds, DepartureHolds, RoomsExist, PTL DEF Spec
<1> QED BY <1>1, <1>2, TypeCorrect, PresenceHolds, PTL

\* Without moderators, whatever a session says is of itself.
OwnTask(s, t) == t.op \in {"broadcast", "send", "drop", "gone"} /\ \A x : About(t, x) => x = s
OwnWords == \A s \in Session : \A t \in Range(todo[s]) : OwnTask(s, t)

LEMMA OwnTasks ==
  ASSUME NEW s, NEW c, NEW w, NEW ch
  PROVE  /\ OwnTask(s, Ack(c)) /\ OwnTask(s, Send(Note, c)) /\ OwnTask(s, Drop(w)) /\ OwnTask(s, TellGone(c))
         /\ OwnTask(s, Broadcast(UserLeft(c), w))
         /\ OwnTask(s, Broadcast(UserJoined(s), w))
         /\ OwnTask(s, AnnounceMove(s, ch)) /\ OwnTask(s, Broadcast(UserUpdated(s, ch), w))
BY DEF OwnTask, About, Word, Ack, Send, Drop, TellGone, AnnounceMove, Broadcast, Task, Note,
   UserLeft, UserJoined, UserMoved, UserUpdated

LEMMA OwnWordsStep ==
  ASSUME Moderators = {}, TypeOK, OwnWords, [Next]_vars
  PROVE  OwnWords'
<1>t. todo \in [Session -> Seq(Tasks)]
  BY DEF TypeOK
<1>all. ASSUME \A r \in Session : \A u \in Range(todo'[r]) : OwnTask(r, u) PROVE OwnWords'
  BY <1>all DEF OwnWords, OwnTask, About, Word
<1>same. ASSUME todo' = todo PROVE OwnWords'
  BY <1>same, <1>all DEF OwnWords
<1>one. ASSUME NEW s \in Session, NEW t, OwnTask(s, t), todo' = [todo EXCEPT ![s] = <<t>>] PROVE OwnWords'
  <2>1. Range(todo'[s]) = {t}
    BY <1>t, <1>one, ShortRanges
  <2>2. \A r \in Session \ {s} : todo'[r] = todo[r]
    BY <1>one
  <2> QED BY <1>one, <1>all, <2>1, <2>2 DEF OwnWords
<1>then. ASSUME NEW s \in Session, todo[s] # <<>>, NEW new \in Seq(Tasks), Then(s, new),
                \A t \in Range(new) : OwnTask(s, t)
         PROVE  OwnWords'
  <2>1. /\ Range(todo'[s]) = Range(new) \cup Range(Tail(todo[s]))
        /\ \A x \in Session \ {s} : todo'[x] = todo[x]
    BY <1>t, <1>then, ThenTyped
  <2>2. Range(Tail(todo[s])) \subseteq Range(todo[s])
    BY <1>t, <1>then, HeadTailRange
  <2> QED BY <1>then, <1>all, <2>1, <2>2 DEF OwnWords
<1>1. CASE UNCHANGED vars
  BY <1>1, <1>same DEF vars
<1>2. ASSUME NEW s \in Session, Welcome(s) PROVE OwnWords'
  BY <1>2, <1>one, OwnTasks DEF Welcome
<1>3. ASSUME NEW s \in Session, Handshake(s), ~Welcome(s) PROVE OwnWords'
  BY <1>3, <1>same DEF Handshake, CheckBan, admit, Greet, GreetFails
<1>4. ASSUME NEW s \in Session, Deliver(s) PROVE OwnWords'
  <2>1. todo[s] # <<>>
    BY <1>4 DEF Deliver, Doing
  <2>2. PICK full \in SUBSET Session : Then(s, IF full = {} THEN <<>> ELSE <<Drop(full)>>)
    <3>1. \A to : Overflowed(to) \subseteq to
      BY DEF Overflowed
    <3>2. clients \subseteq Session
      BY DEF TypeOK
    <3> QED BY <1>4, <3>1, <3>2 DEF Deliver
  <2>3. Drop(full) \in Tasks
    BY FrameTypes, TaskTypes
  <2> DEFINE new == IF full = {} THEN <<>> ELSE <<Drop(full)>>
  <2>4. new \in Seq(Tasks) /\ Range(new) \subseteq {Drop(full)}
    BY <2>3, ShortRanges, EmptySeq
  <2>5. Then(s, new)
    BY <2>2
  <2> HIDE DEF new
  <2> QED BY <1>then, <2>1, <2>4, <2>5, OwnTasks
<1>5. ASSUME NEW s \in Session, DropOverflowed(s) PROVE OwnWords'
  <2> DEFINE rest(c) == Head(todo[s]).who \ {c}
             new1(c) == IF c \in clients THEN <<TellGone(c)>> ELSE <<>>
             new2(c) == IF rest(c) = {} THEN <<>> ELSE <<Drop(rest(c))>>
  <2>1. todo[s] # <<>> /\ Head(todo[s]).who \subseteq Session
    BY <1>t, <1>5, DoingTyped, TaskFields DEF DropOverflowed
  <2>2. PICK c \in Head(todo[s]).who : Then(s, new1(c) \o new2(c))
    BY <1>5 DEF DropOverflowed
  <2>3. TellGone(c) \in Tasks /\ Drop(rest(c)) \in Tasks
    BY <2>1, FrameTypes, TaskTypes
  <2>4. /\ new1(c) \in Seq(Tasks) /\ Range(new1(c)) \subseteq {TellGone(c)}
        /\ new2(c) \in Seq(Tasks) /\ Range(new2(c)) \subseteq {Drop(rest(c))}
    <3>1. new1(c) \in Seq(Tasks) /\ Range(new1(c)) \subseteq {TellGone(c)}
      BY <2>3, ShortRanges, EmptySeq
    <3>2. new2(c) \in Seq(Tasks)
      BY <2>3, EmptySeq
    <3>3. Range(new2(c)) \subseteq {Drop(rest(c))}
      BY ShortRanges
    <3> QED BY <3>1, <3>2, <3>3
  <2> HIDE DEF new1, new2, rest
  <2>5. new1(c) \o new2(c) \in Seq(Tasks) /\ Range(new1(c) \o new2(c)) = Range(new1(c)) \cup Range(new2(c))
    BY <2>4, JoinedTasks
  <2>6. \A t \in Range(new1(c) \o new2(c)) : OwnTask(s, t)
    BY <2>4, <2>5, OwnTasks
  <2> QED BY <1>then, <2>1, <2>2, <2>5, <2>6
<1>6. ASSUME NEW s \in Session, TellOfDropped(s) PROVE OwnWords'
  <2>1. todo[s] # <<>> /\ Then(s, <<>>)
    BY <1>6 DEF TellOfDropped, Doing
  <2> QED BY <1>then, <2>1, ShortRanges, EmptySeq
<1>7. ASSUME NEW s \in Session, Work(s), ~(Deliver(s) \/ DropOverflowed(s) \/ TellOfDropped(s)) PROVE FALSE
  <2>1. todo[s] # <<>> /\ Head(todo[s]).op \notin {"broadcast", "send", "drop", "gone"}
    BY <1>7 DEF Work, Doing, StoreBan, StoreUnban, Sweep, Eject, CloseTransport, MuteMember,
       ForceMove, ChannelUpdated, ChannelRemoved, AnnounceEvicted
  <2>2. Head(todo[s]) \in Range(todo[s])
    BY <1>t, <2>1, HeadTailRange
  <2> QED BY <2>1, <2>2 DEF OwnWords, OwnTask
<1>8. ASSUME NEW s \in Session, MemberRequest(s) PROVE OwnWords'
  <2>1. \E t : OwnTask(s, t) /\ todo' = [todo EXCEPT ![s] = <<t>>]
    BY <1>8, OwnTasks DEF MemberRequest, Answered, LeaveChannel, UpdateInfo, JoinChannel, Request
  <2> QED BY <1>one, <2>1
<1>9. ASSUME NEW s \in Session, ModeratorRequest(s) PROVE FALSE
  BY <1>9 DEF ModeratorRequest, Kick, SetServerMute, MoveMember, Ban, Unban, UpdateChannel,
     DeleteChannel, Authorized
<1>10. ASSUME NEW s \in Session, Depart(s) PROVE OwnWords'
  <2>1. todo' = [todo EXCEPT ![s] = Farewell(s)]
    BY <1>10 DEF Depart
  <2>2. CASE s \in clients
    BY <1>one, <2>1, <2>2, OwnTasks DEF Farewell
  <2>3. CASE s \notin clients
    <3>1. \A r \in Session : todo'[r] = todo[r] \/ todo'[r] = <<>>
      BY <1>t, <2>1, <2>3 DEF Farewell
    <3>2. \A r \in Session : Range(todo'[r]) \subseteq Range(todo[r])
      BY <3>1, ShortRanges
    <3> QED BY <1>all, <3>2 DEF OwnWords
  <2> QED BY <2>2, <2>3
<1>11. ASSUME NEW s \in Session, Drain(s) \/ Hangup(s) \/ EndLoop(s) PROVE OwnWords'
  BY <1>11, <1>same DEF Drain, Hangup, EndLoop
<1> QED BY <1>1, <1>2, <1>3, <1>4, <1>5, <1>6, <1>7, <1>8, <1>9, <1>10, <1>11 DEF Next

\* On a server without moderators the rooms agree with no further hypothesis: a
\* client is spoken of by its own session alone, which says one thing at a time.
THEOREM RoomsFollowMembers == ASSUME Moderators = {} PROVE Spec => []RoomsAgree
<1>1. Init => OwnWords
  <2> SUFFICES ASSUME Init PROVE OwnWords
    OBVIOUS
  <2>1. \A s \in Session : Range(todo[s]) = {}
    BY ShortRanges DEF Init
  <2> QED BY <2>1 DEF OwnWords
<1>2. TypeOK /\ OwnWords /\ [Next]_vars => OwnWords'
  BY OwnWordsStep
<1>3. OwnWords => OneVoice
  BY DEF OwnWords, OwnTask, OneVoice, Speaks
<1> QED BY <1>1, <1>2, <1>3, TypeCorrect, RoomsFollowOneVoice, PTL DEF Spec

=============================================================================
