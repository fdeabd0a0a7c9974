---------------------------- MODULE DesktopProofs ----------------------------
(***************************************************************************)
(* Proofs about Desktop, for any number of connections: voice points at an *)
(* open connection, the mixer does not mix two servers, and the devices    *)
(* are released.                                                           *)
(***************************************************************************)
EXTENDS Desktop, TLAPS

-----------------------------------------------------------------------------
(* The inductive invariants *)

MainOps == {"idle", "release", "releasing", "last", "stop", "clear", "open"}

TypeOK ==
  /\ pc \in [Session -> {"new", "signed", "opening", "audio", "failed", "pumped",
                         "inserted", "routing", "clearing", "done"}]
  /\ sessions \subseteq Session
  /\ link \in [Session -> {"up", "lost", "closed"}]
  /\ pump \in [Session -> {"off", "run", "packet", "clearing"}]
  /\ route \in Session \cup {None}
  /\ engine \in BOOLEAN /\ preview \in BOOLEAN
  /\ heard \in [Session -> Nat]
  /\ main \in [op : MainOps, session : Session \cup {None}]

(* Something the devices are open for, which can only go away while the    *)
(* main thread is idle: it is what starts a command's check for the last   *)
(* connection.                                                             *)
InUse == sessions # {} \/ preview \/ \E s \in Session : pc[s] \in {"audio", "pumped"}
DevicesInv == (main = Idle /\ engine) \/ main.op \in {"clear", "open"} => InUse

(* A pump does nothing before its connect spawns it.                       *)
Unspawned ==
  \A s \in Session : pc[s] \in {"new", "signed", "opening", "audio", "failed"} => pump[s] = "off"

(* Once no clear is pending, a server without voice has one packet in the  *)
(* mixer or in its pump's hands, not both.                                 *)
InHand(s) == IF pump[s] = "packet" THEN 1 ELSE 0
StrayInv == ~ClearPending => \A s \in Session \ {route} : heard[s] + InHand(s) <= 1

-----------------------------------------------------------------------------
LEMMA MainTyped ==
  /\ Idle \in [op : MainOps, session : Session \cup {None}] /\ Idle.op = "idle"
  /\ \A op \in MainOps, s \in Session \cup {None} :
       [op |-> op, session |-> s] \in [op : MainOps, session : Session \cup {None}]
BY DEF Idle, MainOps

LEMMA TypeInit == Init => TypeOK
<1> SUFFICES ASSUME Init PROVE TypeOK
  OBVIOUS
<1>1. main \in [op : MainOps, session : Session \cup {None}]
  BY MainTyped DEF Init
<1> QED BY <1>1 DEF Init, TypeOK, Silence

LEMMA TypeNext == TypeOK /\ [Next]_vars => TypeOK'
<1> SUFFICES ASSUME TypeOK, [Next]_vars PROVE TypeOK'
  OBVIOUS
<1> USE DEF TypeOK
<1>0. Silence \in [Session -> Nat]
  BY DEF Silence
<1>1. ASSUME NEW s \in Session, Connect(s) PROVE TypeOK'
  <2>1. CASE Handshake(s) \/ EnsureAudio(s) \/ ConnectFails(s)
    BY <2>1 DEF Handshake, EnsureAudio, ConnectFails, Advance
  <2>2. CASE ConnectOpens(s)
    BY <1>0, <2>2 DEF ConnectOpens, InstallEngine, Advance
  <2>3. CASE SpawnPump(s) \/ InsertSession(s) \/ FindVoice(s)
    BY <2>3 DEF SpawnPump, InsertSession, FindVoice, Advance
  <2>4. CASE ConnectRoutes(s)
    BY <2>4 DEF ConnectRoutes, RouteVoice, Advance
  <2>5. CASE ConnectClears(s)
    BY <1>0, <2>5 DEF ConnectClears, ClearSpeakers, Advance
  <2> QED BY <1>1, <2>1, <2>2, <2>3, <2>4, <2>5 DEF Connect
<1>2. ASSUME NEW s \in Session, Pump(s) PROVE TypeOK'
  <2>1. CASE TakePacket(s)
    BY <2>1 DEF TakePacket
  <2>2. CASE Accept(s)
    <3>1. heard' \in [Session -> Nat]
      <4>1. heard[s] + 1 \in Nat
        OBVIOUS
      <4> QED BY <2>2, <4>1 DEF Accept
    <3> QED BY <2>2, <3>1 DEF Accept
  <2>3. CASE ConnectionLost(s)
    BY <2>3 DEF ConnectionLost, ClearIf
  <2>4. CASE PumpClears(s)
    BY <1>0, <2>4 DEF PumpClears, ClearSpeakers
  <2> QED BY <1>2, <2>1, <2>2, <2>3, <2>4 DEF Pump
<1>3. ASSUME NEW s \in Session, Lose(s) \/ ReleaseStream(s) PROVE TypeOK'
  BY <1>3 DEF Lose, ReleaseStream
<1>4. CASE Command
  <2>1. ASSUME NEW s \in Session, Disconnect(s) PROVE TypeOK'
    BY <2>1 DEF Disconnect, Main, MainOps
  <2>2. ASSUME NEW s \in Session, TakeVoice(s) PROVE TypeOK'
    BY <2>2 DEF TakeVoice, RouteVoice, Main, MainOps
  <2>3. CASE SetAudioSettings \/ StartAudioPreview \/ StopAudioPreview
    <3>1. main' \in [op : MainOps, session : Session \cup {None}]
      BY <2>3, MainTyped DEF SetAudioSettings, StartAudioPreview, StopAudioPreview, Main, MainOps
    <3> QED BY <2>3, <3>1 DEF SetAudioSettings, StartAudioPreview, StopAudioPreview
  <2> QED BY <1>4, <2>1, <2>2, <2>3 DEF Command
<1>5. CASE MainStep
  <2>1. CASE Release
    BY <2>1 DEF Release, ClearIf, Main, MainOps
  <2>2. CASE ReleaseClears \/ LastOne
    BY <1>0, <2>2, MainTyped DEF ReleaseClears, ClearSpeakers, LastOne, Main, MainOps
  <2>3. CASE StopAudio \/ TakeVoiceClears \/ MainOpens \/ MainFails
    BY <1>0, <2>3, MainTyped DEF StopAudio, TakeVoiceClears, ClearSpeakers, MainOpens, InstallEngine, MainFails
  <2> QED BY <1>5, <2>1, <2>2, <2>3 DEF MainStep
<1>6. CASE UNCHANGED vars
  BY <1>6 DEF vars
<1> QED BY <1>1, <1>2, <1>3, <1>4, <1>5, <1>6 DEF Next

LEMMA TypeHolds == Spec => []TypeOK
BY TypeInit, TypeNext, PTL DEF Spec

-----------------------------------------------------------------------------
\* The microphone never feeds a connection that was closed, but for the moment
\* inside end_session: connects, pumps and commands move the route only to an
\* open session, and only end_session takes one out.
THEOREM VoiceStaysOpen == Spec => []VoiceOnOpenSession
<1>1. Init => VoiceOnOpenSession
  BY DEF Init, VoiceOnOpenSession
<1>2. TypeOK /\ VoiceOnOpenSession /\ [Next]_vars => VoiceOnOpenSession'
  <2> SUFFICES ASSUME TypeOK, VoiceOnOpenSession, [Next]_vars PROVE VoiceOnOpenSession'
    OBVIOUS
  <2> USE DEF VoiceOnOpenSession
  <2>0. None \notin Session /\ main = Idle => (route # None => route \in sessions)
    BY MainTyped
  <2>1. ASSUME UNCHANGED <<route, main>>, sessions \subseteq sessions' PROVE VoiceOnOpenSession'
    BY <2>1
  <2>2. ASSUME NEW s \in Session, Connect(s) PROVE VoiceOnOpenSession'
    <3>1. CASE ConnectRoutes(s)
      BY <3>1 DEF ConnectRoutes, RouteVoice
    <3>2. CASE ~ ConnectRoutes(s)
      BY <2>1, <2>2, <3>2 DEF Connect, Handshake, EnsureAudio, ConnectOpens, ConnectFails, SpawnPump,
           InsertSession, FindVoice, ConnectClears
    <3> QED BY <3>1, <3>2
  <2>3. ASSUME NEW s \in Session, Pump(s) PROVE VoiceOnOpenSession'
    <3>1. CASE ConnectionLost(s)
      BY <3>1 DEF ConnectionLost, ClearIf
    <3>2. CASE ~ ConnectionLost(s)
      BY <2>1, <2>3, <3>2 DEF Pump, TakePacket, Accept, PumpClears
    <3> QED BY <3>1, <3>2
  <2>4. ASSUME NEW s \in Session, Lose(s) \/ ReleaseStream(s) PROVE VoiceOnOpenSession'
    BY <2>1, <2>4 DEF Lose, ReleaseStream
  <2>5. CASE Command
    <3>1. ASSUME NEW s \in Session, Disconnect(s) PROVE VoiceOnOpenSession'
      BY <2>0, <3>1, DesktopAssumption DEF Disconnect, Main
    <3>2. ASSUME NEW s \in Session, TakeVoice(s) PROVE VoiceOnOpenSession'
      BY <3>2 DEF TakeVoice, RouteVoice
    <3>3. CASE SetAudioSettings \/ StartAudioPreview \/ StopAudioPreview
      BY <2>0, <3>3, DesktopAssumption DEF SetAudioSettings, StartAudioPreview, StopAudioPreview
    <3> QED BY <2>5, <3>1, <3>2, <3>3 DEF Command
  <2>6. CASE MainStep
    <3>1. CASE Release
      <4>1. main = [op |-> "release", session |-> route] => route = main.session
        OBVIOUS
      <4> QED BY <3>1, <4>1 DEF Release, ClearIf
    <3>2. CASE ~ Release
      <4>1. UNCHANGED <<route, sessions>> /\ main.op # "release"
        BY <2>6, <3>2 DEF MainStep, ReleaseClears, LastOne, StopAudio, TakeVoiceClears, MainOpens, MainFails
      <4> QED BY <4>1
    <3> QED BY <3>1, <3>2
  <2>7. CASE UNCHANGED vars
    BY <2>1, <2>7 DEF vars
  <2> QED BY <2>2, <2>3, <2>4, <2>5, <2>6, <2>7 DEF Next
<1> QED BY <1>1, <1>2, TypeHolds, PTL DEF Spec

-----------------------------------------------------------------------------
\* No engine outlives what it was started for: whatever the order in which
\* sessions end, previews close and connects open the devices, the last of
\* them stops it.
THEOREM DevicesAreReleased == Spec => []DevicesReleased
<1>1. Init => DevicesInv
  BY MainTyped DEF Init, DevicesInv
<1>2. TypeOK /\ DevicesInv /\ [Next]_vars => DevicesInv'
  <2> SUFFICES ASSUME TypeOK, DevicesInv, [Next]_vars PROVE DevicesInv'
    OBVIOUS
  <2>0. Idle.op = "idle"
    BY MainTyped
  <2>1. ASSUME InUse => InUse', engine' => engine, main' = main PROVE DevicesInv'
    BY <2>1 DEF DevicesInv
  <2>2. ASSUME NEW s \in Session, Connect(s) PROVE DevicesInv'
    <3>1. CASE ConnectOpens(s)
      <4>1. pc'[s] = "audio"
        BY <3>1 DEF ConnectOpens, Advance, TypeOK
      <4> QED BY <4>1 DEF DevicesInv, InUse
    <3>2. CASE ~ ConnectOpens(s)
      <4>1. UNCHANGED <<engine, main, preview>> /\ sessions \subseteq sessions'
        BY <2>2, <3>2 DEF Connect, Handshake, EnsureAudio, ConnectFails, SpawnPump,
             InsertSession, FindVoice, ConnectRoutes, ConnectClears
      <4>2. pc[s] \in {"audio", "pumped"} => pc'[s] = "pumped" \/ s \in sessions'
        BY <2>2, <3>2 DEF Connect, Handshake, EnsureAudio, ConnectFails, SpawnPump,
             InsertSession, FindVoice, ConnectRoutes, ConnectClears, Advance, TypeOK
      <4>3. \A y \in Session \ {s} : pc'[y] = pc[y]
        BY <2>2 DEF Connect, Handshake, EnsureAudio, ConnectOpens, ConnectFails, SpawnPump,
             InsertSession, FindVoice, ConnectRoutes, ConnectClears, Advance, TypeOK
      <4>4. InUse => InUse'
        BY <4>1, <4>2, <4>3 DEF InUse
      <4> QED BY <2>1, <4>1, <4>4
    <3> QED BY <3>1, <3>2
  <2>3. ASSUME NEW s \in Session, Pump(s) \/ Lose(s) \/ ReleaseStream(s) PROVE DevicesInv'
    <3>1. UNCHANGED <<pc, sessions, preview, engine, main>>
      BY <2>3 DEF Pump, TakePacket, Accept, ConnectionLost, PumpClears, Lose, ReleaseStream
    <3> QED BY <2>1, <3>1 DEF InUse
  <2>4. CASE Command
    <3>1. ASSUME NEW s \in Session, Disconnect(s) PROVE DevicesInv'
      <4>1. main' = [op |-> "release", session |-> s]
        BY <3>1 DEF Disconnect, Main
      <4> QED BY <2>0, <4>1 DEF DevicesInv
    <3>2. ASSUME NEW s \in Session, TakeVoice(s) PROVE DevicesInv'
      BY <3>2 DEF TakeVoice, RouteVoice, DevicesInv, InUse
    <3>3. CASE SetAudioSettings
      <4>1. UNCHANGED <<pc, sessions, preview>> /\ main = Idle /\ engine
        BY <3>3 DEF SetAudioSettings
      <4> QED BY <4>1 DEF DevicesInv, InUse
    <3>4. CASE StartAudioPreview
      BY <3>4 DEF StartAudioPreview, DevicesInv, InUse
    <3>5. CASE StopAudioPreview
      <4>1. CASE sessions = {}
        <5>1. main' = [op |-> "stop", session |-> None]
          BY <3>5, <4>1 DEF StopAudioPreview, Main
        <5> QED BY <2>0, <5>1 DEF DevicesInv
      <4>2. CASE sessions # {}
        BY <3>5, <4>2 DEF StopAudioPreview, DevicesInv, InUse
      <4> QED BY <4>1, <4>2
    <3> QED BY <2>4, <3>1, <3>2, <3>3, <3>4, <3>5 DEF Command
  <2>5. CASE MainStep
    <3>1. CASE Release
      <4>1. main'.op \in {"releasing", "last"}
        BY <3>1 DEF Release, Main
      <4> QED BY <2>0, <4>1 DEF DevicesInv
    <3>2. CASE ReleaseClears
      <4>1. main'.op = "last"
        BY <3>2 DEF ReleaseClears, Main
      <4> QED BY <2>0, <4>1 DEF DevicesInv
    <3>3. CASE LastOne
      <4>1. CASE sessions = {}
        <5>1. main' = [op |-> "stop", session |-> None]
          BY <3>3, <4>1 DEF LastOne, Main
        <5> QED BY <2>0, <5>1 DEF DevicesInv
      <4>2. CASE sessions # {}
        BY <3>3, <4>2 DEF LastOne, DevicesInv, InUse
      <4> QED BY <4>1, <4>2
    <3>4. CASE StopAudio
      BY <2>0, <3>4 DEF StopAudio, DevicesInv
    <3>5. CASE TakeVoiceClears \/ MainOpens \/ MainFails
      <4>1. UNCHANGED <<pc, sessions, preview>> /\ main.op \in {"clear", "open"}
        BY <3>5 DEF TakeVoiceClears, MainOpens, MainFails
      <4> QED BY <4>1 DEF DevicesInv, InUse
    <3> QED BY <2>5, <3>1, <3>2, <3>3, <3>4, <3>5 DEF MainStep
  <2>6. CASE UNCHANGED vars
    BY <2>1, <2>6 DEF vars, InUse
  <2> QED BY <2>2, <2>3, <2>4, <2>5, <2>6 DEF Next
<1>3. DevicesInv => DevicesReleased
  BY DEF DevicesInv, InUse, DevicesReleased
<1> QED BY <1>1, <1>2, <1>3, TypeHolds, PTL DEF Spec

-----------------------------------------------------------------------------
(* The mixer *)

\* A clear that was pending is over only by a clear.
LEMMA ClearedIsSilent ==
  ASSUME TypeOK, heard' = Silence PROVE StrayInv'
<1>1. \A s \in Session : heard'[s] = 0
  BY DEF Silence
<1>2. \A s \in Session : InHand(s)' \in {0, 1}
  BY DEF InHand
<1> QED BY <1>1, <1>2 DEF StrayInv

\* A step that keeps every pending clear and every session's count.
LEMMA StrayKeeps ==
  ASSUME TypeOK, TypeOK', StrayInv, ClearPending => ClearPending', ~ ClearPending' => route' = route,
         \A s \in Session \ {route} : heard'[s] + InHand(s)' <= heard[s] + InHand(s)
  PROVE  StrayInv'
<1> SUFFICES ASSUME ~ ClearPending', NEW s \in Session \ {route'} PROVE heard'[s] + InHand(s)' <= 1
  BY DEF StrayInv
<1>1. s \in Session \ {route} /\ heard[s] + InHand(s) <= 1
  BY DEF StrayInv
<1>2. heard[s] + InHand(s) \in Nat /\ heard'[s] + InHand(s)' \in Nat
  BY <1>1 DEF TypeOK, InHand
<1>3. heard'[s] + InHand(s)' <= heard[s] + InHand(s)
  BY <1>1
<1> QED BY <1>1, <1>2, <1>3

\* A pump takes its first step after its connect spawned it.
LEMMA UnspawnedHolds == Spec => []Unspawned
<1>1. Init => Unspawned
  BY DEF Init, Unspawned
<1>2. TypeOK /\ Unspawned /\ [Next]_vars => Unspawned'
  <2> SUFFICES ASSUME TypeOK, Unspawned, [Next]_vars PROVE Unspawned'
    OBVIOUS
  <2> USE DEF TypeOK, Unspawned
  <2>1. ASSUME NEW s \in Session, Connect(s) PROVE Unspawned'
    <3>1. CASE SpawnPump(s)
      BY <3>1 DEF SpawnPump, Advance
    <3>2. CASE ~ SpawnPump(s)
      BY <2>1, <3>2 DEF Connect, Handshake, EnsureAudio, ConnectOpens, ConnectFails, InsertSession,
           FindVoice, ConnectRoutes, ConnectClears, Advance
    <3> QED BY <3>1, <3>2
  <2>2. ASSUME NEW s \in Session, Pump(s) PROVE Unspawned'
    BY <2>2 DEF Pump, TakePacket, Accept, ConnectionLost, PumpClears
  <2>3. ASSUME NEW s \in Session, Disconnect(s) PROVE Unspawned'
    BY <2>3 DEF Disconnect
  <2>4. CASE \/ \E s \in Session : Lose(s) \/ ReleaseStream(s) \/ TakeVoice(s)
             \/ SetAudioSettings \/ StartAudioPreview \/ StopAudioPreview \/ MainStep \/ UNCHANGED vars
    <3>1. UNCHANGED <<pc, pump>>
      BY <2>4 DEF Lose, ReleaseStream, TakeVoice, SetAudioSettings, StartAudioPreview, StopAudioPreview,
           MainStep, Release, ReleaseClears, LastOne, StopAudio, TakeVoiceClears, MainOpens, MainFails, vars
    <3> QED BY <3>1
  <2> QED BY <2>1, <2>2, <2>3, <2>4 DEF Next, Command
<1> QED BY <1>1, <1>2, TypeHolds, PTL DEF Spec

\* When voice has moved and the mixer is cleared, a server that lost it has at
\* most one packet there: the one its pump had checked before the move.
THEOREM OneStray == Spec => []OneStrayPacket
<1>1. Init => StrayInv
  BY DEF Init, StrayInv, InHand, Silence
<1>2. TypeOK /\ TypeOK' /\ Unspawned /\ StrayInv /\ [Next]_vars => StrayInv'
  <2> SUFFICES ASSUME TypeOK, TypeOK', Unspawned, StrayInv, [Next]_vars PROVE StrayInv'
    OBVIOUS
  <2>0. /\ \A s \in Session : heard[s] \in Nat /\ heard'[s] \in Nat
        /\ \A s \in Session : InHand(s) \in {0, 1} /\ InHand(s)' \in {0, 1}
    BY DEF TypeOK, InHand
  <2>1. ASSUME ClearPending => ClearPending', ~ ClearPending' => route' = route, heard' = heard,
               \A s \in Session \ {route} : pump'[s] = "packet" => pump[s] = "packet"
        PROVE  StrayInv'
    <3>1. \A s \in Session \ {route} : heard'[s] + InHand(s)' <= heard[s] + InHand(s)
      BY <2>0, <2>1 DEF InHand
    <3> QED BY <2>1, <3>1, StrayKeeps
  <2>2. ASSUME NEW s \in Session, Connect(s) PROVE StrayInv'
    <3>1. CASE ConnectOpens(s) \/ ConnectClears(s)
      BY <3>1, ClearedIsSilent DEF ConnectOpens, InstallEngine, ConnectClears, ClearSpeakers
    <3>2. CASE ConnectRoutes(s)
      <4>1. pc'[s] = "clearing"
        BY <3>2 DEF ConnectRoutes, Advance, TypeOK
      <4> QED BY <4>1 DEF StrayInv, ClearPending
    <3>3. CASE ~ (ConnectOpens(s) \/ ConnectClears(s) \/ ConnectRoutes(s))
      <4>1. UNCHANGED <<route, heard, main>> /\ pc[s] # "clearing"
        BY <2>2, <3>3 DEF Connect, Handshake, EnsureAudio, ConnectFails, SpawnPump, InsertSession, FindVoice
      <4>2. \A y \in Session \ {s} : pc'[y] = pc[y]
        BY <2>2, <3>3 DEF Connect, Handshake, EnsureAudio, ConnectFails, SpawnPump, InsertSession,
             FindVoice, Advance, TypeOK
      <4>3. pump' = pump \/ (pc[s] = "audio" /\ pump' = [pump EXCEPT ![s] = "run"])
        BY <2>2, <3>3 DEF Connect, Handshake, EnsureAudio, ConnectFails, SpawnPump, InsertSession, FindVoice
      <4>4. pump' = pump => StrayInv'
        BY <2>1, <4>1, <4>2 DEF ClearPending
      <4>5. CASE pc[s] = "audio" /\ pump' = [pump EXCEPT ![s] = "run"]
        <5>1. pump[s] = "off"
          BY <4>5 DEF Unspawned
        <5>2. \A y \in Session : pump'[y] = pump[y] \/ (y = s /\ pump'[y] = "run")
          BY <4>5 DEF TypeOK
        <5> QED BY <2>1, <4>1, <4>2, <5>1, <5>2 DEF ClearPending
      <4> QED BY <4>3, <4>4, <4>5
    <3> QED BY <3>1, <3>2, <3>3
  <2>3. ASSUME NEW s \in Session, Pump(s) PROVE StrayInv'
    <3>1. CASE TakePacket(s)
      <4>1. UNCHANGED <<route, heard, main, pc>> /\ route = s /\ pump[s] # "clearing"
        BY <3>1 DEF TakePacket
      <4>2. \A y \in Session \ {s} : pump'[y] = pump[y]
        BY <3>1 DEF TakePacket, TypeOK
      <4> QED BY <2>1, <4>1, <4>2 DEF ClearPending
    <3>2. CASE Accept(s)
      <4>1. UNCHANGED <<route, main, pc>> /\ pump[s] = "packet"
        BY <3>2 DEF Accept
      <4>2. /\ \A y \in Session \ {s} : pump'[y] = pump[y] /\ heard'[y] = heard[y]
            /\ pump'[s] # "packet" /\ heard'[s] <= heard[s] + 1
        BY <2>0, <3>2 DEF Accept, TypeOK
      <4>3. ClearPending => ClearPending'
        BY <4>1, <4>2 DEF ClearPending
      <4>4. \A y \in Session \ {route} : heard'[y] + InHand(y)' <= heard[y] + InHand(y)
        <5>1. InHand(s) = 1 /\ InHand(s)' = 0
          BY <4>1, <4>2 DEF InHand
        <5>2. \A y \in Session \ {s} : InHand(y)' = InHand(y)
          BY <4>2 DEF InHand
        <5>3. heard'[s] + InHand(s)' <= heard[s] + InHand(s)
          BY <2>0, <4>2, <5>1
        <5> QED BY <2>0, <4>2, <5>2, <5>3
      <4> QED BY <4>1, <4>3, <4>4, StrayKeeps
    <3>3. CASE ConnectionLost(s)
      <4>1. UNCHANGED <<heard, main, pc>> /\ pump[s] = "run"
        BY <3>3 DEF ConnectionLost
      <4>2. /\ \A y \in Session \ {s} : pump'[y] = pump[y]
            /\ pump'[s] = IF route = s THEN "clearing" ELSE "off"
            /\ route # s => route' = route
        BY <3>3 DEF ConnectionLost, ClearIf, TypeOK
      <4> QED BY <2>1, <4>1, <4>2 DEF ClearPending
    <3>4. CASE PumpClears(s)
      BY <3>4, ClearedIsSilent DEF PumpClears, ClearSpeakers
    <3> QED BY <2>3, <3>1, <3>2, <3>3, <3>4 DEF Pump
  <2>4. ASSUME NEW s \in Session, Lose(s) PROVE StrayInv'
    BY <2>1, <2>4 DEF Lose, ClearPending
  <2>5. ASSUME NEW s \in Session, ReleaseStream(s) PROVE StrayInv'
    <3>1. UNCHANGED <<pc, pump, main, route>> /\ \A y \in Session : heard'[y] = heard[y] \/ heard'[y] = 0
      BY <2>5 DEF ReleaseStream, TypeOK
    <3>2. \A y \in Session : InHand(y)' = InHand(y)
      BY <3>1 DEF InHand
    <3>3. \A y \in Session : heard'[y] + InHand(y)' <= heard[y] + InHand(y)
      BY <2>0, <3>1, <3>2
    <3> QED BY <3>1, <3>3, StrayKeeps DEF ClearPending
  <2>6. CASE Command
    <3>1. ASSUME NEW s \in Session, Disconnect(s) PROVE StrayInv'
      <4>1. UNCHANGED <<route, heard, pc>> /\ main = Idle
        BY <3>1 DEF Disconnect
      <4>2. \A y \in Session : pump'[y] = pump[y] \/ (pump[y] = "run" /\ pump'[y] = "off")
        BY <3>1 DEF Disconnect, TypeOK
      <4> QED BY <2>1, <4>1, <4>2 DEF ClearPending, Idle
    <3>2. ASSUME NEW s \in Session, TakeVoice(s) PROVE StrayInv'
      BY <3>2 DEF TakeVoice, Main, StrayInv, ClearPending
    <3>3. CASE SetAudioSettings \/ StartAudioPreview \/ StopAudioPreview
      <4>1. UNCHANGED <<route, heard, pc, pump>> /\ main = Idle
        BY <3>3 DEF SetAudioSettings, StartAudioPreview, StopAudioPreview
      <4> QED BY <2>1, <4>1 DEF ClearPending, Idle
    <3> QED BY <2>6, <3>1, <3>2, <3>3 DEF Command
  <2>7. CASE MainStep
    <3>1. CASE Release
      <4>1. UNCHANGED <<heard, pc, pump>> /\ main.op = "release"
        BY <3>1 DEF Release
      <4>2. CASE route = main.session
        <5>1. main'.op = "releasing"
          BY <3>1, <4>2 DEF Release, Main
        <5> QED BY <5>1 DEF StrayInv, ClearPending
      <4>3. CASE route # main.session
        <5>1. route' = route
          BY <3>1, <4>3 DEF Release, ClearIf
        <5> QED BY <2>1, <4>1, <5>1 DEF ClearPending
      <4> QED BY <4>2, <4>3
    <3>2. CASE ReleaseClears \/ StopAudio \/ TakeVoiceClears \/ MainOpens
      BY <3>2, ClearedIsSilent DEF ReleaseClears, StopAudio, TakeVoiceClears, MainOpens, InstallEngine, ClearSpeakers
    <3>3. CASE LastOne \/ MainFails
      <4>1. UNCHANGED <<route, heard, pc, pump>> /\ main.op \in {"last", "open"}
        BY <3>3 DEF LastOne, MainFails
      <4> QED BY <2>1, <4>1 DEF ClearPending
    <3> QED BY <2>7, <3>1, <3>2, <3>3 DEF MainStep
  <2>8. CASE UNCHANGED vars
    BY <2>1, <2>8 DEF vars, ClearPending
  <2> QED BY <2>2, <2>3, <2>4, <2>5, <2>6, <2>7, <2>8 DEF Next
<1>3. TypeOK /\ StrayInv => OneStrayPacket
  <2> SUFFICES ASSUME TypeOK, StrayInv, ~ ClearPending, NEW s \in Session \ {route} PROVE heard[s] <= 1
    BY DEF OneStrayPacket
  <2>1. heard[s] + InHand(s) <= 1 /\ heard[s] \in Nat /\ InHand(s) \in {0, 1}
    BY DEF StrayInv, TypeOK, InHand
  <2> QED BY <2>1
<1> QED BY <1>1, <1>2, <1>3, TypeHolds, UnspawnedHolds, PTL DEF Spec
=============================================================================
