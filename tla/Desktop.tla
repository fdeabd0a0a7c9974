------------------------------- MODULE Desktop -------------------------------
(***************************************************************************)
(* The desktop process: the table of open connections, the voice route,    *)
(* and the audio engine they share.                                        *)
(*                                                                         *)
(* Three kinds of thread touch that state, each under short locks of its   *)
(* own: the asynchronous connect commands, one event pump per connection,  *)
(* and the main thread, which runs every synchronous command one after the *)
(* other.  A step below is the stretch of code between two lock            *)
(* acquisitions whose order another thread could change.                   *)
(*                                                                         *)
(* A session id is never reused, so a member of Session stands for one     *)
(* call of connect and the connection it opens.  The speakers a mixer      *)
(* holds are counted by the session whose server named them: speaker ids   *)
(* of two servers collide, so a mixer must not hold both.                  *)
(***************************************************************************)
EXTENDS Naturals, FiniteSets

CONSTANTS Session,    \* the connections opened in one life of the process
          MaxHeard    \* bound on the packets of one session a mixer is counted to hold

None == "none"

ASSUME DesktopAssumption == MaxHeard \in Nat /\ MaxHeard > 1 /\ None \notin Session

VARIABLES
  pc,        \* how far each connect command has come
  sessions,  \* AppState.sessions: the ids in the table
  link,      \* the client's connection: "up", "lost" (by the server), "closed"
  pump,      \* the event pump of each session
  route,     \* VoiceRoute: the session the microphone feeds
  engine,    \* EngineSlot: whether an engine runs
  heard,     \* packets of each session's speakers in the running engine's mixer
  main,      \* what is left of the command the main thread is running
  preview    \* the settings dialog's microphone test is open

vars == <<pc, sessions, link, pump, route, engine, heard, main, preview>>

Idle == [op |-> "idle", session |-> None]
Main(op, s) == main' = [op |-> op, session |-> s]
Silence == [s \in Session |-> 0]

Init ==
  /\ pc = [s \in Session |-> "new"]
  /\ sessions = {}
  /\ link = [s \in Session |-> "closed"]
  /\ pump = [s \in Session |-> "off"]
  /\ route = None
  /\ engine = FALSE
  /\ heard = Silence
  /\ main = Idle
  /\ preview = FALSE

-----------------------------------------------------------------------------
(* The connect command, one task per connection. *)

Advance(s, to) == pc' = [pc EXCEPT ![s] = to]

(* The handshake succeeded: there is a client, in no table yet. *)
Handshake(s) ==
  /\ pc[s] = "new"
  /\ Advance(s, "signed")
  /\ link' = [link EXCEPT ![s] = "up"]
  /\ UNCHANGED <<sessions, pump, route, engine, heard, main, preview>>

(* ensure_audio: a running engine is left alone, otherwise one is started. *)
EnsureAudio(s) ==
  /\ pc[s] = "signed"
  /\ Advance(s, IF engine THEN "audio" ELSE "opening")
  /\ UNCHANGED <<sessions, link, pump, route, engine, heard, main, preview>>

(* The devices are open: the new engine displaces whatever is in the slot. *)
InstallEngine == engine' = TRUE /\ heard' = Silence

ConnectOpens(s) ==
  /\ pc[s] = "opening"
  /\ InstallEngine
  /\ Advance(s, "audio")
  /\ UNCHANGED <<sessions, link, pump, route, main, preview>>

(* Without devices connect fails, and the client is dropped with it. *)
ConnectFails(s) ==
  /\ pc[s] = "opening"
  /\ Advance(s, "failed")
  /\ link' = [link EXCEPT ![s] = "closed"]
  /\ UNCHANGED <<sessions, pump, route, engine, heard, main, preview>>

SpawnPump(s) ==
  /\ pc[s] = "audio"
  /\ Advance(s, "pumped")
  /\ pump' = [pump EXCEPT ![s] = "run"]
  /\ UNCHANGED <<sessions, link, route, engine, heard, main, preview>>

InsertSession(s) ==
  /\ pc[s] = "pumped"
  /\ Advance(s, "inserted")
  /\ sessions' = sessions \cup {s}
  /\ UNCHANGED <<link, pump, route, engine, heard, main, preview>>

(* Only a connection that finds voice nowhere goes on to take it. *)
FindVoice(s) ==
  /\ pc[s] = "inserted"
  /\ Advance(s, IF route = None THEN "routing" ELSE "done")
  /\ UNCHANGED <<sessions, link, pump, route, engine, heard, main, preview>>

(* route_voice: the session is in the table; the route is set here and the *)
(* mixer cleared in a step of its own.  The code looks the session up and  *)
(* reads the route in sections before the one that sets it.  What they see *)
(* still holds there: s leaves the table only on the main thread, once its *)
(* connect has returned, and voice comes to s only by these two callers,   *)
(* the one after the other.                                                *)
RouteVoice(s) ==
  /\ s \in sessions
  /\ route # s
  /\ route' = s

ConnectRoutes(s) ==
  /\ pc[s] = "routing"
  /\ RouteVoice(s)
  /\ Advance(s, "clearing")
  /\ UNCHANGED <<sessions, link, pump, engine, heard, main, preview>>

ClearSpeakers == heard' = Silence

ConnectClears(s) ==
  /\ pc[s] = "clearing"
  /\ ClearSpeakers
  /\ Advance(s, "done")
  /\ UNCHANGED <<sessions, link, pump, route, engine, main, preview>>

Connect(s) ==
  \/ Handshake(s) \/ EnsureAudio(s) \/ ConnectOpens(s) \/ ConnectFails(s)
  \/ SpawnPump(s) \/ InsertSession(s) \/ FindVoice(s)
  \/ ConnectRoutes(s) \/ ConnectClears(s)

-----------------------------------------------------------------------------
(* The event pump of one connection. *)

(* Mutant: the route is not consulted. *)
TakeAnyPacket(s) ==
  /\ pump[s] = "run" /\ link[s] = "up"
  /\ pump' = [pump EXCEPT ![s] = "packet"]
  /\ UNCHANGED <<pc, sessions, link, route, engine, heard, main, preview>>

(* A voice packet is at the head of the stream.  It is dropped unless the  *)
(* route points here; the mixer is reached only after that check.          *)
TakePacket(s) ==
  /\ pump[s] = "run" /\ link[s] = "up"
  /\ route = s
  /\ pump' = [pump EXCEPT ![s] = "packet"]
  /\ UNCHANGED <<pc, sessions, link, route, engine, heard, main, preview>>

(* An aborted task stops at its next await, so a packet in hand is still   *)
(* delivered.  Without an engine it is dropped.                            *)
Accept(s) ==
  /\ pump[s] = "packet"
  /\ heard' = IF engine /\ heard[s] < MaxHeard THEN [heard EXCEPT ![s] = @ + 1] ELSE heard
  /\ pump' = [pump EXCEPT ![s] = IF link[s] = "closed" THEN "off" ELSE "run"]
  /\ UNCHANGED <<pc, sessions, link, route, engine, main, preview>>

(* Mutant: a disconnect leaves the route alone. *)
KeepRoute(s) == route' = route

(* VoiceRoute::clear_if *)
ClearIf(s) == route' = IF route = s THEN None ELSE route

(* Mutant: the pump just ends with its stream. *)
LostUnheeded(s) ==
  /\ pump[s] = "run" /\ link[s] = "lost"
  /\ pump' = [pump EXCEPT ![s] = "off"]
  /\ UNCHANGED <<pc, sessions, link, route, engine, heard, main, preview>>

(* The stream ends with Disconnected: the pump gives voice up, clears the  *)
(* mixer if it did, and finishes.  The session stays in the table.         *)
ConnectionLost(s) ==
  /\ pump[s] = "run" /\ link[s] = "lost"
  /\ ClearIf(s)
  /\ pump' = [pump EXCEPT ![s] = IF route = s THEN "clearing" ELSE "off"]
  /\ UNCHANGED <<pc, sessions, link, engine, heard, main, preview>>

PumpClears(s) ==
  /\ pump[s] = "clearing"
  /\ ClearSpeakers
  /\ pump' = [pump EXCEPT ![s] = "off"]
  /\ UNCHANGED <<pc, sessions, link, route, engine, main, preview>>

Pump(s) == TakePacket(s) \/ Accept(s) \/ ConnectionLost(s) \/ PumpClears(s)

(* The server or the network ends a connection; Disconnected is then the   *)
(* next event of its stream.                                               *)
Lose(s) ==
  /\ link[s] = "up"
  /\ link' = [link EXCEPT ![s] = "lost"]
  /\ UNCHANGED <<pc, sessions, pump, route, engine, heard, main, preview>>

(* Mutant: only the streams of the server holding voice are released. *)
ReleaseRouted(s) ==
  /\ engine
  /\ heard[s] > 0
  /\ route = s
  /\ heard' = [heard EXCEPT ![s] = 0]
  /\ UNCHANGED <<pc, sessions, link, pump, route, engine, main, preview>>

(* render releases a stream that stayed silent for a while. *)
ReleaseStream(s) ==
  /\ engine
  /\ heard[s] > 0
  /\ heard' = [heard EXCEPT ![s] = 0]
  /\ UNCHANGED <<pc, sessions, link, pump, route, engine, main, preview>>

-----------------------------------------------------------------------------
(* The main thread.  A tab can be closed, or given voice, once its connect *)
(* has returned.                                                           *)

Tab(s) == s \in sessions /\ pc[s] = "done"

(* end_session: out of the table and shut down, ... *)
Disconnect(s) ==
  /\ main = Idle /\ Tab(s)
  /\ sessions' = sessions \ {s}
  /\ link' = [link EXCEPT ![s] = "closed"]
  /\ pump' = [pump EXCEPT ![s] = IF @ = "run" THEN "off" ELSE @]
  /\ Main("release", s)
  /\ UNCHANGED <<pc, route, engine, heard, preview>>

(* ... voice released if it was here, and the mixer cleared then, ... *)
Release ==
  /\ main.op = "release"
  /\ ClearIf(main.session)
  /\ Main(IF route = main.session THEN "releasing" ELSE "last", None)
  /\ UNCHANGED <<pc, sessions, link, pump, engine, heard, preview>>

ReleaseClears ==
  /\ main.op = "releasing"
  /\ ClearSpeakers
  /\ Main("last", None)
  /\ UNCHANGED <<pc, sessions, link, pump, route, engine, preview>>

(* Mutant: the table is looked at as if the ended session were still in it. *)
LastButOne ==
  /\ main.op = "last"
  /\ IF Cardinality(sessions) = 1 THEN Main("stop", None) ELSE main' = Idle
  /\ UNCHANGED <<pc, sessions, link, pump, route, engine, heard, preview>>

(* ... and the engine stopped if no connection is left. *)
LastOne ==
  /\ main.op = "last"
  /\ IF sessions = {} THEN Main("stop", None) ELSE main' = Idle
  /\ UNCHANGED <<pc, sessions, link, pump, route, engine, heard, preview>>

(* stop_audio *)
StopAudio ==
  /\ main.op = "stop"
  /\ engine' = FALSE /\ heard' = Silence
  /\ main' = Idle
  /\ UNCHANGED <<pc, sessions, link, pump, route, preview>>

(* set_voice_session *)
TakeVoice(s) ==
  /\ main = Idle /\ Tab(s)
  /\ RouteVoice(s)
  /\ Main("clear", None)
  /\ UNCHANGED <<pc, sessions, link, pump, engine, heard, preview>>

TakeVoiceClears ==
  /\ main.op = "clear"
  /\ ClearSpeakers
  /\ main' = Idle
  /\ UNCHANGED <<pc, sessions, link, pump, route, engine, preview>>

(* set_audio_settings with another device: a running engine is rebuilt. *)
SetAudioSettings ==
  /\ main = Idle
  /\ engine
  /\ Main("open", None)
  /\ UNCHANGED <<pc, sessions, link, pump, route, engine, heard, preview>>

StartAudioPreview ==
  /\ main = Idle /\ ~preview
  /\ preview' = TRUE
  /\ IF engine THEN main' = Idle ELSE Main("open", None)
  /\ UNCHANGED <<pc, sessions, link, pump, route, engine, heard>>

MainOpens ==
  /\ main.op = "open"
  /\ InstallEngine
  /\ main' = Idle
  /\ UNCHANGED <<pc, sessions, link, pump, route, preview>>

(* Devices that do not open leave the slot as it was. *)
MainFails ==
  /\ main.op = "open"
  /\ main' = Idle
  /\ UNCHANGED <<pc, sessions, link, pump, route, engine, heard, preview>>

(* The preview stops the engine only when nothing is connected. *)
StopAudioPreview ==
  /\ main = Idle /\ preview
  /\ preview' = FALSE
  /\ IF sessions = {} THEN Main("stop", None) ELSE main' = Idle
  /\ UNCHANGED <<pc, sessions, link, pump, route, engine, heard>>

MainStep ==
  Release \/ ReleaseClears \/ LastOne \/ StopAudio \/ TakeVoiceClears \/ MainOpens \/ MainFails

Command ==
  \/ \E s \in Session : Disconnect(s) \/ TakeVoice(s)
  \/ SetAudioSettings \/ StartAudioPreview \/ StopAudioPreview

-----------------------------------------------------------------------------
Next ==
  \/ \E s \in Session : Connect(s) \/ Pump(s) \/ Lose(s) \/ ReleaseStream(s)
  \/ Command
  \/ MainStep

(* A command that has begun runs to its end, a pump takes the events its   *)
(* stream holds, and the output callback keeps rendering while an engine   *)
(* runs.  Nothing makes the user act or a connection drop.                 *)
Fairness ==
  /\ WF_vars(MainStep)
  /\ \A s \in Session : WF_vars(Accept(s) \/ ConnectionLost(s) \/ PumpClears(s))
  /\ \A s \in Session : WF_vars(ReleaseStream(s))

Spec == Init /\ [][Next]_vars /\ Fairness

-----------------------------------------------------------------------------
(* Voice points at a connection of the table, except in the moment between *)
(* end_session taking it out and releasing voice: neither a pump that ends *)
(* nor a connect that takes voice late leaves the microphone feeding a     *)
(* connection that was closed.                                             *)
VoiceOnOpenSession ==
  route # None => \/ route \in sessions
                  \/ main = [op |-> "release", session |-> route]

(* Someone is about to clear the mixer after the route moved. *)
ClearPending ==
  \/ main.op \in {"releasing", "clear"}
  \/ \E s \in Session : pc[s] = "clearing" \/ pump[s] = "clearing"

(* Once the clear that follows a move of voice is done, a server that does *)
(* not hold voice has at most the one packet in the mixer that its pump    *)
(* had checked before the move: it cannot become a second conversation.    *)
OneStrayPacket ==
  ~ClearPending => \A s \in Session \ {route} : heard[s] <= 1

(* The microphone is open only for something: with nothing connected, no   *)
(* connect past the opening of the devices, no preview, and the main       *)
(* thread idle, no engine runs, however ends of sessions, previews and     *)
(* connects interleaved.                                                   *)
DevicesReleased ==
  engine => \/ sessions # {}
            \/ preview
            \/ main # Idle
            \/ \E s \in Session : pc[s] \in {"audio", "pumped"}

(* A connection the server ends while it holds voice gives voice up, by    *)
(* its pump or by the user closing the tab first.                          *)
VoiceReleased ==
  \A s \in Session :
    (route = s /\ link[s] = "lost" /\ pump[s] \in {"run", "packet"}) ~> (route # s)

(* A stray packet's speaker does not stay in the mixer: it is released     *)
(* while its server does not hold voice, or its server gets voice back.    *)
StrayReleased ==
  \A s \in Session : (heard[s] > 0 /\ route # s) ~> (heard[s] = 0 \/ route = s)
=============================================================================
