-------------------------------- MODULE Voice --------------------------------
(***************************************************************************)
(* One speaker's voice, from the capture callback of the sender through    *)
(* the relay to the mixer of one listener.                                 *)
(*                                                                         *)
(* The capture callback runs once per frame, the listener's output         *)
(* callback once per frame of its own clock; neither waits for the other   *)
(* or for the network, which loses and reorders datagrams (QUIC delivers   *)
(* none twice).  Both hops, sender to relay and relay to listener, are one *)
(* queue here.                                                             *)
(*                                                                         *)
(* A frame carries the sequence number and flags of the wire, and for the  *)
(* properties the burst it was said in and its place there.                *)
(***************************************************************************)
EXTENDS Integers, Sequences, FiniteSets, FiniteSetsExt, SequencesExt

CONSTANTS
  Modulus,      \* sequence numbers wrap here; 2^32 in the code
  Target,       \* frames held before playback starts
  MaxBuffer,    \* cap on the frames held
  Hangover,     \* frames sent after the gate wants to close
  IdleLimit,    \* silent renders before a stream is released
  InFlight,     \* bound on the frames under way
  MaxFaults,    \* bound on frames lost, overtaken or not encoded
  MaxBursts,    \* bound on bursts
  MaxFrames,    \* bound on frames
  MaxMutes      \* bound on changes of the mute button

ASSUME VoiceAssumption ==
  /\ {Modulus, Target, MaxBuffer, Hangover, IdleLimit, InFlight,
      MaxFaults, MaxBursts, MaxFrames, MaxMutes} \subseteq Nat
  /\ 0 < Target /\ Target <= MaxBuffer
  /\ MaxFaults + 1 < Modulus \div 2

VARIABLES
  muted,         \* CaptureControls.muted
  gate,          \* VoiceGate: open, and the hangover left
  transmitting,  \* Capture.transmitting
  seq,           \* VoiceEncoder.seq
  burst,         \* bursts begun, the frames of the last one and those before it
  wire,          \* frames under way, in the order they were sent
  stream,        \* the mixer's stream for the speaker, or None
  last,          \* the frame this stream last gave to the decoder, since it last buffered
  faults,        \* losses, overtakings and failures to encode so far
  mutes, afterMute

sender == <<muted, gate, transmitting, seq, burst, mutes, afterMute>>
receiver == <<stream, last>>
vars == <<sender, wire, faults, receiver>>

None == [none |-> TRUE]

Init ==
  /\ muted = FALSE
  /\ gate = [open |-> FALSE, left |-> 0]
  /\ transmitting = FALSE
  /\ seq = 0
  /\ burst = [number |-> 0, sent |-> 0, before |-> 0]
  /\ wire = <<>> /\ faults = 0
  /\ stream = None /\ last = None
  /\ mutes = 0 /\ afterMute = 0

-----------------------------------------------------------------------------
(* Sender. *)

SetMuted ==
  /\ mutes < MaxMutes
  /\ mutes' = mutes + 1
  /\ muted' = ~muted
  /\ afterMute' = 0
  /\ UNCHANGED <<gate, transmitting, seq, burst, wire, faults, receiver>>

(* VoiceGate::update.  Whether the gate wants to be open depends on the    *)
(* mode: always, while the key is held, or by the level and its            *)
(* hysteresis.  Any of them may change with every frame.                   *)
Update(want) ==
  CASE want -> [gate |-> [open |-> TRUE, left |-> Hangover],
                activity |-> IF gate.open THEN "Speaking" ELSE "BurstStart"]
    [] ~want /\ gate.open /\ gate.left > 1 ->
         [gate |-> [gate EXCEPT !.left = @ - 1], activity |-> "Speaking"]
    [] ~want /\ gate.open /\ gate.left <= 1 ->
         [gate |-> [open |-> FALSE, left |-> 0], activity |-> "BurstEnd"]
    [] OTHER -> [gate |-> gate, activity |-> "Silent"]

(* VoiceGate::close *)
Close == [gate |-> [open |-> FALSE, left |-> 0],
          activity |-> IF gate.open THEN "BurstEnd" ELSE "Silent"]

(* Mutant: a muted frame is gated like any other while a burst is open. *)
ClassifyOpenBurst(want) ==
  IF muted /\ ~transmitting THEN [gate |-> gate, activity |-> "Silent"] ELSE Update(want)

(* A muted frame closes an open burst and is otherwise silent. *)
Classify(want) ==
  IF ~muted THEN Update(want)
  ELSE IF transmitting THEN Close
  ELSE [gate |-> gate, activity |-> "Silent"]

(* Activity: every frame but a silent one is sent, the last of a burst too. *)
should_transmit(activity) == activity \in {"BurstStart", "Speaking", "BurstEnd"}

(* The numbering restarts with every burst. *)
FirstSeq(activity) == IF activity = "BurstStart" THEN 0 ELSE seq

Frame(activity, b) ==
  [burst |-> b.number, at |-> b.sent, seq |-> FirstSeq(activity),
   start |-> activity = "BurstStart"]

(* Capture::process: classify the frame, then encode and send it.  A frame *)
(* that does not encode is skipped without using a sequence number.        *)
Process(want, encodes) ==
  LET c == Classify(want)
      b == IF c.activity = "BurstStart"
           THEN [number |-> burst.number + 1, sent |-> 0, before |-> burst.before + burst.sent] ELSE burst
      goesOut == should_transmit(c.activity) /\ encodes
      skipped == should_transmit(c.activity) /\ ~encodes
  IN /\ Len(wire) < InFlight /\ b.number <= MaxBursts /\ b.before + b.sent < MaxFrames
     /\ gate' = c.gate
     /\ transmitting' = (c.activity \in {"BurstStart", "Speaking"})
     /\ seq' = IF goesOut THEN (FirstSeq(c.activity) + 1) % Modulus ELSE FirstSeq(c.activity)
     /\ burst' = IF goesOut THEN [b EXCEPT !.sent = @ + 1] ELSE b
     /\ wire' = IF goesOut THEN Append(wire, Frame(c.activity, b)) ELSE wire
     /\ afterMute' = IF goesOut /\ muted THEN afterMute + 1 ELSE afterMute
     /\ faults' = (IF skipped THEN faults + 1 ELSE faults) /\ faults' <= MaxFaults
     /\ UNCHANGED <<muted, mutes, receiver>>

-----------------------------------------------------------------------------
(* The listener's jitter buffer. *)

Buffer == [packets |-> {}, anchor |-> None, next |-> None, playing |-> FALSE]

(* The wrapping difference of two sequence numbers read as a signed value. *)
Signed(d) == IF d < Modulus \div 2 THEN d ELSE d - Modulus

(* Mutant: the difference is not read as signed. *)
ExtendForwards(j, f) ==
  IF j.anchor = None THEN 0
  ELSE j.anchor.extended + ((f.seq - j.anchor.seq) % Modulus)

(* JitterBuffer::extend *)
Extend(j, f) ==
  IF j.anchor = None THEN 0
  ELSE j.anchor.extended + Signed((f.seq - j.anchor.seq) % Modulus)

Keys(packets) == {p.key : p \in packets}

(* Over the cap the oldest frame goes, and the position with it. *)
Trim(j) ==
  LET oldest == Min(Keys(j.packets))
  IN IF Cardinality(j.packets) <= MaxBuffer THEN j
     ELSE [j EXCEPT !.packets = {p \in @ : p.key # oldest},
                    !.next = IF @ # None /\ @.slot <= oldest THEN [slot |-> oldest + 1] ELSE @]

(* JitterBuffer::push: a frame behind the position is late and dropped. *)
Push(j, f) ==
  LET e == Extend(j, f)
      anchored == [j EXCEPT !.anchor = [seq |-> f.seq, extended |-> e]]
      held == {p \in j.packets : p.key # e} \cup {[key |-> e, frame |-> f]}
  IN IF j.next # None /\ e < j.next.slot THEN anchored
     ELSE Trim([anchored EXCEPT !.packets = held])

(* Mutant: a missing slot does not pass. *)
PopWaiting(j) ==
  LET ready == j.playing \/ Cardinality(j.packets) >= Target
      next == IF j.playing THEN j.next.slot ELSE Min(Keys(j.packets))
      here == {p \in j.packets : p.key = next}
  IN IF ~ready THEN [jitter |-> j, out |-> "silence", frame |-> None]
     ELSE IF here # {} THEN
       [jitter |-> [j EXCEPT !.packets = @ \ here, !.playing = TRUE, !.next = [slot |-> next + 1]],
        out |-> "frame", frame |-> (CHOOSE p \in here : TRUE).frame]
     ELSE IF j.packets = {} THEN
       [jitter |-> [j EXCEPT !.playing = FALSE, !.next = None], out |-> "underrun", frame |-> None]
     ELSE [jitter |-> j, out |-> "lost", frame |-> None]

(* JitterBuffer::pop: the next frame, a lost slot, or silence: while the   *)
(* backlog fills, and when it has run dry and has to fill again.           *)
Pop(j) ==
  LET ready == j.playing \/ Cardinality(j.packets) >= Target
      next == IF j.playing THEN j.next.slot ELSE Min(Keys(j.packets))
      here == {p \in j.packets : p.key = next}
      passed == [j EXCEPT !.packets = @ \ here, !.playing = TRUE, !.next = [slot |-> next + 1]]
  IN IF ~ready THEN [jitter |-> j, out |-> "silence", frame |-> None]
     ELSE IF here # {} THEN
       [jitter |-> passed, out |-> "frame", frame |-> (CHOOSE p \in here : TRUE).frame]
     ELSE IF j.packets = {} THEN
       [jitter |-> [j EXCEPT !.playing = FALSE, !.next = None], out |-> "underrun", frame |-> None]
     ELSE [jitter |-> passed, out |-> "lost", frame |-> None]

-----------------------------------------------------------------------------
(* The network, the relay and the mixer. *)

(* VoiceMixer::accept: the first frame of a burst makes a fresh start.     *)
(* (base, for the properties: the burst all frames since the last start    *)
(* belong to, 0 when there was no start or a frame of another burst came.) *)
Accept(f) ==
  LET s == IF stream = None THEN [jitter |-> Buffer, idle |-> 0, base |-> 0] ELSE stream
      j == IF f.start THEN Buffer ELSE s.jitter
  IN stream' = [s EXCEPT !.jitter = Push(j, f), !.idle = 0,
                         !.base = IF f.start THEN f.burst ELSE IF f.burst = @ THEN @ ELSE 0]

(* The i-th frame under way arrives, before the ones sent ahead of it. *)
Deliver(i) ==
  /\ faults' = faults + (i - 1) /\ faults' <= MaxFaults
  /\ wire' = RemoveAt(wire, i)
  /\ Accept(wire[i])
  /\ last' = IF wire[i].start THEN None ELSE last
  /\ UNCHANGED sender

(* The network loses a frame, or the relay refuses it: an unknown or muted *)
(* speaker, no room or no voice room, no SPEAK; a listener elsewhere or    *)
(* deafened.  A frame that never arrives may as well go when it is first.  *)
Drop ==
  /\ wire # <<>>
  /\ faults < MaxFaults
  /\ faults' = faults + 1
  /\ wire' = Tail(wire)
  /\ UNCHANGED <<sender, receiver>>

(* VoiceMixer::render: play, conceal or stay silent, and release a stream  *)
(* that has been silent for long.  A frame that does not decode, or a slot *)
(* that is not concealed, is passed and counts as silence.                 *)
Rendered(decodes) ==
  LET p == Pop(stream.jitter)
      sounds == decodes /\ p.out \in {"frame", "lost"}
      idle == IF sounds THEN 0 ELSE stream.idle + 1
  IN [stream |-> IF idle > IdleLimit THEN None
                 ELSE [stream EXCEPT !.jitter = p.jitter, !.idle = idle],
      last |-> CASE p.out = "underrun" \/ idle > IdleLimit -> None
                 [] p.out = "frame" /\ idle <= IdleLimit -> p.frame
                 [] OTHER -> last]

(* The output callback has run out of samples: Playback renders a frame.   *)
Render ==
  /\ stream # None
  /\ UNCHANGED <<sender, wire, faults>>
  /\ \E decodes \in BOOLEAN :
       LET r == Rendered(decodes) IN stream' = r.stream /\ last' = r.last

-----------------------------------------------------------------------------
Next ==
  \/ SetMuted
  \/ \E want, encodes \in BOOLEAN : Process(want, encodes)
  \/ \E i \in DOMAIN wire : Deliver(i)
  \/ Drop
  \/ Render

(* The output device keeps asking for sound. *)
Fairness == WF_vars(Render)

Spec == Init /\ [][Next]_vars /\ Fairness

-----------------------------------------------------------------------------
(* After muting, the capture callback sends at most the one frame that     *)
(* closes the burst, whatever the gate, the key and the level do.          *)
MutedIsSilent == afterMute <= 1

(* Sequence numbers order a burst across their wrap: once the start of a   *)
(* burst has been received, each of its frames is held under its true      *)
(* place, in whatever order the frames arrive and whichever are missing.   *)
KeyIsPlace ==
  stream # None =>
    \A p \in stream.jitter.packets : p.frame.burst = stream.base => p.key = p.frame.at

(* Between two fillings of the buffer the frames of a burst are played in  *)
(* the order they were said: a frame that comes too late is dropped, never *)
(* played after a later one.                                               *)
PlayedInOrder ==
  [][ (last # None /\ last' # None /\ last' # last /\ last'.burst = last.burst)
        => last'.at > last.at ]_vars

(* A speaker who stops is released: the listener's stream cannot stay for  *)
(* ever with the speaker silent and nothing of theirs under way.           *)
SpeakerReleased == []<>(stream = None \/ transmitting \/ wire # <<>>)
=============================================================================
