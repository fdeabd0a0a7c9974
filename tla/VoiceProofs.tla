----------------------------- MODULE VoiceProofs -----------------------------
(***************************************************************************)
(* Proofs about Voice, for any wrap of the sequence numbers, any sizes of  *)
(* the buffer and any bounds: a muted speaker is silent, a frame's key is  *)
(* its place in the burst, and a burst is played in its order.             *)
(***************************************************************************)
EXTENDS Voice, SequenceTheorems, FiniteSetTheorems, WellFoundedInduction, TLAPS

-----------------------------------------------------------------------------
(* The inductive invariants *)

Frames == [burst : Nat, at : Nat, seq : Nat, start : BOOLEAN]
Packet == [key : Int, frame : Frames]
Anchor == [seq : Nat, extended : Int]
Slot == [slot : Int]
Jitter == [packets : SUBSET Packet, anchor : Anchor \cup {None}, next : Slot \cup {None},
           playing : BOOLEAN]
Stream == [jitter : Jitter, idle : Nat, base : Nat]
Gate == [open : BOOLEAN, left : Nat]
Burst == [number : Nat, sent : Nat, before : Nat]

TypeOK ==
  /\ muted \in BOOLEAN /\ transmitting \in BOOLEAN
  /\ gate \in Gate /\ burst \in Burst
  /\ seq \in Nat /\ mutes \in Nat /\ afterMute \in Nat
  /\ wire \in Seq(Frames) /\ faults \in Nat /\ faults <= MaxFaults
  /\ stream \in Stream \cup {None} /\ last \in Frames \cup {None}
  /\ stream # None => /\ IsFiniteSet(stream.jitter.packets)
                      /\ stream.jitter.playing => stream.jitter.next # None

(* A mute is closed by the frame that ends the burst, and by no other. *)
MuteInv == (transmitting \/ ~muted => afterMute = 0) /\ afterMute <= 1

(* The numbers of a burst count its frames, up to the wrap. *)
FrameOK(f) ==
  /\ f.seq = f.at % Modulus
  /\ f.start => f.at = 0
  /\ 1 <= f.burst /\ f.burst <= burst.number

(* Frames of a burst are under way in their order, and every gap between   *)
(* two of them, or before the next one, was paid for with a fault.         *)
LineInv ==
  /\ seq = burst.sent % Modulus
  /\ gate.open => burst.number >= 1
  /\ \A i \in 1 .. Len(wire) : FrameOK(wire[i])
  /\ \A i, k \in 1 .. Len(wire) : i < k /\ wire[i].burst = wire[k].burst =>
       /\ wire[i].at < wire[k].at
       /\ wire[k].at - wire[i].at <= (k - i) + faults
  /\ \A i \in 1 .. Len(wire) : wire[i].burst = burst.number =>
       /\ wire[i].at < burst.sent
       /\ burst.sent - wire[i].at <= (Len(wire) + 1 - i) + faults

(* So is the distance between the frame that came last and every frame     *)
(* under way: it never reaches half of the numbers.                        *)
Anchored(a, b) ==
  /\ a.extended \in Nat /\ a.seq = a.extended % Modulus
  /\ \A i \in 1 .. Len(wire) : wire[i].burst = b =>
       /\ a.extended - wire[i].at <= faults
       /\ wire[i].at - a.extended <= faults + i
  /\ b = burst.number => /\ a.extended < burst.sent
                         /\ burst.sent - a.extended <= faults + Len(wire) + 1

HeldInv ==
  stream # None =>
    /\ stream.base <= burst.number
    /\ stream.base # 0 => stream.jitter.anchor # None /\ Anchored(stream.jitter.anchor, stream.base)
    /\ \A p \in stream.jitter.packets :
         p.frame.burst >= 1 /\ (p.frame.burst = stream.base => p.key = p.frame.at)

(* What was played last is behind the position. *)
PlayInv ==
  /\ stream = None \/ ~ stream.jitter.playing => last = None
  /\ last # None => last.burst >= 1
  /\ stream # None /\ last # None => (last.burst = stream.base => last.at < stream.jitter.next.slot)

-----------------------------------------------------------------------------
(* Numbers *)

\* A remainder is known from any quotient.
LEMMA Remainder ==
  ASSUME NEW M \in Nat, M > 0, NEW x \in Int, NEW q \in Int, NEW r \in 0 .. (M - 1), x = q * M + r
  PROVE  x % M = r
OBVIOUS

LEMMA Quotient ==
  ASSUME NEW M \in Nat, M > 0, NEW x \in Int
  PROVE  x \div M \in Int /\ x % M \in 0 .. (M - 1) /\ x = (x \div M) * M + (x % M)
OBVIOUS

LEMMA Wraps ==
  /\ Modulus \in Nat /\ Modulus > 0 /\ Modulus \div 2 \in Nat
  /\ 2 * (Modulus \div 2) <= Modulus /\ MaxFaults + 1 < Modulus \div 2
  /\ MaxFaults \in Nat
<1>1. Modulus \in Nat /\ MaxFaults \in Nat /\ MaxFaults + 1 < Modulus \div 2
  BY VoiceAssumption
<1>2. Modulus \div 2 \in Nat /\ 2 * (Modulus \div 2) <= Modulus
  BY <1>1
<1> QED BY <1>1, <1>2

\* Counting on wraps.
LEMMA NextSeq == ASSUME NEW x \in Nat PROVE ((x % Modulus) + 1) % Modulus = (x + 1) % Modulus
<1> DEFINE M == Modulus
           q == x \div M
           r == x % M
<1>1. M \in Nat /\ M > 0 /\ q \in Int /\ r \in 0 .. (M - 1) /\ x = q * M + r
  BY Wraps, Quotient
<1> HIDE DEF M, q, r
<1>2. CASE r + 1 < M
  <2>1. (x + 1) % M = r + 1
    BY <1>1, <1>2, x + 1 = q * M + (r + 1), r + 1 \in 0 .. (M - 1), Remainder
  <2>2. (r + 1) % M = r + 1
    BY <1>1, <1>2, r + 1 = 0 * M + (r + 1), r + 1 \in 0 .. (M - 1), Remainder
  <2> QED BY <2>1, <2>2 DEF M, r
<1>3. CASE r + 1 = M
  <2>1. (x + 1) % M = 0
    <3>1. x + 1 = (q + 1) * M + 0
      BY <1>1, <1>3
    <3> QED BY <1>1, <3>1, Remainder
  <2>2. (r + 1) % M = 0
    BY <1>1, <1>3, r + 1 = 1 * M + 0, Remainder
  <2> QED BY <2>1, <2>2 DEF M, r
<1> QED BY <1>1, <1>2, <1>3

\* The signed difference of two numbers whose frames are close is the distance
\* of the frames.
LEMMA SignedIsDistance ==
  ASSUME NEW x \in Nat, NEW a \in Nat, x - a <= MaxFaults + 1, a - x <= MaxFaults + 1
  PROVE  a + Signed(((x % Modulus) - (a % Modulus)) % Modulus) = x
<1> DEFINE M == Modulus
           h == M \div 2
           qx == x \div M
           qa == a \div M
           d == (x % M) - (a % M)
<1>1. /\ M \in Nat /\ M > 0 /\ h \in Nat /\ 2 * h <= M /\ MaxFaults + 1 < h /\ MaxFaults \in Nat
      /\ qx \in Int /\ qa \in Int /\ d \in Int
      /\ x = qx * M + (x % M) /\ a = qa * M + (a % M)
  <2>1. /\ qx \in Int /\ x = qx * M + (x % M) /\ x % M \in Int
    BY Wraps, Quotient
  <2>2. /\ qa \in Int /\ a = qa * M + (a % M) /\ a % M \in Int
    BY Wraps, Quotient
  <2> QED BY Wraps, <2>1, <2>2
<1>2. d = (x - a) - (qx - qa) * M
  BY <1>1
<1> HIDE DEF qx, qa, d, M, h
<1>3. CASE x >= a
  <2>1. d = (qa - qx) * M + (x - a)
    BY <1>1, <1>2
  <2>2. x - a \in 0 .. (M - 1) /\ x - a < h /\ qa - qx \in Int
    BY <1>1, <1>3
  <2>3. d % M = x - a
    BY <1>1, <2>1, <2>2, Remainder
  <2>4. Signed(d % M) = x - a
    BY <2>2, <2>3 DEF Signed, M, h
  <2>5. a + (x - a) = x
    OBVIOUS
  <2> QED BY <2>4, <2>5 DEF d, M
<1>4. CASE x < a
  <2>1. d = (qa - qx - 1) * M + ((x - a) + M)
    BY <1>1, <1>2
  <2>2. /\ (x - a) + M \in 0 .. (M - 1) /\ ~ ((x - a) + M < h) /\ qa - qx - 1 \in Int
    BY <1>1, <1>4
  <2>3. d % M = (x - a) + M
    BY <1>1, <2>1, <2>2, Remainder
  <2>4. Signed(d % M) = ((x - a) + M) - M
    BY <2>2, <2>3 DEF Signed, M, h
  <2>5. a + (((x - a) + M) - M) = x
    BY <1>1
  <2> QED BY <2>4, <2>5 DEF d, M
<1> QED BY <1>3, <1>4

\* Every set of numbers that is not empty has a least one.
LEMMA LeastNat ==
  ASSUME NEW T \in SUBSET Nat, T # {}
  PROVE  \E n \in T : \A m \in T : n <= m
<1>1. PICK n \in T : \A m \in T : ~ (<<m, n>> \in OpToRel(<, Nat))
  BY WFMin, NatLessThanWellFounded, Zenon
<1>2. \A m \in T : ~ (m < n)
  BY <1>1, Zenon DEF OpToRel
<1> QED BY <1>2

\* The jitter buffer has an oldest packet: by the smallest set that has none.
LEMMA Oldest ==
  ASSUME NEW P \in SUBSET Packet, IsFiniteSet(P), P # {}
  PROVE  Min(Keys(P)) \in Keys(P) /\ Min(Keys(P)) \in Int
<1> DEFINE Least(S) == \E p \in S : \A q \in S : p.key <= q.key
           bad == {n \in Nat : \E S \in SUBSET Packet :
                     IsFiniteSet(S) /\ S # {} /\ Cardinality(S) = n /\ ~ Least(S)}
<1>1. bad = {}
  <2>1. SUFFICES ASSUME bad # {} PROVE FALSE
    OBVIOUS
  <2>2. PICK n \in bad : \A m \in bad : n <= m
    BY <2>1, LeastNat
  <2>3. PICK S \in SUBSET Packet : IsFiniteSet(S) /\ S # {} /\ Cardinality(S) = n /\ ~ Least(S)
    BY <2>2
  <2>4. PICK x \in S : TRUE
    BY <2>3
  <2>5. IsFiniteSet(S \ {x}) /\ Cardinality(S \ {x}) = n - 1 /\ n - 1 \in Nat
    <3>1. IsFiniteSet(S \ {x}) /\ Cardinality(S \ {x}) = Cardinality(S) - 1
      BY <2>3, <2>4, FS_RemoveElement
    <3>2. Cardinality(S \ {x}) \in Nat
      BY <3>1, FS_CardinalityType
    <3> QED BY <2>3, <3>1, <3>2
  <2>6. CASE S \ {x} = {}
    <3>1. \A q \in S : q = x
      BY <2>6
    <3>2. x.key \in Int
      BY <2>3, <2>4 DEF Packet
    <3> QED BY <2>3, <2>4, <3>1, <3>2
  <2>7. CASE S \ {x} # {}
    <3>1. ~ (n - 1 \in bad)
      BY <2>2, <2>5
    <3>2. Least(S \ {x})
      BY <2>3, <2>5, <2>7, <3>1
    <3>3. PICK p \in S \ {x} : \A q \in S \ {x} : p.key <= q.key
      BY <3>2
    <3>4. \A q \in S : q.key \in Int
      BY <2>3 DEF Packet
    <3>5. CASE p.key <= x.key
      BY <2>3, <3>3, <3>4, <3>5
    <3>6. CASE ~ (p.key <= x.key)
      <4>1. \A q \in S : x.key <= q.key
        BY <2>4, <3>3, <3>4, <3>6
      <4> QED BY <2>3, <2>4, <4>1
    <3> QED BY <3>5, <3>6
  <2> QED BY <2>6, <2>7
<1>2. Cardinality(P) \in Nat
  BY FS_CardinalityType
<1>3. PICK p \in P : \A q \in P : p.key <= q.key
  BY <1>1, <1>2
<1>4. p.key \in Keys(P) /\ \A k \in Keys(P) : p.key <= k
  BY <1>3 DEF Keys
<1>5. Min(Keys(P)) \in Keys(P)
  BY <1>4 DEF Min
<1>6. Keys(P) \subseteq Int
  BY DEF Keys, Packet
<1> QED BY <1>5, <1>6

-----------------------------------------------------------------------------
(* The jitter buffer *)

LEMMA NoneIsNone ==
  /\ \A x \in Anchor : x # None
  /\ \A x \in Slot : x # None
  /\ \A x \in Stream : x # None
  /\ \A x \in Frames : x # None
BY DEF None, Anchor, Slot, Stream, Frames

LEMMA JitterFields ==
  ASSUME NEW P, NEW a, NEW n, NEW y
  PROVE  LET j == [packets |-> P, anchor |-> a, next |-> n, playing |-> y]
         IN j.packets = P /\ j.anchor = a /\ j.next = n /\ j.playing = y
OBVIOUS

\* What the updates of a buffer leave.
LEMMA JitterUpdates ==
  ASSUME NEW j \in Jitter, NEW P, NEW a, NEW n
  PROVE  /\ [j EXCEPT !.anchor = a]
              = [packets |-> j.packets, anchor |-> a, next |-> j.next, playing |-> j.playing]
         /\ [j EXCEPT !.packets = P]
              = [packets |-> P, anchor |-> j.anchor, next |-> j.next, playing |-> j.playing]
         /\ [j EXCEPT !.packets = P, !.next = n]
              = [packets |-> P, anchor |-> j.anchor, next |-> n, playing |-> j.playing]
         /\ [j EXCEPT !.playing = FALSE, !.next = n]
              = [packets |-> j.packets, anchor |-> j.anchor, next |-> n, playing |-> FALSE]
         /\ [j EXCEPT !.packets = P, !.playing = TRUE, !.next = n]
              = [packets |-> P, anchor |-> j.anchor, next |-> n, playing |-> TRUE]
<1>0. \A b, c, d, e : \A w \in [packets : {b}, anchor : {c}, next : {d}, playing : {e}] :
        w = [packets |-> b, anchor |-> c, next |-> d, playing |-> e]
  OBVIOUS
<1>1. [j EXCEPT !.anchor = a]
        \in [packets : {j.packets}, anchor : {a}, next : {j.next}, playing : {j.playing}]
  BY DEF Jitter
<1>2. [j EXCEPT !.packets = P]
        \in [packets : {P}, anchor : {j.anchor}, next : {j.next}, playing : {j.playing}]
  BY DEF Jitter
<1>3. [j EXCEPT !.packets = P, !.next = n]
        \in [packets : {P}, anchor : {j.anchor}, next : {n}, playing : {j.playing}]
  BY DEF Jitter
<1>4. [j EXCEPT !.playing = FALSE, !.next = n]
        \in [packets : {j.packets}, anchor : {j.anchor}, next : {n}, playing : {FALSE}]
  BY DEF Jitter
<1>5. [j EXCEPT !.packets = P, !.playing = TRUE, !.next = n]
        \in [packets : {P}, anchor : {j.anchor}, next : {n}, playing : {TRUE}]
  BY DEF Jitter
<1>6. [j EXCEPT !.anchor = a]
        = [packets |-> j.packets, anchor |-> a, next |-> j.next, playing |-> j.playing]
  BY <1>0, <1>1, Zenon
<1>7. [j EXCEPT !.packets = P]
        = [packets |-> P, anchor |-> j.anchor, next |-> j.next, playing |-> j.playing]
  BY <1>0, <1>2, Zenon
<1>8. [j EXCEPT !.packets = P, !.next = n]
        = [packets |-> P, anchor |-> j.anchor, next |-> n, playing |-> j.playing]
  BY <1>0, <1>3, Zenon
<1>9. [j EXCEPT !.playing = FALSE, !.next = n]
        = [packets |-> j.packets, anchor |-> j.anchor, next |-> n, playing |-> FALSE]
  BY <1>0, <1>4, Zenon
<1>10. [j EXCEPT !.packets = P, !.playing = TRUE, !.next = n]
        = [packets |-> P, anchor |-> j.anchor, next |-> n, playing |-> TRUE]
  <2> DEFINE t == TRUE
             w == [j EXCEPT !.packets = P, !.playing = t, !.next = n]
  <2>1. w \in [packets : {P}, anchor : {j.anchor}, next : {n}, playing : {t}]
    BY <1>5
  <2> HIDE DEF t, w
  <2>2. w = [packets |-> P, anchor |-> j.anchor, next |-> n, playing |-> t]
    BY <1>0, <2>1, Zenon
  <2> QED BY <2>2 DEF t, w
<1> QED BY <1>6, <1>7, <1>8, <1>9, <1>10, Zenon

\* Trim throws packets away and moves the position only forwards.
LEMMA TrimFacts ==
  ASSUME NEW j \in Jitter, IsFiniteSet(j.packets)
  PROVE  /\ Trim(j) \in Jitter /\ Trim(j).packets \subseteq j.packets
         /\ Trim(j).anchor = j.anchor /\ Trim(j).playing = j.playing
         /\ j.next # None => Trim(j).next # None /\ j.next.slot <= Trim(j).next.slot
<1> DEFINE oldest == Min(Keys(j.packets))
           P == {p \in j.packets : p.key # oldest}
           n == IF j.next # None /\ j.next.slot <= oldest THEN [slot |-> oldest + 1] ELSE j.next
<1>0. j.packets \in SUBSET Packet /\ j.next \in Slot \cup {None}
  BY DEF Jitter
<1>1. CASE Cardinality(j.packets) <= MaxBuffer
  <2>1. Trim(j) = j
    BY <1>1 DEF Trim
  <2>2. j.next # None => j.next.slot \in Int
    BY <1>0 DEF Slot
  <2> QED BY <2>1, <2>2
<1>2. CASE ~ (Cardinality(j.packets) <= MaxBuffer)
  <2>1. j.packets # {}
    BY <1>2, FS_EmptySet, VoiceAssumption
  <2>2. oldest \in Int
    BY <1>0, <2>1, Oldest
  <2>3. Trim(j) = [j EXCEPT !.packets = P, !.next = n]
    BY <1>2 DEF Trim
  <2>4. n \in Slot \cup {None} /\ (j.next # None => n # None /\ j.next.slot <= n.slot)
    <3> HIDE DEF oldest
    <3>1. CASE j.next # None /\ j.next.slot <= oldest
      <4>1. n = [slot |-> oldest + 1] /\ j.next.slot \in Int
        BY <1>0, <3>1 DEF Slot
      <4>2. n \in Slot /\ n.slot = oldest + 1
        BY <2>2, <4>1 DEF Slot
      <4> QED BY <2>2, <3>1, <4>1, <4>2, NoneIsNone
    <3>2. CASE ~ (j.next # None /\ j.next.slot <= oldest)
      <4>1. n = j.next
        BY <3>2
      <4>2. j.next # None => j.next.slot \in Int
        BY <1>0 DEF Slot
      <4> QED BY <1>0, <4>1, <4>2
    <3> QED BY <3>1, <3>2
  <2>5. P \subseteq j.packets
    OBVIOUS
  <2> HIDE DEF oldest, P, n
  <2>6. Trim(j) = [packets |-> P, anchor |-> j.anchor, next |-> n, playing |-> j.playing]
    BY <2>3, JitterUpdates
  <2>7. Trim(j) \in Jitter
    BY <1>0, <2>4, <2>5, <2>6 DEF Jitter
  <2> QED BY <2>4, <2>5, <2>6, <2>7
<1> QED BY <1>1, <1>2

LEMMA ExtendTyped == ASSUME NEW j \in Jitter, NEW f \in Frames PROVE Extend(j, f) \in Int
<1>1. CASE j.anchor = None
  BY <1>1 DEF Extend
<1>2. CASE j.anchor # None
  <2>1. j.anchor.extended \in Int /\ j.anchor.seq \in Nat /\ f.seq \in Nat
    BY <1>2 DEF Jitter, Anchor, Frames
  <2>2. (f.seq - j.anchor.seq) % Modulus \in Int
    BY <2>1, Wraps, Quotient
  <2>3. Signed((f.seq - j.anchor.seq) % Modulus) \in Int
    BY <2>2, Wraps DEF Signed
  <2> QED BY <1>2, <2>1, <2>3 DEF Extend
<1> QED BY <1>1, <1>2

\* Push anchors the frame, and holds it unless it is late.
LEMMA PushFacts ==
  ASSUME NEW j \in Jitter, IsFiniteSet(j.packets), NEW f \in Frames
  PROVE  /\ Push(j, f) \in Jitter /\ IsFiniteSet(Push(j, f).packets)
         /\ Push(j, f).anchor = [seq |-> f.seq, extended |-> Extend(j, f)]
         /\ Push(j, f).playing = j.playing
         /\ \A p \in Push(j, f).packets :
              p \in j.packets \/ (p.key = Extend(j, f) /\ p.frame = f)
         /\ j.next # None => Push(j, f).next # None /\ j.next.slot <= Push(j, f).next.slot
<1> DEFINE e == Extend(j, f)
           a == [seq |-> f.seq, extended |-> e]
           anchored == [j EXCEPT !.anchor = a]
           new == [key |-> e, frame |-> f]
           held == {p \in j.packets : p.key # e} \cup {new}
<1>1. e \in Int
  BY ExtendTyped
<1> HIDE DEF e
<1>2. a \in Anchor /\ new \in Packet /\ new.key = e /\ new.frame = f
  BY <1>1 DEF Anchor, Packet, Frames
<1> HIDE DEF a, new
<1>3. /\ anchored = [packets |-> j.packets, anchor |-> a, next |-> j.next, playing |-> j.playing]
      /\ anchored \in Jitter
  <2>1. anchored = [packets |-> j.packets, anchor |-> a, next |-> j.next, playing |-> j.playing]
    BY JitterUpdates
  <2> QED BY <1>2, <2>1 DEF Jitter
<1>4. j.next # None => j.next.slot \in Int
  BY DEF Jitter, Slot
<1>5. CASE j.next # None /\ e < j.next.slot
  <2>1. Push(j, f) = anchored
    BY <1>5 DEF Push, e, a
  <2> HIDE DEF anchored
  <2> QED BY <1>3, <1>4, <2>1 DEF e, a
<1>6. CASE ~ (j.next # None /\ e < j.next.slot)
  <2> DEFINE g == [anchored EXCEPT !.packets = held]
  <2>1. Push(j, f) = Trim(g)
    BY <1>6 DEF Push, e, a, new
  <2>2. IsFiniteSet(held) /\ held \in SUBSET Packet
    <3>1. IsFiniteSet({p \in j.packets : p.key # e})
      BY FS_Subset
    <3>2. IsFiniteSet(held)
      BY <3>1, FS_AddElement
    <3> QED BY <1>2, <3>2 DEF Jitter
  <2>3. \A p \in held : p \in j.packets \/ p = new
    OBVIOUS
  <2> HIDE DEF held
  <2>4. /\ g.packets = held /\ g.anchor = a /\ g.next = j.next /\ g.playing = j.playing
        /\ g \in Jitter
    <3>1. g = [packets |-> held, anchor |-> anchored.anchor, next |-> anchored.next,
               playing |-> anchored.playing]
      BY <1>3, JitterUpdates
    <3>2. anchored.anchor = a /\ anchored.next = j.next /\ anchored.playing = j.playing
      BY <1>3
    <3> HIDE DEF anchored, g
    <3> QED BY <1>2, <2>2, <3>1, <3>2 DEF Jitter
  <2> HIDE DEF g
  <2>5. /\ Trim(g) \in Jitter /\ Trim(g).packets \subseteq g.packets
        /\ Trim(g).anchor = g.anchor /\ Trim(g).playing = g.playing
        /\ g.next # None => Trim(g).next # None /\ g.next.slot <= Trim(g).next.slot
    BY <2>2, <2>4, TrimFacts
  <2>6. IsFiniteSet(Trim(g).packets)
    BY <2>2, <2>4, <2>5, FS_Subset
  <2> QED BY <1>2, <2>1, <2>3, <2>4, <2>5, <2>6 DEF e, a
<1> QED BY <1>5, <1>6

\* Pop plays the packet at the position, and moves past it.
LEMMA PopFacts ==
  ASSUME NEW j \in Jitter, IsFiniteSet(j.packets), j.playing => j.next # None
  PROVE  LET r == Pop(j) IN
         /\ r.jitter \in Jitter /\ r.jitter.packets \subseteq j.packets
         /\ r.jitter.anchor = j.anchor
         /\ r.out \in {"silence", "frame", "lost", "underrun"}
         /\ r.out = "silence" => ~ j.playing /\ r.jitter = j
         /\ r.out = "underrun" => ~ r.jitter.playing
         /\ r.out \in {"frame", "lost"} => r.jitter.playing /\ r.jitter.next # None
         /\ r.out \in {"frame", "lost"} /\ j.playing => r.jitter.next.slot = j.next.slot + 1
         /\ r.out = "frame" =>
              \E p \in j.packets : p.frame = r.frame /\ r.jitter.next.slot = p.key + 1
<1> DEFINE ready == j.playing \/ Cardinality(j.packets) >= Target
           next == IF j.playing THEN j.next.slot ELSE Min(Keys(j.packets))
           here == {p \in j.packets : p.key = next}
           rest == j.packets \ here
           n == [slot |-> next + 1]
           passed == [j EXCEPT !.packets = rest, !.playing = TRUE, !.next = n]
<1>0. j.packets \in SUBSET Packet /\ j.next \in Slot \cup {None} /\ j.playing \in BOOLEAN
  BY DEF Jitter
<1>1. CASE ~ ready
  <2>1. Pop(j) = [jitter |-> j, out |-> "silence", frame |-> None]
    BY <1>1 DEF Pop
  <2> QED BY <1>1, <2>1
<1>2. CASE ready
  <2>1. next \in Int
    <3>1. CASE j.playing
      BY <1>0, <3>1 DEF Slot
    <3>2. CASE ~ j.playing
      <4>1. j.packets # {}
        BY <1>2, <3>2, FS_EmptySet, VoiceAssumption
      <4> QED BY <1>0, <3>2, <4>1, Oldest
    <3> QED BY <3>1, <3>2
  <2>2. n \in Slot /\ n.slot = next + 1 /\ n # None
    <3> HIDE DEF next
    <3>1. n \in Slot /\ n.slot = next + 1
      BY <2>1 DEF Slot
    <3> HIDE DEF n
    <3> QED BY <3>1, NoneIsNone
  <2>3. j.playing => next = j.next.slot
    OBVIOUS
  <2>4. rest \subseteq j.packets /\ \A p \in here : p \in j.packets /\ p.key = next
    OBVIOUS
  <2>6. Pop(j) = IF here # {} THEN [jitter |-> passed, out |-> "frame",
                                    frame |-> (CHOOSE p \in here : TRUE).frame]
                 ELSE IF j.packets = {} THEN
                   [jitter |-> [j EXCEPT !.playing = FALSE, !.next = None],
                    out |-> "underrun", frame |-> None]
                 ELSE [jitter |-> passed, out |-> "lost", frame |-> None]
    BY <1>2 DEF Pop
  <2> HIDE DEF next, here, rest, n
  <2>5. passed = [packets |-> rest, anchor |-> j.anchor, next |-> n, playing |-> TRUE]
    BY JitterUpdates
  <2>7. passed \in Jitter /\ passed.packets = rest /\ passed.anchor = j.anchor
        /\ passed.next = n /\ passed.playing = TRUE
    BY <1>0, <2>2, <2>4, <2>5 DEF Jitter
  <2> HIDE DEF passed
  <2>8. CASE here # {}
    <3>1. PICK p \in here : p = CHOOSE q \in here : TRUE
      BY <2>8
    <3>2. Pop(j) = [jitter |-> passed, out |-> "frame", frame |-> p.frame]
      BY <2>6, <2>8, <3>1
    <3>3. /\ Pop(j).jitter = passed /\ Pop(j).out = "frame" /\ Pop(j).frame = p.frame
      BY <3>2
    <3>4. p \in j.packets /\ p.key = next /\ passed.packets \subseteq j.packets
      BY <2>4, <2>7, <3>1
    <3>5. passed.next.slot = p.key + 1 /\ (j.playing => passed.next.slot = j.next.slot + 1)
      BY <2>2, <2>3, <2>7, <3>4
    <3> QED BY <2>2, <2>7, <3>3, <3>4, <3>5
  <2>9. CASE here = {} /\ j.packets = {}
    <3> DEFINE g == [j EXCEPT !.playing = FALSE, !.next = None]
    <3>1. g = [packets |-> j.packets, anchor |-> j.anchor, next |-> None, playing |-> FALSE]
      BY JitterUpdates
    <3>2. Pop(j) = [jitter |-> g, out |-> "underrun", frame |-> None]
      BY <2>6, <2>9
    <3> HIDE DEF g
    <3>3. /\ g \in Jitter /\ g.packets = j.packets /\ g.anchor = j.anchor /\ g.playing = FALSE
      BY <1>0, <3>1 DEF Jitter
    <3> QED BY <3>2, <3>3
  <2>10. CASE here = {} /\ j.packets # {}
    <3>1. Pop(j) = [jitter |-> passed, out |-> "lost", frame |-> None]
      BY <2>6, <2>10
    <3> QED BY <2>2, <2>3, <2>4, <2>7, <3>1
  <2> QED BY <2>8, <2>9, <2>10
<1> QED BY <1>1, <1>2

-----------------------------------------------------------------------------
(* The sender *)

Activities == {"BurstStart", "Speaking", "BurstEnd", "Silent"}

\* A muted frame ends a burst or is silent, and only an open gate sends more
\* than a start.
LEMMA ClassifyFacts ==
  ASSUME TypeOK, NEW want \in BOOLEAN
  PROVE  LET c == Classify(want) IN
         /\ c.gate \in Gate /\ c.activity \in Activities
         /\ c.gate.open => gate.open \/ c.activity = "BurstStart"
         /\ c.activity \in {"Speaking", "BurstEnd"} => gate.open
         /\ muted => c.activity \in {"BurstEnd", "Silent"}
         /\ muted /\ ~ transmitting => c.activity = "Silent"
<1>1. gate.open \in BOOLEAN /\ gate.left \in Nat /\ gate \in Gate /\ Hangover \in Nat
  BY VoiceAssumption DEF TypeOK, Gate
<1>2. [open |-> TRUE, left |-> Hangover] \in Gate /\ [open |-> FALSE, left |-> 0] \in Gate
  BY <1>1 DEF Gate
<1>3. CASE muted
  BY <1>1, <1>2, <1>3 DEF Classify, Close, Activities
<1>4. CASE ~ muted
  <2>0. Classify(want) = Update(want)
    BY <1>4 DEF Classify
  <2>1. CASE want
    <3>1. Update(want) = [gate |-> [open |-> TRUE, left |-> Hangover],
                          activity |-> IF gate.open THEN "Speaking" ELSE "BurstStart"]
      BY <2>1 DEF Update
    <3> QED BY <1>1, <1>2, <1>4, <2>0, <3>1 DEF Activities
  <2>2. CASE ~ want /\ gate.open /\ gate.left > 1
    <3> DEFINE g == [gate EXCEPT !.left = @ - 1]
    <3>1. Update(want) = [gate |-> g, activity |-> "Speaking"]
      <4>1. ~ (gate.left <= 1)
        BY <1>1, <2>2
      <4> QED BY <2>2, <4>1, Zenon DEF Update
    <3>2. g \in Gate
      BY <1>1, <2>2 DEF Gate
    <3> HIDE DEF g
    <3> QED BY <1>4, <2>0, <2>2, <3>1, <3>2 DEF Activities
  <2>3. CASE ~ want /\ gate.open /\ gate.left <= 1
    <3>1. Update(want) = [gate |-> [open |-> FALSE, left |-> 0], activity |-> "BurstEnd"]
      BY <1>1, <2>3 DEF Update
    <3> QED BY <1>2, <1>4, <2>0, <2>3, <3>1 DEF Activities
  <2>4. CASE ~ want /\ ~ gate.open
    <3>1. Update(want) = [gate |-> gate, activity |-> "Silent"]
      BY <2>4 DEF Update
    <3> QED BY <1>1, <1>4, <2>0, <2>4, <3>1 DEF Activities
  <2> QED BY <1>1, <2>1, <2>2, <2>3, <2>4
<1> QED BY <1>3, <1>4 DEF TypeOK

\* The burst a frame of this activity belongs to.
BurstOf(act) ==
  IF act = "BurstStart"
  THEN [number |-> burst.number + 1, sent |-> 0, before |-> burst.before + burst.sent] ELSE burst

\* The frame of the activity went out.
SentAs(act) ==
  /\ act # "Silent"
  /\ wire' = Append(wire, Frame(act, BurstOf(act)))
  /\ burst' = [BurstOf(act) EXCEPT !.sent = @ + 1]
  /\ seq' = (FirstSeq(act) + 1) % Modulus
  /\ afterMute' = IF muted THEN afterMute + 1 ELSE afterMute
  /\ faults' = faults

\* It did not.
HeldBack(act) ==
  /\ wire' = wire /\ burst' = BurstOf(act) /\ seq' = FirstSeq(act) /\ afterMute' = afterMute
  /\ faults' \in {faults, faults + 1}

LEMMA ProcessFacts ==
  ASSUME TypeOK, NEW want \in BOOLEAN, NEW encodes \in BOOLEAN, Process(want, encodes)
  PROVE  \E act \in Activities :
           /\ SentAs(act) \/ HeldBack(act)
           /\ gate' \in Gate /\ (gate'.open => gate.open \/ act = "BurstStart")
           /\ transmitting' = (act \in {"BurstStart", "Speaking"})
           /\ act \in {"Speaking", "BurstEnd"} => gate.open
           /\ muted => act \in {"BurstEnd", "Silent"}
           /\ muted /\ ~ transmitting => act = "Silent"
           /\ faults' <= MaxFaults
           /\ UNCHANGED <<muted, mutes, stream, last>>
<1> DEFINE c == Classify(want)
           act == c.activity
           b == BurstOf(act)
           goesOut == should_transmit(act) /\ encodes
           skipped == should_transmit(act) /\ ~ encodes
<1>1. /\ c.gate \in Gate /\ act \in Activities
      /\ c.gate.open => gate.open \/ act = "BurstStart"
      /\ act \in {"Speaking", "BurstEnd"} => gate.open
      /\ muted => act \in {"BurstEnd", "Silent"}
      /\ muted /\ ~ transmitting => act = "Silent"
  BY ClassifyFacts
<1>2. /\ gate' = c.gate
      /\ transmitting' = (act \in {"BurstStart", "Speaking"})
      /\ seq' = IF goesOut THEN (FirstSeq(act) + 1) % Modulus ELSE FirstSeq(act)
      /\ burst' = IF goesOut THEN [b EXCEPT !.sent = @ + 1] ELSE b
      /\ wire' = IF goesOut THEN Append(wire, Frame(act, b)) ELSE wire
      /\ afterMute' = IF goesOut /\ muted THEN afterMute + 1 ELSE afterMute
      /\ faults' = (IF skipped THEN faults + 1 ELSE faults) /\ faults' <= MaxFaults
      /\ UNCHANGED <<muted, mutes, stream, last>>
  BY DEF Process, BurstOf, receiver
<1>3. goesOut => act # "Silent" /\ ~ skipped
  BY DEF should_transmit
<1> HIDE DEF c, b
<1>4. CASE goesOut
  <2>1. SentAs(act)
    BY <1>2, <1>3, <1>4 DEF SentAs, b
  <2> QED BY <1>1, <1>2, <2>1
<1>5. CASE ~ goesOut
  <2>1. HeldBack(act)
    BY <1>2, <1>5 DEF HeldBack, b
  <2> QED BY <1>1, <1>2, <2>1
<1> QED BY <1>4, <1>5

\* The types of what a frame leaves.
LEMMA SenderTyped ==
  ASSUME TypeOK, NEW act \in Activities, SentAs(act) \/ HeldBack(act)
  PROVE  /\ BurstOf(act) \in Burst /\ burst' \in Burst /\ seq' \in Nat /\ afterMute' \in Nat
         /\ wire' \in Seq(Frames) /\ faults' \in Nat
         /\ Frame(act, BurstOf(act)) \in Frames
         /\ burst'.number = BurstOf(act).number
<1>1. BurstOf(act) \in Burst
  BY DEF TypeOK, BurstOf, Burst
<1>2. FirstSeq(act) \in Nat
  BY DEF TypeOK, FirstSeq
<1>3. Frame(act, BurstOf(act)) \in Frames
  BY <1>1, <1>2 DEF Frame, Frames, Burst
<1>4. CASE SentAs(act)
  <2>1. burst' \in Burst /\ burst'.number = BurstOf(act).number
    BY <1>1, <1>4 DEF SentAs, Burst
  <2>2. seq' \in Nat
    <3>1. (FirstSeq(act) + 1) % Modulus \in 0 .. (Modulus - 1)
      BY <1>2, Wraps, Quotient
    <3> QED BY <1>4, <3>1, Wraps DEF SentAs
  <2>3. wire' \in Seq(Frames)
    BY <1>3, <1>4 DEF SentAs, TypeOK
  <2>4. afterMute' \in Nat /\ faults' \in Nat
    BY <1>4 DEF SentAs, TypeOK
  <2> QED BY <1>1, <1>3, <2>1, <2>2, <2>3, <2>4
<1>5. CASE HeldBack(act)
  <2>1. afterMute' \in Nat /\ faults' \in Nat /\ wire' \in Seq(Frames)
    BY <1>5 DEF HeldBack, TypeOK
  <2> QED BY <1>1, <1>2, <1>3, <1>5, <2>1 DEF HeldBack
<1> QED BY <1>4, <1>5

-----------------------------------------------------------------------------
(* The network and the mixer *)

\* Taking the i-th frame out closes the gap and leaves the others in order.
LEMMA TakenOut ==
  ASSUME NEW S, NEW w \in Seq(S), NEW i \in 1 .. Len(w)
  PROVE  /\ RemoveAt(w, i) \in Seq(S) /\ Len(RemoveAt(w, i)) = Len(w) - 1
         /\ \A k \in 1 .. Len(RemoveAt(w, i)) :
              RemoveAt(w, i)[k] = w[IF k < i THEN k ELSE k + 1]
<1> DEFINE a == SubSeq(w, 1, i - 1)
           b == SubSeq(w, i + 1, Len(w))
<1>1. RemoveAt(w, i) = a \o b
  BY DEF RemoveAt
<1>2. a \in Seq(S) /\ Len(a) = i - 1 /\ \A k \in 1 .. (i - 1) : a[k] = w[k]
  OBVIOUS
<1>3. b \in Seq(S) /\ Len(b) = Len(w) - i /\ \A k \in 1 .. (Len(w) - i) : b[k] = w[i + k]
  OBVIOUS
<1> HIDE DEF a, b
<1>4. a \o b \in Seq(S) /\ Len(a \o b) = Len(w) - 1
  <2>1. a \o b \in Seq(S) /\ Len(a \o b) = Len(a) + Len(b)
    BY <1>2, <1>3, ConcatProperties
  <2> QED BY <1>2, <1>3, <2>1, LenProperties
<1>5. ASSUME NEW k \in 1 .. (Len(w) - 1)
      PROVE  (a \o b)[k] = w[IF k < i THEN k ELSE k + 1]
  <2>1. CASE k < i
    <3>1. (a \o b)[k] = a[k]
      BY <1>2, <1>3, <2>1
    <3> QED BY <1>2, <2>1, <3>1
  <2>2. CASE ~ (k < i)
    <3>1. (a \o b)[k] = b[k - (i - 1)]
      BY <1>2, <1>3, <2>2
    <3>2. b[k - (i - 1)] = w[k + 1]
      <4>1. k - (i - 1) \in 1 .. (Len(w) - i) /\ i + (k - (i - 1)) = k + 1
        BY <2>2
      <4> QED BY <1>3, <4>1
    <3> QED BY <2>2, <3>1, <3>2
  <2> QED BY <2>1, <2>2
<1> QED BY <1>1, <1>4, <1>5

LEMMA StreamUpdates ==
  ASSUME NEW s \in Stream, NEW g, NEW n, NEW b
  PROVE  /\ [s EXCEPT !.jitter = g, !.idle = n, !.base = b] = [jitter |-> g, idle |-> n, base |-> b]
         /\ [s EXCEPT !.jitter = g, !.idle = n] = [jitter |-> g, idle |-> n, base |-> s.base]
<1>0. \A x, y, z : \A w \in [jitter : {x}, idle : {y}, base : {z}] :
        w = [jitter |-> x, idle |-> y, base |-> z]
  OBVIOUS
<1>1. [s EXCEPT !.jitter = g, !.idle = n, !.base = b] \in [jitter : {g}, idle : {n}, base : {b}]
  BY DEF Stream
<1>2. [s EXCEPT !.jitter = g, !.idle = n] \in [jitter : {g}, idle : {n}, base : {s.base}]
  BY DEF Stream
<1>3. [s EXCEPT !.jitter = g, !.idle = n, !.base = b] = [jitter |-> g, idle |-> n, base |-> b]
  BY <1>0, <1>1, Zenon
<1>4. [s EXCEPT !.jitter = g, !.idle = n] = [jitter |-> g, idle |-> n, base |-> s.base]
  BY <1>0, <1>2, Zenon
<1> QED BY <1>3, <1>4

\* An empty buffer.
LEMMA BufferFacts ==
  /\ Buffer \in Jitter /\ IsFiniteSet(Buffer.packets) /\ Buffer.packets = {}
  /\ Buffer.anchor = None /\ Buffer.next = None /\ Buffer.playing = FALSE
<1>1. Buffer.packets = {} /\ Buffer.anchor = None /\ Buffer.next = None /\ Buffer.playing = FALSE
  BY DEF Buffer
<1>2. Buffer \in Jitter
  BY DEF Buffer, Jitter
<1> QED BY <1>1, <1>2, FS_EmptySet

\* The mixer pushes into the speaker's buffer, and a start into a fresh one.
LEMMA AcceptFacts ==
  ASSUME TypeOK, NEW f \in Frames, Accept(f)
  PROVE  \E j \in Jitter :
           /\ IsFiniteSet(j.packets) /\ (j.playing => j.next # None)
           /\ f.start \/ stream = None => j = Buffer
           /\ ~ f.start /\ stream # None => j = stream.jitter
           /\ stream' \in Stream /\ stream'.jitter = Push(j, f)
           /\ stream'.base = IF f.start THEN f.burst
                             ELSE IF stream # None /\ f.burst = stream.base THEN f.burst ELSE 0
<1> DEFINE s == IF stream = None THEN [jitter |-> Buffer, idle |-> 0, base |-> 0] ELSE stream
           j == IF f.start THEN Buffer ELSE s.jitter
           b == IF f.start THEN f.burst ELSE IF f.burst = s.base THEN s.base ELSE 0
<1>1. s \in Stream
  BY BufferFacts DEF TypeOK, Stream
<1>2. j \in Jitter /\ IsFiniteSet(j.packets) /\ (j.playing => j.next # None)
  <2>1. CASE f.start
    BY <2>1, BufferFacts
  <2>2. CASE ~ f.start /\ stream = None
    <3>1. j = Buffer
      BY <2>2
    <3> QED BY <3>1, BufferFacts
  <2>3. CASE ~ f.start /\ stream # None
    <3>1. j = stream.jitter /\ stream \in Stream
      BY <2>3 DEF TypeOK
    <3> QED BY <2>3, <3>1 DEF TypeOK, Stream
  <2> QED BY <2>1, <2>2, <2>3
<1>3. /\ f.start \/ stream = None => j = Buffer
      /\ ~ f.start /\ stream # None => j = stream.jitter
  OBVIOUS
<1>4. stream' = [s EXCEPT !.jitter = Push(j, f), !.idle = 0, !.base = b]
  BY DEF Accept
<1>5. b \in Nat /\ b = IF f.start THEN f.burst
                       ELSE IF stream # None /\ f.burst = stream.base THEN f.burst ELSE 0
  BY DEF Frames
<1> HIDE DEF s, j, b
<1>6. stream' = [jitter |-> Push(j, f), idle |-> 0, base |-> b]
  BY <1>1, <1>4, StreamUpdates
<1>7. Push(j, f) \in Jitter
  BY <1>2, PushFacts
<1>8. stream' \in Stream /\ stream'.jitter = Push(j, f) /\ stream'.base = b
  BY <1>5, <1>6, <1>7 DEF Stream
<1> QED BY <1>2, <1>3, <1>5, <1>8

\* What the output callback makes of the stream.
LEMMA RenderFacts ==
  ASSUME TypeOK, Render
  PROVE  LET p == Pop(stream.jitter) IN
         /\ stream \in Stream /\ stream # None /\ UNCHANGED <<sender, wire, faults>>
         /\ \/ stream' = None /\ last' = None
            \/ /\ stream' \in Stream /\ stream'.jitter = p.jitter /\ stream'.base = stream.base
               /\ p.out = "frame" => last' = p.frame
               /\ p.out = "underrun" => last' = None
               /\ p.out \notin {"frame", "underrun"} => last' = last
<1> DEFINE p == Pop(stream.jitter)
           idle(decodes) ==
             IF decodes /\ p.out \in {"frame", "lost"} THEN 0 ELSE stream.idle + 1
<1>1. stream \in Stream /\ stream # None /\ UNCHANGED <<sender, wire, faults>>
  BY DEF Render, TypeOK
<1>2. p.jitter \in Jitter
  <2>1. stream.jitter \in Jitter /\ IsFiniteSet(stream.jitter.packets)
        /\ (stream.jitter.playing => stream.jitter.next # None)
    BY <1>1 DEF TypeOK, Stream
  <2> QED BY <2>1, PopFacts
<1>3. PICK decodes \in BOOLEAN :
        /\ stream' = IF idle(decodes) > IdleLimit THEN None
                     ELSE [stream EXCEPT !.jitter = p.jitter, !.idle = idle(decodes)]
        /\ last' = CASE p.out = "underrun" \/ idle(decodes) > IdleLimit -> None
                     [] p.out = "frame" /\ idle(decodes) <= IdleLimit -> p.frame
                     [] OTHER -> last
  BY DEF Render, Rendered
<1> DEFINE i == idle(decodes)
<1>4. i \in Nat /\ IdleLimit \in Nat
  BY <1>1, VoiceAssumption DEF Stream
<1>5. /\ stream' = IF i > IdleLimit THEN None ELSE [stream EXCEPT !.jitter = p.jitter, !.idle = i]
      /\ last' = CASE p.out = "underrun" \/ i > IdleLimit -> None
                   [] p.out = "frame" /\ i <= IdleLimit -> p.frame
                   [] OTHER -> last
  BY <1>3
<1> HIDE DEF p, i
<1>7. CASE i > IdleLimit
  <2>1. stream' = None /\ last' = None
    BY <1>4, <1>5, <1>7
  <2> QED BY <1>1, <2>1 DEF p
<1>8. CASE ~ (i > IdleLimit)
  <2>1. stream' = [jitter |-> p.jitter, idle |-> i, base |-> stream.base]
    <3>1. stream' = [stream EXCEPT !.jitter = p.jitter, !.idle = i]
      BY <1>5, <1>8
    <3> QED BY <1>1, <3>1, StreamUpdates
  <2>2. stream' \in Stream /\ stream'.jitter = p.jitter /\ stream'.base = stream.base
    BY <1>1, <1>2, <1>4, <2>1 DEF Stream
  <2>3. /\ p.out = "frame" => last' = p.frame
        /\ p.out = "underrun" => last' = None
        /\ p.out \notin {"frame", "underrun"} => last' = last
    BY <1>4, <1>5, <1>8
  <2> QED BY <1>1, <2>2, <2>3 DEF p
<1> QED BY <1>7, <1>8

-----------------------------------------------------------------------------
(* Type correctness and the mute *)

LEMMA TypeInit == Init => TypeOK
<1> SUFFICES ASSUME Init PROVE TypeOK
  OBVIOUS
<1>1. gate \in Gate /\ burst \in Burst
  BY DEF Init, Gate, Burst
<1>2. wire \in Seq(Frames) /\ faults <= MaxFaults
  BY Wraps DEF Init
<1> QED BY <1>1, <1>2 DEF Init, TypeOK

LEMMA TypeNext == TypeOK /\ [Next]_vars => TypeOK'
<1> SUFFICES ASSUME TypeOK, [Next]_vars PROVE TypeOK'
  OBVIOUS
<1>1. CASE SetMuted
  BY <1>1 DEF SetMuted, TypeOK, receiver
<1>2. ASSUME NEW want \in BOOLEAN, NEW encodes \in BOOLEAN, Process(want, encodes)
      PROVE  TypeOK'
  <2>1. PICK act \in Activities :
          /\ SentAs(act) \/ HeldBack(act)
          /\ gate' \in Gate
          /\ transmitting' = (act \in {"BurstStart", "Speaking"})
          /\ faults' <= MaxFaults
          /\ UNCHANGED <<muted, mutes, stream, last>>
    BY <1>2, ProcessFacts
  <2>2. /\ burst' \in Burst /\ seq' \in Nat /\ afterMute' \in Nat
        /\ wire' \in Seq(Frames) /\ faults' \in Nat
    BY <2>1, SenderTyped
  <2>3. transmitting' \in BOOLEAN
    BY <2>1
  <2> QED BY <2>1, <2>2, <2>3 DEF TypeOK
<1>3. ASSUME NEW i \in DOMAIN wire, Deliver(i) PROVE TypeOK'
  <2>1. i \in 1 .. Len(wire) /\ wire[i] \in Frames
    BY DEF TypeOK
  <2>2. wire' \in Seq(Frames)
    BY <1>3, <2>1, TakenOut DEF Deliver, TypeOK
  <2>3. faults' \in Nat /\ faults' <= MaxFaults
    BY <1>3, <2>1 DEF Deliver, TypeOK
  <2>4. Accept(wire[i]) /\ UNCHANGED sender /\ last' = IF wire[i].start THEN None ELSE last
    BY <1>3 DEF Deliver
  <2>5. PICK j \in Jitter :
          /\ IsFiniteSet(j.packets) /\ (j.playing => j.next # None)
          /\ stream' \in Stream /\ stream'.jitter = Push(j, wire[i])
    BY <2>1, <2>4, AcceptFacts
  <2>6. /\ IsFiniteSet(stream'.jitter.packets)
        /\ stream'.jitter.playing => stream'.jitter.next # None
    <3> DEFINE f == wire[i]
    <3>1. f \in Frames /\ stream'.jitter = Push(j, f)
      BY <2>1, <2>5
    <3> HIDE DEF f
    <3>2. /\ IsFiniteSet(Push(j, f).packets) /\ Push(j, f).playing = j.playing
          /\ j.next # None => Push(j, f).next # None
      BY <2>5, <3>1, PushFacts
    <3> QED BY <2>5, <3>1, <3>2
  <2>7. last' \in Frames \cup {None}
    BY <2>4 DEF TypeOK
  <2> QED BY <2>2, <2>3, <2>4, <2>5, <2>6, <2>7 DEF TypeOK, sender
<1>4. CASE Drop
  <2>1. wire' \in Seq(Frames)
    BY <1>4, HeadTailProperties DEF Drop, TypeOK
  <2>2. faults' \in Nat /\ faults' <= MaxFaults
    BY <1>4, Wraps DEF Drop, TypeOK
  <2> QED BY <1>4, <2>1, <2>2 DEF Drop, TypeOK, sender, receiver
<1>5. CASE Render
  <2> DEFINE p == Pop(stream.jitter)
  <2>1. /\ stream \in Stream /\ stream # None /\ UNCHANGED <<sender, wire, faults>>
        /\ \/ stream' = None /\ last' = None
           \/ /\ stream' \in Stream /\ stream'.jitter = p.jitter
              /\ p.out = "frame" => last' = p.frame
              /\ p.out = "underrun" => last' = None
              /\ p.out \notin {"frame", "underrun"} => last' = last
    BY <1>5, RenderFacts
  <2>2. /\ stream.jitter \in Jitter /\ IsFiniteSet(stream.jitter.packets)
        /\ stream.jitter.playing => stream.jitter.next # None
    BY <2>1 DEF TypeOK, Stream
  <2>3. /\ p.jitter.packets \subseteq stream.jitter.packets
        /\ p.jitter.playing => p.jitter.next # None
        /\ p.out = "frame" => \E q \in stream.jitter.packets : q.frame = p.frame
    BY <2>2, PopFacts
  <2>4. IsFiniteSet(p.jitter.packets)
    BY <2>2, <2>3, FS_Subset
  <2>5. p.out = "frame" => p.frame \in Frames
    BY <2>2, <2>3 DEF Jitter, Packet
  <2> HIDE DEF p
  <2>6. last' \in Frames \cup {None}
    BY <2>1, <2>5 DEF TypeOK
  <2>7. /\ stream' \in Stream \cup {None}
        /\ stream' # None => /\ IsFiniteSet(stream'.jitter.packets)
                             /\ stream'.jitter.playing => stream'.jitter.next # None
    BY <2>1, <2>3, <2>4
  <2> QED BY <2>1, <2>6, <2>7 DEF TypeOK, sender
<1>6. CASE UNCHANGED vars
  BY <1>6 DEF vars, sender, receiver, TypeOK
<1> QED BY <1>1, <1>2, <1>3, <1>4, <1>5, <1>6 DEF Next

(* Every variable keeps its type. *)
THEOREM VoiceTyped == Spec => []TypeOK
BY TypeInit, TypeNext, PTL DEF Spec

LEMMA MuteNext == TypeOK /\ MuteInv /\ [Next]_vars => MuteInv'
<1> SUFFICES ASSUME TypeOK, MuteInv, [Next]_vars PROVE MuteInv'
  OBVIOUS
<1>1. CASE SetMuted
  BY <1>1 DEF SetMuted, MuteInv
<1>2. ASSUME NEW want \in BOOLEAN, NEW encodes \in BOOLEAN, Process(want, encodes)
      PROVE  MuteInv'
  <2>1. PICK act \in Activities :
          /\ SentAs(act) \/ HeldBack(act)
          /\ transmitting' = (act \in {"BurstStart", "Speaking"})
          /\ muted => act \in {"BurstEnd", "Silent"}
          /\ muted /\ ~ transmitting => act = "Silent"
          /\ UNCHANGED muted
    BY <1>2, ProcessFacts
  <2>2. CASE ~ muted
    BY <2>1, <2>2 DEF MuteInv, SentAs, HeldBack
  <2>3. CASE muted
    <3>1. ~ transmitting' /\ muted' = muted
      BY <2>1, <2>3, "BurstEnd" # "BurstStart", "BurstEnd" # "Speaking"
    <3>2. CASE SentAs(act)
      <4>1. transmitting
        BY <2>1, <2>3, <3>2 DEF SentAs
      <4> QED BY <2>3, <3>1, <3>2, <4>1 DEF MuteInv, SentAs
    <3>3. CASE HeldBack(act)
      BY <2>3, <3>1, <3>3 DEF MuteInv, HeldBack
    <3> QED BY <2>1, <3>2, <3>3
  <2> QED BY <2>2, <2>3
<1>3. ASSUME NEW i \in DOMAIN wire, Deliver(i) PROVE MuteInv'
  BY <1>3 DEF Deliver, sender, MuteInv
<1>4. CASE Drop
  BY <1>4 DEF Drop, sender, MuteInv
<1>5. CASE Render
  BY <1>5 DEF Render, sender, MuteInv
<1>6. CASE UNCHANGED vars
  BY <1>6 DEF vars, sender, MuteInv
<1> QED BY <1>1, <1>2, <1>3, <1>4, <1>5, <1>6 DEF Next

(* After muting at most one frame goes out, the one that closes the burst, *)
(* whatever the gate, the key and the level do (Capture::process).         *)
THEOREM MuteIsSilence == Spec => []MutedIsSilent
<1>1. Init => MuteInv
  BY DEF Init, MuteInv
<1>2. MuteInv => MutedIsSilent
  BY DEF MuteInv, MutedIsSilent
<1> QED BY <1>1, <1>2, MuteNext, VoiceTyped, PTL DEF Spec

-----------------------------------------------------------------------------
(* The line: the numbers of the frames under way *)

\* The frames under way and the burst, as the arithmetic below needs them.
LEMMA WireTyped ==
  ASSUME TypeOK
  PROVE  /\ Len(wire) \in Nat /\ faults \in Nat
         /\ burst.number \in Nat /\ burst.sent \in Nat
         /\ \A i \in 1 .. Len(wire) : /\ wire[i] \in Frames /\ wire[i].burst \in Nat
                                      /\ wire[i].at \in Nat /\ wire[i].seq \in Nat
                                      /\ wire[i].start \in BOOLEAN
<1>1. Len(wire) \in Nat /\ \A i \in 1 .. Len(wire) : wire[i] \in Frames
  BY DEF TypeOK
<1>2. faults \in Nat /\ burst.number \in Nat /\ burst.sent \in Nat
  BY DEF TypeOK, Burst
<1> QED BY <1>1, <1>2 DEF Frames

\* A frame that goes out is the next of its burst, and the first of a burst
\* opens one that has none under way.
LEMMA NextFrame ==
  ASSUME TypeOK, LineInv, NEW act \in Activities, SentAs(act),
         act \in {"Speaking", "BurstEnd"} => gate.open
  PROVE  LET f == Frame(act, BurstOf(act)) IN
         /\ f \in Frames /\ Len(wire') = Len(wire) + 1
         /\ wire'[Len(wire) + 1] = f
         /\ \A i \in 1 .. Len(wire) : wire'[i] = wire[i]
         /\ faults' = faults
         /\ f.burst = burst'.number /\ f.at + 1 = burst'.sent
         /\ f.seq = f.at % Modulus /\ seq' = (f.at + 1) % Modulus
         /\ f.start => f.at = 0
         /\ 1 <= f.burst /\ burst.number <= burst'.number
         /\ \/ burst'.number = burst.number + 1
            \/ burst'.number = burst.number /\ f.at = burst.sent
<1> DEFINE b == BurstOf(act)
           f == Frame(act, b)
<1>1. /\ b \in Burst /\ burst' \in Burst /\ f \in Frames /\ wire' \in Seq(Frames)
      /\ burst'.number = b.number
  BY SenderTyped
<1>2. /\ wire' = Append(wire, f) /\ burst' = [b EXCEPT !.sent = @ + 1]
      /\ seq' = (FirstSeq(act) + 1) % Modulus /\ faults' = faults /\ act # "Silent"
  BY DEF SentAs
<1>3. f.burst = b.number /\ f.at = b.sent /\ f.seq = FirstSeq(act) /\ f.start = (act = "BurstStart")
  BY DEF Frame
<1>4. burst'.sent = b.sent + 1
  BY <1>1, <1>2 DEF Burst
<1>5. FirstSeq(act) = b.sent % Modulus
  <2>1. CASE act = "BurstStart"
    <3>1. FirstSeq(act) = 0 /\ b.sent = 0
      BY <2>1 DEF FirstSeq, BurstOf
    <3>2. 0 % Modulus = 0
      BY Wraps, 0 = 0 * Modulus + 0, Remainder
    <3> QED BY <3>1, <3>2
  <2>2. CASE act # "BurstStart"
    BY <2>2 DEF FirstSeq, BurstOf, LineInv
  <2> QED BY <2>1, <2>2
<1>6. b.sent \in Nat /\ b.number \in Nat /\ burst.number \in Nat /\ burst.sent \in Nat
  BY <1>1 DEF Burst, TypeOK
<1>7. seq' = (b.sent + 1) % Modulus
  BY <1>2, <1>5, <1>6, NextSeq
<1>8. /\ act = "BurstStart" => b.number = burst.number + 1 /\ b.sent = 0
      /\ act # "BurstStart" => b = burst /\ burst.number >= 1
  <2>1. act # "BurstStart" => act \in {"Speaking", "BurstEnd"}
    BY <1>2 DEF Activities
  <2> QED BY <2>1 DEF BurstOf, LineInv
<1>9. /\ Len(wire') = Len(wire) + 1 /\ wire'[Len(wire) + 1] = f
      /\ \A i \in 1 .. Len(wire) : wire'[i] = wire[i]
  <2>1. wire \in Seq(Frames)
    BY DEF TypeOK
  <2> HIDE DEF f
  <2> QED BY <1>1, <1>2, <2>1, AppendProperties
<1>10. f.start => f.at = 0
  BY <1>3, <1>8
<1>11. 1 <= f.burst /\ burst.number <= burst'.number
  BY <1>1, <1>3, <1>6, <1>8
<1>12. \/ burst'.number = burst.number + 1
       \/ burst'.number = burst.number /\ f.at = burst.sent
  BY <1>1, <1>3, <1>8
<1> HIDE DEF f, b
<1> QED BY <1>1, <1>2, <1>3, <1>4, <1>5, <1>7, <1>9, <1>10, <1>11, <1>12 DEF f, b

LEMMA LineSent ==
  ASSUME TypeOK, TypeOK', LineInv, NEW act \in Activities, SentAs(act),
         act \in {"Speaking", "BurstEnd"} => gate.open,
         gate'.open => gate.open \/ act = "BurstStart"
  PROVE  LineInv'
<1> DEFINE f == Frame(act, BurstOf(act))
<1>0. PICK n \in Nat : n = Len(wire)
  BY WireTyped
<1>1. /\ f \in Frames /\ Len(wire') = n + 1
      /\ wire'[n + 1] = f
      /\ \A i \in 1 .. n : wire'[i] = wire[i]
      /\ faults' = faults
      /\ f.burst = burst'.number /\ f.at + 1 = burst'.sent
      /\ f.seq = f.at % Modulus /\ seq' = (f.at + 1) % Modulus
      /\ f.start => f.at = 0
      /\ 1 <= f.burst /\ burst.number <= burst'.number
      /\ \/ burst'.number = burst.number + 1
         \/ burst'.number = burst.number /\ f.at = burst.sent
  BY <1>0, NextFrame
<1>2. /\ n \in Nat /\ faults \in Nat /\ burst.number \in Nat /\ burst.sent \in Nat
      /\ \A i \in 1 .. n : wire[i].burst \in Nat /\ wire[i].at \in Nat
  BY <1>0, WireTyped
<1>3. burst'.number \in Nat /\ burst'.sent \in Nat /\ f.at \in Nat /\ f.burst \in Nat
  BY <1>1 DEF TypeOK, Burst, Frames
<1>4. \A i \in 1 .. n : FrameOK(wire[i])
  BY <1>0 DEF LineInv
<1> HIDE DEF f
<1>5. \A i \in 1 .. (n + 1) : i \in 1 .. n \/ i = n + 1
  BY <1>2
<1>6. \A i \in 1 .. Len(wire') : FrameOK(wire[i])'
  <2>1. ASSUME NEW i \in 1 .. n PROVE FrameOK(wire[i])'
    <3>1. /\ wire[i].seq = wire[i].at % Modulus
          /\ wire[i].start => wire[i].at = 0
          /\ 1 <= wire[i].burst /\ wire[i].burst <= burst.number
      BY <1>4 DEF FrameOK
    <3>2. wire'[i] = wire[i] /\ wire[i].burst <= burst'.number
      BY <1>1, <1>2, <1>3, <3>1
    <3> QED BY <3>1, <3>2 DEF FrameOK
  <2>2. FrameOK(wire[n + 1])'
    BY <1>1, <1>3 DEF FrameOK
  <2> QED BY <1>1, <1>5, <2>1, <2>2
<1>7. \A i \in 1 .. n : wire[i].burst = burst'.number =>
        /\ burst'.number = burst.number /\ f.at = burst.sent
        /\ wire[i].at < burst.sent
        /\ burst.sent - wire[i].at <= (n + 1 - i) + faults
  <2> SUFFICES ASSUME NEW i \in 1 .. n, wire[i].burst = burst'.number
               PROVE  /\ burst'.number = burst.number /\ f.at = burst.sent
                      /\ wire[i].at < burst.sent
                      /\ burst.sent - wire[i].at <= (n + 1 - i) + faults
    OBVIOUS
  <2>1. burst'.number = burst.number /\ f.at = burst.sent
    BY <1>1, <1>2, <1>3, <1>4 DEF FrameOK
  <2> QED BY <1>0, <2>1 DEF LineInv
<1>8. ASSUME NEW i \in 1 .. Len(wire'), NEW k \in 1 .. Len(wire'),
             i < k, wire'[i].burst = wire'[k].burst
      PROVE  /\ wire'[i].at < wire'[k].at
             /\ wire'[k].at - wire'[i].at <= (k - i) + faults'
  <2>1. i \in 1 .. n /\ wire'[i] = wire[i]
    BY <1>1, <1>2, <1>8
  <2>2. CASE k \in 1 .. n
    BY <1>0, <1>1, <1>8, <2>1, <2>2 DEF LineInv
  <2>3. CASE k = n + 1
    <3>1. wire[i].burst = burst'.number
      BY <1>1, <1>8, <2>1, <2>3
    <3>2. wire[i].at < f.at /\ f.at - wire[i].at <= (n + 1 - i) + faults
      BY <1>7, <2>1, <3>1
    <3> QED BY <1>1, <1>2, <1>3, <2>1, <2>3, <3>2
  <2> QED BY <1>1, <1>5, <2>2, <2>3
<1>9. ASSUME NEW i \in 1 .. Len(wire'), wire'[i].burst = burst'.number
      PROVE  /\ wire'[i].at < burst'.sent
             /\ burst'.sent - wire'[i].at <= (Len(wire') + 1 - i) + faults'
  <2>1. CASE i \in 1 .. n
    <3>1. wire[i].at < f.at /\ f.at - wire[i].at <= (n + 1 - i) + faults /\ wire[i].at \in Nat
      BY <1>1, <1>2, <1>7, <1>9, <2>1
    <3> QED BY <1>1, <1>2, <1>3, <2>1, <3>1
  <2>2. CASE i = n + 1
    BY <1>1, <1>2, <1>3, <2>2
  <2> QED BY <1>1, <1>5, <2>1, <2>2
<1>10. seq' = burst'.sent % Modulus /\ (gate'.open => burst'.number >= 1)
  BY <1>1, <1>3
<1> QED BY <1>6, <1>8, <1>9, <1>10 DEF LineInv

\* A frame that is skipped, or one that is silent, sends nothing.
LEMMA LineHeld ==
  ASSUME TypeOK, TypeOK', LineInv, NEW act \in Activities, HeldBack(act),
         gate'.open => gate.open \/ act = "BurstStart"
  PROVE  LineInv'
<1>1. /\ wire' = wire /\ burst' = BurstOf(act) /\ seq' = FirstSeq(act)
      /\ faults' \in {faults, faults + 1}
  BY DEF HeldBack
<1>2. /\ Len(wire) \in Nat /\ faults \in Nat /\ burst.number \in Nat /\ burst.sent \in Nat
      /\ \A i \in 1 .. Len(wire) : wire[i].burst \in Nat /\ wire[i].at \in Nat
  BY WireTyped
<1>0. faults' \in Nat /\ faults <= faults'
  BY <1>1, <1>2
<1>3. ASSUME NEW i \in 1 .. Len(wire), NEW k \in 1 .. Len(wire), i < k, wire[i].burst = wire[k].burst
      PROVE  /\ wire[i].at < wire[k].at
             /\ wire[k].at - wire[i].at <= (k - i) + faults'
  <2>1. wire[i].at < wire[k].at /\ wire[k].at - wire[i].at <= (k - i) + faults
    BY <1>3 DEF LineInv
  <2>2. wire[i].at \in Nat /\ wire[k].at \in Nat
    BY <1>2
  <2>3. faults \in Nat /\ faults' \in Nat /\ faults <= faults' /\ i \in Int /\ k \in Int
    BY <1>0, <1>2
  <2>4. PICK x, y, e, f : x = wire[i].at /\ y = wire[k].at /\ e = faults /\ f = faults'
    OBVIOUS
  <2>5. /\ x \in Nat /\ y \in Nat /\ e \in Nat /\ f \in Nat /\ e <= f
        /\ x < y /\ y - x <= (k - i) + e
    BY <2>1, <2>2, <2>3, <2>4
  <2>6. y - x <= (k - i) + f
    BY <2>3, <2>5
  <2> QED BY <2>4, <2>5, <2>6
<1>4. CASE act = "BurstStart"
  <2>1. seq' = 0 /\ burst'.number = burst.number + 1 /\ burst'.sent = 0
    BY <1>1, <1>4 DEF FirstSeq, BurstOf
  <2>2. 0 % Modulus = 0
    BY Wraps, 0 = 0 * Modulus + 0, Remainder
  <2>3. \A i \in 1 .. Len(wire) : FrameOK(wire[i])
    BY DEF LineInv
  <2>4. ASSUME NEW i \in 1 .. Len(wire) PROVE FrameOK(wire[i])' /\ wire[i].burst # burst'.number
    BY <1>1, <1>2, <2>1, <2>3 DEF FrameOK
  <2> QED BY <1>1, <1>2, <1>3, <2>1, <2>2, <2>4 DEF LineInv
<1>5. CASE act # "BurstStart"
  <2>1. seq' = seq /\ burst' = burst
    BY <1>1, <1>5 DEF FirstSeq, BurstOf
  <2>2. \A i \in 1 .. Len(wire) : FrameOK(wire[i])'
    BY <1>1, <2>1 DEF LineInv, FrameOK
  <2>3. ASSUME NEW i \in 1 .. Len(wire), wire[i].burst = burst.number
        PROVE  /\ wire[i].at < burst.sent
               /\ burst.sent - wire[i].at <= (Len(wire) + 1 - i) + faults'
    <3>1. wire[i].at < burst.sent /\ burst.sent - wire[i].at <= (Len(wire) + 1 - i) + faults
      BY <2>3 DEF LineInv
    <3>2. wire[i].at \in Nat
      BY <1>2
    <3> QED BY <1>0, <1>2, <3>1, <3>2
  <2>4. seq = burst.sent % Modulus /\ (gate'.open => burst.number >= 1)
    BY <1>5 DEF LineInv
  <2> QED BY <1>1, <1>3, <2>1, <2>2, <2>3, <2>4 DEF LineInv
<1> QED BY <1>4, <1>5

\* Closing the gap at i brings two frames together only if i overtook the first.
LEMMA Shift ==
  ASSUME NEW n \in Nat, NEW i \in 1 .. n, NEW k \in 1 .. (n - 1), NEW l \in 1 .. (n - 1), k < l,
         NEW x, x = IF k < i THEN k ELSE k + 1, NEW y, y = IF l < i THEN l ELSE l + 1
  PROVE  y - x <= (l - k) + (i - 1)
OBVIOUS

LEMMA ShiftEnd ==
  ASSUME NEW n \in Nat, NEW i \in 1 .. n, NEW d \in Nat, NEW e \in Nat, e >= d + (i - 1),
         NEW k \in 1 .. (n - 1), NEW x, x = IF k < i THEN k ELSE k + 1,
         NEW p \in Nat, NEW q \in Nat, q - p <= (n + 1 - x) + d
  PROVE  q - p <= ((n - 1) + 1 - k) + e
OBVIOUS

\* Frames leave the line at i for the price of the ones they overtake; a lost
\* frame leaves it at 1 for its own.
LEMMA LineShortened ==
  ASSUME TypeOK, LineInv, NEW i \in 1 .. Len(wire), wire' = RemoveAt(wire, i),
         faults' \in Nat, faults' >= faults + (i - 1), UNCHANGED sender
  PROVE  LineInv'
<1>0. PICK n \in Nat : n = Len(wire)
  BY WireTyped
<1> DEFINE m(k) == IF k < i THEN k ELSE k + 1
<1>1. /\ n \in Nat /\ faults \in Nat /\ burst.number \in Nat /\ burst.sent \in Nat
      /\ \A k \in 1 .. n : wire[k].burst \in Nat /\ wire[k].at \in Nat
  BY <1>0, WireTyped
<1>a. faults \in Nat /\ burst.sent \in Nat /\ i \in 1 .. n
  BY <1>0, <1>1
<1>b. PICK d \in Nat, e \in Nat : d = faults /\ e = faults' /\ e >= d + (i - 1)
  BY <1>a
<1>2. /\ Len(wire') = n - 1
      /\ \A k \in 1 .. (n - 1) : m(k) \in 1 .. n /\ wire'[k] = wire[m(k)]
  <2>1. wire \in Seq(Frames)
    BY DEF TypeOK
  <2>2. /\ Len(wire') = n - 1
        /\ \A k \in 1 .. (n - 1) : wire'[k] = wire[m(k)]
    BY <1>0, <2>1, TakenOut
  <2>3. \A k \in 1 .. (n - 1) : m(k) \in 1 .. n
    BY <1>0
  <2> QED BY <2>2, <2>3
<1>3. gate' = gate /\ burst' = burst /\ seq' = seq
  BY DEF sender
<1>4. \A k \in 1 .. n : FrameOK(wire[k])
  BY <1>0 DEF LineInv
<1>5. ASSUME NEW k \in 1 .. (n - 1) PROVE FrameOK(wire[k])'
  BY <1>2, <1>3, <1>4 DEF FrameOK
<1>6. ASSUME NEW k \in 1 .. (n - 1), NEW l \in 1 .. (n - 1), k < l, wire'[k].burst = wire'[l].burst
      PROVE  /\ wire'[k].at < wire'[l].at
             /\ wire'[l].at - wire'[k].at <= (l - k) + faults'
  <2>1. PICK x \in 1 .. n, y \in 1 .. n :
          /\ x = m(k) /\ y = m(l) /\ wire'[k] = wire[x] /\ wire'[l] = wire[y]
    BY <1>2
  <2>2. k < l /\ x < y
    BY <1>6, <2>1
  <2>3. PICK p \in Nat, q \in Nat : p = wire[x].at /\ q = wire[y].at
    BY <1>1
  <2>4. p < q /\ q - p <= (y - x) + d
    BY <1>0, <1>b, <1>6, <2>1, <2>2, <2>3 DEF LineInv
  <2>5. q - p <= (l - k) + e
    <3>1. x = (IF k < i THEN k ELSE k + 1) /\ y = (IF l < i THEN l ELSE l + 1)
      BY <2>1
    <3>2. k < l /\ i \in 1 .. n
      BY <1>a, <2>2
    <3>3. y - x <= (l - k) + (i - 1)
      BY <3>1, <3>2, Shift
    <3>4. e >= d + (i - 1)
      BY <1>b
    <3> QED BY <2>4, <3>2, <3>3, <3>4
  <2> QED BY <1>b, <2>1, <2>3, <2>4, <2>5
<1>7. ASSUME NEW k \in 1 .. (n - 1), wire'[k].burst = burst.number
      PROVE  /\ wire'[k].at < burst.sent
             /\ burst.sent - wire'[k].at <= ((n - 1) + 1 - k) + faults'
  <2>1. PICK x \in 1 .. n : x = m(k) /\ wire'[k] = wire[x]
    BY <1>2
  <2>2. PICK p \in Nat, q \in Nat : p = wire[x].at /\ q = burst.sent
    BY <1>1
  <2>3. p < q /\ q - p <= (n + 1 - x) + d
    BY <1>0, <1>b, <1>7, <2>1, <2>2 DEF LineInv
  <2>4. q - p <= ((n - 1) + 1 - k) + e
    <3>1. x = IF k < i THEN k ELSE k + 1
      BY <2>1
    <3> QED BY <1>a, <1>b, <2>3, <3>1, ShiftEnd
  <2> QED BY <1>b, <2>1, <2>2, <2>3, <2>4
<1>8. seq = burst.sent % Modulus /\ (gate.open => burst.number >= 1)
  BY DEF LineInv
<1> QED BY <1>2, <1>3, <1>5, <1>6, <1>7, <1>8 DEF LineInv

\* Losing the first frame is taking it out.
LEMMA TailTakesFirst ==
  ASSUME NEW S, NEW w \in Seq(S), w # <<>>
  PROVE  1 \in 1 .. Len(w) /\ Tail(w) = RemoveAt(w, 1)
<1>1. Len(w) >= 1 /\ Len(w) \in Nat
  OBVIOUS
<1>2. Tail(w) \in Seq(S) /\ Len(Tail(w)) = Len(w) - 1
      /\ \A k \in 1 .. (Len(w) - 1) : Tail(w)[k] = w[k + 1]
  OBVIOUS
<1>3. 1 \in 1 .. Len(w)
  BY <1>1
<1>4. /\ RemoveAt(w, 1) \in Seq(S) /\ Len(RemoveAt(w, 1)) = Len(w) - 1
      /\ \A k \in 1 .. (Len(w) - 1) : RemoveAt(w, 1)[k] = w[IF k < 1 THEN k ELSE k + 1]
  BY <1>3, TakenOut
<1>5. \A k \in 1 .. (Len(w) - 1) : RemoveAt(w, 1)[k] = Tail(w)[k]
  BY <1>2, <1>4
<1> QED BY <1>2, <1>3, <1>4, <1>5, SeqEqual

LEMMA LineNext == TypeOK /\ TypeOK' /\ LineInv /\ [Next]_vars => LineInv'
<1> SUFFICES ASSUME TypeOK, TypeOK', LineInv, [Next]_vars PROVE LineInv'
  OBVIOUS
<1>1. CASE SetMuted
  BY <1>1 DEF SetMuted, LineInv, FrameOK
<1>2. ASSUME NEW want \in BOOLEAN, NEW encodes \in BOOLEAN, Process(want, encodes)
      PROVE  LineInv'
  <2>1. PICK act \in Activities :
          /\ SentAs(act) \/ HeldBack(act)
          /\ gate'.open => gate.open \/ act = "BurstStart"
          /\ act \in {"Speaking", "BurstEnd"} => gate.open
    BY <1>2, ProcessFacts
  <2> QED BY <2>1, LineSent, LineHeld
<1>3. ASSUME NEW i \in DOMAIN wire, Deliver(i) PROVE LineInv'
  <2>1. i \in 1 .. Len(wire) /\ faults \in Nat /\ faults' \in Nat
    BY DEF TypeOK
  <2>2. wire' = RemoveAt(wire, i) /\ faults' = faults + (i - 1) /\ UNCHANGED sender
    BY <1>3 DEF Deliver
  <2>3. faults' >= faults + (i - 1)
    BY <2>1, <2>2
  <2> QED BY <2>1, <2>2, <2>3, LineShortened
<1>4. CASE Drop
  <2>1. faults \in Nat /\ faults' \in Nat /\ wire \in Seq(Frames)
    BY DEF TypeOK
  <2>2. 1 \in 1 .. Len(wire) /\ wire' = RemoveAt(wire, 1) /\ UNCHANGED sender
    BY <1>4, <2>1, TailTakesFirst DEF Drop
  <2>3. faults' >= faults + (1 - 1)
    BY <1>4, <2>1 DEF Drop
  <2> QED BY <2>1, <2>2, <2>3, LineShortened
<1>5. CASE Render
  BY <1>5 DEF Render, sender, LineInv, FrameOK
<1>6. CASE UNCHANGED vars
  BY <1>6 DEF vars, sender, LineInv, FrameOK
<1> QED BY <1>1, <1>2, <1>3, <1>4, <1>5, <1>6 DEF Next

-----------------------------------------------------------------------------
(* The keys: the anchor stays within half of the numbers of every frame *)

\* A frame that arrives and becomes the anchor is close to all that are left.
LEMMA AnchorMoved ==
  ASSUME TypeOK, LineInv, NEW i \in 1 .. Len(wire), Deliver(i),
         NEW a, NEW b, a.extended = wire[i].at, a.seq = wire[i].seq, b = wire[i].burst
  PROVE  Anchored(a, b)'
<1>0. PICK n \in Nat : n = Len(wire)
  BY WireTyped
<1>1. /\ faults \in Nat /\ burst.sent \in Nat /\ i \in 1 .. n
      /\ \A k \in 1 .. n : wire[k].at \in Nat
  BY <1>0, WireTyped
<1>2. wire' = RemoveAt(wire, i) /\ faults' = faults + (i - 1) /\ burst' = burst
  BY DEF Deliver, sender
<1>3. PICK d \in Nat, e \in Nat : d = faults /\ e = faults' /\ e = d + (i - 1)
  BY <1>1, <1>2
<1>4. /\ Len(wire') = n - 1
      /\ \A k \in 1 .. (n - 1) : wire'[k] = wire[IF k < i THEN k ELSE k + 1]
  <2>1. wire \in Seq(Frames)
    BY DEF TypeOK
  <2> QED BY <1>0, <1>2, <2>1, TakenOut
<1>5. PICK p \in Nat : p = wire[i].at
  BY <1>1
<1>6. a.extended = p /\ p \in Nat /\ a.seq = p % Modulus
  BY <1>5 DEF LineInv, FrameOK
<1>7. ASSUME NEW k \in 1 .. (n - 1), wire'[k].burst = b
      PROVE  p - wire'[k].at <= e /\ wire'[k].at - p <= e + k
  <2>1. CASE k < i
    <3>1. k \in 1 .. n /\ wire'[k] = wire[k]
      BY <1>4, <2>1
    <3>2. PICK q \in Nat : q = wire[k].at
      BY <1>1, <3>1
    <3>3. q < p /\ p - q <= (i - k) + d
      BY <1>0, <1>1, <1>3, <1>5, <1>7, <2>1, <3>1, <3>2 DEF LineInv
    <3>4. p - q <= e /\ q - p <= e + k
      BY <1>1, <1>3, <3>3
    <3> QED BY <3>1, <3>2, <3>4
  <2>2. CASE ~ (k < i)
    <3>1. k + 1 \in 1 .. n /\ wire'[k] = wire[k + 1] /\ i < k + 1
      BY <1>1, <1>4, <2>2
    <3>2. PICK q \in Nat : q = wire[k + 1].at
      BY <1>1, <3>1
    <3>3. p < q /\ q - p <= ((k + 1) - i) + d
      BY <1>0, <1>1, <1>3, <1>5, <1>7, <3>1, <3>2 DEF LineInv
    <3>4. p - q <= e /\ q - p <= e + k
      BY <1>1, <1>3, <3>3
    <3> QED BY <3>1, <3>2, <3>4
  <2> QED BY <2>1, <2>2
<1>8. ASSUME b = burst.number
      PROVE  p < burst.sent /\ burst.sent - p <= e + (n - 1) + 1
  <2>1. PICK q \in Nat : q = burst.sent
    BY <1>1
  <2>2. p < q /\ q - p <= (n + 1 - i) + d
    BY <1>0, <1>3, <1>5, <1>8, <2>1 DEF LineInv
  <2>3. q - p <= e + (n - 1) + 1
    BY <1>1, <1>3, <2>2
  <2> QED BY <2>1, <2>2, <2>3
<1> QED BY <1>2, <1>3, <1>4, <1>6, <1>7, <1>8 DEF Anchored

\* A new frame is the next after all the anchor has seen of its burst.
LEMMA AnchorGrown ==
  ASSUME TypeOK, TypeOK', LineInv, NEW act \in Activities, SentAs(act),
         act \in {"Speaking", "BurstEnd"} => gate.open,
         NEW a, NEW b \in Nat, Anchored(a, b), b <= burst.number
  PROVE  Anchored(a, b)'
<1>0. PICK n \in Nat, d \in Nat : n = Len(wire) /\ d = faults
  BY WireTyped
<1> DEFINE f == Frame(act, BurstOf(act))
<1>1. /\ f \in Frames /\ Len(wire') = n + 1 /\ wire'[n + 1] = f
      /\ \A i \in 1 .. n : wire'[i] = wire[i]
      /\ faults' = d
      /\ f.burst = burst'.number /\ f.at + 1 = burst'.sent
      /\ burst.number <= burst'.number
      /\ \/ burst'.number = burst.number + 1
         \/ burst'.number = burst.number /\ f.at = burst.sent
  BY <1>0, NextFrame
<1>2. burst.number \in Nat /\ burst'.number \in Nat /\ burst.sent \in Nat
  BY DEF TypeOK, Burst
<1>3. PICK x \in Nat : x = a.extended
  BY DEF Anchored
<1>4. x = a.extended /\ a.seq = x % Modulus
  BY <1>3 DEF Anchored
<1>5. ASSUME b = burst'.number
      PROVE  f.at = burst.sent /\ x < burst.sent /\ burst.sent - x <= d + n + 1
  <2>1. b = burst.number /\ f.at = burst.sent
    BY <1>1, <1>2, <1>5
  <2> QED BY <1>0, <1>3, <2>1 DEF Anchored
<1> HIDE DEF f
<1>6. ASSUME NEW i \in 1 .. (n + 1), wire'[i].burst = b
      PROVE  x - wire'[i].at <= d /\ wire'[i].at - x <= d + i
  <2>1. CASE i \in 1 .. n
    BY <1>0, <1>1, <1>3, <1>6, <2>1 DEF Anchored
  <2>2. CASE i = n + 1
    <3>1. b = burst'.number
      BY <1>1, <1>6, <2>2
    <3>2. PICK y \in Nat : y = burst.sent /\ y = wire'[i].at /\ x < y /\ y - x <= d + n + 1
      BY <1>1, <1>2, <1>5, <2>2, <3>1
    <3>3. x - y <= d /\ y - x <= d + i
      BY <2>2, <3>2
    <3> QED BY <3>2, <3>3
  <2> QED BY <2>1, <2>2
<1>7. ASSUME b = burst'.number
      PROVE  x < burst'.sent /\ burst'.sent - x <= d + (n + 1) + 1
  <2>1. PICK y \in Nat : y = burst.sent /\ y + 1 = burst'.sent /\ x < y /\ y - x <= d + n + 1
    BY <1>1, <1>2, <1>5, <1>7
  <2>2. x < y + 1 /\ (y + 1) - x <= d + (n + 1) + 1
    BY <2>1
  <2> QED BY <2>1, <2>2
<1> QED BY <1>1, <1>4, <1>6, <1>7 DEF Anchored

LEMMA AnchorKept ==
  ASSUME TypeOK, NEW act \in Activities, HeldBack(act), 
         NEW a, NEW b \in Nat, Anchored(a, b), b <= burst.number
  PROVE  Anchored(a, b)'
<1>1. wire' = wire /\ burst' = BurstOf(act) /\ faults' \in {faults, faults + 1}
  BY DEF HeldBack
<1>2. PICK n \in Nat, d \in Nat, e \in Nat :
        n = Len(wire) /\ d = faults /\ e = faults' /\ d <= e
  BY <1>1, WireTyped
<1>3. PICK x \in Nat : x = a.extended
  BY DEF Anchored
<1>4. x = a.extended /\ a.seq = x % Modulus
  BY <1>3 DEF Anchored
<1>5. ASSUME NEW i \in 1 .. n, wire[i].burst = b
      PROVE  x - wire[i].at <= e /\ wire[i].at - x <= e + i
  <2>1. PICK q \in Nat : q = wire[i].at
    BY <1>2, WireTyped
  <2>2. x - q <= d /\ q - x <= d + i
    BY <1>2, <1>3, <1>5, <2>1 DEF Anchored
  <2>3. x - q <= e /\ q - x <= e + i
    <3>1. d <= e
      BY <1>2
    <3> QED BY <2>2, <3>1
  <2> QED BY <2>1, <2>3
<1>6. ASSUME b = burst'.number
      PROVE  burst'.sent = burst.sent /\ x < burst.sent /\ burst.sent - x <= e + n + 1
  <2>1. burst.number \in Nat /\ burst.sent \in Nat
    BY WireTyped
  <2>2. burst' = burst
    BY <1>1, <1>6, <2>1 DEF BurstOf
  <2>3. PICK y \in Nat : y = burst.sent
    BY <2>1
  <2>4. x < y /\ y - x <= d + n + 1
    BY <1>2, <1>3, <1>6, <2>2, <2>3 DEF Anchored
  <2>5. y - x <= e + n + 1
    BY <1>2, <2>4
  <2> QED BY <2>2, <2>3, <2>4, <2>5
<1> QED BY <1>1, <1>2, <1>4, <1>5, <1>6 DEF Anchored

LEMMA AnchorDropped ==
  ASSUME TypeOK, Drop, NEW a, NEW b \in Nat, Anchored(a, b)
  PROVE  Anchored(a, b)'
<1>1. wire \in Seq(Frames) /\ wire # <<>> /\ wire' = Tail(wire) /\ faults' = faults + 1 /\ burst' = burst
  BY DEF TypeOK, Drop, sender
<1>2. PICK n \in Nat, d \in Nat : n = Len(wire) /\ d = faults /\ faults' = d + 1
  BY <1>1, WireTyped
<1>3. Len(wire') = n - 1 /\ \A k \in 1 .. (n - 1) : k + 1 \in 1 .. n /\ wire'[k] = wire[k + 1]
  BY <1>1, <1>2
<1>4. PICK x \in Nat : x = a.extended
  BY DEF Anchored
<1>5. x = a.extended /\ a.seq = x % Modulus
  BY <1>4 DEF Anchored
<1>6. ASSUME NEW k \in 1 .. (n - 1), wire'[k].burst = b
      PROVE  x - wire'[k].at <= d + 1 /\ wire'[k].at - x <= d + 1 + k
  <2>1. PICK q \in Nat : q = wire[k + 1].at /\ q = wire'[k].at
    BY <1>2, <1>3, WireTyped
  <2>2. x - q <= d /\ q - x <= d + (k + 1)
    BY <1>2, <1>3, <1>4, <1>6, <2>1 DEF Anchored
  <2>3. x - q <= d + 1 /\ q - x <= d + 1 + k
    BY <2>2
  <2> QED BY <2>1, <2>3
<1>7. ASSUME b = burst.number
      PROVE  x < burst.sent /\ burst.sent - x <= (d + 1) + (n - 1) + 1
  <2>1. PICK y \in Nat : y = burst.sent
    BY WireTyped
  <2>2. x < y /\ y - x <= d + n + 1
    BY <1>2, <1>4, <1>7, <2>1 DEF Anchored
  <2>3. y - x <= (d + 1) + (n - 1) + 1
    BY <2>2
  <2> QED BY <2>1, <2>2, <2>3
<1> QED BY <1>1, <1>2, <1>3, <1>5, <1>6, <1>7 DEF Anchored

\* The key a frame gets is its place, when the anchor is of its burst.
LEMMA KeyOfAnchored ==
  ASSUME TypeOK, TypeOK', LineInv, NEW i \in 1 .. Len(wire), Deliver(i), NEW j \in Jitter,
         j.anchor # None, Anchored(j.anchor, wire[i].burst)
  PROVE  Extend(j, wire[i]) = wire[i].at
<1>1. PICK d \in Nat, p \in Nat, x \in Nat : d = faults /\ p = wire[i].at /\ x = j.anchor.extended
  BY WireTyped DEF Anchored
<1>2. j.anchor.seq = x % Modulus /\ wire[i].seq = p % Modulus
  BY <1>1 DEF Anchored, LineInv, FrameOK
<1>3. x - p <= d /\ p - x <= d + i
  BY <1>1 DEF Anchored
<1>4. d + (i - 1) <= MaxFaults
  BY <1>1 DEF Deliver
<1>5. Len(wire) \in Nat /\ MaxFaults \in Nat
  BY WireTyped, Wraps
<1>6. p - x <= MaxFaults + 1 /\ x - p <= MaxFaults + 1
  BY <1>3, <1>4, <1>5
<1>7. x + Signed(((p % Modulus) - (x % Modulus)) % Modulus) = p
  BY <1>6, SignedIsDistance
<1> QED BY <1>1, <1>2, <1>7 DEF Extend

LEMMA HeldDelivered ==
  ASSUME TypeOK, TypeOK', LineInv, HeldInv, NEW i \in 1 .. Len(wire), Deliver(i)
  PROVE  HeldInv'
<1> DEFINE f == wire[i]
<1>1. f \in Frames /\ FrameOK(f) /\ burst.number \in Nat
  BY WireTyped DEF LineInv
<1>2. f.burst \in Nat /\ f.burst >= 1 /\ f.burst <= burst.number /\ f.at \in Nat /\ f.start \in BOOLEAN
      /\ (f.start => f.at = 0)
  BY <1>1 DEF FrameOK, Frames
<1>3. Accept(f) /\ burst' = burst
  BY DEF Deliver, sender
<1>4. PICK j \in Jitter :
        /\ IsFiniteSet(j.packets)
        /\ f.start \/ stream = None => j = Buffer
        /\ ~ f.start /\ stream # None => j = stream.jitter
        /\ stream' \in Stream /\ stream'.jitter = Push(j, f)
        /\ stream'.base = IF f.start THEN f.burst
                          ELSE IF stream # None /\ f.burst = stream.base THEN f.burst ELSE 0
  BY <1>1, <1>3, AcceptFacts
<1>5. PICK e, g : e = Extend(j, f) /\ g = Push(j, f)
  OBVIOUS
<1>6. /\ g = stream'.jitter
      /\ g.anchor = [seq |-> f.seq, extended |-> e]
      /\ \A p \in g.packets : p \in j.packets \/ (p.key = e /\ p.frame = f)
  BY <1>1, <1>4, <1>5, PushFacts
<1>7. stream'.base # 0 => e = f.at
  <2> SUFFICES ASSUME stream'.base # 0 PROVE e = f.at
    OBVIOUS
  <2>1. CASE f.start
    <3>1. j.anchor = None
      BY <1>4, <2>1, BufferFacts
    <3> QED BY <1>2, <1>5, <2>1, <3>1 DEF Extend
  <2>2. CASE ~ f.start
    <3>1. stream # None /\ f.burst = stream.base /\ j = stream.jitter
      BY <1>4, <2>2
    <3>2. j.anchor # None /\ Anchored(j.anchor, f.burst)
      BY <1>2, <3>1 DEF HeldInv
    <3> QED BY <1>5, <3>2, KeyOfAnchored
  <2> QED BY <2>1, <2>2
<1>8. stream'.base # 0 => stream'.base = f.burst
  BY <1>4
<1>9. \A p \in j.packets : p.frame.burst >= 1 /\ (~ f.start /\ stream # None)
  <2>1. CASE f.start \/ stream = None
    BY <1>4, <2>1, BufferFacts
  <2>2. CASE ~ f.start /\ stream # None
    BY <1>4, <2>2 DEF HeldInv
  <2> QED BY <2>1, <2>2
<1>10. PICK a, c : a = g.anchor /\ c = stream'.base
  OBVIOUS
<1>11. c # 0 => a # None /\ Anchored(a, c)'
  <2> SUFFICES ASSUME c # 0 PROVE a # None /\ Anchored(a, c)'
    OBVIOUS
  <2>1. a = [seq |-> f.seq, extended |-> e] /\ e = f.at /\ c = f.burst
    BY <1>6, <1>7, <1>8, <1>10
  <2>2. a.extended = f.at /\ a.seq = f.seq
    BY <2>1
  <2>3. a \in Anchor
    BY <1>1, <1>2, <2>1 DEF Anchor, Frames
  <2> QED BY <2>1, <2>2, <2>3, NoneIsNone, AnchorMoved
<1>12. c <= burst'.number
  <2>1. c = 0 \/ c = f.burst
    BY <1>4, <1>10
  <2> HIDE DEF f
  <2> QED BY <1>1, <1>2, <1>3, <2>1
<1>13. ASSUME NEW p \in g.packets PROVE p.frame.burst >= 1 /\ (p.frame.burst = c => p.key = p.frame.at)
  <2>1. CASE p \in j.packets
    <3>1. p.frame.burst >= 1 /\ ~ f.start /\ stream # None
      BY <1>9, <2>1
    <3>2. p \in stream.jitter.packets /\ (p.frame.burst = stream.base => p.key = p.frame.at)
      BY <1>4, <2>1, <3>1 DEF HeldInv
    <3>3. c = stream.base \/ c = 0
      BY <1>4, <1>10, <3>1
    <3>4. p.frame.burst # 0
      BY <3>1
    <3> QED BY <3>1, <3>2, <3>3, <3>4
  <2>2. CASE p.key = e /\ p.frame = f
    BY <1>2, <1>7, <1>10, <2>2
  <2> QED BY <1>6, <2>1, <2>2
<1>14. stream'.jitter = g /\ stream'.jitter.anchor = a /\ stream'.base = c
  BY <1>6, <1>10
<1>15. (stream.base # 0 => stream.jitter.anchor # None /\ Anchored(stream.jitter.anchor, stream.base))'
  BY <1>11, <1>14 DEF Anchored
<1> QED BY <1>12, <1>13, <1>14, <1>15 DEF HeldInv

LEMMA HeldNext == TypeOK /\ TypeOK' /\ LineInv /\ HeldInv /\ [Next]_vars => HeldInv'
<1> SUFFICES ASSUME TypeOK, TypeOK', LineInv, HeldInv, [Next]_vars PROVE HeldInv'
  OBVIOUS
<1>0. ASSUME UNCHANGED stream, burst.number <= burst'.number,
             \A a : \A b \in Nat : Anchored(a, b) /\ b <= burst.number => Anchored(a, b)'
      PROVE  HeldInv'
  <2> SUFFICES ASSUME stream' # None PROVE HeldInv'
    BY DEF HeldInv
  <2>1. stream # None /\ stream \in Stream /\ burst.number \in Nat /\ burst'.number \in Nat
    BY <1>0 DEF TypeOK, Burst
  <2>2. PICK a, b : a = stream.jitter.anchor /\ b = stream.base /\ b \in Nat
    BY <2>1 DEF Stream
  <2>3. b # 0 => a # None /\ Anchored(a, b)'
    BY <1>0, <2>1, <2>2 DEF HeldInv
  <2>4. b <= burst'.number
    BY <1>0, <2>1, <2>2 DEF HeldInv
  <2>5. (stream.base # 0 => stream.jitter.anchor # None /\ Anchored(stream.jitter.anchor, stream.base))'
    BY <1>0, <2>2, <2>3 DEF Anchored
  <2>6. \A p \in stream.jitter.packets :
         p.frame.burst >= 1 /\ (p.frame.burst = stream.base => p.key = p.frame.at)
    BY <2>1 DEF HeldInv
  <2> QED BY <1>0, <2>2, <2>4, <2>5, <2>6 DEF HeldInv
<1>a. burst.number \in Nat
  BY WireTyped
<1>1. CASE SetMuted
  <2>1. UNCHANGED <<stream, burst, wire, faults>>
    BY <1>1 DEF SetMuted, receiver
  <2> QED BY <1>a, <2>1 DEF HeldInv, Anchored
<1>2. ASSUME NEW want \in BOOLEAN, NEW encodes \in BOOLEAN, Process(want, encodes)
      PROVE  HeldInv'
  <2>1. PICK act \in Activities :
          /\ SentAs(act) \/ HeldBack(act)
          /\ act \in {"Speaking", "BurstEnd"} => gate.open
          /\ UNCHANGED stream
    BY <1>2, ProcessFacts
  <2>2. burst.number <= burst'.number
    <3>1. burst'.number = BurstOf(act).number
      BY <2>1, SenderTyped
    <3> QED BY <1>a, <3>1 DEF BurstOf
  <2>3. \A a : \A b \in Nat : Anchored(a, b) /\ b <= burst.number => Anchored(a, b)'
    BY <2>1, AnchorGrown, AnchorKept
  <2> QED BY <1>0, <2>1, <2>2, <2>3
<1>3. ASSUME NEW i \in DOMAIN wire, Deliver(i) PROVE HeldInv'
  <2>1. i \in 1 .. Len(wire)
    BY DEF TypeOK
  <2> QED BY <1>3, <2>1, HeldDelivered
<1>4. CASE Drop
  <2>1. UNCHANGED <<stream, burst>>
    BY <1>4 DEF Drop, sender, receiver
  <2>2. \A a : \A b \in Nat : Anchored(a, b) => Anchored(a, b)'
    BY <1>4, AnchorDropped
  <2> QED BY <1>0, <1>a, <2>1, <2>2
<1>5. CASE Render
  <2>1. /\ stream \in Stream /\ stream # None /\ UNCHANGED <<burst, wire, faults>>
        /\ \/ stream' = None
           \/ stream'.jitter = Pop(stream.jitter).jitter /\ stream'.base = stream.base
    BY <1>5, RenderFacts DEF sender
  <2>2. /\ Pop(stream.jitter).jitter.packets \subseteq stream.jitter.packets
        /\ Pop(stream.jitter).jitter.anchor = stream.jitter.anchor
    <3>1. /\ stream.jitter \in Jitter /\ IsFiniteSet(stream.jitter.packets)
          /\ stream.jitter.playing => stream.jitter.next # None
      BY <2>1 DEF TypeOK, Stream
    <3> QED BY <3>1, PopFacts
  <2>3. CASE stream' = None
    BY <2>3 DEF HeldInv
  <2>4. CASE stream' # None
    <3>1. /\ stream'.jitter.packets \subseteq stream.jitter.packets
          /\ stream'.jitter.anchor = stream.jitter.anchor /\ stream'.base = stream.base
      BY <2>1, <2>2, <2>4
    <3> QED BY <2>1, <3>1 DEF HeldInv, Anchored
  <2> QED BY <2>3, <2>4
<1>6. CASE UNCHANGED vars
  BY <1>6 DEF vars, sender, receiver, HeldInv, Anchored
<1> QED BY <1>1, <1>2, <1>3, <1>4, <1>5, <1>6 DEF Next

LEMMA KeysInit == Init => LineInv /\ HeldInv
<1> SUFFICES ASSUME Init PROVE LineInv /\ HeldInv
  OBVIOUS
<1>1. 0 % Modulus = 0
  BY Wraps, 0 = 0 * Modulus + 0, Remainder
<1>2. Len(wire) = 0 /\ seq = 0 /\ burst.sent = 0 /\ stream = None /\ ~ gate.open
  BY DEF Init
<1> QED BY <1>1, <1>2 DEF LineInv, HeldInv

(* Once the start of a burst has come, every frame of it that the jitter   *)
(* buffer holds has its place in the burst for its key, across the wrap of *)
(* the sequence numbers and in whatever order the frames come, as long as  *)
(* fewer frames are lost or overtaken than half of the numbers.            *)
THEOREM KeysArePlaces == Spec => []KeyIsPlace
<1>1. HeldInv => KeyIsPlace
  BY DEF HeldInv, KeyIsPlace
<1> QED BY <1>1, KeysInit, LineNext, HeldNext, VoiceTyped, PTL DEF Spec

-----------------------------------------------------------------------------
(* The order of playing *)

LEMMA PlayNext ==
  TypeOK /\ TypeOK' /\ LineInv /\ HeldInv /\ PlayInv /\ [Next]_vars => PlayInv'
<1> SUFFICES ASSUME TypeOK, TypeOK', LineInv, HeldInv, PlayInv, [Next]_vars PROVE PlayInv'
  OBVIOUS
<1>1. CASE UNCHANGED <<stream, last>>
  BY <1>1 DEF PlayInv
<1>2. ASSUME NEW i \in DOMAIN wire, Deliver(i) PROVE PlayInv'
  <2> DEFINE f == wire[i]
  <2>1. i \in 1 .. Len(wire)
    BY DEF TypeOK
  <2>2. f \in Frames
    BY <2>1, WireTyped
  <2>3. Accept(f) /\ last' = IF f.start THEN None ELSE last
    BY <1>2 DEF Deliver
  <2>4. PICK j \in Jitter :
          /\ IsFiniteSet(j.packets) /\ (j.playing => j.next # None)
          /\ ~ f.start /\ stream # None => j = stream.jitter
          /\ stream' \in Stream /\ stream'.jitter = Push(j, f)
          /\ stream'.base = IF f.start THEN f.burst
                            ELSE IF stream # None /\ f.burst = stream.base THEN f.burst ELSE 0
    BY <2>2, <2>3, AcceptFacts
  <2>5. PICK g : g = Push(j, f)
    OBVIOUS
  <2>6. /\ g = stream'.jitter /\ g \in Jitter /\ g.playing = j.playing
        /\ j.next # None => g.next # None /\ j.next.slot <= g.next.slot
    BY <2>2, <2>4, <2>5, PushFacts
  <2>7. CASE last' = None
    BY <2>7 DEF PlayInv
  <2>8. CASE last' # None
    <3>1. ~ f.start /\ last' = last /\ last # None
      BY <2>3, <2>8
    <3>2. stream # None /\ stream.jitter.playing /\ last.burst >= 1
      BY <3>1 DEF PlayInv
    <3>3. j = stream.jitter /\ j.playing /\ j.next # None
      BY <2>4, <3>1, <3>2
    <3>4. g.playing /\ g.next # None /\ j.next.slot <= g.next.slot
      BY <2>6, <3>3
    <3>5. j.next.slot \in Int /\ g.next.slot \in Int /\ last.at \in Nat /\ last.burst \in Nat
      BY <2>6, <3>1, <3>3, <3>4 DEF Jitter, Slot, TypeOK, Frames
    <3>6. last.burst = stream'.base => last.at < g.next.slot
      <4> SUFFICES ASSUME last.burst = stream'.base PROVE last.at < g.next.slot
        OBVIOUS
      <4>1. stream'.base # 0
        BY <3>2, <3>5
      <4>2. last.burst = stream.base
        BY <2>4, <3>1, <4>1
      <4>3. last.at < j.next.slot
        BY <3>1, <3>2, <3>3, <4>2 DEF PlayInv
      <4> QED BY <3>4, <3>5, <4>3
    <3>7. stream' # None
      BY <2>4, NoneIsNone
    <3> QED BY <2>6, <3>1, <3>2, <3>4, <3>6, <3>7 DEF PlayInv
  <2> QED BY <2>7, <2>8
<1>3. CASE Render
  <2> DEFINE p == Pop(stream.jitter)
  <2>1. /\ stream \in Stream /\ stream # None
        /\ \/ stream' = None /\ last' = None
           \/ /\ stream' \in Stream /\ stream'.jitter = p.jitter /\ stream'.base = stream.base
              /\ p.out = "frame" => last' = p.frame
              /\ p.out = "underrun" => last' = None
              /\ p.out \notin {"frame", "underrun"} => last' = last
    BY <1>3, RenderFacts
  <2>2. /\ stream.jitter \in Jitter /\ IsFiniteSet(stream.jitter.packets)
        /\ stream.jitter.playing => stream.jitter.next # None
    BY <2>1 DEF TypeOK, Stream
  <2>3. /\ p.jitter \in Jitter
        /\ p.out \in {"silence", "frame", "lost", "underrun"}
        /\ p.out = "silence" => ~ stream.jitter.playing
        /\ p.out \in {"frame", "lost"} => p.jitter.playing /\ p.jitter.next # None
        /\ p.out \in {"frame", "lost"} /\ stream.jitter.playing =>
             p.jitter.next.slot = stream.jitter.next.slot + 1
        /\ p.out = "frame" =>
             \E q \in stream.jitter.packets : q.frame = p.frame /\ p.jitter.next.slot = q.key + 1
    BY <2>2, PopFacts
  <2> HIDE DEF p
  <2>4. CASE last' = None
    BY <2>4 DEF PlayInv
  <2>5. CASE last' # None
    <3>1. /\ stream' \in Stream /\ stream'.jitter = p.jitter /\ stream'.base = stream.base
          /\ p.out = "frame" => last' = p.frame
          /\ p.out \notin {"frame", "underrun"} => last' = last
          /\ p.out # "underrun"
      BY <2>1, <2>5
    <3>2. CASE p.out = "frame"
      <4>1. PICK q \in stream.jitter.packets : q.frame = p.frame /\ p.jitter.next.slot = q.key + 1
        BY <2>3, <3>2
      <4>2. q \in Packet
        BY <2>2 DEF Jitter
      <4>3. q.frame.burst >= 1 /\ (q.frame.burst = stream.base => q.key = q.frame.at)
        BY <2>1 DEF HeldInv
      <4>4. q.frame.burst = stream.base => q.frame.at < p.jitter.next.slot
        BY <4>1, <4>2, <4>3 DEF Packet, Frames
      <4>5. last' = q.frame /\ p.jitter.playing
        BY <2>3, <3>1, <3>2, <4>1
      <4> QED BY <3>1, <4>3, <4>4, <4>5, NoneIsNone DEF PlayInv
    <3>3. CASE p.out \in {"lost", "silence"}
      <4>1. last' = last /\ last # None
        BY <2>5, <3>1, <3>3
      <4>2. stream.jitter.playing /\ last.burst >= 1
        BY <4>1 DEF PlayInv
      <4>3. p.out = "lost" /\ p.jitter.playing /\ p.jitter.next.slot = stream.jitter.next.slot + 1
        BY <2>3, <3>3, <4>2
      <4>4. stream.jitter.next.slot \in Int /\ last.at \in Nat
        BY <2>2, <4>1, <4>2 DEF Jitter, Slot, TypeOK, Frames
      <4>5. last.burst = stream.base => last.at < p.jitter.next.slot
        <5>1. last.burst = stream.base => last.at < stream.jitter.next.slot
          BY <2>1, <4>1 DEF PlayInv
        <5> QED BY <4>3, <4>4, <5>1
      <4> QED BY <3>1, <4>1, <4>2, <4>3, <4>5, NoneIsNone DEF PlayInv
    <3> QED BY <2>3, <3>1, <3>2, <3>3
  <2> QED BY <2>4, <2>5
<1>4. Next => UNCHANGED <<stream, last>> \/ Render \/ \E i \in DOMAIN wire : Deliver(i)
  BY DEF Next, SetMuted, Process, Drop, receiver
<1> QED BY <1>1, <1>2, <1>3, <1>4 DEF vars, receiver

(* Of a burst whose start has come, a frame is never played after a later  *)
(* one: the position only moves on, and what comes behind it is dropped    *)
(* (JitterBuffer::push and pop).                                           *)
InOrder ==
  [][ (/\ last # None /\ last' # None /\ last' # last
       /\ last'.burst = last.burst /\ last.burst = stream.base)
        => last'.at > last.at ]_vars

(* What the mixer plays of a burst it plays in order, for any wrap of the  *)
(* numbers and any losses the assumption allows.                           *)
THEOREM BurstPlayedInOrder == Spec => InOrder
<1>1. Init => PlayInv
  BY DEF Init, PlayInv
<1>2. TypeOK /\ LineInv /\ HeldInv /\ PlayInv /\ [Next]_vars =>
        [(/\ last # None /\ last' # None /\ last' # last
          /\ last'.burst = last.burst /\ last.burst = stream.base)
           => last'.at > last.at]_vars
  <2> SUFFICES ASSUME TypeOK, LineInv, HeldInv, PlayInv, Next,
                      last # None, last' # None, last' # last,
                      last'.burst = last.burst, last.burst = stream.base
               PROVE  last'.at > last.at
    BY DEF vars, receiver
  <2>1. Render
    <3>1. Next => last' = last \/ Render \/ \E i \in DOMAIN wire : Deliver(i)
      BY DEF Next, SetMuted, Process, Drop, receiver
    <3>2. ASSUME NEW i \in DOMAIN wire, Deliver(i) PROVE last' = None \/ last' = last
      BY <3>2 DEF Deliver
    <3> QED BY <3>1, <3>2
  <2> DEFINE p == Pop(stream.jitter)
  <2>2. /\ stream \in Stream /\ stream # None
        /\ last' = None \/ last' = last \/ (p.out = "frame" /\ last' = p.frame)
    <3>1. /\ p.out = "frame" => last' = None \/ last' = p.frame
          /\ p.out # "frame" => last' = None \/ last' = last
      BY <2>1, RenderFacts
    <3>2. stream \in Stream /\ stream # None
      BY <2>1, RenderFacts
    <3> QED BY <3>1, <3>2
  <2>3. p.out = "frame" /\ last' = p.frame
    BY <2>2
  <2>4. stream.jitter.playing /\ last.at < stream.jitter.next.slot
    BY <2>2 DEF PlayInv
  <2>5. /\ stream.jitter \in Jitter /\ IsFiniteSet(stream.jitter.packets)
        /\ stream.jitter.playing => stream.jitter.next # None
    BY <2>2 DEF TypeOK, Stream
  <2>6. /\ p.out \in {"frame", "lost"} /\ stream.jitter.playing =>
             p.jitter.next.slot = stream.jitter.next.slot + 1
        /\ p.out = "frame" =>
             \E q \in stream.jitter.packets : q.frame = p.frame /\ p.jitter.next.slot = q.key + 1
    BY <2>5, PopFacts
  <2> HIDE DEF p
  <2>7. PICK q \in stream.jitter.packets :
          q.frame = p.frame /\ stream.jitter.next.slot + 1 = q.key + 1
    BY <2>3, <2>4, <2>6
  <2>8. q \in Packet /\ stream.jitter.next.slot \in Int /\ last.at \in Nat
    BY <2>4, <2>5 DEF Jitter, Slot, TypeOK, Frames
  <2>9. q.key = q.frame.at
    BY <2>2, <2>3, <2>7 DEF HeldInv
  <2> QED BY <2>3, <2>4, <2>7, <2>8, <2>9 DEF Packet
<1> QED BY <1>1, <1>2, KeysInit, LineNext, HeldNext, PlayNext, VoiceTyped, PTL DEF Spec, InOrder
=============================================================================
