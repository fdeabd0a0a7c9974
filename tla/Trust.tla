-------------------------------- MODULE Trust --------------------------------
(***************************************************************************)
(* The pins of known servers: one file, read whole by everyone who needs   *)
(* it and written back whole by everyone who changes it.                   *)
(*                                                                         *)
(* A connection opens the store before the handshake and saves it when the *)
(* server has introduced itself, seconds later; the user's own decisions   *)
(* open and save it in one command.  Nothing orders the two.               *)
(***************************************************************************)
CONSTANTS
  Server,           \* servers as the user types them
  Resolved,         \* the address each one resolves to, the key of old pins
  Fingerprint,
  NoPin,
  Malformed,        \* a file that is not valid JSON
  Idle,             \* no connection being made
  Dial              \* connection attempts that may overlap

VARIABLES
  disk,             \* the pins in the file, or Malformed
  dialling,         \* for each attempt the server, the policy and its copy of the store
  shown,            \* changed identities the user was warned of, with their server
  decided           \* the identity the user last chose for a server

vars == <<disk, dialling, shown, decided>>

\* Where a pin of an old version is kept: under the socket address.
OldPlace == {Resolved[s] : s \in Server}
Place == Server \cup OldPlace
Policy == {"OnFirstUse", "Strict", "Insecure"}

Init ==
  /\ \E old \in Fingerprint \cup {NoPin} :
       disk = [p \in Place |-> IF p \in Server THEN NoPin ELSE old]
  /\ dialling = [d \in Dial |-> Idle]
  /\ shown = {}
  /\ decided = [s \in Server |-> NoPin]

(* TrustStore::check *)
Check(pins, p, f) ==
  IF pins[p] = NoPin THEN "FirstContact" ELSE IF pins[p] = f THEN "Recognised" ELSE "Changed"

(* connect: the store is loaded, then the handshake begins. *)
Connect(d, s, policy) ==
  /\ dialling[d] = Idle /\ disk # Malformed
  /\ dialling' = [dialling EXCEPT ![d] = [server |-> s, policy |-> policy, store |-> disk]]
  /\ UNCHANGED <<disk, shown, decided>>

(* apply_trust_policy: the pins to keep, or the copy as it was. *)
Adopted(pins, s, f) ==
  IF Check(pins, Resolved[s], f) = "Recognised"
  THEN [pins EXCEPT ![s] = f, ![Resolved[s]] = NoPin]
  ELSE [pins EXCEPT ![s] = f]

Accepts(a, f) ==
  LET seen == Check(a.store, a.server, f)
  IN \/ a.policy = "Insecure"
     \/ seen = "Recognised"
     \/ seen = "FirstContact" /\ \/ a.policy = "OnFirstUse"
                                 \/ Check(a.store, Resolved[a.server], f) = "Recognised"

Pinning(a, f) == a.policy # "Insecure" /\ Check(a.store, a.server, f) = "FirstContact"

(* The server has introduced itself and proved it.  A save that fails is   *)
(* only logged.                                                            *)
Greeted(d, f) ==
  /\ dialling[d] # Idle
  /\ LET a == dialling[d]
     IN /\ disk' \in IF Accepts(a, f) /\ Pinning(a, f) THEN {Adopted(a.store, a.server, f), disk} ELSE {disk}
        /\ shown' = IF ~Accepts(a, f) /\ Check(a.store, a.server, f) = "Changed"
                    THEN shown \cup {<<a.server, f>>} ELSE shown
  /\ dialling' = [dialling EXCEPT ![d] = Idle]
  /\ UNCHANGED decided

(* The handshake fails, times out or proves nothing. *)
ConnectFails(d) ==
  /\ dialling[d] # Idle
  /\ dialling' = [dialling EXCEPT ![d] = Idle]
  /\ UNCHANGED <<disk, shown, decided>>

(* forget_server takes the address as it is spelled, where connect adds    *)
(* the default port first: another spelling of s names no pin, and the     *)
(* file is written back as it was.                                         *)
ForgetServer(s) ==
  /\ disk # Malformed
  /\ disk' \in {[disk EXCEPT ![s] = NoPin], disk}
  /\ decided' = [decided EXCEPT ![s] = NoPin]
  /\ UNCHANGED <<dialling, shown>>

(* trust_changed_identity, with the fingerprint the user was shown. *)
TrustChangedIdentity(s, f) ==
  /\ <<s, f>> \in shown
  /\ disk # Malformed
  /\ disk' = [disk EXCEPT ![s] = f]
  /\ decided' = [decided EXCEPT ![s] = f]
  /\ UNCHANGED <<dialling, shown>>

(* The program dies while it rewrites the file in place, for a connection  *)
(* that pins its server or for a decision of the user.                     *)
CrashWriting ==
  /\ \/ \E d \in Dial, f \in Fingerprint :
          dialling[d] # Idle /\ Accepts(dialling[d], f) /\ Pinning(dialling[d], f)
     \/ disk # Malformed
  /\ disk' = Malformed
  /\ dialling' = [e \in Dial |-> Idle]
  /\ UNCHANGED <<shown, decided>>

Next ==
  \/ \E d \in Dial, s \in Server, p \in Policy : Connect(d, s, p)
  \/ \E d \in Dial, f \in Fingerprint : Greeted(d, f)
  \/ CrashWriting
  \/ \E d \in Dial : ConnectFails(d)
  \/ \E s \in Server : ForgetServer(s) \/ \E f \in Fingerprint : TrustChangedIdentity(s, f)

Spec == Init /\ [][Next]_vars

-----------------------------------------------------------------------------
(* The identity the user chose for a server stays the one on file until    *)
(* the user decides again: trust_changed_identity says of its save that it *)
(* is the user's decision.                                                 *)
UserDecisionKept ==
  disk # Malformed => \A s \in Server : decided[s] # NoPin => disk[s] = decided[s]
=============================================================================
