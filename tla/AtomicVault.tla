----------------------------- MODULE AtomicVault -----------------------------
(***************************************************************************)
(* What the identity vault promises, without files, locks and staging: a   *)
(* book of identities in memory and a durable copy of it that only ever    *)
(* changes as a whole.  A crash costs what was not persisted, nothing else.*)
(***************************************************************************)
CONSTANTS Book, Passphrase, Nothing

VARIABLES
  book,             \* the vault in memory, Nothing while the program is down
  durable           \* the vault a start would find

Init == book = Nothing /\ durable \in Book \cup {Nothing}

(* A start takes the durable copy, or makes a book where there is none. *)
Start ==
  /\ book = Nothing
  /\ book' \in IF durable = Nothing THEN Book ELSE {durable}
  /\ UNCHANGED durable

(* An edit leaves the protection alone. *)
Edit ==
  /\ book # Nothing
  /\ book' \in Book /\ book'.pass = book.pass
  /\ UNCHANGED durable

Persist ==
  /\ book # Nothing
  /\ durable' = book
  /\ UNCHANGED book

(* The protection changes in memory and on disk at once. *)
Rekey(p) ==
  /\ book # Nothing
  /\ book' = [book EXCEPT !.pass = p]
  /\ durable' = book'

Crash == book' = Nothing /\ UNCHANGED durable

Next == Start \/ Edit \/ Persist \/ (\E p \in Passphrase : Rekey(p)) \/ Crash

Spec == Init /\ [][Next]_<<book, durable>>
=============================================================================
