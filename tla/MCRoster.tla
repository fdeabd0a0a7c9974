------------------------------ MODULE MCRoster ------------------------------
(***************************************************************************)
(* Small instances of Roster.  Sessions a and b belong to one identity,    *)
(* m is a moderator's.                                                     *)
(***************************************************************************)
EXTENDS Roster, TLC

CONSTANTS a, b, m, alice, mod, lobby, attic

MCFingerprint == {alice, mod}
fingerprintOf == [s \in Session |-> IF s = m THEN mod ELSE alice]
OneFingerprint == [s \in Session |-> alice]

Open(limit) == [voice |-> TRUE, max_users |-> limit]
Small == Open(1)
Text == [voice |-> FALSE, max_users |-> None]

OneRoom == [c \in {lobby} |-> Small]
TwoRooms == [c \in {lobby, attic} |-> IF c = lobby THEN Small ELSE Open(None)]
MCSettings == {Small, Text}
Everywhere == MCFingerprint \X Channel

\* Sessions are interchangeable where none is a moderator's.
Symmetry == Permutations(Session)
=============================================================================
