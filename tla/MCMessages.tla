----------------------------- MODULE MCMessages -----------------------------
(* Small instances of Messages. *)
EXTENDS Messages, TLC

CONSTANTS a, b, general, staff

\* Only b may read the past.
Readers == {<<b, general>>, <<b, staff>>}

\* Both see the lobby, only a the staff room.
TwoRooms == {{<<a, general>>, <<a, staff>>, <<b, general>>}}
Movable == {<<b, general>>}
=============================================================================
