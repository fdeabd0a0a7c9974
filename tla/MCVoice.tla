------------------------------- MODULE MCVoice -------------------------------
(* Small instances of Voice. *)
EXTENDS Voice, TLC
=============================================================================
