------------------------------ MODULE MCDesktop ------------------------------
(* Small instances of Desktop. *)
EXTENDS Desktop

CONSTANTS s1, s2
=============================================================================
