------------------------------- MODULE MCTrust -------------------------------
(* Small instances of Trust. *)
EXTENDS Trust, TLC
CONSTANTS s1, s2, a1, f1, f2, d1, d2
MCServer == {s1, s2}
MCResolved == (s1 :> a1) @@ (s2 :> a1)
MCFingerprint == {f1, f2}
MCDial == {d1, d2}
=============================================================================
