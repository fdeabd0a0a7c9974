------------------------------- MODULE MCVault -------------------------------
(* Small instances of Vault. *)
EXTENDS Vault, TLC
CONSTANTS k1, k2, p1, t1
MCKey == {k1, k2}
MCPassphrase == {p1}
MCText == {t1}
=============================================================================
