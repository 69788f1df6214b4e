--------------------------- MODULE MCObjectLifetime ---------------------------
(* Small instances of ObjectLifetime for TLC.                              *)
EXTENDS ObjectLifetime, TLC
=============================================================================
