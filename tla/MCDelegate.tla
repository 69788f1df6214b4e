------------------------------ MODULE MCDelegate ------------------------------
(* Small instances of Delegate for TLC.                                    *)
EXTENDS Delegate, TLC

Symmetry == Permutations(Delegates) \cup Permutations(Tokens)
=============================================================================
