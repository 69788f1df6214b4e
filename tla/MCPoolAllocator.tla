--------------------------- MODULE MCPoolAllocator ---------------------------
(* Small instances of PoolAllocator for TLC.                               *)
EXTENDS PoolAllocator, TLC

Symmetry == Permutations(Threads) \cup Permutations(Addrs)
=============================================================================
