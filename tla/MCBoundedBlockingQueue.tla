----------------------- MODULE MCBoundedBlockingQueue -----------------------
(* Small instances of BoundedBlockingQueue for TLC.                        *)
EXTENDS BoundedBlockingQueue, TLC

Symmetry == Permutations(Threads) \cup Permutations(Items)
=============================================================================
