-------------------------- MODULE MCPluginManager --------------------------
(* Small instances of PluginManager for TLC.                               *)
EXTENDS PluginManager, TLC

Symmetry == Permutations(Threads) \cup Permutations(Addrs)
=============================================================================
