---------------------------- MODULE MCMethodSync ----------------------------
(* Small instances of MethodSync for TLC.                                  *)
EXTENDS MethodSync, TLC

Symmetry == Permutations(Threads) \cup Permutations(Mutexes)
=============================================================================
