---------------------------- MODULE MCAccountMode ----------------------------
EXTENDS AccountMode, TLC

CONSTANT k1

(* Every mode at two times, of one key.                                     *)
MCSigned == [key: {k1}, mode: Modes, ts: {1, 2}]

Symmetry == Permutations(Handlers) \cup Permutations(Countries) \cup Permutations(Buckets)
==============================================================================
