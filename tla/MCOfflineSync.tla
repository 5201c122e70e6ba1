---------------------------- MODULE MCOfflineSync ----------------------------
(* An instance of OfflineSync for TLC. *)
EXTENDS OfflineSync, TLC

CONSTANTS i1, i2, k1, k2, c1, c2

MCSymmetry == Permutations({i1, i2}) \cup Permutations({k1, k2}) \cup Permutations({c1, c2})
=============================================================================
