---------------------------- MODULE MCReplication ----------------------------
(* An instance of Replication for TLC: two records of one time, one later. *)
EXTENDS Replication

CONSTANTS k1, k2, a, b, c, r1

Times == [v \in Vals |-> IF v = c THEN 1 ELSE 0]
=============================================================================
