-------------------------- MODULE MCPartitionCommit --------------------------
(***************************************************************************)
(* Instances of PartitionCommit for TLC.                                   *)
(***************************************************************************)
EXTENDS PartitionCommit, TLC

CONSTANTS t1, t2, p1, p2, k1, v0, v1, v2, v3

MCRank == (p1 :> 1) @@ (p2 :> 2)

Write(v) == k1 :> v

\* Two transactions on the same record of the same two partitions.
MCPlan == (t1 :> [p \in {p1, p2} |-> Write(v1)]) @@ (t2 :> [p \in {p1, p2} |-> Write(v2)])

\* One write that races the transactions on the first partition.
MCRouted == {[participant |-> p1, writes |-> Write(v3)]}
=============================================================================
