------------------------ MODULE MCPointInTimeRecovery ------------------------
(* An instance of PointInTimeRecovery for TLC: the replicated change r1, its key
   removed by a local write, and r1 once more after its id was forgotten. *)
EXTENDS PointInTimeRecovery

CONSTANTS k1, v1, r1, self

MCScript == <<[key |-> k1, record |-> v1, changeId |-> r1],
              [key |-> k1, record |-> NoRecord, changeId |-> LocalId],
              [key |-> k1, record |-> v1, changeId |-> r1]>>
=============================================================================
