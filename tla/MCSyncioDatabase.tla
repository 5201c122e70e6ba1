-------------------------- MODULE MCSyncioDatabase --------------------------
(***************************************************************************)
(* Instances of SyncioDatabase for TLC.                                    *)
(***************************************************************************)
EXTENDS SyncioDatabase

CONSTANTS k1, k2, v1, v2, r1, r2, w1, w2, db

\* Two replication changes: a write of k1 and a removal of k1.
MCRemoteChanges ==
  {[key |-> k1, record |-> v2, changeId |-> r1],
   [key |-> k1, record |-> NoRecord, changeId |-> r2]}

NoRemoteChanges == {}

OneRemoteChange == {[key |-> k1, record |-> v2, changeId |-> r1]}

\* One subscriber watches everything, one a single collection.
MCScope == [w \in Watchers |-> IF w = w1 THEN Keys ELSE {k1}]

\* A backup taken after one write of k1, and an empty database.
MCReplacements ==
  {Fresh(db),
   RecordEvents([Fresh(db) EXCEPT !.docs[k1] = v1],
                <<[key |-> k1, record |-> v1, changeId |-> LocalId, sequence |-> 1]>>)}
=============================================================================
