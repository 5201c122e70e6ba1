----------------------------- MODULE DurableStore -----------------------------
(***************************************************************************)
(* What the engine promises its users: one store on disk, and one write at *)
(* a time that is asked for and then happens as a whole or not at all.     *)
(* Nothing else changes the store: a write that was refused never takes    *)
(* effect later, what is committed never goes back, and the store can      *)
(* always be read.  Observers follow the sequence of commits without       *)
(* running ahead of it.  Checkpoints, log compaction, crashes and restarts *)
(* are not there to be seen.                                               *)
(***************************************************************************)
EXTENDS Integers, FiniteSets

CONSTANTS
  Keys, Records, NoRecord, Watchers,
  Backups  \* the documents and the sequence the store may be replaced with

VARIABLES
  docs, sequence,  \* the committed store
  requests,        \* the write under way, as what the store will be: none or one
  cursor           \* how far each observer has come

vars == <<docs, sequence, requests, cursor>>

Init ==
  /\ docs = [k \in Keys |-> NoRecord]
  /\ sequence = 0
  /\ requests = {}
  /\ cursor = [w \in Watchers |-> 0]

\* A write makes one or more events, each of which changes at most one key.
Writes(r) ==
  /\ r.docs \in [Keys -> Records]
  /\ r.sequence > sequence
  /\ Cardinality({k \in Keys : r.docs[k] # docs[k]}) <= r.sequence - sequence

Ask ==
  /\ requests = {}
  /\ \E r \in requests' : requests' = {r} /\ (Writes(r) \/ r \in Backups)
  /\ UNCHANGED <<docs, sequence, cursor>>

\* The store becomes exactly what was asked for.
Commit ==
  /\ requests = {[docs |-> docs', sequence |-> sequence']}
  /\ requests' = {}
  /\ UNCHANGED cursor

\* The write is over without effect, for good.
Refuse ==
  /\ requests # {} /\ requests' = {}
  /\ UNCHANGED <<docs, sequence, cursor>>

\* Observers catch up with what is committed.
Observe(w) ==
  /\ cursor'[w] \in (cursor[w] + 1)..sequence
  /\ cursor' = [cursor EXCEPT ![w] = cursor'[w]]
  /\ UNCHANGED <<docs, sequence, requests>>

Next == Ask \/ Commit \/ Refuse \/ \E w \in Watchers : Observe(w)

Spec == Init /\ [][Next]_vars
=============================================================================
