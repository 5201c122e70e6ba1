----------------------------- MODULE SyncioState -----------------------------
(***************************************************************************)
(* The data of the embedded engine (src/src/index.js, src/src/wal.js): the *)
(* database state, its ordered change events, the entries of the           *)
(* write-ahead log, and the functions the engine computes with them.       *)
(*                                                                         *)
(* A key stands for a collection name together with a record id; a record  *)
(* that is absent, and the record of a "remove" event, are NoRecord.       *)
(* "insert" and "upsert" events replay alike and are not told apart.  The  *)
(* changeId of a local write is a fresh random UUID nobody looks up again: *)
(* all of them are LocalId.  Recursion-free, so that proofs can use it;    *)
(* SyncioStateReference defines the same functions loop by loop.           *)
(***************************************************************************)
EXTENDS Integers, SequencesExt

CONSTANTS
  Keys,         \* (collection, id) pairs
  Vals,         \* record contents
  NoRecord,     \* no record under a key; the content of a remove event
  RemoteIds,    \* change ids that arrive from other replicas
  LocalId,      \* the change id of every local write
  DatabaseIds,  \* database identities
  Retention     \* changeRetention: how many changes the state retains

ASSUME NoRecordAssumption == NoRecord \notin Vals
ASSUME LocalIdAssumption == LocalId \notin RemoteIds
ASSUME RetentionAssumption == Retention \in Nat \ {0}

Records == Vals \cup {NoRecord}
ChangeIds == RemoteIds \cup {LocalId}

\* A change before it has a place in the history, and the event it becomes.
Changes == [key : Keys, record : Records, changeId : ChangeIds]
Events == [key : Keys, record : Records, changeId : ChangeIds, sequence : Nat]

\* appliedChangeIds[r] is the sequence at which r was applied, 0 when unknown.
States == [databaseId : DatabaseIds, docs : [Keys -> Records], sequence : Nat,
           changes : Seq(Events), appliedChangeIds : [RemoteIds -> Nat]]

Entries == [databaseId : DatabaseIds, baseSequence : Nat, resultSequence : Nat,
            events : Seq(Events)]

Fresh(id) == [databaseId |-> id, docs |-> [k \in Keys |-> NoRecord],
              sequence |-> 0, changes |-> << >>,
              appliedChangeIds |-> [r \in RemoteIds |-> 0]]

-----------------------------------------------------------------------------
\* Change history.

Stamp(changes, base) ==
  [i \in DOMAIN changes |->
     [key |-> changes[i].key, record |-> changes[i].record,
      changeId |-> changes[i].changeId, sequence |-> base + i]]

\* The documents after a sequence of events: the last event of a key decides.
ApplyEvents(docs, events) ==
  [k \in Keys |->
     LET hits == {i \in DOMAIN events : events[i].key = k}
     IN IF hits = {} THEN docs[k] ELSE events[Max(hits)].record]

\* Variant of pruneChangeMetadata that keeps the ids of dropped changes.
PruneKeepsIds(state) ==
  LET excess == Len(state.changes) - Retention
  IN IF excess <= 0 THEN state
     ELSE [state EXCEPT !.changes = SubSeq(@, excess + 1, Len(@))]

\* Keep the last Retention changes; an id is forgotten with the change that
\* recorded it, unless a later change recorded it again.
PruneChangeMetadata(state) ==
  LET excess == Len(state.changes) - Retention
      Dropped(r) == \E i \in 1..excess :
                       /\ state.changes[i].changeId = r
                       /\ state.changes[i].sequence = state.appliedChangeIds[r]
  IN IF excess <= 0 THEN state
     ELSE [state EXCEPT
             !.changes = SubSeq(@, excess + 1, Len(@)),
             !.appliedChangeIds = [r \in RemoteIds |-> IF Dropped(r) THEN 0 ELSE @[r]]]

\* Extend a state's history by events; its documents are the caller's.
RecordEvents(state, events) ==
  PruneChangeMetadata(
    [state EXCEPT
       !.sequence = @ + Len(events),
       !.changes = @ \o events,
       !.appliedChangeIds =
          [r \in RemoteIds |->
             LET hits == {i \in DOMAIN events : events[i].changeId = r}
             IN IF hits = {} THEN @[r] ELSE events[Max(hits)].sequence]])

-----------------------------------------------------------------------------
\* Write-ahead log.

\* The last entry of a contiguous log that a set of indices holds, 0 if none.
Latest(indices) == Max(indices \cup {0})

\* Variant of listAfter that also returns the entry that ends at s.
ListFrom(entries, s) ==
  SubSeq(entries, Latest({i \in DOMAIN entries : entries[i].resultSequence < s}) + 1,
         Len(entries))

\* The entries that end after sequence s: the code filters a log it has found
\* contiguous, so they are a suffix of it.
ListAfter(entries, s) ==
  SubSeq(entries, Latest({i \in DOMAIN entries : entries[i].resultSequence <= s}) + 1,
         Len(entries))

Contiguous(entries) ==
  \A i \in 1..(Len(entries) - 1) :
    entries[i + 1].baseSequence = entries[i].resultSequence

\* The events of contiguous entries, in order: the n-th one is in the last entry
\* that starts before it.
EventsOf(entries) ==
  IF entries = << >> THEN << >>
  ELSE LET base == entries[1].baseSequence
       IN [n \in 1..(entries[Len(entries)].resultSequence - base) |->
             LET i == Latest({j \in DOMAIN entries : entries[j].baseSequence < base + n})
             IN entries[i].events[(base + n) - entries[i].baseSequence]]

\* replayWal refuses entries of another database, a gap after the state it
\* starts from, and an entry whose events are not numbered from its base.
CanReplay(state, entries) ==
  /\ entries # << >> => entries[1].baseSequence = state.sequence
  /\ \A i \in DOMAIN entries :
       /\ entries[i].databaseId = state.databaseId
       /\ entries[i].resultSequence = entries[i].baseSequence + Len(entries[i].events)
       /\ \A j \in DOMAIN entries[i].events :
            entries[i].events[j].sequence = entries[i].baseSequence + j

\* Variant of replayWal that replays the history and forgets the documents.
ReplayHistoryOnly(state, entries) == RecordEvents(state, EventsOf(entries))

\* A state with events put into its documents and its history.
ReplayEvents(state, events) ==
  RecordEvents([state EXCEPT !.docs = ApplyEvents(@, events)], events)

ReplayWal(state, entries) == ReplayEvents(state, EventsOf(entries))

-----------------------------------------------------------------------------
\* Change streams.

\* The elements of s at the indices picked, in their order.
Pick(s, picked) ==
  [n \in 1..Cardinality(picked) |->
     s[CHOOSE i \in picked : Cardinality({j \in picked : j <= i}) = n]]

\* Variant of changesSince that returns the newest changes, not the oldest.
NewestSince(state, cursor, scope, limit) ==
  LET found == {i \in DOMAIN state.changes : /\ state.changes[i].sequence > cursor
                                             /\ state.changes[i].key \in scope}
  IN Pick(state.changes, {i \in found : Cardinality({j \in found : j >= i}) <= limit})

\* The first limit retained changes after a cursor, within a scope of keys.
ChangesSince(state, cursor, scope, limit) ==
  LET found == {i \in DOMAIN state.changes : /\ state.changes[i].sequence > cursor
                                             /\ state.changes[i].key \in scope}
  IN Pick(state.changes, {i \in found : Cardinality({j \in found : j <= i}) <= limit})

OldestRetained(state) ==
  IF state.changes = << >> THEN state.sequence + 1 ELSE state.changes[1].sequence

Resumable(state, cursor) ==
  cursor >= OldestRetained(state) - 1 /\ cursor <= state.sequence
=============================================================================
