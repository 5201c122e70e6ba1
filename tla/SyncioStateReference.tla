------------------------- MODULE SyncioStateReference -------------------------
(***************************************************************************)
(* The functions of SyncioState written loop by loop, as index.js and      *)
(* wal.js run them, and their agreement on every log of bounded length.    *)
(*                                                                         *)
(* A behaviour builds a log one entry at a time, from any checkpoint the   *)
(* engine could have of it.                                                *)
(***************************************************************************)
EXTENDS SyncioState

CONSTANTS Database, MaxEntries

VARIABLES
  entries,      \* a log
  checkpoints   \* checkpoints[n]: the state the loops give after n - 1 entries

vars == <<entries, checkpoints>>

-----------------------------------------------------------------------------
ApplyEvent(docs, event) == [docs EXCEPT ![event.key] = event.record]

\* Variant: an id is forgotten with any change that carries it.
ForgetAlways(ids, change) ==
  IF change.changeId \in RemoteIds THEN [ids EXCEPT ![change.changeId] = 0] ELSE ids

\* The loop of pruneChangeMetadata over the changes it removes.
ForgetChange(ids, change) ==
  IF change.changeId \in RemoteIds /\ ids[change.changeId] = change.sequence
  THEN [ids EXCEPT ![change.changeId] = 0] ELSE ids

Prune(state) ==
  IF Len(state.changes) <= Retention THEN state
  ELSE LET excess == Len(state.changes) - Retention
       IN [state EXCEPT
             !.changes = SubSeq(@, excess + 1, Len(@)),
             !.appliedChangeIds = FoldLeft(ForgetChange, @, SubSeq(state.changes, 1, excess))]

\* Push an event and note its id.
PushEvent(state, event) ==
  [state EXCEPT
     !.changes = Append(@, event),
     !.appliedChangeIds = IF event.changeId \in RemoteIds
                          THEN [@ EXCEPT ![event.changeId] = event.sequence] ELSE @]

\* #appendChange: one event, pruned at once.
AppendChange(state, event) ==
  Prune(PushEvent([state EXCEPT !.sequence = @ + 1], event))

\* One iteration of replayWal: a whole entry, pruned at its end.
ReplayEvent(state, event) ==
  PushEvent([state EXCEPT !.docs = ApplyEvent(@, event)], event)

ReplayEntry(state, entry) ==
  Prune([FoldLeft(ReplayEvent, state, entry.events)
           EXCEPT !.sequence = entry.resultSequence])

-----------------------------------------------------------------------------
Init ==
  /\ entries = << >>
  /\ checkpoints = <<Fresh(Database)>>

EntryAfter(state, changes) ==
  [databaseId |-> Database, baseSequence |-> state.sequence,
   resultSequence |-> state.sequence + Len(changes),
   events |-> Stamp(changes, state.sequence)]

Grow ==
  /\ Len(entries) < MaxEntries
  /\ \E n \in 1..2 : \E changes \in [1..n -> Changes] :
       LET state == Last(checkpoints)
           entry == EntryAfter(state, changes)
       IN /\ entries' = Append(entries, entry)
          /\ checkpoints' = Append(checkpoints, ReplayEntry(state, entry))

Next == Grow

Spec == Init /\ [][Next]_vars

-----------------------------------------------------------------------------
\* From every checkpoint, replaying what comes after it gives the state the
\* loop of replayWal gives: documents, retained changes and applied ids, though
\* the loop prunes after every entry and ReplayWal once.
ReplayAgrees ==
  \A n \in DOMAIN checkpoints :
    /\ CanReplay(checkpoints[n], ListAfter(entries, checkpoints[n].sequence))
    /\ ReplayWal(checkpoints[n], ListAfter(entries, checkpoints[n].sequence))
         = Last(checkpoints)

\* Committing the same events one by one (#appendChange prunes after each)
\* gives the history replay rebuilds from the log.
CommitAgreesWithReplay ==
  \A n \in DOMAIN entries :
    LET committed == FoldLeft(AppendChange, checkpoints[n], entries[n].events)
    IN /\ [committed EXCEPT !.docs = checkpoints[n + 1].docs] = checkpoints[n + 1]
       /\ RecordEvents(checkpoints[n], entries[n].events) = committed

\* The filter of listAfter, at every sequence, for every suffix of the log.
FilterAgrees ==
  LET last == Last(checkpoints).sequence
  IN \A n \in 1..(Len(entries) + 1) : \A s \in 0..last :
       LET wal == SubSeq(entries, n, Len(entries))
       IN ListAfter(wal, s) = SelectSeq(wal, LAMBDA e : e.resultSequence > s)

\* changesSince filters the retained changes in order and cuts the result, for
\* every cursor, scope and limit.
ChangesAgree ==
  LET state == Last(checkpoints)
  IN \A c \in 0..state.sequence : \A scope \in SUBSET Keys \ {{}} : \A limit \in 1..2 :
       LET filtered == SelectSeq(state.changes,
                                 LAMBDA e : e.sequence > c /\ e.key \in scope)
       IN ChangesSince(state, c, scope, limit)
            = SubSeq(filtered, 1, IF Len(filtered) < limit THEN Len(filtered) ELSE limit)

\* An id is known exactly while the change that recorded it last is retained.
AppliedIdsAreRetained ==
  \A n \in DOMAIN checkpoints : \A r \in RemoteIds :
    LET changes == checkpoints[n].changes
        hits == {i \in DOMAIN changes : changes[i].changeId = r}
    IN checkpoints[n].appliedChangeIds[r]
         = IF hits = {} THEN 0 ELSE changes[Max(hits)].sequence

\* The closed forms the engine's model is built from are the loops of the code,
\* whatever checkpoint and log they start from (index.js:444-500, wal.js:22).
ClosedFormsAgree == ReplayAgrees /\ CommitAgreesWithReplay /\ FilterAgrees /\ ChangesAgree
=============================================================================
