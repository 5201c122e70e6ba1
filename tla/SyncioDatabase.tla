---------------------------- MODULE SyncioDatabase ----------------------------
(***************************************************************************)
(* The embedded engine: src/src/index.js over src/src/wal.js.              *)
(*                                                                         *)
(* One process owns the database file, its backup and its write-ahead log. *)
(* Writes run one at a time on writeQueue; every await inside a write is a *)
(* point where subscribers, close() or a crash may come in between, so a   *)
(* write is several steps here: prepare the draft, write the WAL line,     *)
(* sync it and publish the state, checkpoint, emit the events.  A request  *)
(* is chosen when it reaches the head of the queue: the closures on        *)
(* writeQueue read no state before they run.                               *)
(*                                                                         *)
(* Faults names what the environment may do: "crash" stops the process,    *)
(* "tear" leaves part of a line, "append" and "sync" fail a WAL append     *)
(* before and after its line is written, "checkpoint" fails any step of a  *)
(* checkpoint, "corrupt" makes the primary checkpoint unparsable;          *)
(* "restore" lets crashes and failures hit replaceState, too, after which  *)
(* checkpoint and log may belong to different states.                      *)
(***************************************************************************)
EXTENDS SyncioState

CONSTANTS
  Self,             \* databaseId a new database gets
  CheckpointEvery,  \* commits between two automatic checkpoints
  RemoteChanges,    \* replication changes other replicas may deliver
  Resolvers,        \* whose record a conflict resolver returns
  Replacements,     \* states replaceState may be called with
  Operations,       \* requests the application makes
  WritesAfterClose, \* whether it makes requests after close()
  Watchers, Scope,  \* change-stream subscribers; the keys each one watches
  ReplayLimit,      \* how many changes watchChanges replays at most
  Faults, MaxFaults,
  MaxSequence,
  Absent, Unreadable, \* contents of a checkpoint file that is no state
  BadLine           \* a WAL line that does not parse

ASSUME EngineAssumption ==
  /\ IsFiniteSet(Keys)
  /\ Self \in DatabaseIds
  /\ CheckpointEvery \in Nat \ {0}
  /\ ReplayLimit \in Nat \ {0}
  /\ MaxSequence \in Nat /\ MaxFaults \in Nat
  /\ Scope \in [Watchers -> SUBSET Keys]
  /\ RemoteChanges \subseteq [key : Keys, record : Records, changeId : RemoteIds]
  /\ Replacements \subseteq States
  /\ \A s \in Replacements : s.sequence = Len(s.changes)
  /\ Resolvers \subseteq {"incoming", "current"}
  /\ WritesAfterClose \in BOOLEAN
  /\ Absent \notin States /\ Unreadable \notin States /\ BadLine \notin Entries
  /\ Absent # Unreadable

Writers == {"writer", "closer"}   \* who may be running a checkpoint
Steps == {"none", "primary", "backup", "compact"}
Phases == {"down", "refused", "create", "idle", "append", "sync",
           "checkpoint", "replace", "publish"}

VARIABLES
  \* process memory
  phase,     \* where the running write (or open) is
  mem,       \* this.state
  entries,   \* this.wal.entries
  commits,   \* this.commitsSinceCheckpoint
  degraded,  \* this.lastCheckpointError is set
  draft,     \* the state the running write will commit
  events,    \* the events of the running write
  step,      \* the next step of each checkpoint in progress
  image,     \* the state that checkpoint writes
  closing,   \* close() was called
  \* disk
  primary,   \* the checkpoint file
  backup,    \* its .bak mirror
  lines,     \* the terminated lines of the WAL
  torn,      \* the WAL ends with an unterminated fragment
  \* change-stream subscribers; a cursor outlives the process
  cursor, attached, pending,
  \* history: every committed event; what each subscriber was given, from where
  log, received, origin,
  faults     \* faults injected so far

memory == <<mem, entries, commits, degraded>>
write == <<draft, events>>
checkpoints == <<step, image>>
disk == <<primary, backup, lines, torn>>
streams == <<cursor, attached, pending, received, origin>>
vars == <<phase, memory, write, checkpoints, closing, disk, streams, log, faults>>

Up == phase \notin {"down", "refused", "create"}

TypeOK ==
  /\ phase \in Phases
  /\ mem \in States /\ draft \in States
  /\ entries \in Seq(Entries) /\ events \in Seq(Events)
  /\ commits \in Nat /\ degraded \in BOOLEAN /\ closing \in BOOLEAN
  /\ step \in [Writers -> Steps] /\ image \in [Writers -> States]
  /\ primary \in States \cup {Absent, Unreadable}
  /\ backup \in States \cup {Absent}
  /\ lines \in Seq(Entries \cup {BadLine}) /\ torn \in BOOLEAN
  /\ cursor \in [Watchers -> Nat] /\ origin \in [Watchers -> Nat]
  /\ attached \in [Watchers -> BOOLEAN]
  /\ pending \in [Watchers -> Seq(Events)]
  /\ received \in [Watchers -> Seq(Events)]
  /\ log \in Seq(Events)
  /\ faults \in 0..MaxFaults

Init ==
  /\ phase = "down"
  /\ mem = Fresh(Self) /\ draft = Fresh(Self)
  /\ entries = << >> /\ events = << >> /\ lines = << >> /\ log = << >>
  /\ commits = 0 /\ degraded = FALSE /\ closing = FALSE /\ torn = FALSE
  /\ step = [a \in Writers |-> "none"] /\ image = [a \in Writers |-> Fresh(Self)]
  /\ primary = Absent /\ backup = Absent
  /\ cursor = [w \in Watchers |-> 0] /\ origin = [w \in Watchers |-> 0]
  /\ attached = [w \in Watchers |-> FALSE]
  /\ pending = [w \in Watchers |-> << >>] /\ received = [w \in Watchers |-> << >>]
  /\ faults = 0

Fault(kind) == kind \in Faults /\ faults < MaxFaults /\ faults' = faults + 1

RestoreMayFail == phase = "replace" => "restore" \in Faults

-----------------------------------------------------------------------------
\* Requests at the head of the write queue.

Ready == phase = "idle" /\ (closing => WritesAfterClose)

\* The draft of a write: its documents and the events it appends.
Propose(docs, changes) ==
  /\ mem.sequence + Len(changes) <= MaxSequence
  /\ events' = Stamp(changes, mem.sequence)
  /\ draft' = RecordEvents([mem EXCEPT !.docs = docs], events')
  /\ phase' = "append"
  /\ UNCHANGED <<memory, checkpoints, closing, disk, streams, log, faults>>

LocalChange(k, record) == [key |-> k, record |-> record, changeId |-> LocalId]

\* insert, upsert and remove; removing nothing makes no event.
Mutate(k, record) ==
  /\ Ready /\ "mutate" \in Operations
  /\ record = NoRecord => mem.docs[k] # NoRecord
  /\ Propose([mem.docs EXCEPT ![k] = record], <<LocalChange(k, record)>>)

\* One event for every key whose record differs; their order (the code sorts
\* collection names and ids) is left open.
Transaction(docs) ==
  LET changed == {k \in Keys : docs[k] # mem.docs[k]}
      n == Cardinality(changed)
  IN /\ Ready /\ "transaction" \in Operations
     /\ n > 0
     /\ \E order \in [1..n -> changed] :
          /\ \A i, j \in 1..n : order[i] = order[j] => i = j
          /\ Propose(docs, [i \in 1..n |-> LocalChange(order[i], docs[order[i]])])

Resolved(current, incoming) ==
  IF incoming = NoRecord THEN {NoRecord}
  ELSE (IF "incoming" \in Resolvers THEN {incoming} ELSE {})
       \cup (IF "current" \in Resolvers THEN {current} \ {NoRecord} ELSE {})

\* Variant: the duplicate check of applyReplicationChange is gone.
ApplyUnchecked(change) ==
  /\ Ready /\ "apply" \in Operations
  /\ \E record \in Resolved(mem.docs[change.key], change.record) :
       Propose([mem.docs EXCEPT ![change.key] = record], <<change>>)

\* The documents take the resolver's record, the event keeps the incoming one.
ApplyReplicationChange(change) ==
  /\ Ready /\ "apply" \in Operations
  /\ mem.appliedChangeIds[change.changeId] = 0
  /\ \E record \in Resolved(mem.docs[change.key], change.record) :
       Propose([mem.docs EXCEPT ![change.key] = record], <<change>>)

-----------------------------------------------------------------------------
\* WriteAheadLog.append and #commitDraft.

Entry == [databaseId |-> mem.databaseId, baseSequence |-> mem.sequence,
          resultSequence |-> draft.sequence, events |-> events]

\* The append is rejected: the draft is dropped, the queue goes on.
Reject == phase' = "idle" /\ draft' = mem /\ events' = << >>

\* The line joins whatever fragment the file ends with.
WriteLine ==
  /\ phase = "append"
  /\ lines' = Append(lines, IF torn THEN BadLine ELSE Entry)
  /\ torn' = FALSE
  /\ phase' = "sync"
  /\ UNCHANGED <<memory, write, checkpoints, closing, primary, backup, streams, log, faults>>

\* Variant: the write changes the live state before the append is durable.
AppendFailsDirty ==
  /\ phase = "append" /\ Fault("append")
  /\ mem' = draft /\ phase' = "idle" /\ draft' = draft /\ events' = << >>
  /\ UNCHANGED <<entries, commits, degraded, checkpoints, closing, disk, streams, log>>

AppendFails ==
  /\ phase = "append" /\ Fault("append")
  /\ Reject
  /\ UNCHANGED <<memory, checkpoints, closing, disk, streams, log>>

WriteTears ==
  /\ phase = "append" /\ Fault("tear")
  /\ torn' = TRUE
  /\ Reject
  /\ UNCHANGED <<memory, checkpoints, closing, primary, backup, lines, streams, log>>

\* An unsynced line is on disk whole, or is gone; the fragment it had joined stays.
Unsynced(kept) ==
  /\ lines' = IF kept THEN lines ELSE Front(lines)
  /\ torn' = (~kept /\ Last(lines) = BadLine)

SyncFails ==
  /\ phase = "sync" /\ Fault("sync")
  /\ \E kept \in BOOLEAN : Unsynced(kept)
  /\ Reject
  /\ UNCHANGED <<memory, checkpoints, closing, primary, backup, streams, log>>

\* The writer starts to write state s to the checkpoint file.
StartImage(s) ==
  /\ step' = [step EXCEPT !["writer"] = "primary"]
  /\ image' = [image EXCEPT !["writer"] = s]

SyncCommit ==
  /\ phase = "sync"
  /\ entries' = Append(entries, Entry)
  /\ mem' = draft
  /\ log' = log \o events
  /\ commits' = commits + 1
  /\ IF commits + 1 >= CheckpointEvery
     THEN phase' = "checkpoint" /\ StartImage(draft)
     ELSE phase' = "publish" /\ UNCHANGED checkpoints
  /\ UNCHANGED <<degraded, write, closing, disk, streams, faults>>

\* Variant: watchers hear of the events before the append is synced.
PublishEarly ==
  /\ phase \in {"sync", "publish"}
  /\ pending' = [w \in Watchers |->
                   IF attached[w] THEN pending[w] \o events ELSE pending[w]]
  /\ IF phase = "publish" THEN events' = << >> /\ phase' = "idle"
     ELSE UNCHANGED <<events, phase>>
  /\ UNCHANGED <<memory, draft, checkpoints, closing, disk, cursor, attached,
                 received, origin, log, faults>>

\* Variant: one microtask per commit, with its last event.
PublishLastOnly ==
  /\ phase = "publish"
  /\ pending' = [w \in Watchers |->
                   IF attached[w] THEN Append(pending[w], Last(events)) ELSE pending[w]]
  /\ events' = << >>
  /\ phase' = "idle"
  /\ UNCHANGED <<memory, draft, checkpoints, closing, disk, cursor, attached,
                 received, origin, log, faults>>

\* #publish queues one microtask per event and attached listener.
Publish ==
  /\ phase = "publish"
  /\ pending' = [w \in Watchers |->
                   IF attached[w] THEN pending[w] \o events ELSE pending[w]]
  /\ events' = << >>
  /\ phase' = "idle"
  /\ UNCHANGED <<memory, draft, checkpoints, closing, disk, cursor, attached,
                 received, origin, log, faults>>

-----------------------------------------------------------------------------
\* Checkpoints: atomicWriteJson of the primary, then of the backup, then WAL
\* compaction.  "writer" runs on the write queue; "closer" is close(), whose
\* checkpoint does not.

Checkpoint ==
  /\ Ready /\ "checkpoint" \in Operations
  /\ commits > 0
  /\ phase' = "checkpoint" /\ StartImage(mem)
  /\ UNCHANGED <<memory, write, closing, disk, streams, log, faults>>

ReplaceState(s) ==
  /\ Ready /\ "replace" \in Operations
  /\ phase' = "replace" /\ StartImage(s)
  /\ UNCHANGED <<memory, write, closing, disk, streams, log, faults>>

Close ==
  /\ phase = "idle" /\ ~closing /\ "close" \in Operations
  /\ closing' = TRUE
  /\ IF commits > 0
     THEN /\ step' = [step EXCEPT !["closer"] = "primary"]
          /\ image' = [image EXCEPT !["closer"] = mem]
     ELSE UNCHANGED checkpoints
  /\ UNCHANGED <<phase, memory, write, disk, streams, log, faults>>

\* Variant: the end of a checkpoint does not let the writer go on.
FinishStuck(a) == step' = [step EXCEPT ![a] = "none"] /\ UNCHANGED phase

\* Variant: the end of a checkpoint ends the write before it has published.
FinishUnpublished(a) ==
  /\ step' = [step EXCEPT ![a] = "none"]
  /\ IF a = "closer" THEN UNCHANGED phase ELSE phase' = "idle"

\* The checkpoint of a is over: the writer goes on with its write.
Finish(a) ==
  /\ step' = [step EXCEPT ![a] = "none"]
  /\ IF a = "closer" THEN UNCHANGED phase
     ELSE phase' = IF events = << >> THEN "idle" ELSE "publish"

\* Variant: the WAL is compacted before the backup is written.
WritePrimaryOnly(a) ==
  /\ step[a] = "primary"
  /\ primary' = image[a]
  /\ step' = [step EXCEPT ![a] = "compact"]
  /\ UNCHANGED <<phase, memory, write, image, closing, backup, lines, torn,
                 streams, log, faults>>

WritePrimary(a) ==
  /\ step[a] = "primary"
  /\ primary' = image[a]
  /\ step' = [step EXCEPT ![a] = "backup"]
  /\ UNCHANGED <<phase, memory, write, image, closing, backup, lines, torn,
                 streams, log, faults>>

\* After the backup a replaced state becomes the state in memory.
WriteBackup(a) ==
  /\ step[a] = "backup" /\ phase # "create"
  /\ backup' = image[a]
  /\ step' = [step EXCEPT ![a] = "compact"]
  /\ IF a = "writer" /\ phase = "replace"
     THEN mem' = image[a] /\ draft' = image[a] /\ log' = image[a].changes
     ELSE UNCHANGED <<mem, draft, log>>
  /\ UNCHANGED <<phase, entries, commits, degraded, events, image, closing,
                 primary, lines, torn, streams, faults>>

\* What stays in the WAL: later entries after a checkpoint, nothing after
\* replaceState.
Remaining(a) ==
  IF a = "writer" /\ phase = "replace" THEN << >>
  ELSE ListAfter(entries, image[a].sequence)

\* Variant: the counter is reduced by the entries removed.
CompactCountsDown(a) ==
  /\ step[a] = "compact" /\ phase # "sync"
  /\ lines' = Remaining(a) /\ torn' = FALSE
  /\ entries' = Remaining(a)
  /\ commits' = commits - (Len(entries) - Len(Remaining(a)))
  /\ degraded' = FALSE
  /\ Finish(a)
  /\ UNCHANGED <<mem, write, image, closing, primary, backup, streams, log, faults>>

\* The WAL queue runs a compaction between appends, not inside one.
Compact(a) ==
  /\ step[a] = "compact" /\ phase # "sync"
  /\ lines' = Remaining(a) /\ torn' = FALSE
  /\ entries' = Remaining(a)
  /\ commits' = Len(Remaining(a))
  /\ degraded' = FALSE
  /\ Finish(a)
  /\ UNCHANGED <<mem, write, image, closing, primary, backup, streams, log, faults>>

\* Variant: the WAL is compacted whatever became of the checkpoint.
CheckpointFailsCompacted(a) ==
  /\ step[a] # "none" /\ phase \notin {"create", "sync"} /\ Fault("checkpoint")
  /\ lines' = Remaining(a) /\ torn' = FALSE
  /\ Finish(a)
  /\ UNCHANGED <<memory, write, image, closing, primary, backup, streams, log>>

\* An I/O error in any step.  Automatic checkpoints and WAL resets record it,
\* explicit ones throw it; nothing in memory changes, though a compaction may
\* already have replaced the file.
CheckpointFails(a) ==
  /\ step[a] # "none" /\ phase # "create"
  /\ Fault("checkpoint") /\ RestoreMayFail
  /\ \/ UNCHANGED <<lines, torn>>
     \/ /\ step[a] = "compact" /\ phase # "sync"
        /\ lines' = Remaining(a) /\ torn' = FALSE
  /\ degraded' = IF a = "writer" /\ (events # << >> \/ (phase = "replace" /\ step[a] = "compact"))
                 THEN TRUE ELSE degraded
  /\ Finish(a)
  /\ UNCHANGED <<mem, entries, commits, write, image, closing, primary, backup,
                 streams, log>>

-----------------------------------------------------------------------------
\* Starting and stopping.

StopProcess ==
  /\ phase' = "down"
  /\ mem' = Fresh(Self) /\ draft' = Fresh(Self)
  /\ entries' = << >> /\ events' = << >> /\ commits' = 0
  /\ degraded' = FALSE /\ closing' = FALSE
  /\ step' = [a \in Writers |-> "none"]
  /\ image' = [a \in Writers |-> Fresh(Self)]
  /\ attached' = [w \in Watchers |-> FALSE]
  /\ pending' = [w \in Watchers |-> << >>]
  /\ UNCHANGED <<primary, backup, cursor, received, origin, log>>

\* The process ends after close().
Exit ==
  /\ closing /\ phase = "idle" /\ step["closer"] = "none"
  /\ StopProcess
  /\ UNCHANGED <<lines, torn, faults>>

Crash ==
  /\ phase # "down"
  /\ Fault("crash") /\ RestoreMayFail
  /\ StopProcess
  /\ IF phase = "sync"
     THEN \/ \E kept \in BOOLEAN : Unsynced(kept)
          \/ "tear" \in Faults /\ lines' = Front(lines) /\ torn' = TRUE
     ELSE UNCHANGED <<lines, torn>>

CorruptPrimary ==
  /\ phase = "down" /\ primary \in States /\ backup \in States
  /\ Fault("corrupt")
  /\ primary' = Unreadable
  /\ UNCHANGED <<phase, memory, write, checkpoints, closing, backup, lines, torn,
                 streams, log>>

\* readWalEntries: every terminated line parses, entries follow each other.
ReadableWal(wal) == BadLine \notin ToSet(wal) /\ Contiguous(wal)

\* Recovery of checkpoint s with the lines of a log.
Recoverable(s, wal) == ReadableWal(wal) /\ CanReplay(s, ListAfter(wal, s.sequence))
Recovered(s, wal) == ReplayWal(s, ListAfter(wal, s.sequence))

\* The history after recovery: events on disk beyond it are commits whose
\* caller never heard of them.
Extended(s) ==
  LET found == s.changes \o EventsOf(ListAfter(lines, s.sequence))
      new == Recovered(s, lines).sequence - Len(log)
      kept == IF new > Len(found) THEN 0 ELSE Len(found) - new
  IN IF new < 0 THEN SubSeq(log, 1, Len(log) + new)
     ELSE log \o SubSeq(found, kept + 1, Len(found))

\* Read the WAL over checkpoint s and start, or refuse to.
Load(s) ==
  IF Recoverable(s, lines)
  THEN /\ phase' = "idle"
       /\ mem' = Recovered(s, lines) /\ draft' = mem'
       /\ entries' = lines
       /\ commits' = Len(ListAfter(lines, s.sequence))
       /\ log' = Extended(s)
  ELSE phase' = "refused" /\ UNCHANGED <<mem, draft, entries, commits, log>>

\* readStateWithRecovery finds a readable checkpoint.
Open ==
  /\ phase \in {"down", "refused"} /\ primary # Absent
  /\ LET source == IF primary = Unreadable THEN backup ELSE primary
     IN Load(source)
  /\ UNCHANGED <<degraded, events, checkpoints, closing, disk, streams, faults>>

\* No file yet: write a first checkpoint and its backup, then load it.
CreateFile ==
  /\ phase = "down" /\ primary = Absent
  /\ phase' = "create" /\ StartImage(Fresh(Self))
  /\ UNCHANGED <<memory, write, closing, disk, streams, log, faults>>

CreateBackup ==
  /\ phase = "create" /\ step["writer"] = "backup"
  /\ backup' = image["writer"]
  /\ step' = [step EXCEPT !["writer"] = "none"]
  /\ Load(image["writer"])
  /\ UNCHANGED <<degraded, events, image, closing, primary, lines, torn, streams, faults>>

CreateFails ==
  /\ phase = "create" /\ Fault("checkpoint")
  /\ StopProcess
  /\ UNCHANGED <<lines, torn>>

-----------------------------------------------------------------------------
\* Change streams: watchChanges and the listeners it attaches.

\* Give w the events e of its scope, in order.
Receive(w, e) ==
  /\ received' = [received EXCEPT ![w] = @ \o e]
  /\ cursor' = [cursor EXCEPT ![w] = IF e = << >> THEN @ ELSE Last(e).sequence]

Subscribe(w) ==
  /\ Up /\ ~attached[w] /\ Resumable(mem, cursor[w])
  /\ attached' = [attached EXCEPT ![w] = TRUE]
  /\ Receive(w, ChangesSince(mem, cursor[w], Scope[w], ReplayLimit))
  /\ UNCHANGED <<phase, memory, write, checkpoints, closing, disk, pending, origin,
                 log, faults>>

\* The cursor is refused; the client takes a snapshot and starts from there.
Reseed(w) ==
  /\ Up /\ ~attached[w] /\ ~Resumable(mem, cursor[w])
  /\ cursor' = [cursor EXCEPT ![w] = mem.sequence]
  /\ origin' = [origin EXCEPT ![w] = mem.sequence]
  /\ received' = [received EXCEPT ![w] = << >>]
  /\ UNCHANGED <<phase, memory, write, checkpoints, closing, disk, attached, pending,
                 log, faults>>

\* Variant: the listener does not compare an event with the last one it gave.
DeliverUnchecked(w) ==
  /\ pending[w] # << >>
  /\ LET e == pending[w][1]
     IN IF e.key \in Scope[w] THEN Receive(w, <<e>>) ELSE UNCHANGED <<cursor, received>>
  /\ pending' = [pending EXCEPT ![w] = Tail(@)]
  /\ UNCHANGED <<phase, memory, write, checkpoints, closing, disk, attached, origin,
                 log, faults>>

\* The microtask runs the listener, which skips what it has already given.
Deliver(w) ==
  /\ pending[w] # << >>
  /\ LET e == pending[w][1]
     IN IF e.sequence > cursor[w] /\ e.key \in Scope[w]
        THEN Receive(w, <<e>>)
        ELSE UNCHANGED <<cursor, received>>
  /\ pending' = [pending EXCEPT ![w] = Tail(@)]
  /\ UNCHANGED <<phase, memory, write, checkpoints, closing, disk, attached, origin,
                 log, faults>>

\* The listener is inactive from here on: what is pending for it is ignored.
Unsubscribe(w) ==
  /\ attached[w]
  /\ attached' = [attached EXCEPT ![w] = FALSE]
  /\ pending' = [pending EXCEPT ![w] = << >>]
  /\ UNCHANGED <<phase, memory, write, checkpoints, closing, disk, cursor, received,
                 origin, log, faults>>

-----------------------------------------------------------------------------
Request ==
  \/ \E k \in Keys, record \in Records : Mutate(k, record)
  \/ \E docs \in [Keys -> Records] : Transaction(docs)
  \/ \E change \in RemoteChanges : ApplyReplicationChange(change)
  \/ \E s \in Replacements : ReplaceState(s)
  \/ Checkpoint \/ Close

Continue ==
  \/ WriteLine \/ SyncCommit \/ Publish
  \/ \E a \in Writers : WritePrimary(a) \/ WriteBackup(a) \/ Compact(a)
  \/ CreateBackup

Fail ==
  \/ AppendFails \/ WriteTears \/ SyncFails \/ CreateFails
  \/ \E a \in Writers : CheckpointFails(a)
  \/ Crash \/ CorruptPrimary

Watch ==
  \E w \in Watchers : Subscribe(w) \/ Reseed(w) \/ Deliver(w) \/ Unsubscribe(w)

Next == Request \/ Continue \/ Fail \/ Watch \/ Open \/ CreateFile \/ Exit

Spec == Init /\ [][Next]_vars

\* The event loop runs what it has started: I/O completes, microtasks run.
Fairness ==
  /\ WF_vars(Continue)
  /\ \A w \in Watchers : WF_vars(Deliver(w))

FairSpec == Spec /\ Fairness
-----------------------------------------------------------------------------
\* Properties.

\* What is certain to survive: an unsynced last line is not.
SyncedLines == IF phase = "sync" THEN Front(lines) ELSE lines

\* Whatever the environment did, the database opens again: open() never
\* answers SYNCIO_CORRUPT_WAL, a sequence gap or a corrupted database.
AlwaysOpens == phase # "refused"

\* At every await of every operation, recovery from what is on disk, over the
\* checkpoint and over its backup, would give exactly the state in memory:
\* documents, sequence, retained changes and applied change ids.
RecoveryMatchesMemory ==
  Up /\ phase # "replace" =>
    \A s \in {primary, backup} \ {Absent, Unreadable} :
      Recoverable(s, SyncedLines) /\ Recovered(s, SyncedLines) = mem

\* The state in memory carries the committed history: nothing acknowledged is
\* lost, renumbered or replaced by recovery, and the retained changes are the
\* newest ones.
HistoryMatches ==
  Up => /\ mem.sequence = Len(log)
        /\ \A n \in DOMAIN log : log[n].sequence = n
        /\ mem.changes =
             SubSeq(log, IF Len(log) > Retention THEN Len(log) - Retention + 1 ELSE 1, Len(log))

\* The documents are those the committed events describe, before and after
\* recovery alike.
DocumentsMatch == Up => mem.docs = ApplyEvents([k \in Keys |-> NoRecord], log)

\* No observer hears of an event that a crash could take back: what subscribers
\* were given is in the checkpoint or in a synced line of the log.
ObservedIsDurable ==
  Up /\ primary \in States =>
    \A w \in Watchers :
      cursor[w] <= Max({primary.sequence} \cup
                       {l.resultSequence : l \in ToSet(SyncedLines) \ {BadLine}})

\* A replication change is applied again only after retention dropped it.
DedupWindow ==
  \A i, j \in DOMAIN log :
    i < j /\ log[i].changeId = log[j].changeId /\ log[i].changeId \in RemoteIds
      => j - i > Retention

\* The changes that w watches, from where it started to its cursor.
Watched(w) == {n \in (origin[w] + 1)..cursor[w] : log[n].key \in Scope[w]}

\* A subscriber receives exactly the changes of its scope, in order, each once,
\* from where it started to its cursor: across replay, live delivery,
\* reconnection and restarts of the database.
StreamExact ==
  \A w \in Watchers : cursor[w] <= Len(log) /\ received[w] = Pick(log, Watched(w))

\* Every committed change an attached subscriber has not received is queued for
\* it or about to be published: no gap between replay and live delivery.
NoMissedEvent ==
  \A w \in Watchers : attached[w] =>
    \A n \in (cursor[w] + 1)..Len(log) :
      log[n].key \in Scope[w] => log[n] \in ToSet(pending[w]) \cup ToSet(events)

\* A commit adds to the history and no step, recovery included, takes from it.
HistoryOnlyGrows ==
  [][Len(log) <= Len(log') /\ \A n \in DOMAIN log : log'[n] = log[n]]_log

\* Crashing inside replaceState leaves the old state or the new one.
ReplaceIsAtomic ==
  phase = "replace" /\ primary \in States =>
    /\ Recoverable(primary, lines)
    /\ Recovered(primary, lines) \in {mem, image["writer"]}

\* A write, checkpoint or open that starts comes to its end.
WritesSettle ==
  phase \notin {"idle", "down", "refused"} ~> phase \in {"idle", "down", "refused"}

\* A subscriber that stays attached receives every committed change it watches.
EventsArrive ==
  \A w \in Watchers : \A n \in 1..MaxSequence :
    (attached[w] /\ n <= Len(log) /\ log[n].key \in Scope[w])
      ~> (~attached[w] \/ cursor[w] >= n)

\* Recovery always works and gives the memory the process had, however a
\* commit, a checkpoint or a replacement was cut off (open, replayWal).
RecoveryIsExact == AlwaysOpens /\ RecoveryMatchesMemory

\* Memory is the history of commits in every part: sequence, retained changes
\* and documents, before and after recovery (#commitDraft, replayWal).
HistoryIsExact == HistoryMatches /\ DocumentsMatch

\* A subscriber is given its changes once and in order, and none is skipped
\* between replay and live delivery (watchChanges).
StreamsAreExact == StreamExact /\ NoMissedEvent

\* What no open gives back: no commit leads to it.
Lost == [docs |-> << >>, sequence |-> -1]

\* The store as its users find it: in memory while the engine runs, what open()
\* would recover while it does not.
Visible ==
  IF Up THEN mem
  ELSE IF primary = Absent THEN Fresh(Self)
  ELSE LET source == IF primary = Unreadable THEN backup ELSE primary
           recovered[new \in Seq(Events)] == ReplayEvents(source, new)
       IN IF Recoverable(source, lines)
          THEN recovered[EventsOf(ListAfter(lines, source.sequence))]
          ELSE Lost

Stored(s) == [docs |-> s.docs, sequence |-> s.sequence]

\* The write that is under way and not committed.
Asked ==
  CASE phase \in {"append", "sync"} -> {Stored(draft)}
    [] phase = "replace" /\ step["writer"] \in {"primary", "backup"} -> {Stored(image["writer"])}
    [] OTHER -> {}

Store == INSTANCE DurableStore
           WITH docs <- Visible.docs, sequence <- Visible.sequence, requests <- Asked,
                Backups <- {Stored(s) : s \in Replacements}

\* The engine implements DurableStore.  A write commits when its append is synced
\* (SyncCommit), when the process crashes before that but the whole line stays in
\* the file (Crash in "sync"), and a replacement when its backup is written; then
\* the store is what the write asked for, whole.  A failed append, or a crash that
\* loses the line, refuses the write for good.  Checkpoint, compaction, any other
\* crash, a restart and recovery, over either file, leave the store as it is, and
\* it can always be read.  Three things break the promise, each shown by a run of
\* its own or its comment, and are left out of the run of this property: the fault
\* "sync", whose refused line may stay in the file and take effect at the next open;
\* "tear" (FindTornTail); a resolver that keeps the local record (FindResolverReplay).
ImplementsDurableStore == Store!Spec
=============================================================================
