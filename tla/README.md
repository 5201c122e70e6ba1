# Syncio: TLA+ models and proofs

This directory models the parts of Syncio whose correctness depends on the order
in which things happen: the embedded engine with its write-ahead log, checkpoints
and change streams; what is built on it or beside it (point-in-time recovery, indexes,
the storage core, the control plane, replication over HTTP, offline work); and the
two-phase commit that runs transactions across partitions. Every definition is a reading
of the code under `src/src`; `PROJECT.json` names the lines each one stands for.

Contents: [1 inventory](#1-the-system), [2 plan](#2-plan),
[3 the engine](#3-the-embedded-engine),
[4 commit across partitions](#4-transactions-across-partitions),
[5 the other components](#5-around-the-engine),
[6 runs](#6-runs-and-bounds),
[7 disagreements](#7-where-the-code-and-its-documents-disagree),
[8 proofs](#8-what-is-proved), [9 what is left out](#9-what-is-not-modelled).

## 1. The system

Everything runs in Node.js processes: one thread, with interleaving wherever an
`await` stands. Components call each other directly; files are the only state that
survives. A component's own operations are serialised by a promise queue, but the
queue of one component says nothing about that of another, and several operations
leave their queue. That is where the hard behaviours are.

| Component | Source | State | Operations | What is hard | What makes it correct |
|---|---|---|---|---|---|
| Embedded engine | `index.js` | state in memory (documents, sequence, retained changes, applied change ids), commits since the last checkpoint, checkpoint file, `.bak` mirror, listeners | open, insert/upsert/remove, transaction, applyReplicationChange, checkpoint, replaceState, close, watchChanges | crash between any two I/O steps; failing appends and checkpoints; close() off the queue; replay then live delivery; pruned metadata | recovery gives the memory state; nothing acknowledged is lost or renumbered; streams exact; duplicates refused |
| Write-ahead log | `wal.js` | entries in memory, lines on disk, own queue | append, compactThrough, reset, read back | torn last line, unsynced line, compaction queued behind an append | an append that returned is found by every later open; the log is contiguous |
| Two-phase commit | `distributed.js` 39-61 | coordinator journal, participant journals, reservations | execute, recover, prepare, commit, abort | crash between two journals; failed journal writes; recovery; id used again | one outcome; committed everywhere or nowhere; reservations exclude each other |
| Shard router | `sharding.js` | hash ring, participants, coordinator | open, routed reads and writes, transaction, moveRecord, rebalance | guard asked before the write is queued; copy then delete on a move | a routed write never breaks a reservation; a moved record is found |
| Replicated partition group, regions | `distributed.js` 1-37, 63-69 | replicas, session tokens, health | quorum read and write, read repair, failover | minority writes and their rollback; versions compared database-wide | a quorum read sees the last quorum write |
| Distributed runtime | `distributed-runtime.js` | global commit metadata, subscriptions | transaction, subscribe | metadata beside the commit | the metadata order is the commit order |
| Storage core | `storage-core.js`, `commit-fabric.js`, `recovery-manifest.js` and helpers | versions, sequence, WAL, segment store, manifest | transaction with read and scan sets, checkpoint, recover | validation at commit time; failed and torn appends; recovery with a store behind or ahead of the log; a bounded list of applied changes | committed transactions are serialisable |
| Segmented document store | `tiered-store.js` | segments, bucketed offset index with a bounded cache, manifest | applyBatch, get, scan, compact | crash between segment, bucket and manifest; cache eviction; directory swap | a batch survives or never happened |
| Intent log | `sync-plane.js` | intents with status and attempts | enqueue, reconcile, retry, cancel, prune | cancel during reconcile; crash between execution and status; an enqueue answered from memory | an intent is carried out at most once |
| Point-in-time recovery | `pitr.js` | journal, snapshots, manifest | reconcile, capture, snapshot, restore | capture races the change stream | a restore to n is the state at n |
| Offline queue | `operations.js` 1-80 | queue file | enqueue, flush | two flushes at once; crash after send; a server that has forgotten | items are delivered in order, none is dropped unsent |
| Server, client | `server.js`, `client.js`, `network-db.js`, `protocol.js` | connections, cursors, retained history | push, pull, snapshot, stream | lost answers, expired cursors, reconnection, restart with an old cursor | followers end with the server's records and skip nothing |
| Conflict resolution, documents | `advanced.js`, `document.js`, `document-api.js` | none | resolveConflict, update and query operators | case analysis | converges; operators agree with their definition |
| Indexes and production wrappers | `indexed.js`, `superior-indexed.js`, `production-db.js`, `bounded-production.js`, `resilient-production.js`, `superior-production.js` | index beside the store | indexed writes, rebuild | definitions off the queue, between the check of a write and its commit; index and store fail apart | the index agrees with the store or is marked degraded |
| Lease | `database-lock.js` | lock file | acquire, heartbeat, release | two processes judge the same lock stale | one owner |
| Maintenance, scheduling, resources | `maintenance.js`, `scheduler.js`, `resource-*.js`, `usage-sampler.js`, `telemetry.js` | budgets, timers | admit, release, run | small | budgets are respected |
| Control plane, billing | `control-plane.js`, `monetization.js`, `billing.js`, `payments.js`, `stripe-provider.js` | accounts, projects, grants, usage, invoices, actions | reads, then one engine transaction; provider calls | overlapping calls act on what they read; webhooks again and in any order; answers of the provider lost | entitlements follow payments; nothing counts twice |
| Policy, security, hosting | `policy-compiler.js`, `security.js`, `revocation.js`, `hosted-control.js`, `managed-runtime.js`, `self-host.js`, `deployment.js`, `tls-edge.js` | configuration | predicates, process control | I/O | not state machines of interest here |
| Extensions | `superiority-v2.js`, `reactive.js` | none | sketches, plans, recomputed queries | none | pure functions |

Interactions: the shard router owns one engine-like database per partition and one
participant each; the coordinator calls participants, which call their partition's
`transaction`; point-in-time recovery, the server and the distributed runtime are
subscribers of the engine's change stream; the offline queue and the intent log call
an injected function that ends in an engine or a network write; the production
wrappers stack an index on a storage core, which stacks on the segmented store and
the same `WriteAheadLog` class as the engine.

## 2. Plan

The order follows what everything else rests on.

1. `SyncioState`, `SyncioDatabase`, `DurableStore`, `SyncioStateReference`: the
   engine. **Done**, with theorems about types, history, durability, observers and
   refinement in `SyncioDatabaseProofs`, which begins with lemmas about the operators
   of `SyncioState`.
2. `PartitionCommit`, `TransactionOutcome`, `PartitionCommitProofs`: two-phase
   commit and all its safety properties proved. **Done.**
3. `PointInTimeRecovery`: journal and snapshots beside the engine, built on
   `SyncioState`. **Done**, its safety properties proved in `PointInTimeRecoveryProofs`
   (which repeats the operator lemmas it needs).
4. `IndexedDatabase`: indexes, schemas, text search and expiry above the engine's
   queue. **Done** for the engine-backed pair, its properties proved in
   `IndexedDatabaseProofs`.
5. `StorageCore`: optimistic transactions over the segmented store. **Done** except
   `replaceState`; serialisability and recovery are proved in `StorageCoreProofs`.
6. `OfflineSync`: the intent log and the offline queue, with proofs for both in
   `OfflineSyncProofs`. **Done.**
7. `Replication`: a server with its pulling replicas and watching clients. **Done**,
   its safety properties proved in `ReplicationProofs`.
8. `ControlPlane`: accounts, billing, usage and invoices. **Done**, its properties
   proved in `ControlPlaneProofs`.
9. `Documents`: updates, queries and pipelines as functions. **Done**; checked with
   `SyncioStateReference` in `MCReferences`.
10. Left: a quorum group (reads, repair and rollback against a register); the lease
   (two processes); the move of a record between shards.

Abstract specifications: `DurableStore` (one write at a time, taken whole or refused for good) and
`TransactionOutcome` (one outcome per transaction); the other modules say what they
promise as invariants over a history variable. Instances stay at two or three nodes,
keys or writes and one to three faults: the hazards each need one or two operations
and one or two faults to appear.

Each MC module only adds the constants and sets that a `.cfg` cannot write.
Definitions marked "Variant" are plausible mistakes in the definition below them:
`PROJECT.json` pairs each with the property that notices it.

## 3. The embedded engine

**`SyncioState`** is the data: change events, database states, log entries and the
functions on them: `RecordEvents` (`#appendChange` and the pruning behind it),
`ListAfter`, `ReplayWal` with the conditions under which it throws (`CanReplay`),
`ChangesSince`, `Resumable`. They are closed forms without recursion.
**`SyncioStateReference`** has the same functions as the loops of the code and checks
that both agree.

**`SyncioDatabase`** is the process. `phase` says where the one running write is;
each `await` of the code is a boundary between two actions:

| Code | Actions |
|---|---|
| `collection().insert/upsert/remove`, `transaction`, `applyReplicationChange` build a draft | `Mutate`, `Transaction`, `ApplyReplicationChange` |
| `WriteAheadLog.append`: write, sync | `WriteLine`, then `SyncCommit`; or `AppendFails`, `WriteTears`, `SyncFails` |
| `#commitDraft` swaps the state, counts the commit, may checkpoint | `SyncCommit` |
| `#publish`: one microtask per event and listener | `Publish`, then `Deliver` |
| `#checkpointNow`: primary, backup, compaction | `WritePrimary`, `WriteBackup`, `Compact`, or `CheckpointFails` at any of them |
| `checkpoint()`, `replaceState()`, `close()` | `Checkpoint`, `ReplaceState`, `Close` (its checkpoint is the second writer, `"closer"`) |
| `open()`, `readStateWithRecovery`, `replayWal` | `CreateFile`, `CreateBackup`, `CreateFails`, `Open` |
| `watchChanges`, unsubscribe, snapshot after a refused cursor | `Subscribe`, `Unsubscribe`, `Reseed` |
| the process and its disk | `Crash`, `Exit`, `CorruptPrimary` |

`log`, `received` and `origin` are history variables: what was committed, what each
subscriber was given, and from which sequence on. A commit that a crash cut off after
its line was complete enters `log` at the next `Open`: its caller heard nothing, and
the code keeps it.

Properties, beside the type invariant:

- `AlwaysOpens`: recovery never refuses what the engine wrote.
- `RecoveryMatchesMemory`: at every await of every operation, replaying the log over
  the checkpoint, and over its backup, gives the state in memory.
- `HistoryMatches`, `DocumentsMatch`: memory is the committed history, before and
  after recovery; sequences are dense; the retained window is the newest changes.
- `HistoryOnlyGrows`: no step, recovery included, takes back or renumbers a commit.
- `DedupWindow`: a replication change is applied twice only after retention let go of
  the first application.
- `StreamExact`, `NoMissedEvent`, `ObservedIsDurable`: subscribers get each change of
  their scope once and in order, across replay, live delivery, reconnects and
  restarts, have no gap, and never hear what a crash could take back.
- `WritesSettle`, `EventsArrive`: under fairness, writes end and events arrive.
- `ImplementsDurableStore`: seen through crashes and restarts, the engine is
  `DurableStore`: a store that can always be read, and at most one write asked for, which
  the store becomes exactly, or which is refused and then never takes effect. The write
  asked for is the draft on its way to the log (`Asked`); the store is the memory, or what
  `open()` would recover while there is none (`Visible`), and nothing (`Lost`) when it
  would not open. A transaction that came through by half, a refused write that came back
  and a log that does not open each break it.

**Faults.** `"crash"` stops the process anywhere; `"tear"` leaves part of a line;
`"append"` and `"sync"` fail an append before and after its line is written;
`"checkpoint"` fails any step of any checkpoint, before or after its rename took
effect; `"corrupt"` makes the primary file unparsable while the process is down;
`"restore"` lets crashes and failures hit `replaceState`. `AlwaysOpens`,
`RecoveryMatchesMemory` and `ImplementsDurableStore` do not hold under `"tear"`, `"sync"`,
`"restore"`, with a resolver that keeps the local record, or with writes after `close()`:
section 7 says why and which run shows it. The run of these properties, `EngineDurability`,
leaves those out. The properties that survive them (`HistoryOnlyGrows`, `HistoryMatches`,
`DedupWindow`, the streams, liveness) are checked or proved with them: `EngineStreams` has
`"sync"`, `EngineLiveness` has both, and `EngineAllFaults.cfg`, to run by hand, has all
faults but `"restore"` and any resolver.

**Fairness.** `WF(Continue)`: I/O that was started completes or fails, and the event
loop runs what follows; `WF(Deliver(w))`: microtasks run. Nothing is assumed of
requests, subscriptions, faults or restarts.

**Abstractions.** A key is a collection with an id. `insert` and `upsert` events
replay alike and are one kind. Random change ids of local writes are one value,
`LocalId`, which nobody looks up. A rename is durable as soon as it is visible (the
code syncs the directory before it returns). A request is chosen when it reaches the
head of the queue, because the closures on the queue read nothing before they run.
`collection().watch()` listeners get what `watchChanges` listeners get, unfiltered by
a cursor, and are not modelled apart. A resolver returns the incoming or the current
record. One process owns the files; the lease that ensures it is not modelled. The
digest of a log line is the difference between an entry and `BadLine`.

## 4. Transactions across partitions

**`PartitionCommit`** has the coordinator's journal and one journal per participant,
each in memory (`coord`, `part`) and on disk (`coordFile`, `partFile`), the records of
the partitions (`db`), the operation in progress (`run`: which transaction, where,
which participants are left in its loop), and writes through the router that passed
the guard and have not landed (`routed`).

| Code | Actions |
|---|---|
| `execute`: entry and first persist | `Execute` |
| the prepare loop: `participant.prepare`, note, persist | `Prepare`, `NotePrepared` |
| `status='committing'`, persist | `Decide` |
| `participant.commit`: compare with `before`, partition transaction, persist | `Commit`, `Apply`, `Mark` |
| note, persist, finish | `NoteCommitted`, `Finish` |
| the catch: abort what is prepared | `StartAbort`, `Abort`, `EndAbort` |
| `recover` | `Scan`, then the same actions; `Recovered` |
| `ShardedSyncioDatabase.open`, `recoverDistributedTransactions` | `Start`, `Recover` |
| the router's guard, and the write it lets pass | `Route`, `Land` |

Every persist may fail, with the file replaced or not (`SaveFails`, `SavePartFails`);
memory is then ahead of the file and the next persist of any transaction carries the
change to disk, as in the code. Errors go where the code sends them: before the
decision to the catch (`Catch`), after it to the caller (`Throw`), and in `open` to a
database that does not open (`up = "refused"`).

- `CommittedEverywhere`: what is reported or recorded as committed has been applied on
  every partition of the plan.
- `OneHolder`: two transactions never reserve the same record, in memory or on disk.
- `DecisionIsCovered`: from the durable decision on, every participant has the
  reservation or the commit in its file.
- `ImplementsTransactionOutcome`: an outcome is decided once, and no partition changes
  before the decision to commit is on disk.
- `OperationsSettle`: every `execute()` and `recover()` answers.

Two uses of the API break `ImplementsTransactionOutcome`, and the passing run and
the theorems that depend on it leave them out by name. With `"doubt"` in
`Operations` the application calls `recover()` in the process in which the write of a
decision failed: `recover()` then commits participants on a decision that is not on
disk, and a crash aborts a transaction that was applied. With `"reuse"` it executes
the id of an aborted transaction again: participants answer `prepare` with their
aborted entry, and the coordinator decides to commit. Nothing under `src/src` does
either (default ids are fresh UUIDs; only `open` and the application call
`recover`). A failed write of the decision itself is *not* left out: the file may
have it or not.

`WF(Continue)` is the only fairness. `CHECK_DEADLOCK FALSE` because the system
really stops: with both transactions settled there is nothing left to run.
A partition applies a transaction atomically, which is what `SyncioDatabase` shows of
the engine. A plan is a function from partitions to the values they get, so that no
record is written twice (`validateMutations`); it is prepared and aborted in any order
(the caller's, `Object.entries`) and committed in name order (`Rank`). A removal is one
more value of a record.

## 5. Around the engine

### Point-in-time recovery: `PointInTimeRecovery`

The engine is three variables (`db`, `log`, `emitted`): one commit at a time,
published a step later. The manager has two writers, `"watch"` (the queue the change
stream feeds) and `"call"` (open, createSnapshot or prune), each at its own `stage`
between line, memory and manifest. `syncFromDatabase` does not go through the queue,
so the two writers overlap; the model has every such interleaving.

| Code | Actions |
|---|---|
| `open`, `#verifyJournal` | `OpenManager` (`Verified`), then `SyncStart` |
| `syncFromDatabase` | `SyncStart`, `SyncNext`, `Synced` |
| `#append`: line, memory, `atomicWriteJson` | `Watch` or `SyncNext`, `WriteLine`, `Advance`, `Serialise`, `Rename` |
| `createSnapshot`, `prune`, `close` | `Begin`, `WriteSnapshot`, `Prune`, `Close` |
| `#watch` and what it is given | `Subscribe`, `Synced`, `Publish` |
| `restoreToSequence`, `restoreToTime` | operators `Restored`, `TargetOf`, evaluated in every state |
| failures | `StepFails`, `Crash`, `CrashTears` |

`RestoreIsExact` says that what a restore gives, by sequence or by time, is the
history up to there with the ids of the changes in it. `JournalIsSound`: the lines
on disk are the history without a gap, and the newest snapshot of the manifest has
its file. `RefusalExplained`: `open` refuses only when retention left a gap or a
writer was interrupted, failed or overlapped the other. `ChangesAreJournaled` is
liveness, under `FairSpec`: published events are handed over and the queue goes on;
nothing is assumed of calls or restarts. A digest is represented by what is digested,
which makes it collision-free.

### Indexes, schemas and search: `IndexedDatabase`

A call decides at once, with what it reads, which way it goes (`Call`: the record it
replaces, whether a unique index makes it a checked transaction) and waits in the engine's
queue. Three steps follow, with anything that does not queue between them:

| Code | Actions |
|---|---|
| the queued work: read, check, make the draft (`indexed.js:173,192`, `production-db.js:242`) | `Work` |
| `await this.wal.append(...)` and the swap of the state (`index.js:123-126,295-301`) | `Land`, `LandFails` |
| the continuation: patch or rebuild the indexes | `Settle` |
| `defineIndex`, `dropIndex`, `defineSchema`, ...: memory at once, off the queue | `DefineIndex`, `DropIndex`, `DefineMetadata`, `DropMetadata` |
| their save, later: written, or failed before or behind its rename | `SaveCatalog`, `SaveMetadata`, `SaveCatalogFails`, `SaveMetadataFails` |
| the process | `Crash`, `Open` (rebuilds everything, or throws) |

A failed append or a crash leaves nothing, a fragment or the whole line (`tail`): a whole
line comes back at the next open although its caller was refused, and a line appended
behind either makes the log unreadable. `Land` makes no checkpoint of its own; as one may
rewrite the log at that commit, both outcomes are there.

`AnswersAreCurrent`: a query by index and a text search answer what a scan does.
`DefinitionsHold`: unique values, the schema and the definition itself hold, in memory
and on disk. `OpensAgain`: `open` does not throw. `disturbed` records what the code
does not guard against, and the properties except those cases by name: a definition
that overtook a write (`"raced"`), `replaceState` with duplicates (`"replaced"`), a save
that fails beside another (`"overlapped"`), a crash before a save (`"unsaved"`), a line
left by a failed append or a crash (`"torn"`). A definition overtakes a write that waits in
the queue and will not be checked for it, and one that has been checked and waits for the
log (`Overtaken`): the code guards against neither, and after such a definition a unique
index may have duplicates, its rebuild may throw, and the next `open` with it. That the
properties hold for every other definition is what is shown.

### The storage core: `StorageCore`

Transactions read outside the write queue (`Begin`, `Access`, `ScanAll`), are validated
in it (`Conflict`, `Remember`, `AppendCommit`), and are applied to the store one
operation and one bucket at a time (`ApplyOp`, `SaveBucket`, `Committed`). `cache` is
the list of loaded buckets in order of use, `hot` the record cache. Compaction is
`MoveAway` and `MoveIn`, the two renames; checkpoints are `SaveMeta` and `CompactLog`;
`Open` is recovery from the checkpoint, the log and whatever buckets were saved.

*The end of the log* (`tail`). An append that fails leaves nothing, a fragment, or the whole
line of a commit whose caller was refused (`AppendFails`); a crash may leave a fragment
(`Crash`). Nothing removes it while the process runs, and the sequence is used again: the
next append joins the fragment or repeats the number, and no open reads the log any more
(`Unreadable`), unless a checkpoint writes it anew from memory (`CompactLog`). A
refused line that nothing was appended to is read by the next open: the commit comes back,
whole, and enters the history there.

*Changes* are remembered in a list of bounded length (`Remembered`; `changeRetention * 2` in
the code), in memory, in the checkpoint and in the lines. `told` is the order in which they
were noted, so that "forgotten" can be said: `ChangeAppliedOnce` lets a change commit again
only after at least `Remembered` others. It leaves out deliveries that overlap, and changes
whose save failed, which memory counted and the file did not (`alone`).

*Buckets.* The cache of the offset index may have any size. With fewer buckets than a batch
and its readers touch, a bucket with unsaved entries is dropped and its old file read again
(`tiered-store.js:164`): `harmed` notes the first such read, and a crash between the two
renames of a compaction, which loses the directory. Up to there the properties hold, for
any cache; `FindStaleBucket` shows what follows. The run has a cache of one bucket of two, so
that evictions, reloads and these reads happen, and does not follow a behaviour
beyond the first (`CONSTRAINT Unharmed`).

`CommitsSerialize`: each committed transaction read what the commits before its own had
left, scans included. `HistorySurvives`: memory, caches, log and checkpoint describe the
one history of commits, and recovery gives it back from any crash. Excepted by name, beside
`harmed` and an unreadable log: a transaction whose versions a compaction renumbered while
it ran (`renumbered`). A crash inside `open` itself is not a step: `open` applies the lines
again and saves as it goes, and what a second open finds is then a store further ahead of
the checkpoint, which `SaveBucket` and `StoreFails` produce in a running process.

### The control plane: `ControlPlane`

Every call reads some collections first (`CreateProject`, `DeleteAccount`, ...) and
commits one engine transaction later (`ProjectCreated`, `AccountDeleted`, ...), with
others in between; `calls` is what each has read. `Deliver` and `EventProcessed` are
billing events, delivered in any order and number; `Act`, `ProviderAnswers` and
`ActionRecorded` a payment action under its key; `Sample`, `Measured` and
`UsageRecorded` the metering; `FinalizeInvoice` and `InvoiceFinalized` the invoices.
`Setups` says which operations one behaviour mixes, so that each mix is explored deep.

*The provider* is outside `src/`. It answers with a result, or `run()` throws - it refused, or
its answer was lost (`payments.js:41`) - or it answers with what is no result, and nothing is
recorded (`payments.js:42`). In the last two cases it may have acted. The code then calls it
again under the same key, which is all it can do: `ActionCarriedOutOnce` bounds the
executions by the reasons there were to repeat them (`unsettled`: a call beside another, an
execution whose success is not on record), and that the provider recognises the key is left
to it.

*The clock* (`Tick`) goes on, and with `"clock"` is set forward or back as well
(`usage-sampler.js:18` takes the new reading in either case). Windows may then overlap on
the face of the clock; `TimeMeteredOnce` counts in the time the clock went forward
(`risen`), in which they do not. Time that a jump forward adds is metered.

*Events* have a type, a status and perhaps a plan. A creation names its plan as an update
does (`control-plane.js:151`); given to the billing processor, status "cancelled" makes any
other type a cancellation (`control-plane.js:152`); an event that neither processor supports
throws and changes nothing (`Supported`).

`RecordsAgree`: unique addresses, no active project of a deleted account (unless it was
created while the deletion ran), entitlements that follow plan and payments.
`NothingTwice`: events, usage and metered time take effect once, provider actions once but
for `unsettled`. `FinalStays`: deletions and invoices are final.

### Working offline: `OfflineSync`

A behaviour is about the intent log or about the queue of changes (`part`); they share
no state.

*Intents.* `intents` is the one object in memory that every snapshot refers to;
`writes` are the persists in the queue, each with the checksum of its call and the
acknowledgement that waits for it; `Serialise` writes what the intents have become by
then, as the code does. A reconciliation lists the pending intents and goes from await
to await (`Reconcile`, `Execute`, `Executed`, with `Advance` for the loop in between);
`live` says whether the log had the intent when its turn came, which decides where the
result goes after a `Prune`. Any intent may have expired when the loop looks at it.

`enqueue()` of a known id answers at once and writes nothing (`EnqueueKnown`): while the
first persist is queued, or after it failed, the second caller holds a promise that no
file keeps, and a crash loses the intent.

`IntentsSurvive`: an intent whose `enqueue()` waited for its file is in the file until it
is pruned; one that was answered from memory (`known`) is, unless a persist is still queued
or none has succeeded since one failed; and the file is the memory when nothing is under
way. `ExecutedOnce` and `CancelledIsNotExecuted` hold but for what
`unsure` and `Listed` name: a second reconciliation or a prune while the intent was
listed, an executor that failed after its transaction was durable, a stop before the
status was, and a cancel of an intent already listed.

*Changes.* `Flush`, `FlushOn`, `Send` are the loop of `flush()`, `Mutate` each queued
write of the file. The server remembers the ids of the last `Retention` changes
(`index.js:219`), its own clients' and others' (`AppliedElsewhere`), and applies what it
does not know.

`ChangesDelivered`: each accepted change is in the file until the server has it, and changes
arrive in order, through lost answers, failed writes and restarts, but for overlapping
flushes (one removes the item of the other). A change is applied a second time only when it
was sent or enqueued again (`again`: a lost answer, a failed removal, a crash before the
removal, a second flush, a second `enqueue` of a delivered key, `operations.js:29`), and
only when the server had applied at least `Retention` others since. The server does apply
it then; nothing in the code prevents that.

### Followers of a server: `Replication`

A server with a bounded history (`log`, `Retention`), replicas that pull it
(`Pull`, `Apply`, `EndPull`; `PullSnapshot`, `Reseed` when their cursor has expired) and
push to it (`Enqueue`, `FlushAnswered`, `FlushUnanswered`), and a client that watches a
collection as an event stream (`Connect`, `Read`, `EndOfBody`), with broken connections
and restarts (`BreakStream`, `EndStream`, `Restart`).

`FollowersAgree`: a replica whose cursor is the server's sequence has the server's
records; a push that is repeated is logged once while its id is retained; the iterator
has given each change once and in order. `NoPartialHistory`: a batch skips nothing.
`CatchesUp` is liveness: with weak fairness of pulling, of flushing and of `watch()`,
everyone ends with what the server has. `watch()` loops by itself in the code; pull
and flush are called by the application, and the fairness says that it keeps calling
them. Faults are bounded, so a connection fails finitely often.

### Documents: `Documents`

`document.js` and the query of `advanced.js` as operators, and one stored document that
sample updates change in every order. `UpdateIsExact`: the document keeps its id, and
queries see what an update did. `RepeatedUpdateIsHarmless`: an update sent again after
a lost answer changes nothing if its operators only say what should be.
`PipelineIsExact`: the query of a collection and the pipeline of the same stages, two
implementations, give the same page; projections read as the document on their paths;
unwinding and grouping gives the arrays back.

## 6. Runs and bounds

| Run | Asks | Bounds |
|---|---|---|
| `EngineDurability` | recovery works and gives the memory, whatever crashes or fails in a commit or checkpoint; the engine is a `DurableStore` | 2 keys, 2 values, 2 remote changes (a write and a removal), retention 2, checkpoint every 2 commits, 3 changes, 2 faults |
| `EngineStreams` | streams of two subscribers with different scopes | 2 keys, retention 2 (so that cursors fall out of it), 3 changes, 2 faults |
| `EngineLiveness` | writes settle and events arrive, torn and unsynced lines included | 2 keys, 1 subscriber, transactions of 1 or 2 changes, 3 changes, 1 fault |
| `ReferenceFunctions` | the closed forms are the loops; document functions fit together | logs of 3 entries with 1 or 2 events, every checkpoint of each; documents of small numbers and arrays of 2 |
| `PartitionCommit` | two-phase commit, all properties | 2 transactions on the same record of 2 partitions, 1 routed write, 2 faults |
| `PointInTimeRecovery` | restores, journal, refusals, capture | 3 changes (a replicated one, a removal, the same id again), retention 2, 2 snapshots, 1 fault |
| `IndexedDatabase` | answers, definitions, reopening | 2 records, 2 values, 4 calls of which 2 queued, 2 faults |
| `StorageCore` | serialisable, durable commits; changes applied once | 2 records in 2 buckets, 1 bucket cached, 1 hot record, 3 transactions (two deliver one change), 1 change remembered, 1 retry, checkpoint every 2 commits, 2 faults; nothing after `harmed` |
| `ControlPlane` | identity, entitlements, charges, finality | 3 accounts for 1 address, 1 project, 8 events, 2 calls in flight, 6 calls, 1 fault, 6 mixes of operations, 3 ticks forward |
| `OfflineSync` | intents and queued changes | 2 intents, 2 changes, 2 callers, 2 attempts, 1 change remembered by the server; 4 calls of the intent log, 6 of the queue, 1 fault |
| `Replication` | followers agree and catch up | 2 keys, 3 values of 2 times, retention 3, batches of 2, 3 writes, 1 push, 1 fault |
| `FindTornTail` | section 7 | 1 key, 2 values, 3 changes, a tear and a crash |

Several properties are conjunctions of named parts (`RecoveryIsExact ==
AlwaysOpens /\ RecoveryMatchesMemory`, and so on; see the end of each module); a run
checks the conjunction, and a variant in `PROJECT.json` breaks each interesting part.

Why these are enough. Engine: three changes with retention 2 and a checkpoint at the
second commit give a change that is pruned, one that only the checkpoint holds and one
that only the log holds at once; two faults give a failure whose trace is still there
when the next one strikes. Two transactions that want the same record, on two
partitions, is the smallest case in which reservations can be taken in opposite orders;
two faults let recovery fail and be repeated. Point-in-time recovery: three
changes let both writers have one in hand and one behind them. Indexes: two writes of
one record queued behind each other need two values and leave two calls for definitions
or a sweep; two faults are a failed save or append and a crash. Storage core: one
transaction that read before two others committed, with a checkpoint between; a failed
append, then a crash or another failure; one change remembered and two about, so that one
is forgotten. The queue of changes: with one id remembered, a resend meets a server
that knows the change or has just forgotten it. Intents: enqueue, two overlapping calls and a prune, cancel or
retry; the run's bound of 4 calls was raised to 6 for one intent. Replication: retention
3 with 4 changes makes a cursor expire; batches of 2 leave one behind.
Every bound is a constant named `Max...` or a set in the `.cfg`, and appears as a guard
of the action that would exceed it (`Tick`, `Propose`, `Fault`, `Call`, `Write`, `Enqueue`,
`Start`, `Counted`, `Commit`, `Begin`).

`CHECK_DEADLOCK FALSE` stands where the system really stops: when the calls, writes or
transactions of the instance are used up, nothing is left to do.

The directory has further instances, to run by hand: `EngineRefinement.cfg` and
`EngineAllFaults.cfg` (larger versions of what the runs check, any resolver and three
faults), and `Find*.cfg`, which section 7 explains. `OfflineSync.cfg` with one intent
and `MaxCalls = 6` passes too.

## 7. Where the code and its documents disagree

One is a run that must find the violation:

- `FindTornTail`: a torn last line is ignored by recovery, as
  `docs/ARCHITECTURE.md:65` promises, but not removed: the next append joins the
  fragment, and the open after that answers SYNCIO_CORRUPT_WAL.

For these the `.cfg` is there, and TLC finds the violation:

- `FindResolverReplay` (`MCSyncioDatabase`): with a conflict resolver that keeps the
  local record, the document in memory and the event in the log differ, so recovery
  changes the document.
- `FindReplaceCrash`: a crash between the checkpoint and the log reset of
  `replaceState` leaves a mixture that is neither the old state nor the new one.
- `FindCloseRace`: a write enqueued during `close()` runs beside its checkpoint; the
  older image can be renamed over the newer after the log was compacted.
- `FindStuckRecovery` (`MCPartitionCommit`): a crash between a partition's transaction
  and its participant's journal makes `recover()` throw on every later open.
- `FindIntentChecksum` (`MCOfflineSync`): a persist takes its checksum at once and its
  text later (`sync-plane.js:24`); an intent that changed in between leaves a file that
  does not open after a crash, although `README.md:102` calls intents
  restart-persistent. The next persist repairs it, which is why `FileSettles` holds.
- `FindStaleBucket` (`MCStorageCore`): with fewer cached buckets than a batch and its
  readers touch, a bucket with unsaved entries is dropped (`tiered-store.js:164`) and the
  old file is read: a committed transaction has read what was already replaced
  (`SerializableCommits`, which is `CommitsSerialize` without its excuse).

Seen while modelling:

- A failed sync leaves its line in the log while the sequence is used again. If the process
  stops there, the refused write is back at the next open; after another commit the
  log has two entries for its sequence and does not open. `docs/ARCHITECTURE.md:87` has
  exceptions discard the draft. So it is for the engine, for the indexes above it and for
  the storage core, which uses the same log class.
- A definition of a unique index or of a schema that overtakes a write (section 5) is broken
  by it, and a rebuild that then throws leaves no index, or no database at the next open.
- An `enqueue()` of an intent whose first persist failed answers as if it were kept.
- A compaction of the segmented store that is cut off between its two renames leaves no
  directory, and nothing at open looks for the one it moved away.
- `watchChanges` replays at most 10 000 changes, so with a larger retention a
  subscriber further behind has a gap (`ReplayLimit` below `Retention`).
- `replaceState` can move the sequence back under live subscribers; a server whose
  state is replaced serves old cursors as if they were of its history
  (`docs/ARCHITECTURE.md:81` has cursors refused only when retention passed them).
- A participant that prepared but is not yet noted keeps its reservation after
  recovery; a routed write that passed the guard before `prepare` can land after it and
  make the decided transaction unable to commit; and the two uses of the API in
  section 4.
- A query by an array's element finds the record by a scan and not by the index
  (`IndexSatisfiesQuery` with `Arrays <- MCArrays`): the index files the array under its
  whole value.
- With clocks that differ (`Skew`), a record written at the server with an older
  timestamp is not taken by replicas that resolve last-write-wins, and they differ for
  good.
- A prune of an intent that a reconciliation has listed and not yet reached makes
  `reconcile()` throw after executing it; the results it had are not persisted until
  another call persists.
- A payment event that names another plan grants that plan's entitlements and leaves
  the project's plan (`payments.js:29`); billing events are applied in the order they
  arrive.

## 8. What is proved

TLC shows the properties above for one instance. For any keys, values, scripts, transactions,
partitions, plans, intents, replicas, accounts, projects, records, callers, retention and numbers
of faults, TLAPS checks:

| Theorem | Statement | Hypothesis |
|---|---|---|
| `SyncioDatabaseProofs!TypeCorrect` | `Spec => []TypeOK` | none |
| `SyncioDatabaseProofs!EngineKeepsOneHistory` | `Spec => [](Typed /\ OneHistory)` | `Settings` |
| `SyncioDatabaseProofs!MemoryIsTheHistory` | `Spec => []HistoryIsExact` | `Settings`, no `"current"` resolver |
| `SyncioDatabaseProofs!DuplicatesAreFarApart` | `Spec => []DedupWindow` | `Settings` |
| `SyncioDatabaseProofs!HistoryNeverShrinks` | `Spec => HistoryOnlyGrows` | `Settings`, no `replaceState` |
| `SyncioDatabaseProofs!RecoveryGivesMemory` | `Spec => []RecoveryIsExact` | `CleanSettings`, no `"current"` resolver |
| `SyncioDatabaseProofs!ObservedSurvives` | `Spec => []ObservedIsDurable` | `ReachSettings` |
| `SyncioDatabaseProofs!StreamsMissNothing` | `Spec => []StreamsAreExact` | `StreamSettings` |
| `SyncioDatabaseProofs!ImplementsStore` | `Spec => ImplementsDurableStore` | `StoreSettings` |
| `PartitionCommitProofs!TypeCorrect` | `Spec => []TypeOK` | none |
| `PartitionCommitProofs!OneHolderAlways` | `Spec => []OneHolder` | none |
| `PartitionCommitProofs!CommitsEverywhere` | `Spec => []CommittedEverywhere` | `Handled` |
| `PartitionCommitProofs!DecisionsAreCovered` | `Spec => []DecisionIsCovered` | `Handled` |
| `PartitionCommitProofs!Refinement` | `Spec => ImplementsTransactionOutcome` | `Handled` |
| `OfflineSyncProofs!TypeCorrect` | `Spec => []TypeOK` | none |
| `OfflineSyncProofs!Survival` | `Spec => []IntentsSurvive` | none |
| `OfflineSyncProofs!Cancellation` | `Spec => CancelledIsNotExecuted` | none |
| `OfflineSyncProofs!Execution` | `Spec => []ExecutedOnce` | none |
| `OfflineSyncProofs!Deliveries` | `Spec => []ChangesDelivered` | none |
| `PointInTimeRecoveryProofs!JournalSound` | `Spec => []JournalIsSound` | none |
| `PointInTimeRecoveryProofs!RefusalsExplained` | `Spec => []RefusalExplained` | none |
| `PointInTimeRecoveryProofs!RestoresExactly` | `Spec => []RestoreIsExact` | none |
| `ReplicationProofs!NothingTwiceOrMissing` | `Spec => [](TypeOK /\ PushedOnce /\ StreamComplete)` | none |
| `ReplicationProofs!FollowersMatchServer` | `Spec => []FollowersAgree` | `~Skew` |
| `ReplicationProofs!AnswersAreWhole` | `Spec => NoPartialHistory` | none |
| `IndexedDatabaseProofs!PromisesAreKept` | `Spec => [](Typed /\ KeptPromises)` | none |
| `IndexedDatabaseProofs!DefinitionsAreKept` | `Spec => []DefinitionsHold` | none |
| `IndexedDatabaseProofs!AnswersAreAScan` | `Spec => []AnswersAreCurrent` | none |
| `IndexedDatabaseProofs!AlwaysOpensAgain` | `Spec => []OpensAgain` | none |
| `ControlPlaneProofs!ControlPlaneIsSound` | `Spec => []Sound` | none |
| `ControlPlaneProofs!CollectionsAgree` | `Spec => []RecordsAgree` | none |
| `ControlPlaneProofs!EffectsHappenOnce` | `Spec => []NothingTwice` | none |
| `ControlPlaneProofs!WhatIsFinalStays` | `Spec => FinalStays` | none |
| `StorageCoreProofs!StorageTyped` | `Spec => [](TypeOK /\ OpensAgain)` | none |
| `StorageCoreProofs!StoreKeepsHistory` | `Spec => []HistorySurvives` | none |
| `StorageCoreProofs!CommitsAreSerial` | `Spec => []CommitsSerialize` | none |

The hypotheses are about which operations and faults an instance has, never about
states. Those of the engine leave out what section 7 shows to break the statement, and
each leaves in everything else:

- `Settings`: no writes after `close()` (`FindCloseRace`), no crash or failure inside
  `replaceState` (`FindReplaceCrash`), and `replaceState` is given a state that an engine
  made, with its whole history retained (a snapshot's sequence and changes then agree).
  Crashes, torn lines, failed appends, syncs and checkpoints, and corrupted files are in.
- `"current" \notin Resolvers`: with it the document in memory is not what the logged event
  says (`FindResolverReplay`).
- `CleanSettings`: `Settings` without `"tear"` (`FindTornTail`) and `"sync"` (a failed sync
  leaves a second line for its sequence), after either of which the log cannot be read.
- `ReachSettings`: `Settings` without `replaceState` and `"tear"`. A failed sync is in:
  what was published is still in a line or the checkpoint, though the log does not open.
- `StreamSettings`: `Settings` without `replaceState`, which can move the sequence back under
  live subscribers, and with `ReplayLimit` at least `Retention`: `watchChanges` replays at
  most 10 000 changes, which is also the default retention; with a larger one there are gaps
  (section 7). All faults are in.
- `StoreSettings`: `CleanSettings` without `replaceState` and the `"current"` resolver. The
  refinement is false with torn and unsynced lines and with that resolver; that it holds with
  `replaceState` is checked by TLC only (`EngineDurability`).

There are two other hypotheses. `Handled` says that `Operations` contains neither `"doubt"`
nor `"reuse"` (section 4); the refinement fails with either. `~Skew` says that no write
carries an older timestamp than the record it replaces; with skewed clocks a replica keeps
a record that the server has replaced, and `FollowersAgree` fails (section 7). Where the
table says "none", what the code does not guard against is in the statement itself, as a
ghost variable that the property names (`disturbed`, `harmed`, `tail`, `renumbered`,
`unsure`, `again`, `known`, `unsettled`, `excused`); section 5 lists what each stands for. The
assumptions on constants are the named `ASSUME`s of `PartitionCommit`, `SyncioState`,
`SyncioDatabase`, `PointInTimeRecovery`, `OfflineSync`, `IndexedDatabase`, `Replication`,
`ControlPlane` and `StorageCore`, which TLC evaluates in their runs.

*Types of the engine.* The theorem is about the functions more than the variables: what
recovery hands to the process is a state whatever log it accepts. `EventsOf` looks each
event up in the last entry that starts before it, and `EventsOfType` shows from
contiguity and from the checks of `replayWal` that the event is there; `ReadableType`,
that a log that reads back has no unparsable line; `RankIsTaken` and `PickType`, that the
filter of `changesSince` picks events. The invariant adds one fact to `TypeOK`: an
unparsable primary checkpoint has a backup beside it, which `Open` reads.

*One history.* No statement about memory alone survives recovery, and none about the
files alone survives a commit. `OneHistory` says that memory, the draft of the running
write, both checkpoint files and the log are parts of one sequence of events: a checkpoint
is the state of a prefix that ends at a boundary of the log (`ImageOf`), the lines are
slices of the sequence (`WalOf`), and together they reach its end (`Holds`). The last line
may hold events nobody heard of, because a crash came after the line was complete
(`Unheard`): the history recovery finds is the known one followed by these. The
statement is conditional on the log being readable, which is what lets it hold through
torn and unsynced lines. Around it stand facts that make it inductive: a checkpoint in
progress writes the state in memory, for no write comes in between (`CheckpointOK`); before the
first checkpoint is complete there is nothing (`FreshOK`); `replaceState` is between two
histories (`ReplaceOK`). From it follow `HistoryIsExact`, `DedupWindow` (two events with one
remote id are further apart than the retention, because memory remembers the ids of the
retained ones) and, for steps, `HistoryOnlyGrows`: a step adds the draft's events, or what
recovery found unheard.

*Recovery and observers.* `CleanOK` adds that the log can be read at every await and has
nothing unheard while the process is up; with `OneHistory`, replay over either checkpoint
then gives a state of the same history, and states of one history are equal
(`Reflects`). `ReachOK` says that the primary checkpoint or a synced line reaches the
end of the history, and `HeardOK` that nothing beyond that end is queued for an observer. The
refinement maps the start of an append to the request, and the sync to the step that grants
it; a crash after the line was written commits it, too, and a failed append or a crash that
loses the line refuses it. What is asked for is then gone from memory and files alike, so
it cannot take effect later. Recovery, checkpoints and compaction map to stuttering
(`VisibleDown`: what is visible while the process is down is what `open` would recover).

*Change streams.* `StreamOK` follows a change from the commit to the subscriber. What is
queued for a subscriber is the end of what has been published (`EndsAt`, `Queued`), the events
of the running write come after that (`EventsOK`, `Published`), and up to its cursor it has
been given what it watches (`Given`). The case that matters is `Subscribe` between a commit
and its `Publish`: the replay already holds the events the listener is about to be told of,
so its cursor is then ahead of the queue, and `Deliver` has to skip them; that `Queued` speaks
only of what is after the cursor is what makes it inductive there. `ReplayIs` shows that the
retained changes after a resumable cursor are all of the history after it. The property picks
from the history with `Pick`, which numbers the places it picks, because the provers do not
expand `SelectSeq`; `ReferenceFunctions` compares the two (`ClosedFormsAgree`).

*Reservations.* `OneHolder` is inductive once it is said of each participant's memory
and file separately (`Exclusive`): a reservation is entered only when `Locked` is
false, and a file is a former state of the memory of one participant. It needs no
hypothesis: it holds with reused ids and doubtful decisions, too.

*Atomicity.* `CommittedEverywhere` alone is not inductive: a state in which the
coordinator is at "finish" with a participant not applied satisfies it and leads out of
it. The invariant `IInv` adds what connects the parts: where `run` is determines the
status of its transaction (`RunAgrees`) and what the participants behind the loop have
done (`LoopsAgree`); the coordinator's file is at most one step behind its memory
(`FileFollows`), and nobody acts on a decision the file lacks (`DoubtAgrees`, the only
place where `"doubt"` matters); participants hold reservations from the decision on, in
memory and on disk (`PartsAgree`), because a reservation whose write failed sends the
transaction to its abort before any decision (`ReservationsSaved`); a participant aborts
only what the coordinator aborts (`AbortsKnown`); notes of commits are true
(`NotesAgree`) and so are answers (`AnswersAgree`). Each action has a lemma that it
preserves `IInv`; `Coordinates` collects the six that write the coordinator's journal.

*Intents.* `IntentsSurvive`, `ExecutedOnce` and `CancelledIsNotExecuted` each rest on an
invariant of `OfflineSyncProofs` that extends `TypeOK` and `Shape` (a stopped
process has nothing under way; a text is only on its way for the first queued persist
and has its checksum; an intent being executed is still listed, and in the log if it
was said to be: `Held`). `AtRest` is about the *last* queued persist: it has the
checksum of the intents as they are, so the file has both when the queue is empty; no
statement about the persists before it holds, because they write intents that changed
since. `Kept` says that a promise is carried by file, memory and text at once. `Answered` is
about intents answered from memory: whatever is there is in the text of the last persist, and in
the file when none is queued and none has failed.
`Cancellations` says the same of a cancelled status, and that a queued acknowledgement
of a cancel belongs to an intent no reconciliation has listed. `OneExecution` is about the
intents that are not `unsure`: one is on the list of one reconciliation at most, and once
executed it is on its way to "committed" (`OnTheWay`), or has that status or is pruned,
in memory while the process runs and in the file when it does not.
Each action has an effect lemma (`EnqueueEffect` ...), from which the four
preservation lemmas follow without unfolding the action again. They hold for any
intents, callers and bounds.

*Queued changes.* `ChangesOK` connects the queue in memory, its file, what the flushes wait
for and what the server has. The item a flush is about to remove was applied (`AloneOK`),
unless a second flush began beside it, which makes every change `unsure`; an accepted change
that the server lacks is in the file and, while the process runs, in memory (`HeldChange`): the
two differ after a write that failed once the file was replaced, so neither follows from the
other. The order is a statement about pairs: of two accepted changes the later one is behind
the earlier one in both lists, until the server has the earlier one (`InTurn`). What a queued
write makes of the items is one lemma (`Drafted`), stated in terms of what a list has
(`Has`) and in which order (`Ahead`), and the actions use nothing else of it. `AgainOK` is why
nothing is sent twice without a reason: a change outside `again` that the server has is in
no list but as the first item, whose removal is under way.

*Followers.* Where a replica is takes two numbers: the sequence it was seeded at and the last
change that arrived (`PlaceOK`). The ids it retains are those of the last changes up to there
(`Start`), its records are what the history makes up to there (`DocsAt`), and a batch in hand
starts where it is or at a change whose id it still retains and therefore skips
(`AnswerOK`). That skipping is exact rests on `Apart`: two changes with one id are more than
`Retention` apart, on the server and, with the same retention, on the replica. `DocsAt` says without
recursion what last-write-wins makes of a history: of the writes that no later removal took
back (`Live`), the one to which all others give way (`Stands`). Convergence is then two facts:
`DocsAt` determines the records (`DocsOnce`), and resolving one more change keeps it
(`StandsNext`). `FollowersAgree` looks only at a replica that has arrived at the server's
sequence, so everything in between is in `FollowOK`. Of the event stream, `WireOK` says that
what is under way is increasing, comes after the position of its client and is complete up to
its last change or up to the present; a cursor is `Resumable` only if nothing between it and
the present was dropped, which gives `NoPartialHistory` and the gap-free replay.

*Point-in-time recovery.* The invariant has layers, by how much went wrong. `Sound` holds
whatever does: each line of the journal is the change of the history with its number, and all
the changes before it are in lines, too (`JournalOK`); so is everything up to the last
sequence of a manifest, in memory, on disk or on its way (`ManifestOK`, `Reached`); a snapshot
file is the engine as it was at its sequence (`FileOK`, `Past`). `WindowOK` needs that no save
failed and no writers overlapped: then manifest and memory list the same snapshots except
between a change of the list and its save, which is why the file of the newest one is never the
one that is removed. `ChainOK` and `OpeningOK` need that nothing was disturbed: the journal
is a chain whose tail is the manifest whenever nobody is about to save it, so that only
retention can make `open` refuse. A restore finds lines that may repeat and be out of order: by
rank (`RanksTaken`) they tell the history from the snapshot on, in order and with repetitions
(`Tells`), and replaying them over the snapshot gives what applying each once does
(`ToldEffect`), for a time as for a sequence (`TimeRestored`).

*Indexes.* `KeptPromises` follows a promise from the call to the disk. A queued write was
checked for what is enforced now (`QueueOK`), and so was the one whose work is done and
which waits for the log: with it, too, the records satisfy what is enforced (`LandingOK`).
A definition changes what is enforced, and this is where `disturbed` has to name the one that
overtook either. Records satisfy what is enforced (`RecordsOK`), and nothing unread is at the
end of the log (`TailOK`); the index may lack the one record whose continuation is due and
may have stale pairs besides (`IndexOK`), and with a unique index the pairs are exact at that
moment, which is why a refused continuation cannot lose one. `PromiseOK` is about the *last*
save that waits: it has the definition in memory, and one that began alone has the promised
definition to put back when it fails, whichever file that failure leaves. `DownOK`
carries all this over a crash to `Open`.

*The control plane.* `Sound` joins what the collections say with what each call in flight has read.
`FreshOK` and `DeletionOK` are about calls: an identifier that was new still is when the
transaction runs, and what a deletion read is what there is but for the projects in
`excused`. `TimeOK` says that there is a time the clock had gone forward until which everything is
metered, so that windows do not overlap, wherever the clock stands;
`UsageOK` says that totals are sums of the stored records and bound the invoices; `ActionOK`,
that the executions of an action and the calls that may add one are at most one more than the
reasons to repeat it, and no more than these while a failure is about to be recorded or, with
no call under way, no success is on record, so that a call which begins has room. Sums over
finite sets are recursive functions, and the library's induction theorems do not apply
(an operator parameter): existence, uniqueness and the step of such a sum are proved
by contradiction from a smallest counterexample (`Least`), for which the facts of
`WellFoundedInduction` without operator parameters suffice.

*The storage core.* Two invariants, one resting on the other. `Sound` is about the log: each
line continues the one before, the lines after the checkpoint begin where it ends and end
where the metadata is, and what they hold is the end of the history (`LogOK`, `HistoryOK`); a
job is applying the last line, or that line is applied, or the store has failed after it
(`JobOK`). A line that a failed append left would continue the last one, and stands for a
commit nobody has been told of; it is there only while nothing was appended to it. From this
follows that `open` never refuses a log, but for one whose end was written over.

`Stored` is about the records, until `harmed`. `Current` is what the index says of a record,
saved or not, and a cache is `Fresh` if every bucket in it agrees with that. No hypothesis on
the size of the cache is needed for `Fresh`: a bucket that is dropped and loaded again
agrees with its file, and the file with the index, unless a batch has entries of the
bucket still to save or the directory is away - which is the read that sets `harmed`. The
saved index gives the commits but for the records of lines that are not applied (`Behind`),
and the index does but for what the job has left to do (`RecordsOK`). Serialisability
then rests on `ReadsOK`, which says of each transaction that runs, for each record it saw:
either it noted the version, and while that is the version of the record its value is what was
seen, or it scanned, and while the collection has not moved on the same holds. Versions only
grow, so validation in the queue is enough; a compaction, which numbers them anew, is why
`renumbered` is excepted. That validation itself loads and drops buckets is why `Named` is
there: what a transaction has read is among the records its program names, in whose
order `Validates` reads. `LeftOK` says of the line a failed append left that what its
transaction saw is still so, for it may become a commit at the next open. Recovery comes
back to the history because the last line that writes a record decides its value, whatever
part of the line had reached the saved buckets. What a recursion computes here is stated by
the last commit or the last line that writes a record, and `Loads`, the recursive function, is
reasoned about by a smallest counterexample, as the sums of the control plane are.

Only model-checked: liveness and enabledness, and what the `RECURSIVE` definitions of
`SyncioStateReference` and `Documents` compute, which are beyond the prover; of the engine,
its refinement with `replaceState`; of the storage core, `ChangeAppliedOnce`, whose bounded lists in memory, checkpoint and
log would have to be related by what a recursive function makes of a log. Every other
safety property of a passing run is one of the theorems above. The inductive invariants
(`OneHistory`, `CleanOK`, `ReachOK`, `HeardOK`, `StreamOK`, `ChangesOK`, `KeptPromises`, `Sound`,
those of `ReplicationProofs` and `StorageCoreProofs`, and that of `PartitionCommitProofs` with
three faults) were checked by TLC on the instances of the runs before they were proved.

## 9. What is not modelled

The components of section 1 without a module, with their reason in `PROJECT.json`:

- the quorum group and regions of `distributed.js` and the database lease: they are
  next in the plan. Quorum reads compare database-wide sequences, a rollback
  restores the value read before a minority write, and two processes can judge the same
  lock stale; each deserves a model of its own. The lease's guarantee is one of clocks.
- the storage-backed wrappers: the logic of `IndexedDatabase` once more.
- the distributed runtime, maintenance, scheduling, policy, security, hosting,
  extensions: wiring, pure functions, or I/O without state that interleaves.

Within the modelled components: input validation, telemetry, write provenance, listener
errors, per-collection `watch()` listeners; hash ring placement, `moveRecord` and
rebalancing; compound queries, vector and geo indexes (kept as the text index is);
`replaceState` of the storage core and restores into a live engine; price arithmetic
and signatures; custom resolvers over HTTP, routing and authentication; byte-level
contents of files, with every digest abstracted to what it tells apart. Time appears as
order only: a sequence for events, a counter for the sampler, and an intent that may
have expired at any look.
