----------------------------- MODULE StorageCore -----------------------------
(***************************************************************************)
(* StorageBackedSyncioDatabase over one SegmentedDocumentStore: optimistic *)
(* transactions that run outside the write queue and are validated in it,  *)
(* a commit that is one WAL line and then several writes of the store, the *)
(* bucketed offset index with its bounded cache, the cache of hot records, *)
(* the bounded list of applied changes, checkpoints, compaction by         *)
(* directory swap, failed and torn appends, crashes and recovery.          *)
(* An index entry carries the value it points at: segments only grow.      *)
(***************************************************************************)
EXTENDS Integers, Sequences, FiniteSets, SequencesExt

CONSTANTS
  Ids, Buckets, BucketOf,      \* records, index buckets (in the order of their names)
  Txns, None,                  \* a transaction writes its own name; None is no record
  Programs,                    \* the sequences of operations each transaction may run
  Changes, ChangeOf,           \* replication changes, and the one a transaction applies, or None
  CacheBuckets, MaxHot,        \* bounds of the two caches
  Remembered,                  \* and of the list of applied changes
  MaxRetries, CheckpointEvery,
  Operations,                  \* subset of {"checkpoint", "compact"}
  Faults, MaxFaults            \* subset of {"crash", "append", "store", "checkpoint"}

Kinds == {"get", "all", "put", "insert", "remove"}

ASSUME StorageAssumption ==
  /\ IsFiniteSet(Ids) /\ Buckets \in Seq(ToSet(Buckets)) /\ BucketOf \in [Ids -> ToSet(Buckets)]
  /\ None \notin Txns \cup Changes /\ {"checkpoint", "scheduled"} \cap Txns = {}
  /\ Programs \in [Txns -> SUBSET Seq([kind : Kinds, id : Ids])]
  /\ ChangeOf \in [Txns -> Changes \cup {None}]
  /\ {CacheBuckets, CheckpointEvery, Remembered} \subseteq Nat \ {0}
  /\ {MaxHot, MaxRetries, MaxFaults} \subseteq Nat

VARIABLES
  disk,      \* the saved offset index: [version, value] of each record
  cache,     \* loaded buckets, the least recently used first
  hot,       \* hot records, None where there is none
  stored,    \* sequence of the store
  moved,     \* a compaction is between its two renames
  wal,       \* the lines of the log
  tail,      \* what failed appends left in its file after them
  meta, checkpoint,
  since,     \* commits since the last checkpoint
  refusing,  \* recoveryRequired
  up, queue, job, tx, faults,
  history,   \* ghosts: the commits in order,
  told,      \* the changes in the order they were noted as applied,
  harmed     \* and that a bucket was read without its entries, or the directory was lost

storeVars == <<disk, cache, hot, stored, moved>>
logVars == <<wal, tail, checkpoint>>
vars == <<disk, cache, hot, stored, moved, wal, tail, meta, checkpoint, since, refusing,
          up, queue, job, tx, faults, history, told, harmed>>

NoEntry == [version |-> 0, value |-> None]
Empty == [i \in Ids |-> NoEntry]
Idle == [stage |-> "idle", txn |-> None, todo |-> <<>>, dirty |-> <<>>]
InFlight == {"work", "queued", "commit"}
New == [phase |-> "new", todo |-> <<>>, program |-> <<>>, reads |-> <<>>, seen |-> <<>>,
        scan |-> -1, before |-> <<>>, after |-> <<>>, attempt |-> 0, renumbered |-> FALSE,
        rivals |-> {}]

\* The end of the file of the log: nothing there, a line without its end (which is not
\* read), a whole line whose append has failed all the same, or what no open can read.
Clean == [kind |-> "clean"]
Fragment == [kind |-> "fragment"]
Refused(line, commit) == [kind |-> "line", line |-> line, commit |-> commit]
Unreadable == [kind |-> "unreadable"]

Init ==
  /\ disk = Empty /\ cache = <<>> /\ hot = [i \in Ids |-> None] /\ stored = 0 /\ moved = FALSE
  /\ wal = <<>> /\ tail = Clean
  /\ meta = [sequence |-> 0, version |-> 0, applied |-> <<>>] /\ checkpoint = meta
  /\ since = 0 /\ refusing = FALSE /\ up = TRUE
  /\ queue = <<>> /\ job = Idle /\ tx = [t \in Txns |-> New] /\ faults = 0
  /\ history = <<>> /\ told = <<>> /\ harmed = FALSE

-----------------------------------------------------------------------------
(* The offset index and the hot records.                                   *)

In(b) == {i \in Ids : BucketOf[i] = b}

\* While the directory is moved away, a bucket that is not cached reads as empty.
Saved(b) == [i \in In(b) |-> IF moved THEN NoEntry ELSE disk[i]]

\* The place of a bucket in the cache, if it is there.
Held(c, b) == {n \in DOMAIN c : c[n].bucket = b}

\* The cache once a bucket is loaded: last, the oldest one dropped.
Load(c, b) ==
  LET n == CHOOSE n \in Held(c, b) : TRUE
      all == IF Held(c, b) = {} THEN Append(c, [bucket |-> b, entries |-> Saved(b)])
             ELSE Append(RemoveAt(c, n), c[n])
  IN  IF Len(all) > CacheBuckets THEN Tail(all) ELSE all

\* ... and as some are, in turn.
Loads(c, bs) ==
  LET loaded[n \in 0..Len(bs)] == IF n = 0 THEN c ELSE Load(loaded[n - 1], bs[n])
  IN  loaded

LoadEach(c, bs) == Loads(c, bs)[Len(bs)]

\* One of them is read from its file when the file is away, or a batch has entries of it
\* that it has not saved.
Amiss(bs) ==
  \E n \in 1..Len(bs) :
    Held(Loads(cache, bs)[n - 1], bs[n]) = {} /\ (moved \/ bs[n] \in DOMAIN job.dirty)

Reads(bs) ==
  /\ cache' = LoadEach(cache, bs)
  /\ harmed' = (harmed \/ Amiss(bs))

Entry(c, i) == Last(Load(c, BucketOf[i])).entries[i]

\* What a scan, bucket by bucket, finds of a record.
ScanEntry(i) ==
  LET n == CHOOSE n \in 1..Len(Buckets) : Buckets[n] = BucketOf[i]
  IN  Entry(Loads(cache, Buckets)[n - 1], i)

Put(c, i, e) ==
  LET loaded == Load(c, BucketOf[i])
  IN  [loaded EXCEPT ![Len(loaded)].entries[i] = e]

Value(i) == IF hot[i] # None THEN hot[i] ELSE Entry(cache, i).value

\* Variant: One hot record too many.
TrimLate(h) ==
  LET held == {i \in Ids : h[i] # None}
  IN  IF Cardinality(held) <= MaxHot + 1 THEN {h} ELSE {[h EXCEPT ![i] = None] : i \in held}

\* A hot record more than there is room for costs one of them.
Trim(h) ==
  LET held == {i \in Ids : h[i] # None}
  IN  IF Cardinality(held) <= MaxHot THEN {h} ELSE {[h EXCEPT ![i] = None] : i \in held}

\* A scan makes every record hot in turn, as far as there is room.
Scanned ==
  LET live == {i \in Ids : ScanEntry(i).value # None}
      held == {h \in SUBSET live : Cardinality(h) = Min({MaxHot, Cardinality(live)})}
  IN  {[i \in Ids |-> IF i \in h THEN ScanEntry(i).value ELSE None] : h \in held}

\* readRecord, then readRecordVersion: what reading a record does to the caches.
Touch(i) ==
  /\ Reads(<<BucketOf[i]>>)
  /\ hot' \in Trim([hot EXCEPT ![i] = Value(i)])

-----------------------------------------------------------------------------
(* The list of applied changes, and what the log adds to the metadata.     *)

\* bounded(): a change in the list keeps its place, the oldest one makes room for a new one.
Remembering(ids, c) ==
  LET all == Append(ids, c)
  IN  IF c = None \/ Contains(ids, c) THEN ids
      ELSE IF Len(all) > Remembered THEN Tail(all) ELSE all

RememberingEach(ids, lines) ==
  LET after[n \in 0..Len(lines)] ==
        IF n = 0 THEN ids ELSE Remembering(after[n - 1], lines[n].change)
  IN  after[Len(lines)]

\* Variant: The change a line applies is not remembered.
RecordedWithoutChange(m, lines) ==
  IF lines = <<>> THEN m
  ELSE [sequence |-> Last(lines).result, version |-> Last(lines).result, applied |-> m.applied]

\* What lines of the log add to the metadata, in a commit and in recovery.
Recorded(m, lines) ==
  IF lines = <<>> THEN m
  ELSE [sequence |-> Last(lines).result, version |-> Last(lines).result,
        applied |-> RememberingEach(m.applied, lines)]

\* The elements of a sequence at some places, in order.
AtPlaces(s, S) ==
  [n \in 1..Cardinality(S) |-> s[CHOOSE i \in S : Cardinality({j \in S : j <= i}) = n]]

\* Variant: The line that ends where the checkpoint does counts as after it.
AfterOrAt(lines, n) == AtPlaces(lines, {m \in DOMAIN lines : lines[m].result >= n})

After(lines, n) == AtPlaces(lines, {m \in DOMAIN lines : lines[m].result > n})

\* The lines an open applies again, and the changes it then knows.
Pending == After(wal, checkpoint.sequence)
OnDisk == RememberingEach(checkpoint.applied, Pending)

-----------------------------------------------------------------------------
(* The work of a transaction, outside the queue.                           *)

With(f, i, v) == [j \in DOMAIN f \cup {i} |-> IF j = i THEN v ELSE f[j]]
Noted(r, i) == IF i \in DOMAIN r.reads THEN r.reads ELSE With(r.reads, i, Entry(cache, i).version)

\* The other deliveries of its change that are under way.
Rivals(t) == {u \in Txns : tx[u].phase \in InFlight /\ ChangeOf[u] = ChangeOf[t]}

Begin(t, p) ==
  /\ up /\ tx[t].phase = "new"
  /\ ~refusing
  /\ ~Contains(meta.applied, ChangeOf[t])
  /\ tx' = [tx EXCEPT ![t] =
            [New EXCEPT !.phase = "work", !.program = p, !.todo = p, !.rivals = Rivals(t)]]
  /\ UNCHANGED <<storeVars, logVars, meta, since, refusing, up, queue, job, faults,
                 history, told, harmed>>

\* One read or write of the work; an insert of a record that exists throws.
Access(t) ==
  LET r == tx[t]
      op == Head(r.todo)
      i == op.id
      own == i \in DOMAIN r.after
      now == IF own THEN r.after[i] ELSE Value(i)
      next == [r EXCEPT !.todo = Tail(@)]
      read == IF own THEN next
              ELSE [next EXCEPT !.reads = With(@, i, Entry(cache, i).version), !.seen = With(@, i, now)]
      before == IF own THEN r.before ELSE With(r.before, i, now)
      write(q, v) == [q EXCEPT !.reads = Noted(q, i), !.before = before, !.after = With(@, i, v)]
  IN  /\ r.phase = "work" /\ r.todo # <<>> /\ op.kind # "all"
      /\ IF own THEN UNCHANGED <<cache, hot, harmed>> ELSE Touch(i)
      /\ tx' = [tx EXCEPT ![t] =
                CASE op.kind = "get" -> read
                  [] op.kind = "put" -> write(next, t)
                  [] op.kind = "insert" /\ now = None -> write(read, t)
                  [] op.kind = "insert" /\ now # None -> [r EXCEPT !.phase = "aborted"]
                  [] op.kind = "remove" /\ now # None -> write(next, None)
                  [] op.kind = "remove" /\ now = None -> [next EXCEPT !.reads = Noted(r, i)]]
      /\ UNCHANGED <<disk, stored, moved, logVars, meta, since, refusing, up, queue, job, faults,
                     history, told>>

ScanAll(t) ==
  LET r == tx[t]
  IN  /\ r.phase = "work" /\ r.todo # <<>> /\ Head(r.todo).kind = "all"
      /\ Reads(Buckets) /\ hot' \in Scanned
      /\ tx' = [tx EXCEPT ![t].todo = Tail(@), ![t].scan = meta.version,
                          ![t].seen = [i \in Ids \ DOMAIN r.after |-> ScanEntry(i).value]]
      /\ UNCHANGED <<disk, stored, moved, logVars, meta, since, refusing, up, queue, job, faults,
                     history, told>>

\* While the directory is moved away the segments cannot be read.
AccessFails(t) ==
  /\ moved /\ tx[t].phase = "work"
  /\ tx' = [tx EXCEPT ![t].phase = "aborted"]
  /\ UNCHANGED <<storeVars, logVars, meta, since, refusing, up, queue, job, faults,
                 history, told, harmed>>

Wrote(t) == DOMAIN tx[t].after # {}

\* Work that wrote nothing only leaves its change to be noted, if it is not yet.
Submit(t) ==
  LET last == ~Wrote(t) /\ (ChangeOf[t] = None \/ Contains(meta.applied, ChangeOf[t]))
  IN  /\ tx[t].phase = "work" /\ tx[t].todo = <<>>
      /\ tx' = [tx EXCEPT ![t].phase = IF last THEN "done" ELSE "queued"]
      /\ queue' = IF last THEN queue ELSE Append(queue, t)
      /\ UNCHANGED <<storeVars, logVars, meta, since, refusing, up, job, faults,
                     history, told, harmed>>

-----------------------------------------------------------------------------
(* The write queue: commits.                                               *)

Fault(kind) == kind \in Faults /\ faults < MaxFaults /\ faults' = faults + 1

\* Variant: The records are validated, what was scanned is not.
ConflictsOfRecords(t) == \E i \in DOMAIN tx[t].reads : Entry(cache, i).version # tx[t].reads[i]

Conflicts(t) ==
  \/ \E i \in DOMAIN tx[t].reads : Entry(cache, i).version # tx[t].reads[i]
  \/ tx[t].scan \notin {-1, meta.version}

\* Some of the records a transaction names, in the order it first names them.
Mentioned(t, ids) ==
  LET ops == tx[t].program
      names(n, i) == ops[n].kind # "all" /\ ops[n].id = i
      firsts == {n \in DOMAIN ops : \E i \in ids : names(n, i) /\ \A m \in 1..(n - 1) : ~names(m, i)}
  IN  AtPlaces([n \in DOMAIN ops |-> ops[n].id], firsts)

\* The buckets validate reads, up to that of the first stale record.
Validates(t) ==
  LET ids == Mentioned(t, DOMAIN tx[t].reads)
      stale == {n \in DOMAIN ids : Entry(cache, ids[n]).version # tx[t].reads[ids[n]]}
  IN  [n \in 1..Min(stale \cup {Len(ids)}) |-> BucketOf[ids[n]]]

\* The records it changes.
Changed(t) ==
  Mentioned(t, {i \in DOMAIN tx[t].after : tx[t].before[i] # tx[t].after[i]})

Next1(t) == up /\ job = Idle /\ queue # <<>> /\ Head(queue) = t

Refuse(t) ==
  /\ Next1(t) /\ Wrote(t) /\ refusing
  /\ queue' = Tail(queue)
  /\ tx' = [tx EXCEPT ![t].phase = "aborted"]
  /\ UNCHANGED <<storeVars, logVars, meta, since, refusing, up, job, faults, history, told, harmed>>

Conflict(t) ==
  LET r == tx[t] IN
  /\ Next1(t) /\ Wrote(t) /\ ~refusing /\ Conflicts(t)
  /\ queue' = Tail(queue)
  /\ tx' = [tx EXCEPT ![t] =
            IF r.attempt = MaxRetries THEN [r EXCEPT !.phase = "aborted"]
            ELSE [New EXCEPT !.phase = "work", !.program = r.program, !.todo = r.program,
                             !.attempt = r.attempt + 1, !.rivals = r.rivals]]
  /\ Reads(Validates(t))
  /\ UNCHANGED <<disk, hot, stored, moved, logVars, meta, since, refusing, up, job, faults,
                 history, told>>

\* Nothing changes: the change alone is noted, and saved with the metadata if it is new.
\* Work that wrote nothing is not even validated.
Noting(t) ==
  /\ Next1(t) /\ Changed(t) = <<>>
  /\ IF Wrote(t) THEN ~refusing /\ ~Conflicts(t) /\ Reads(Validates(t))
     ELSE UNCHANGED <<cache, harmed>>
  /\ queue' = Tail(queue)
  /\ meta' = [meta EXCEPT !.applied = Remembering(@, ChangeOf[t])]
  /\ told' = IF meta' = meta THEN told ELSE Append(told, ChangeOf[t])
  /\ UNCHANGED <<disk, hot, stored, moved, wal, tail, since, refusing, up, job, history>>

Remember(t) ==
  /\ Noting(t)
  /\ checkpoint' = IF meta' = meta THEN checkpoint ELSE meta'
  /\ tx' = [tx EXCEPT ![t].phase = "done"]
  /\ UNCHANGED faults

\* It is in memory, and in the file or not.
RememberFails(t) ==
  /\ Noting(t) /\ meta' # meta /\ Fault("checkpoint")
  /\ checkpoint' \in {checkpoint, meta'}
  /\ tx' = [tx EXCEPT ![t].phase = "aborted"]

Appending(t) ==
  /\ Next1(t) /\ Wrote(t) /\ ~refusing /\ ~Conflicts(t)
  /\ Changed(t) # <<>>

LineOf(t) ==
  [base |-> meta.sequence, result |-> meta.sequence + Len(Changed(t)), ids |-> Changed(t),
   after |-> tx[t].after, change |-> ChangeOf[t]]

\* No other delivery of its change was under way with it, and the file has forgotten the
\* change as the memory had: after a save that failed it may not have.
Alone(t) ==
  /\ tx[t].rivals = {} /\ \A u \in Txns : t \notin tx[u].rivals
  /\ ~Contains(OnDisk, ChangeOf[t])

CommitOf(t) ==
  [txn |-> t, after |-> [i \in ToSet(Changed(t)) |-> tx[t].after[i]], seen |-> tx[t].seen,
   change |-> ChangeOf[t], renumbered |-> tx[t].renumbered, alone |-> Alone(t), at |-> Len(told)]

Telling(c) == IF c = None THEN told ELSE Append(told, c)

\* A line after anything but a line that counts makes one that cannot be read, or does not
\* continue the line before it.
AppendCommit(t) ==
  /\ Appending(t)
  /\ wal' = Append(wal, LineOf(t))
  /\ tail' = IF tail = Clean THEN Clean ELSE Unreadable
  /\ job' = [stage |-> "apply", txn |-> t, todo |-> Changed(t), dirty |-> <<>>]
  /\ history' = Append(history, CommitOf(t)) /\ told' = Telling(ChangeOf[t])
  /\ queue' = Tail(queue)
  /\ tx' = [tx EXCEPT ![t].phase = "commit"]
  /\ Reads(Validates(t))
  /\ UNCHANGED <<disk, hot, stored, moved, meta, checkpoint, since, refusing, up, faults>>

\* A write or a sync that fails leaves nothing of the line, some of it or all of it, and
\* nothing takes it away again: the next commit has the same number.
AppendFails(t) ==
  /\ Appending(t) /\ Fault("append")
  /\ tail' \in CASE tail = Clean -> {Clean, Fragment, Refused(LineOf(t), CommitOf(t))}
                 [] OTHER -> {tail, Unreadable}
  /\ queue' = Tail(queue)
  /\ tx' = [tx EXCEPT ![t].phase = "aborted"]
  /\ Reads(Validates(t))
  /\ UNCHANGED <<disk, hot, stored, moved, wal, checkpoint, meta, since, refusing, up, job,
                 history, told>>

\* Variant: The hot record is left as it was.
ApplyOpKeepsHot ==
  LET t == job.txn
      i == Head(job.todo)
      v == tx[t].after[i]
      idle == v = None /\ Entry(cache, i).value = None
      c == Put(cache, i, [version |-> stored + 1, value |-> v])
  IN  /\ up /\ job.stage = "apply" /\ job.todo # <<>> /\ ~moved
      /\ stored' = IF idle THEN stored ELSE stored + 1
      /\ cache' = IF idle THEN Load(cache, BucketOf[i]) ELSE c
      /\ harmed' = (harmed \/ Amiss(<<BucketOf[i]>>))
      /\ job' = [job EXCEPT !.todo = Tail(@),
                   !.dirty = IF idle THEN @ ELSE With(@, BucketOf[i], Last(c).entries)]
      /\ UNCHANGED <<disk, hot, moved, logVars, meta, since, refusing, up, queue, tx, faults,
                     history, told>>

\* applyBatch, one operation: append the envelope, enter it in its bucket.
ApplyOp ==
  LET t == job.txn
      i == Head(job.todo)
      v == tx[t].after[i]
      idle == v = None /\ Entry(cache, i).value = None
      c == Put(cache, i, [version |-> stored + 1, value |-> v])
  IN  /\ up /\ job.stage = "apply" /\ job.todo # <<>> /\ ~moved
      /\ stored' = IF idle THEN stored ELSE stored + 1
      /\ cache' = IF idle THEN Load(cache, BucketOf[i]) ELSE c
      /\ harmed' = (harmed \/ Amiss(<<BucketOf[i]>>))
      /\ hot' \in Trim([hot EXCEPT ![i] = v])
      /\ job' = [job EXCEPT !.todo = Tail(@),
                   !.dirty = IF idle THEN @ ELSE With(@, BucketOf[i], Last(c).entries)]
      /\ UNCHANGED <<disk, moved, logVars, meta, since, refusing, up, queue, tx, faults,
                     history, told>>

SaveBucket(b) ==
  /\ up /\ job.stage = "apply" /\ job.todo = <<>> /\ b \in DOMAIN job.dirty
  /\ disk' = [i \in Ids |-> IF BucketOf[i] = b THEN job.dirty[b][i] ELSE disk[i]]
  /\ job' = [job EXCEPT !.dirty = [c \in DOMAIN @ \ {b} |-> @[c]]]
  /\ UNCHANGED <<cache, hot, stored, moved, logVars, meta, since, refusing, up, queue, tx, faults,
                 history, told, harmed>>

Committed ==
  /\ up /\ job.stage = "apply" /\ job.todo = <<>> /\ DOMAIN job.dirty = {}
  /\ meta' = Recorded(meta, <<Last(wal)>>)
  /\ since' = since + 1
  /\ queue' = IF since' >= CheckpointEvery THEN Append(queue, "scheduled") ELSE queue
  /\ tx' = [tx EXCEPT ![job.txn].phase = "done"]
  /\ job' = Idle
  /\ UNCHANGED <<storeVars, logVars, refusing, up, faults, history, told, harmed>>

-----------------------------------------------------------------------------
(* Checkpoints and compaction.                                             *)

RequestCheckpoint ==
  /\ up /\ "checkpoint" \in Operations /\ ~Contains(queue, "checkpoint")
  /\ since > 0
  /\ queue' = Append(queue, "checkpoint")
  /\ UNCHANGED <<storeVars, logVars, meta, since, refusing, up, job, tx, faults,
                 history, told, harmed>>

NextCheckpoint ==
  /\ up /\ job = Idle /\ queue # <<>> /\ Head(queue) \in {"checkpoint", "scheduled"}
  /\ queue' = Tail(queue)
  /\ UNCHANGED <<storeVars, wal, tail, meta, since, refusing, up, tx, history, told, harmed>>

\* A scheduled checkpoint is skipped when another one came first.
Skipped == Head(queue) = "scheduled" /\ since < CheckpointEvery

SaveMeta ==
  /\ NextCheckpoint
  /\ IF Skipped THEN UNCHANGED <<checkpoint, job>>
     ELSE checkpoint' = meta /\ job' = [Idle EXCEPT !.stage = "compact"]
  /\ UNCHANGED faults

SaveMetaFails ==
  /\ NextCheckpoint /\ ~Skipped /\ Fault("checkpoint")
  /\ UNCHANGED <<checkpoint, job>>

\* Variant: The whole log is dropped.
CompactWholeLog ==
  /\ up /\ job.stage = "compact"
  /\ wal' = <<>> /\ tail' = Clean
  /\ since' = 0
  /\ job' = Idle
  /\ UNCHANGED <<storeVars, meta, checkpoint, refusing, up, queue, tx, faults,
                 history, told, harmed>>

\* The file is written anew, from the lines in memory.
CompactLog ==
  /\ up /\ job.stage = "compact"
  /\ wal' = After(wal, meta.sequence) /\ tail' = Clean
  /\ since' = 0
  /\ job' = Idle
  /\ UNCHANGED <<storeVars, meta, checkpoint, refusing, up, queue, tx, faults,
                 history, told, harmed>>

\* compact() of the store: the directory is moved away once its copy is complete ...
MoveAway ==
  /\ up /\ "compact" \in Operations /\ job.stage # "apply" /\ ~moved
  /\ stored > Cardinality({i \in Ids : disk[i].value # None})
  /\ moved' = TRUE
  /\ Reads(Buckets) /\ hot' \in Scanned
  /\ UNCHANGED <<disk, stored, logVars, meta, since, refusing, up, queue, job, tx, faults,
                 history, told>>

\* ... and the copy takes its place: the records that are left, numbered from 1. It was made
\* through the cache, which has some of a batch that failed.
MoveIn ==
  \E late \in SUBSET IF refusing THEN ToSet(Last(wal).ids) ELSE {} :
    LET value(i) == IF i \in late THEN Last(wal).after[i] ELSE disk[i].value
        live == {i \in Ids : value(i) # None}
        n == Cardinality(live)
        working == {t \in Txns : tx[t].phase \in {"work", "queued"}}
    IN  /\ up /\ moved
        /\ \E order \in [live -> 1..n] :
             /\ \A i, j \in live : order[i] = order[j] => i = j
             /\ disk' = [i \in Ids |-> IF i \in live THEN [version |-> order[i], value |-> value(i)]
                                       ELSE NoEntry]
        /\ stored' = n
        /\ moved' = FALSE
        /\ cache' = <<>> /\ hot' = [i \in Ids |-> None]
        /\ tx' = [t \in Txns |-> IF t \in working THEN [tx[t] EXCEPT !.renumbered = TRUE]
                                 ELSE tx[t]]
        /\ UNCHANGED <<logVars, meta, since, refusing, up, queue, job, faults,
                       history, told, harmed>>

-----------------------------------------------------------------------------
(* Failures and recovery.                                                  *)

\* The line is durable and the store is not: no more writes until a restart.
StoreFails ==
  /\ up /\ job.stage = "apply" /\ Fault("store")
  /\ refusing' = TRUE
  /\ tx' = [tx EXCEPT ![job.txn].phase = "durable"]
  /\ job' = Idle
  /\ UNCHANGED <<storeVars, logVars, meta, since, up, queue, history, told, harmed>>

\* The metadata is saved; the log has been replaced, or has not.
CheckpointFails ==
  /\ up /\ job.stage = "compact" /\ Fault("checkpoint")
  /\ \/ UNCHANGED <<wal, tail>>
     \/ wal' = After(wal, meta.sequence) /\ tail' = Clean
  /\ job' = Idle
  /\ UNCHANGED <<storeVars, meta, checkpoint, since, refusing, up, queue, tx, history, told, harmed>>

\* A line that was left by a failed append is in the log that is read next. An append under
\* way may leave some of its line. Nothing at open looks for the directory a compaction
\* moved away.
Crash ==
  LET left == tail.kind = "line" IN
  /\ up /\ Fault("crash")
  /\ up' = FALSE
  /\ disk' = IF moved THEN Empty ELSE disk
  /\ harmed' = (harmed \/ moved)
  /\ moved' = FALSE
  /\ cache' = <<>> /\ hot' = [i \in Ids |-> None] /\ stored' = 0
  /\ wal' = IF left THEN Append(wal, tail.line) ELSE wal
  /\ history' = IF left THEN Append(history, tail.commit) ELSE history
  /\ told' = IF left THEN Telling(tail.line.change) ELSE told
  /\ \/ tail' = IF left THEN Clean ELSE tail
     \/ (\E t \in Txns : Appending(t)) /\ (left \/ tail = Clean) /\ tail' = Fragment
  /\ meta' = checkpoint /\ since' = 0 /\ refusing' = FALSE /\ queue' = <<>> /\ job' = Idle
  /\ tx' = [t \in Txns |-> IF tx[t].phase \in InFlight
                           THEN [tx[t] EXCEPT !.phase = "lost"] ELSE tx[t]]
  /\ UNCHANGED checkpoint

Recoverable ==
  \A n \in 1..Len(Pending) :
    Pending[n].base = IF n = 1 THEN checkpoint.sequence ELSE Pending[n - 1].result

\* The lines after the checkpoint, up to a number of them, that write a record, and its
\* value after them.
Writes(i, n) == {m \in 1..n : Contains(Pending[m].ids, i)}
ValueAfter(i, n) ==
  IF Writes(i, n) = {} THEN disk[i].value ELSE Pending[Max(Writes(i, n))].after[i]

\* Those that append an envelope: removing what is not there does not.
Appends(i) ==
  {m \in Writes(i, Len(Pending)) : Pending[m].after[i] # None \/ ValueAfter(i, m - 1) # None}

\* The store once the lines after the checkpoint are applied again. Versions are only told
\* apart: those of a line follow those of the lines before it.
Recovered ==
  LET top == Max({0} \cup {disk[i].version : i \in Ids})
      again(line, i) == [version |-> top + line.base - checkpoint.sequence
                                       + (CHOOSE n \in DOMAIN line.ids : line.ids[n] = i),
                         value |-> line.after[i]]
  IN  [i \in Ids |-> IF Appends(i) = {} THEN disk[i] ELSE again(Pending[Max(Appends(i))], i)]

\* A fragment is not read, and stays.
Open ==
  /\ ~up /\ tail # Unreadable /\ Recoverable
  /\ up' = TRUE
  /\ disk' = Recovered
  /\ stored' = Max({0} \cup {Recovered[i].version : i \in Ids})
  /\ meta' = Recorded(checkpoint, Pending)
  /\ checkpoint' = meta'
  /\ IF Pending = <<>> THEN UNCHANGED <<wal, tail>> ELSE wal' = <<>> /\ tail' = Clean
  /\ UNCHANGED <<cache, hot, moved, since, refusing, queue, job, tx, faults, history, told, harmed>>

-----------------------------------------------------------------------------
Next ==
  \/ \E t \in Txns : \/ Access(t) \/ ScanAll(t) \/ AccessFails(t) \/ Submit(t)
                     \/ Refuse(t) \/ Conflict(t) \/ Remember(t) \/ RememberFails(t)
                     \/ AppendCommit(t) \/ AppendFails(t)
                     \/ \E p \in Programs[t] : Begin(t, p)
  \/ ApplyOp \/ (\E b \in ToSet(Buckets) : SaveBucket(b)) \/ Committed
  \/ RequestCheckpoint \/ SaveMeta \/ SaveMetaFails \/ CompactLog \/ MoveAway \/ MoveIn
  \/ StoreFails \/ CheckpointFails \/ Crash \/ Open

Spec == Init /\ [][Next]_vars

-----------------------------------------------------------------------------
(* Properties.                                                             *)

Entries == [version : Nat, value : Txns \cup {None}]

\* The two caches stay within their bounds, the log and the checkpoint are of one
\* sequence, and a job is running or the store is free.
TypeOK ==
  /\ disk \in [Ids -> Entries]
  /\ Len(cache) <= CacheBuckets /\ \A n \in 1..Len(cache) :
       /\ cache[n].bucket \in ToSet(Buckets)
       /\ cache[n].entries \in [In(cache[n].bucket) -> Entries]
       /\ \A m \in 1..Len(cache) : cache[m].bucket = cache[n].bucket => m = n
  /\ hot \in [Ids -> Txns \cup {None}] /\ Cardinality({i \in Ids : hot[i] # None}) <= MaxHot
  /\ stored \in Nat /\ since \in Nat /\ faults \in 0..MaxFaults
  /\ {moved, refusing, up, harmed} \subseteq BOOLEAN
  /\ meta.sequence \in Nat /\ checkpoint.sequence <= meta.sequence
  /\ Len(meta.applied) <= Remembered /\ ToSet(meta.applied) \subseteq Changes
  /\ tail.kind \in {"clean", "fragment", "line", "unreadable"} /\ ToSet(told) \subseteq Changes
  /\ job.stage \in {"idle", "apply", "compact"} /\ (moved => DOMAIN job.dirty = {})
  /\ ToSet(queue) \subseteq Txns \cup {"checkpoint", "scheduled"}
  /\ \A t \in Txns : tx[t].attempt \in 0..MaxRetries

\* The records after the first n commits: of each, what the last one to write it left.
Writers(i, n) == {m \in 1..n : i \in DOMAIN history[m].after}
State(n) == [i \in Ids |-> IF Writers(i, n) = {} THEN None ELSE history[Max(Writers(i, n))].after[i]]
Now == State(Len(history))

\* Every committed transaction read, of each record and of the collection, what the commits
\* before its own had left there (the last time it read it), although its work ran while others
\* committed: unless a compaction numbered the versions anew while it ran (storage-core.js:133).
SerializableCommits ==
  \A n \in 1..Len(history) : ~history[n].renumbered =>
    \A i \in DOMAIN history[n].seen : history[n].seen[i] = State(n - 1)[i]

\* So they did as long as no bucket was read from its file while a batch had entries of it to
\* save, or the directory of the store was away (tiered-store.js:80,97,164).
CommitsSerialize == ~harmed => SerializableCommits

\* Whenever no commit is being applied, the offset index and the hot records give the records
\* of the commits, whatever was cached, evicted, loaded or compacted, up to such a read
\* (tiered-store.js:45-83).
StoreIsHistory ==
  (up /\ job.stage # "apply" /\ ~refusing /\ ~moved /\ ~harmed) =>
    \A i \in Ids : Entry(cache, i).value = Now[i] /\ hot[i] \in {None, Now[i]}

\* A crash at any point leaves a checkpoint, a log and saved buckets from which every durable
\* commit comes back, whole (storage-core.js:136-138), and the last one that was refused if its
\* line was left: up to such a read, and unless a line that failed or was torn has been written
\* over, which leaves a log no open reads (wal.js:57-66,99-104).
RecoveryIsHistory ==
  (~harmed /\ ~moved /\ tail # Unreadable) => \A i \in Ids : Recovered[i].value = Now[i]

\* But for such a log, the lines always continue the checkpoint, so that open never refuses
\* them (storage-core.js:136).
OpensAgain == tail # Unreadable => Recoverable

\* The changes noted as applied after one moment and until another.
Between(m, n) == {told[k] : k \in (m + 1)..n}

\* A replication change is not committed again before as many others have been noted as are
\* remembered, however often it is delivered, crashes, restarts and failed appends included, if
\* no two deliveries of it overlap and no save of it had failed (storage-core.js:107-108,147).
ChangeAppliedOnce ==
  \A n \in 1..Len(history) : \A m \in 1..(n - 1) :
    LET c == history[m].change IN
    (c # None /\ history[n].change = c /\ history[m].alone /\ history[n].alone) =>
      Cardinality(Between(history[m].at, history[n].at) \ {c}) >= Remembered

\* The store, its caches, its log and its checkpoint describe one history, the
\* commits, at every moment and after every crash.
HistorySurvives == TypeOK /\ StoreIsHistory /\ RecoveryIsHistory /\ OpensAgain
=============================================================================
