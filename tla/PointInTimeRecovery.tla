-------------------------- MODULE PointInTimeRecovery --------------------------
(***************************************************************************)
(* Point-in-time recovery: src/src/pitr.js beside the engine.              *)
(*                                                                         *)
(* The manager copies every change of the database into a hash-chained     *)
(* journal, takes snapshots, and restores a sequence from the newest       *)
(* snapshot before it and the journal after it.  Two writers append to the *)
(* journal and save the manifest: "watch", the queue that the change       *)
(* stream feeds, and "call", the open, createSnapshot or prune in progress *)
(* (one at a time), whose reconciliation does not go through the queue.    *)
(* Every await is a step.  A SHA-256 digest is represented by what is      *)
(* digested.  Events are timed by their sequence.                          *)
(*                                                                         *)
(* Of the engine, one commit at a time changes the state and is published  *)
(* in a later step (SyncioDatabase has the steps between).                 *)
(***************************************************************************)
EXTENDS SyncioState

CONSTANTS
  Self,                     \* the identity of the database
  KeepSnapshots,            \* keepSnapshots of prune
  Script,                   \* the changes the database commits, in order
  MaxSnapshots, Faults, MaxFaults

ASSUME PitrAssumption ==
  /\ Self \in DatabaseIds /\ KeepSnapshots \in Nat \ {0}
  /\ Script \in Seq(Changes) /\ MaxSnapshots \in Nat /\ MaxFaults \in Nat

Writers == {"watch", "call"}
NoHash == << >>
Hash(line) == <<line>>

VARIABLES
  \* the engine: its durable state, all its changes, how many are published
  db, log, emitted,
  \* the manager
  mode,      \* "closed", "refused" (open threw), "opening" or "open"
  state,     \* this.state: snapshots, lastSequence, lastHash
  queue,     \* events the change stream handed over
  from,      \* the sequence #watch subscribed at
  stage, line, image,  \* per writer: next step, line it appends, manifest it saves
  call,      \* the call in progress: its kind, sync cursor, events still to append
  taken,     \* the snapshot it took
  \* disk
  journal, torn, manifest, files,
  harmed,    \* what disturbed a writer: "crash", "io", "overlap" with the other
  faults

engine == <<db, log, emitted>>
manager == <<mode, state, queue, from, stage, line, image, call, taken>>
disk == <<journal, torn, manifest, files>>
vars == <<engine, manager, disk, harmed, faults>>

Empty == [snapshots |-> {}, lastSequence |-> 0, lastHash |-> NoHash]
Idle == [kind |-> "none", cursor |-> 0, todo |-> << >>]
NoLine == [event |-> << >>, previous |-> NoHash]

Init ==
  /\ db = Fresh(Self) /\ log = << >> /\ emitted = 0
  /\ mode = "closed" /\ state = Empty /\ queue = << >> /\ from = 0
  /\ stage = [w \in Writers |-> "idle"] /\ line = [w \in Writers |-> NoLine]
  /\ image = [w \in Writers |-> Empty] /\ call = Idle /\ taken = Fresh(Self)
  /\ journal = << >> /\ torn = FALSE /\ manifest = Empty /\ files = {}
  /\ harmed = {} /\ faults = 0

Up == mode \in {"opening", "open"}
Fault(kind) == kind \in Faults /\ faults < MaxFaults /\ faults' = faults + 1
Goto(w, s) == stage' = [stage EXCEPT ![w] = s]
Harm(cause, if) == harmed' = IF if THEN harmed \cup {cause} ELSE harmed
Busy == \A w \in Writers : stage'[w] \in {"line", "written", "manifest", "rename"}

-----------------------------------------------------------------------------
\* The engine.

Commit ==
  /\ emitted = Len(log) /\ Len(log) < Len(Script)
  /\ LET events == Stamp(<<Script[Len(log) + 1]>>, db.sequence)
     IN /\ db' = RecordEvents([db EXCEPT !.docs = ApplyEvents(@, events)], events)
        /\ log' = log \o events
  /\ UNCHANGED <<emitted, manager, disk, harmed, faults>>

\* Variant of a notification without its condition.
PublishAhead ==
  /\ emitted' = emitted + 1
  /\ queue' = IF mode = "open" /\ log[emitted'].sequence > from
              THEN Append(queue, log[emitted']) ELSE queue
  /\ UNCHANGED <<db, log, mode, state, from, stage, line, image, call, taken, disk, harmed, faults>>

\* Variant of #watch that subscribes one event too late.
PublishLate ==
  /\ emitted < Len(log) /\ emitted' = emitted + 1
  /\ queue' = IF mode = "open" /\ log[emitted'].sequence > from + 1
              THEN Append(queue, log[emitted']) ELSE queue
  /\ UNCHANGED <<db, log, mode, state, from, stage, line, image, call, taken, disk, harmed, faults>>

Publish ==
  /\ emitted < Len(log) /\ emitted' = emitted + 1
  /\ queue' = IF mode = "open" /\ log[emitted'].sequence > from
              THEN Append(queue, log[emitted']) ELSE queue
  /\ UNCHANGED <<db, log, mode, state, from, stage, line, image, call, taken, disk, harmed, faults>>

-----------------------------------------------------------------------------
\* #append: refuses a gap, skips what the journal has; the line is made from
\* the memory before the first await.

\* Variant that appends whatever comes.
NextInOrderAny(event) == event.sequence > state.lastSequence

NextInOrder(event) == event.sequence = state.lastSequence + 1

MakeLine(w, event) ==
  line' = [line EXCEPT ![w] = [event |-> event, previous |-> state.lastHash]]

\* The queue: a skipped event and a rejected one leave nothing behind.
Watch ==
  /\ Up /\ stage["watch"] = "idle" /\ queue # << >>
  /\ queue' = Tail(queue)
  /\ IF NextInOrder(Head(queue))
     THEN MakeLine("watch", Head(queue)) /\ Goto("watch", "line") /\ Harm("overlap", Busy)
     ELSE UNCHANGED <<stage, line, harmed>>
  /\ UNCHANGED <<engine, mode, state, from, image, call, taken, disk, faults>>

WriteLine(w) ==
  /\ stage[w] = "line" /\ Goto(w, "written")
  /\ journal' = Append(journal, line[w])
  /\ UNCHANGED <<engine, mode, state, queue, from, line, image, call, taken, torn, manifest, files, harmed, faults>>

\* Variant of #append that forgets to chain the hash.
AdvanceUnchained(w) ==
  /\ stage[w] = "written" /\ Goto(w, "manifest")
  /\ state' = [state EXCEPT !.lastSequence = line[w].event.sequence]
  /\ line' = [line EXCEPT ![w] = NoLine]
  /\ UNCHANGED <<engine, mode, queue, from, image, call, taken, disk, harmed, faults>>

Advance(w) ==
  /\ stage[w] = "written" /\ Goto(w, "manifest")
  /\ state' = [state EXCEPT !.lastSequence = line[w].event.sequence, !.lastHash = Hash(line[w])]
  /\ line' = [line EXCEPT ![w] = NoLine]
  /\ UNCHANGED <<engine, mode, queue, from, image, call, taken, disk, harmed, faults>>

\* atomicWriteJson serialises the state after an await of its own.
Serialise(w) ==
  /\ stage[w] = "manifest" /\ Goto(w, "rename")
  /\ image' = [image EXCEPT ![w] = state]
  /\ UNCHANGED <<engine, mode, state, queue, from, line, call, taken, disk, harmed, faults>>

\* Where a call goes on after its manifest: the next change, or its end.
Rename(w) ==
  /\ stage[w] = "rename" /\ manifest' = image[w] /\ image' = [image EXCEPT ![w] = Empty]
  /\ IF w = "call" /\ call.kind \in {"open", "initial", "snapshot"}
     THEN Goto(w, "sync") /\ UNCHANGED call
     ELSE /\ Goto(w, "idle")
          /\ call' = IF w = "call" THEN Idle ELSE call
  /\ UNCHANGED <<engine, mode, state, queue, from, line, taken, journal, torn, files, harmed, faults>>

-----------------------------------------------------------------------------
\* The calls.

\* #verifyJournal: the chain, the order, and the manifest against the tail.
Verified ==
  /\ ~torn
  /\ \A i \in DOMAIN journal :
       /\ journal[i].previous = IF i = 1 THEN NoHash ELSE Hash(journal[i - 1])
       /\ i > 1 => journal[i].event.sequence = journal[i - 1].event.sequence + 1
  /\ manifest.lastHash = IF journal = << >> THEN NoHash ELSE Hash(Last(journal))

OpenManager ==
  /\ mode \in {"closed", "refused"}
  /\ IF Verified
     THEN /\ mode' = "opening" /\ state' = manifest
          /\ call' = [kind |-> "open", cursor |-> manifest.lastSequence, todo |-> << >>]
          /\ Goto("call", "start")
     ELSE mode' = "refused" /\ UNCHANGED <<state, call, stage>>
  /\ UNCHANGED <<engine, queue, from, line, image, taken, disk, harmed, faults>>

\* createSnapshot and prune go on once the queue they found is worked off; what is
\* published from then on runs beside them.
Begin(kind) ==
  /\ mode = "open" /\ call = Idle /\ queue = << >> /\ stage["watch"] = "idle"
  /\ kind = "snapshot" => Cardinality(files) < MaxSnapshots
  /\ call' = [Idle EXCEPT !.kind = kind]
  /\ Goto("call", IF kind = "prune" THEN "remove" ELSE "start")
  /\ UNCHANGED <<engine, mode, state, queue, from, line, image, taken, disk, harmed, faults>>

\* The call rejects: open fails, anything else only ends.
Reject == /\ call' = Idle /\ Goto("call", "idle")
          /\ mode' = IF mode = "opening" THEN "refused" ELSE mode

\* syncFromDatabase: what it checks before its loop.
SyncStart ==
  /\ stage["call"] = "start"
  /\ IF Resumable(db, state.lastSequence)
     THEN /\ call' = [call EXCEPT !.cursor = state.lastSequence, !.todo = << >>]
          /\ Goto("call", "sync") /\ UNCHANGED mode
     ELSE Reject
  /\ UNCHANGED <<engine, state, queue, from, line, image, taken, disk, harmed, faults>>

\* One change of the loop; when none is left in hand, the next ones are read.
SyncNext ==
  LET todo == IF call.todo # << >> THEN call.todo
              ELSE ChangesSince(db, call.cursor, Keys, Len(Script))
  IN /\ stage["call"] = "sync" /\ (call.todo # << >> \/ call.cursor < db.sequence)
     /\ IF todo = << >> \/ Head(todo).sequence > state.lastSequence + 1
        THEN Reject /\ UNCHANGED <<line, harmed>>
        ELSE /\ call' = [call EXCEPT !.cursor = Head(todo).sequence, !.todo = Tail(todo)]
             /\ UNCHANGED mode
             /\ IF NextInOrder(Head(todo))
                THEN /\ MakeLine("call", Head(todo)) /\ Goto("call", "line")
                     /\ Harm("overlap", Busy)
                ELSE UNCHANGED <<stage, line, harmed>>
     /\ UNCHANGED <<engine, state, queue, from, image, taken, disk, faults>>

\* The database is copied: subscribe, take the first snapshot, or take one.
Synced ==
  /\ stage["call"] = "sync" /\ call.todo = << >> /\ call.cursor = db.sequence
  /\ IF call.kind = "open" /\ state.snapshots # {}
     THEN /\ mode' = "open" /\ from' = db.sequence /\ call' = Idle
          /\ Goto("call", "idle") /\ UNCHANGED taken
     ELSE IF call.kind = "open"
     THEN /\ call' = [call EXCEPT !.kind = "initial"]
          /\ Goto("call", "start") /\ UNCHANGED <<mode, from, taken>>
     ELSE /\ taken' = db /\ Goto("call", "file") /\ UNCHANGED <<mode, from, call>>
  /\ UNCHANGED <<engine, state, queue, line, image, disk, harmed, faults>>

Number(set) == IF set = {} THEN 1 ELSE Max({s.number : s \in set}) + 1

\* The snapshot file, then its record in memory, then the manifest.
WriteSnapshot ==
  LET id == [number |-> Number({f.id : f \in files}), sequence |-> taken.sequence]
  IN /\ stage["call"] = "file"
     /\ taken' = Fresh(Self)
     /\ files' = files \cup {[id |-> id, state |-> taken]}
     /\ state' = [state EXCEPT !.snapshots = @ \cup {id}]
     /\ Harm("overlap", stage["watch"] # "idle")
     /\ call' = [call EXCEPT !.kind = IF @ = "initial" THEN "open" ELSE "saved"]
     /\ IF call.kind = "initial" THEN Goto("call", "subscribe") ELSE Goto("call", "manifest")
     /\ UNCHANGED <<engine, mode, queue, from, line, image, journal, torn, manifest, faults>>

\* open() subscribes once the first snapshot's manifest is saved.
Subscribe ==
  /\ stage["call"] = "subscribe" /\ manifest' = state
  /\ mode' = "open" /\ from' = db.sequence /\ call' = Idle /\ Goto("call", "idle")
  /\ UNCHANGED <<engine, state, queue, line, image, taken, journal, torn, files, harmed, faults>>

\* Newest sequence first; of one sequence, the older snapshot first.
Before(s, t) == s.sequence > t.sequence \/ (s.sequence = t.sequence /\ s.number < t.number)

\* Variant of prune that keeps the oldest snapshots.
OldestKept(snapshots, after) ==
  {s \in snapshots : \/ s.sequence >= after
                     \/ Cardinality({t \in snapshots : Before(s, t)}) < KeepSnapshots}

\* The snapshots prune keeps: the newest ones and those after a sequence.
Kept(snapshots, after) ==
  {s \in snapshots : \/ s.sequence >= after
                     \/ Cardinality({t \in snapshots : Before(t, s)}) < KeepSnapshots}

\* prune: files first, manifest afterwards.
Prune(after) ==
  /\ stage["call"] = "remove" /\ Goto("call", "manifest")
  /\ files' = {f \in files : f.id \in Kept(state.snapshots, after) \/ f.id \notin state.snapshots}
  /\ state' = [state EXCEPT !.snapshots = Kept(@, after)]
  /\ Harm("overlap", stage["watch"] # "idle")
  /\ UNCHANGED <<engine, mode, queue, from, line, image, call, taken, journal, torn, manifest, faults>>

Stopped == /\ mode' = "closed" /\ queue' = << >> /\ call' = Idle
           /\ stage' = [w \in Writers |-> "idle"] /\ state' = Empty
           /\ line' = [w \in Writers |-> NoLine] /\ image' = [w \in Writers |-> Empty]
           /\ taken' = Fresh(Self) /\ from' = 0

Close ==
  /\ mode = "open" /\ call = Idle /\ queue = << >> /\ stage["watch"] = "idle"
  /\ Stopped /\ UNCHANGED <<engine, disk, harmed, faults>>

-----------------------------------------------------------------------------
\* Failures.

Crash ==
  /\ Up /\ Fault("crash") /\ Stopped
  /\ emitted' = Len(log)
  /\ Harm("crash", \E w \in Writers : stage[w] \in {"written", "manifest", "rename"})
  /\ UNCHANGED <<db, log, disk>>

\* The process dies while it writes a line.
CrashTears ==
  /\ Up /\ Fault("tear") /\ Stopped /\ \E w \in Writers : stage[w] = "line"
  /\ emitted' = Len(log) /\ torn' = TRUE /\ Harm("crash", TRUE)
  /\ UNCHANGED <<db, log, journal, manifest, files>>

\* A step fails: the line is not written, or written and not synced, or the
\* manifest stays; the watch queue swallows it, a call rejects.
StepFails(w) ==
  /\ Up /\ stage[w] \in {"line", "written", "rename", "file", "subscribe"} /\ Fault("io") /\ Harm("io", TRUE)
  /\ IF w = "call" THEN Reject ELSE Goto(w, "idle") /\ UNCHANGED <<mode, call>>
  /\ UNCHANGED <<engine, state, queue, from, line, image, taken, disk>>

-----------------------------------------------------------------------------
\* restoreToSequence: the newest snapshot before n, and the journal after it.
Window(snapshots, n) == {s \in snapshots : s.sequence <= n}
First(snapshots) == CHOOSE s \in snapshots : \A t \in snapshots \ {s} : Before(s, t)
FileOf(id) == {f \in files : f.id = id}
Restorable(n) == Window(state.snapshots, n) # {} /\ FileOf(First(Window(state.snapshots, n))) # {}
Base(n) == CHOOSE f \in FileOf(First(Window(state.snapshots, n))) : TRUE

\* The journal lines it applies, in order of sequence: the file is sorted, and
\* lines of one sequence stay in the order they were written.
Replayed(n) ==
  LET picked == {i \in DOMAIN journal : /\ journal[i].event.sequence > Base(n).id.sequence
                                        /\ journal[i].event.sequence <= n}
      Upto(i) == {j \in picked : \/ journal[j].event.sequence < journal[i].event.sequence
                                 \/ journal[j].event.sequence = journal[i].event.sequence /\ j <= i}
  IN [k \in 1..Cardinality(picked) |-> journal[CHOOSE i \in picked : Cardinality(Upto(i)) = k]]

\* Variant that takes the identity of the applied changes from the snapshot alone.
RestoredWithoutIds(n) ==
  LET events == [i \in DOMAIN Replayed(n) |-> Replayed(n)[i].event]
  IN [Base(n).state EXCEPT !.docs = ApplyEvents(@, events), !.sequence = n, !.changes = @ \o events]

Restored(n) ==
  LET events == [i \in DOMAIN Replayed(n) |-> Replayed(n)[i].event]
      Hits(r) == {i \in DOMAIN events : events[i].changeId = r}
  IN [Base(n).state EXCEPT
        !.docs = ApplyEvents(@, events), !.sequence = n, !.changes = @ \o events,
        !.appliedChangeIds = [r \in RemoteIds |->
           IF Hits(r) = {} THEN @[r] ELSE events[Max(Hits(r))].sequence]]

\* Variant of restoreToTime that stops short of the time asked for.
TargetBefore(t) ==
  LET times == {journal[i].event.sequence : i \in DOMAIN journal} \cap 0..(t - 1)
  IN IF times # {} THEN Max(times) ELSE First(Window(state.snapshots, t)).sequence

\* restoreToTime: the last journaled change up to t, else the last snapshot.
TargetOf(t) ==
  LET times == {journal[i].event.sequence : i \in DOMAIN journal} \cap 0..t
  IN IF times # {} THEN Max(times) ELSE First(Window(state.snapshots, t)).sequence

Next ==
  \/ Commit \/ Publish \/ Watch \/ OpenManager \/ SyncStart \/ SyncNext \/ Synced
  \/ \E w \in Writers : \/ WriteLine(w) \/ Advance(w) \/ Serialise(w) \/ Rename(w)
                        \/ StepFails(w)
  \/ \E kind \in {"snapshot", "prune"} : Begin(kind)
  \/ WriteSnapshot \/ Subscribe \/ Close \/ Crash \/ CrashTears
  \/ \E n \in 0..Len(Script) : Prune(n)

Spec == Init /\ [][Next]_vars

\* Published events are handed over, and the queue and its writes go on.
FairSpec ==
  /\ Spec /\ WF_vars(Publish) /\ WF_vars(Watch) /\ WF_vars(WriteLine("watch"))
  /\ WF_vars(Advance("watch")) /\ WF_vars(Serialise("watch")) /\ WF_vars(Rename("watch"))

-----------------------------------------------------------------------------
TypeOK ==
  /\ db \in States /\ taken \in States /\ log \in Seq(Events) /\ emitted \in 0..Len(log)
  /\ mode \in {"closed", "refused", "opening", "open"}
  /\ state.lastSequence \in Nat /\ manifest.lastSequence \in Nat
  /\ queue \in Seq(Events) /\ call.cursor \in Nat /\ call.todo \in Seq(Events)
  /\ \A i \in DOMAIN journal : journal[i].event \in Events
  /\ \A f \in files : f.state \in States

\* What restore gives for any sequence the manager says it covers is the history
\* up to there: the documents, a suffix of the changes ending there, and the ids
\* of the replicated changes among them, so that a redelivery is still refused -
\* whatever was interrupted, appended twice or pruned (restoreToSequence).
RestoreExact ==
  Up => \A n \in 0..state.lastSequence : Restorable(n) =>
    LET r == Restored(n)
        kept == {r.changes[i] : i \in DOMAIN r.changes}
    IN /\ r.docs = ApplyEvents(Fresh(Self).docs, SubSeq(log, 1, n))
       /\ kept = {log[i] : i \in {j \in 1..n : \E e \in kept : e.sequence <= j}}
       /\ \A e \in kept : e.changeId \in RemoteIds => r.appliedChangeIds[e.changeId] >= e.sequence

\* The journal on disk is the history without a gap, each line as committed, up
\* to the sequence the manager reports (#append).
JournalIsHistory ==
  LET covered == {journal[i].event.sequence : i \in DOMAIN journal}
  IN /\ \A i \in DOMAIN journal : journal[i].event = log[journal[i].event.sequence]
     /\ \A m, n \in covered : m..n \subseteq covered
     /\ Up /\ state.lastSequence > 0 => state.lastSequence \in covered

\* Opening is refused only when the retained changes no longer reach back to the
\* journal, or a writer was interrupted, failed, or ran beside the other one:
\* what an undisturbed manager leaves behind always verifies (#verifyJournal).
RefusalExplained ==
  mode = "refused" => harmed # {} \/ ~Resumable(db, manifest.lastSequence)

\* However prune and its manifest are interrupted, the newest snapshot the manifest
\* lists has its file, so the window never becomes empty - unless a save of the
\* manifest failed or was overtaken by the other writer's older image (prune).
WindowKept ==
  manifest.snapshots # {} /\ harmed \subseteq {"crash"} => FileOf(First(manifest.snapshots)) # {}

\* A point in time the window covers is restored to the last change before it
\* (restoreToTime).
TimeIsExact ==
  Up => \A t \in 0..state.lastSequence : Restorable(t) => TargetOf(t) = t

\* While an open manager has copied, or still queues, every earlier change,
\* the last one is journaled too, unless a write fails or overlaps another (#watch).
InHand == (1..state.lastSequence)
          \cup {queue[i].sequence : i \in DOMAIN queue}
          \cup (IF stage["watch"] \in {"line", "written"} THEN {line["watch"].event.sequence} ELSE {})

ChangesAreJournaled ==
  LET n == Len(Script)
  IN (/\ mode = "open" /\ harmed = {} /\ from < n /\ emitted < n /\ Len(log) = n
      /\ 1..(n - 1) \subseteq InHand)
     ~> (mode # "open" \/ harmed # {} \/ n \in {journal[i].event.sequence : i \in DOMAIN journal})

\* What restore gives, by sequence or by time, is the history up to there.
RestoreIsExact == RestoreExact /\ TimeIsExact

\* What is on disk can be recovered from: the journal is the history, and the
\* snapshot that bounds the window is there.
JournalIsSound == TypeOK /\ JournalIsHistory /\ WindowKept
=============================================================================
