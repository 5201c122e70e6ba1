----------------------------- MODULE OfflineSync -----------------------------
(***************************************************************************)
(* What a client keeps on disk while it is offline, and how it is worked   *)
(* off.  DurableIntentLog: intents that reconcile() runs as transactions   *)
(* of the local database.  DurableOfflineQueue: changes that flush() sends *)
(* to a server through ReplicationClient.  Each is one file, rewritten as  *)
(* a whole behind a queue of its own; the methods interleave at every      *)
(* await.                                                                  *)
(***************************************************************************)
EXTENDS Integers, Sequences, SequencesExt

CONSTANTS
  Intents, Keys,            \* intent ids; idempotency keys of queued changes
  Callers, None,            \* reconciliations or flushes that may overlap
  Retention,                \* changes the server keeps, and the ids it knows them by
  MaxAttempts, MaxCalls, MaxQueueCalls, MaxFaults,
  Parts                     \* subset of {"intents", "queue"}: what a behaviour uses

Statuses == {"pending", "committed", "conflict", "failed", "expired", "cancelled"}
Promises == {"enqueued", "cancelled"}
Outcomes == {"committed", "conflict", "refused", "unknown"}
IntentRecord == [status : Statuses, attempts : Nat]

ASSUME OfflineAssumption ==
  /\ {MaxAttempts, Retention} \subseteq Nat \ {0} /\ {MaxCalls, MaxQueueCalls, MaxFaults} \subseteq Nat
  /\ None \notin Intents \cup Keys \cup Callers \cup Promises \cup Outcomes \cup IntentRecord
               \cup {"held", "attempt", "send", "remove", "next"}
  /\ Parts \subseteq {"intents", "queue"}

VARIABLES
  part, up, calls, faults,
  intents,     \* the one object every snapshot of the log refers to
  writes,      \* queued persists: the checksum taken at the call, and what it will acknowledge
  written,     \* the serialised snapshot on its way to the file, or None
  file,        \* [content, checksum]
  runs,        \* reconciliations: the intents still listed, the one being executed, and
               \* whether the log had it then ("held"), has lost it since, or had not
  executed,    \* committed executions of each intent
  items, saved, jobs, flushes,     \* the queue, its file, its queued writes, flushes under way
  server,      \* changes the server applied, in order; None is one of another client
  \* Ghosts:
  promised,    \* what was acknowledged of an intent: None, "enqueued" or "cancelled"
  known,       \* intents whose enqueue() was answered from memory, no crash having lost them
  again,       \* changes that may rightly be sent after the server applied them
  unsure,      \* intents that may rightly be executed again; changes that a second flush
               \* may drop, or that are in the file although their enqueue() was refused
  accepted,    \* changes the queue acknowledged, in the order it first did
  settled      \* "failed": no persist succeeded since one failed; "thrown": a
               \* reconciliation ended without persisting its results; or "yes"

logVars == <<intents, writes, written, file, runs, executed, promised, known, settled>>
queueVars == <<items, saved, jobs, flushes, server, accepted, again>>
vars == <<part, up, calls, faults, logVars, queueVars, unsure>>

NoIntents == [i \in Intents |-> None]
NoRun == [todo |-> {}, at |-> None, live |-> None, outcome |-> None]

Init ==
  /\ part \in Parts /\ up = TRUE /\ calls = 0 /\ faults = 0
  /\ intents = NoIntents /\ writes = <<>> /\ written = None
  /\ file = [content |-> NoIntents, checksum |-> NoIntents]
  /\ runs = [c \in Callers |-> NoRun] /\ executed = [i \in Intents |-> 0]
  /\ items = <<>> /\ saved = <<>> /\ jobs = <<>> /\ flushes = [c \in Callers |-> None] /\ server = <<>>
  /\ promised = NoIntents /\ known = {} /\ again = {} /\ unsure = {} /\ accepted = <<>> /\ settled = "yes"

Bound == IF part = "intents" THEN MaxCalls ELSE MaxQueueCalls
Call(p) == part = p /\ up /\ calls < Bound /\ calls' = calls + 1 /\ UNCHANGED <<part, up, faults>>
Step(p) == part = p /\ up /\ UNCHANGED <<part, up, calls, faults>>
Fault(p) == part = p /\ faults < MaxFaults /\ faults' = faults + 1 /\ UNCHANGED <<part, calls>>

-----------------------------------------------------------------------------
(* The intent log.                                                         *)

\* Variant: only what a caller waits for is written.
PersistAwaited(ack) ==
  writes' = IF ack = <<>> THEN writes ELSE Append(writes, [checksum |-> intents', ack |-> ack])

\* Variant: a persist joins the one that is already queued.
PersistJoined(ack) ==
  writes' = IF writes = <<>> THEN <<[checksum |-> intents', ack |-> ack]>>
            ELSE [writes EXCEPT ![1] = [checksum |-> intents', ack |-> ack]]

\* persist(): the checksum is of the intents now, the text of the file is not.
\* ack is what its caller will have been told when the file is renamed.
Persist(ack) == writes' = Append(writes, [checksum |-> intents', ack |-> ack])

Is(i, statuses) == intents[i] # None /\ intents[i].status \in statuses
Listed(i) == \E c \in Callers : i \in runs[c].todo

Enqueue(i) ==
  /\ Call("intents") /\ intents[i] = None
  /\ intents' = [intents EXCEPT ![i] = [status |-> "pending", attempts |-> 0]]
  /\ executed' = [executed EXCEPT ![i] = 0] /\ promised' = [promised EXCEPT ![i] = None]
  /\ Persist(<<i, "enqueued">>)
  /\ UNCHANGED <<written, file, runs, known, settled, queueVars, unsure>>

\* A known intent id is answered at once, whether or not it is in the file yet.
EnqueueKnown(i) ==
  /\ Call("intents") /\ intents[i] # None /\ known' = known \cup {i}
  /\ UNCHANGED <<intents, writes, written, file, runs, executed, promised, settled, queueVars, unsure>>

Cancel(i) ==
  /\ Call("intents") /\ intents[i] # None /\ ~Is(i, {"committed"})
  /\ intents' = [intents EXCEPT ![i].status = "cancelled"]
  /\ Persist(IF Listed(i) THEN <<>> ELSE <<i, "cancelled">>)
  /\ UNCHANGED <<written, file, runs, executed, promised, known, settled, queueVars, unsure>>

\* Variant: any intent may be retried.
RetryableAny == {"conflict", "failed", "committed", "expired"}

Retryable == {"conflict", "failed"}

Retry(i) ==
  /\ Call("intents") /\ Is(i, Retryable)
  /\ intents' = [intents EXCEPT ![i].status = "pending"]
  /\ promised' = [promised EXCEPT ![i] = IF @ = None THEN None ELSE "enqueued"]
  /\ Persist(<<>>)
  /\ UNCHANGED <<written, file, runs, executed, known, settled, queueVars, unsure>>

Prune ==
  LET done == {i \in Intents : Is(i, {"committed", "expired", "cancelled"})} IN
  /\ Call("intents") /\ done # {}
  /\ intents' = [i \in Intents |-> IF i \in done THEN None ELSE intents[i]]
  /\ promised' = [i \in Intents |-> IF i \in done THEN None ELSE promised[i]]
  /\ known' = known \ done
  /\ unsure' = unsure \cup {i \in done : Listed(i)}
  /\ runs' = [c \in Callers |-> IF runs[c].at \in done /\ runs[c].live = "held"
                                THEN [runs[c] EXCEPT !.live = "lost"] ELSE runs[c]]
  /\ writes' = Append([n \in DOMAIN writes |->
                        IF writes[n].ack # <<>> /\ Head(writes[n].ack) \in done
                        THEN [writes[n] EXCEPT !.ack = <<>>] ELSE writes[n]],
                      [checksum |-> intents', ack |-> <<>>])
  /\ UNCHANGED <<written, file, executed, settled, queueVars>>

\* Variant: reconcile lists whatever is not committed.
PendingOrNot == {i \in Intents : intents[i] # None /\ ~Is(i, {"committed"})}

Pending == {i \in Intents : Is(i, {"pending"})}

\* The loop of reconcile() from log and the intents in todo to its next await:
\* those that expired are marked, the next is handed to the executor, or
\* everything is persisted; an expired one that was pruned makes it throw.
Advance(c, todo, log) ==
  \E expired \in SUBSET todo :
    /\ \A i \in expired : log[i] # None
    /\ intents' = [i \in Intents |-> IF i \in expired THEN [log[i] EXCEPT !.status = "expired"] ELSE log[i]]
    /\ \/ \E i \in todo \ expired :
            /\ runs' = [runs EXCEPT ![c] = [todo |-> todo \ expired, at |-> i, outcome |-> None,
                                           live |-> IF log[i] = None THEN "absent" ELSE "held"]]
            /\ UNCHANGED <<writes, settled>>
       \/ todo = expired /\ runs' = [runs EXCEPT ![c] = NoRun] /\ Persist(<<>>) /\ UNCHANGED settled
       \/ /\ \E i \in todo \ expired : log[i] = None
          /\ runs' = [runs EXCEPT ![c] = NoRun] /\ settled' = "thrown" /\ UNCHANGED writes

\* The pending intents are listed once; a second reconciliation lists them too.
Reconcile(c) ==
  /\ Call("intents") /\ runs[c].at = None
  /\ unsure' = unsure \cup {i \in Pending : Listed(i)}
  /\ Advance(c, Pending, intents)
  /\ UNCHANGED <<written, file, executed, promised, known, queueVars>>

\* The executor runs the listed copy as a transaction, whatever has become of
\* the intent.  "unknown": durable in the log of the database, and refused.
Execute(c, i, outcome) ==
  /\ IF outcome = "unknown" THEN Fault("intents") /\ up /\ UNCHANGED up ELSE Step("intents")
  /\ i = runs[c].at /\ runs[c].outcome = None
  /\ runs' = [runs EXCEPT ![c].outcome = outcome]
  /\ executed' = IF outcome \in {"committed", "unknown"} THEN [executed EXCEPT ![i] = @ + 1] ELSE executed
  /\ unsure' = IF outcome = "unknown" THEN unsure \cup {i} ELSE unsure
  /\ UNCHANGED <<intents, writes, written, file, promised, known, settled, queueVars>>

\* Variant: the outcome becomes the status as it is.
AfterAny(intent, outcome) == [status |-> outcome, attempts |-> intent.attempts + 1]

After(intent, outcome) ==
  LET attempts == intent.attempts + 1 IN
  [status |-> IF outcome \in {"committed", "conflict"} THEN outcome
              ELSE IF attempts >= MaxAttempts THEN "failed" ELSE intent.status,
   attempts |-> attempts]

\* The result goes to the live intent, over a cancellation in between, or to
\* the object that was pruned meanwhile; if it was pruned before the executor
\* began, reconcile() throws and persists nothing.
Executed(c) ==
  LET i == runs[c].at  left == runs[c].todo \ {i} IN
  /\ Step("intents") /\ runs[c].outcome # None
  /\ CASE runs[c].live = "held" -> Advance(c, left, [intents EXCEPT ![i] = After(@, runs[c].outcome)])
       [] runs[c].live = "lost" -> Advance(c, left, intents)
       [] OTHER -> /\ runs' = [runs EXCEPT ![c] = NoRun] /\ settled' = "thrown"
                   /\ UNCHANGED <<intents, writes>>
  /\ UNCHANGED <<written, file, executed, promised, known, queueVars, unsure>>

\* JSON.stringify of the shared intents, when the queue and mkdir are done.
Serialise ==
  /\ Step("intents") /\ writes # <<>> /\ written = None
  /\ written' = [content |-> intents, checksum |-> Head(writes).checksum]
  /\ UNCHANGED <<intents, writes, file, runs, executed, promised, known, settled, queueVars, unsure>>

Rename ==
  LET ack == Head(writes).ack IN
  /\ Step("intents") /\ writes # <<>> /\ written # None
  /\ file' = written /\ written' = None /\ writes' = Tail(writes)
  /\ settled' = IF settled = "failed" THEN "yes" ELSE settled
  /\ promised' = IF ack = <<>> THEN promised ELSE [promised EXCEPT ![ack[1]] = ack[2]]
  /\ UNCHANGED <<intents, runs, executed, known, queueVars, unsure>>

\* The caller is told; memory keeps the change, the queue goes on.  What fails
\* may be the sync of the directory, after the rename.
PersistFails ==
  /\ Fault("intents") /\ up /\ writes # <<>> /\ UNCHANGED up
  /\ file' \in {file, written} \ {None} /\ written' = None /\ writes' = Tail(writes)
  /\ settled' = IF settled = "yes" THEN "failed" ELSE settled
  /\ UNCHANGED <<intents, runs, executed, promised, known, queueVars, unsure>>

Crash ==
  /\ Fault("intents") /\ up /\ up' = FALSE
  /\ unsure' = IF writes = <<>> /\ settled = "yes" /\ \A c \in Callers : runs[c].at = None THEN unsure
               ELSE unsure \cup {i \in Intents : executed[i] > 0}
  /\ known' = {i \in known : file.content[i] # None}
  /\ writes' = <<>> /\ written' = None /\ runs' = [c \in Callers |-> NoRun]
  /\ UNCHANGED <<intents, file, executed, promised, settled, queueVars>>

Readable == file.content = file.checksum

\* open() refuses a file whose checksum is of other intents.
Open ==
  /\ part = "intents" /\ ~up /\ Readable
  /\ up' = TRUE /\ intents' = file.content /\ settled' = "yes"
  /\ UNCHANGED <<part, calls, faults, writes, written, file, runs, executed, promised, known, queueVars, unsure>>

-----------------------------------------------------------------------------
(* The queue of changes.                                                   *)

Job(kind, by) == jobs' = Append(jobs, [kind |-> kind, by |-> by])

EnqueueChange(k) ==
  /\ Call("queue") /\ Job("add", k) /\ UNCHANGED <<logVars, items, saved, flushes, server, accepted, again, unsure>>

\* flush() looks at the first item: none, one given up on, or one more attempt.
Look(c) ==
  IF items = <<>> \/ Head(items).attempts >= MaxAttempts
  THEN flushes' = [flushes EXCEPT ![c] = None] /\ UNCHANGED jobs
  ELSE flushes' = [flushes EXCEPT ![c] = "attempt"] /\ Job("attempt", c)

Flush(c) ==
  /\ Call("queue") /\ flushes[c] = None /\ Look(c)
  /\ IF \E d \in Callers : flushes[d] # None
     THEN unsure' = unsure \cup Keys /\ again' = Keys ELSE UNCHANGED <<unsure, again>>
  /\ UNCHANGED <<logVars, items, saved, server, accepted>>

FlushOn(c) ==
  /\ Step("queue") /\ flushes[c] = "next" /\ Look(c)
  /\ UNCHANGED <<logVars, items, saved, server, accepted, again, unsure>>

\* Variant: a new item is put in front.
DraftInFront(job) ==
  CASE job.kind = "add" -> IF \E n \in 1..Len(items) : items[n].key = job.by THEN items
                           ELSE <<[key |-> job.by, attempts |-> 0]>> \o items
    [] job.kind = "attempt" -> [items EXCEPT ![1].attempts = @ + 1]
    [] OTHER -> IF items = <<>> THEN items ELSE Tail(items)

\* What a queued write makes of the items it finds.
Draft(job) ==
  CASE job.kind = "add" -> IF \E n \in 1..Len(items) : items[n].key = job.by THEN items
                           ELSE Append(items, [key |-> job.by, attempts |-> 0])
    [] job.kind = "attempt" -> [items EXCEPT ![1].attempts = @ + 1]
    [] OTHER -> IF items = <<>> THEN items ELSE Tail(items)

\* Variant: the write is not awaited before the item is sent or forgotten.
SavedLate(job) == IF job.kind = "add" THEN saved ELSE Draft(job)

Saved(job) == Draft(job)

\* Writes that leave something to send again: a change enqueued once more after
\* the server applied it.
Repeats(job) == IF job.kind = "add" /\ Contains(server, job.by) THEN {job.by} ELSE {}

\* The first item, which a flush has sent and not removed yet.
Unremoved == IF items = <<>> THEN {} ELSE {Head(items).key}

\* #mutate: the file is replaced, then the memory.
Mutate ==
  LET job == Head(jobs) IN
  /\ Step("queue") /\ jobs # <<>> /\ (job.kind = "attempt" => items # <<>>)
  /\ items' = Draft(job) /\ saved' = Saved(job) /\ jobs' = Tail(jobs)
  /\ accepted' = IF job.kind = "add" /\ ~Contains(accepted, job.by) THEN Append(accepted, job.by) ELSE accepted
  /\ again' = again \cup Repeats(job)
  /\ flushes' = IF job.kind = "add" THEN flushes
                ELSE [flushes EXCEPT ![job.by] = IF job.kind = "attempt" THEN "send" ELSE "next"]
  /\ UNCHANGED <<logVars, server, unsure>>

\* A write that fails, with the file replaced or not, or that finds no item to
\* count an attempt on, rejects its caller; a flush whose item was sent and not
\* removed will send it again.
MutateFails ==
  LET job == Head(jobs) IN
  /\ part = "queue" /\ up /\ jobs # <<>> /\ UNCHANGED up
  /\ IF job.kind = "attempt" /\ items = <<>> THEN UNCHANGED <<part, calls, faults, saved>>
     ELSE Fault("queue") /\ saved' \in {saved, Draft(job)}
  /\ jobs' = Tail(jobs)
  /\ flushes' = IF job.kind = "add" THEN flushes ELSE [flushes EXCEPT ![job.by] = None]
  /\ unsure' = IF job.kind = "add" /\ saved' # saved THEN unsure \cup {job.by} ELSE unsure
  /\ again' = again \cup (IF job.kind = "shift" THEN Unremoved ELSE Repeats(job))
  /\ UNCHANGED <<logVars, items, server, accepted>>

\* The id of a change is its idempotency key, and is known as long as the change
\* is among the last that the server keeps.
Remembered(k) == \E n \in DOMAIN server : n > Len(server) - Retention /\ server[n] = k

\* Variant: the ids of the oldest changes kept are forgotten before their changes.
AppliedEarly(k) ==
  IF \E n \in DOMAIN server : n > Len(server) - Retention + 1 /\ server[n] = k
  THEN server ELSE Append(server, k)

\* The server applies a change whose id it does not know.
Applied(k) == IF Remembered(k) THEN server ELSE Append(server, k)

\* A change that another client sent.
AppliedElsewhere ==
  /\ Call("queue") /\ server' = Append(server, None)
  /\ UNCHANGED <<logVars, items, saved, jobs, flushes, accepted, again, unsure>>

\* The first item now is sent; the answer may be lost, after or before the
\* server applied it.
Send(c, arrives, answered) ==
  /\ Step("queue") /\ flushes[c] = "send"
  /\ IF items = <<>> THEN flushes' = [flushes EXCEPT ![c] = None] /\ UNCHANGED <<jobs, server, again>>
     ELSE /\ server' = IF arrives THEN Applied(Head(items).key) ELSE server
          /\ again' = IF arrives /\ ~answered THEN again \cup Unremoved ELSE again
          /\ IF arrives /\ answered THEN flushes' = [flushes EXCEPT ![c] = "remove"] /\ Job("shift", c)
             ELSE flushes' = [flushes EXCEPT ![c] = None] /\ UNCHANGED jobs
  /\ UNCHANGED <<logVars, items, saved, accepted, unsure>>

CrashQueue ==
  /\ Fault("queue") /\ up /\ up' = FALSE
  /\ again' = IF \E c \in Callers : flushes[c] = "remove" THEN again \cup Unremoved ELSE again
  /\ jobs' = <<>> /\ flushes' = [c \in Callers |-> None]
  /\ UNCHANGED <<logVars, items, saved, server, accepted, unsure>>

OpenQueue ==
  /\ part = "queue" /\ ~up /\ up' = TRUE /\ items' = saved
  /\ UNCHANGED <<part, calls, faults, logVars, saved, jobs, flushes, server, accepted, again, unsure>>

Next ==
  \/ \E i \in Intents : Enqueue(i) \/ EnqueueKnown(i) \/ Cancel(i) \/ Retry(i)
  \/ Prune \/ Serialise \/ Rename \/ PersistFails \/ Crash \/ Open
  \/ \E c \in Callers :
       \/ Reconcile(c) \/ Executed(c) \/ Flush(c) \/ FlushOn(c)
       \/ \E i \in Intents, outcome \in Outcomes :
            Execute(c, i, outcome)
       \/ \E arrives, answered \in BOOLEAN : Send(c, arrives, answered)
  \/ \E k \in Keys : EnqueueChange(k)
  \/ AppliedElsewhere \/ Mutate \/ MutateFails \/ CrashQueue \/ OpenQueue

Spec == Init /\ [][Next]_vars

-----------------------------------------------------------------------------
Log == [Intents -> {None} \cup IntentRecord]
Run == [todo : SUBSET Intents, at : Intents \cup {None}, live : {None, "held", "lost", "absent"},
        outcome : {None} \cup Outcomes]
Persists == [checksum : Log, ack : {<<>>} \cup (Intents \X Promises)]
Item == [key : Keys, attempts : Nat]

\* Every variable has its type.
TypeOK ==
  /\ part \in Parts /\ up \in BOOLEAN /\ settled \in {"yes", "failed", "thrown"}
  /\ calls \in 0..Bound /\ faults \in 0..MaxFaults
  /\ intents \in Log /\ file \in [content : Log, checksum : Log]
  /\ written = None \/ written \in [content : Log, checksum : Log]
  /\ writes \in Seq(Persists)
  /\ runs \in [Callers -> Run]
  /\ executed \in [Intents -> Nat]
  /\ items \in Seq(Item) /\ saved \in Seq(Item) /\ server \in Seq(Keys \cup {None}) /\ accepted \in Seq(Keys)
  /\ jobs \in Seq([kind : {"add"}, by : Keys] \cup [kind : {"attempt", "shift"}, by : Callers])
  /\ flushes \in [Callers -> {None, "attempt", "send", "remove", "next"}]
  /\ promised \in [Intents -> {None} \cup Promises] /\ known \subseteq Intents
  /\ again \subseteq Keys /\ unsure \subseteq Intents \cup Keys

\* An intent whose enqueue() or cancel() returned after its own persist is in the
\* file at every moment from then on, with every status it goes through, until
\* it is pruned.  An enqueue() of a known id returns at once (sync-plane.js:17):
\* its intent is in the file except while a persist is still queued, or none has
\* succeeded since one failed; a crash in between loses it.
EnqueuedIsDurable ==
  /\ \A i \in Intents : promised[i] # None => file.content[i] # None
  /\ \A i \in known : file.content[i] # None \/ (up /\ (writes # <<>> \/ settled # "yes"))

\* An intent is executed once, through refused executions, retries, failed
\* persists and restarts, unless a second reconciliation or a prune ran while
\* it was listed, the executor failed after its transaction was durable, or
\* the process stopped before its status was (sync-plane.js:20).
ExecutedOnce == \A i \in Intents \ unsure : executed[i] <= 1

\* An intent whose cancel() returned true, and that no reconciliation had
\* listed before, is not executed any more, after a restart either.
CancelledIsNotExecuted ==
  [][\A i \in Intents : promised[i] = "cancelled" => executed'[i] <= executed[i]]_vars

\* When nothing is under way, no persist has failed and no reconciliation has
\* thrown over an intent that was pruned, the file holds the intents in memory under their
\* own checksum, so that the log opens again, although each persist serialises
\* whatever the intents have become since its checksum (sync-plane.js:24).
FileSettles ==
  up /\ writes = <<>> /\ settled = "yes" /\ (\A c \in Callers : runs[c].at = None) =>
    file = [content |-> intents, checksum |-> intents]

\* README.md:102 calls the intents "restart-persistent": the log opens whenever
\* the process stops.
OpensAgain == ~up => Readable

\* A change the queue accepted is in its file until the server has applied it,
\* through lost answers, failed writes and restarts, unless two flushes
\* overlapped: each removes the first item, whichever that is (operations.js:53).
NoChangeLost ==
  \A n \in DOMAIN accepted : accepted[n] \in unsure \/ Contains(server, accepted[n])
    \/ \E j \in DOMAIN saved : saved[j].key = accepted[n]

\* The server applies a change a second time only when it was sent again after a
\* lost answer, a failed removal, a crash before the removal or beside a second
\* flush, or was enqueued again (operations.js:29), and only when it has
\* applied at least Retention changes in between (index.js:219, server.js:174).
AppliedOnce ==
  \A i, j \in DOMAIN server :
    i < j /\ server[i] = server[j] /\ server[i] # None =>
      server[i] \in again /\ j - i > Retention

\* Changes reach the server in the order the queue accepted them, one flush at
\* a time (operations.js:41-60).
SentInOrder ==
  unsure = {} => \A i, j \in DOMAIN accepted :
    i < j /\ Contains(server, accepted[j]) => Contains(server, accepted[i])

\* The log of intents loses nothing it promised and agrees with its file
\* whenever it is at rest.
IntentsSurvive == TypeOK /\ EnqueuedIsDurable /\ FileSettles

\* Each queued change reaches the server, in the order accepted, and again only
\* when it was sent again and forgotten.
ChangesDelivered == NoChangeLost /\ AppliedOnce /\ SentInOrder
=============================================================================
