-------------------------- MODULE OfflineSyncProofs --------------------------
(***************************************************************************)
(* Proofs about OfflineSync, for any intents, changes, callers and number  *)
(* of calls and faults.                                                    *)
(***************************************************************************)
EXTENDS OfflineSync, TLAPS


-----------------------------------------------------------------------------
\* What persist() adds to the queue of writes.
LEMMA PersistType ==
  ASSUME writes \in Seq(Persists),
         intents' \in Log, NEW a \in {<<>>} \cup (Intents \X Promises), Persist(a)
  PROVE  writes' \in Seq(Persists)
  BY DEF Persist, Persists

\* The status an execution leaves is a status.
LEMMA AfterType ==
  ASSUME NEW r \in IntentRecord,
         NEW o \in {None} \cup Outcomes
  PROVE  After(r, o) \in IntentRecord
  BY OfflineAssumption DEF After, IntentRecord, Statuses, Outcomes

\* A change of the status of an intent that is there.
LEMMA StatusType ==
  ASSUME intents \in Log, NEW i \in Intents, intents[i] # None, NEW s \in Statuses,
         intents' = [intents EXCEPT ![i].status = s]
  PROVE  /\ intents' \in Log
         /\ intents'[i] \in IntentRecord /\ intents'[i].status = s
         /\ \A j \in Intents \ {i} : intents'[j] = intents[j]
<1>1. intents[i] \in IntentRecord  BY DEF Log
<1>2. [intents[i] EXCEPT !.status = s] \in IntentRecord  BY <1>1 DEF IntentRecord
<1>3. intents' = [intents EXCEPT ![i] = [intents[i] EXCEPT !.status = s]]  BY DEF Log
<1>4. [intents[i] EXCEPT !.status = s].status = s  BY <1>1 DEF IntentRecord
<1>5. intents'[i] = [intents[i] EXCEPT !.status = s]  BY <1>3 DEF Log
<1>6. QED  BY <1>2, <1>3, <1>4, <1>5 DEF Log

\* A fault is counted.
LEMMA FaultType ==
  ASSUME faults \in 0..MaxFaults, NEW p, Fault(p)
  PROVE  faults' \in 0..MaxFaults /\ calls' = calls /\ part' = part
  BY OfflineAssumption DEF Fault

\* What is known of the queued persists.
LEMMA QueueType ==
  ASSUME NEW w \in Seq(Persists)
  PROVE  /\ Len(w) \in Nat /\ (w # <<>> => Len(w) > 0)
         /\ \A n \in 1..Len(w) : w[n] \in Persists
  OBVIOUS

LEMMA QueueOK ==
  ASSUME TypeOK
  PROVE  /\ writes \in Seq(Persists) /\ Len(writes) \in Nat /\ (writes # <<>> => Len(writes) > 0)
         /\ \A n \in 1..Len(writes) : writes[n] \in Persists
<1>1. writes \in Seq(Persists)  BY DEF TypeOK
<1>2. QED  BY <1>1, QueueType

LEMMA TypeInit == Init => TypeOK
  BY OfflineAssumption
  DEF Init, TypeOK, NoIntents, NoRun, Bound, Log, Run, Item, Promises

LEMMA TypeIntents ==
  ASSUME TypeOK, NEW i \in Intents, Enqueue(i) \/ EnqueueKnown(i) \/ Cancel(i) \/ Retry(i)
  PROVE  TypeOK'
<1>0. CASE EnqueueKnown(i)  BY <1>0, OfflineAssumption DEF EnqueueKnown, Call, Bound, TypeOK, queueVars
<1>00. SUFFICES ASSUME Enqueue(i) \/ Cancel(i) \/ Retry(i) PROVE TypeOK'  BY <1>0
<1>1. /\ intents \in Log /\ executed \in [Intents -> Nat]
      /\ promised \in [Intents -> {None} \cup Promises] /\ writes \in Seq(Persists)
      /\ <<i, "enqueued">> \in Intents \X Promises /\ <<i, "cancelled">> \in Intents \X Promises
  BY DEF TypeOK, Promises
<1>2. intents' \in Log
  <2>1. CASE Enqueue(i)  BY <1>1, <2>1 DEF Enqueue, Log, IntentRecord, Statuses
  <2>2. CASE Cancel(i)  BY <1>1, <2>2, StatusType DEF Cancel, Statuses, TypeOK
  <2>3. CASE Retry(i)  BY <1>1, <2>3, StatusType DEF Retry, Is, Statuses, TypeOK
  <2>4. QED  BY <1>00, <2>1, <2>2, <2>3
<1>3. \E a \in {<<>>} \cup (Intents \X Promises) : Persist(a)
  BY <1>00, <1>1 DEF Enqueue, Cancel, Retry
<1>4. writes' \in Seq(Persists)  BY <1>1, <1>2, <1>3, PersistType DEF TypeOK
<1>5. executed' \in [Intents -> Nat]  BY <1>00, <1>1 DEF Enqueue, Cancel, Retry
<1>6. promised' \in [Intents -> {None} \cup Promises]
  BY <1>00, <1>1 DEF Enqueue, Cancel, Retry, Promises
<1>7. UNCHANGED <<written, file, runs, known, settled, queueVars, unsure>>
  BY <1>00 DEF Enqueue, Cancel, Retry
<1>8. UNCHANGED <<part, up, faults>> /\ calls' \in 0..Bound /\ Bound' = Bound
  <2>1. Call("intents")  BY <1>00 DEF Enqueue, Cancel, Retry
  <2>2. QED  BY <2>1, OfflineAssumption DEF Call, Bound, TypeOK
<1>9. QED  BY <1>2, <1>4, <1>5, <1>6, <1>7, <1>8 DEF TypeOK, queueVars

LEMMA TypePrune == ASSUME TypeOK, Prune PROVE TypeOK'
<1> USE OfflineAssumption DEF TypeOK
<1> DEFINE done == {i \in Intents : Is(i, {"committed", "expired", "cancelled"})}
           cleared == [n \in DOMAIN writes |->
                         IF writes[n].ack # <<>> /\ Head(writes[n].ack) \in done
                         THEN [writes[n] EXCEPT !.ack = <<>>] ELSE writes[n]]
<1> HIDE DEF done
<1>0. done \subseteq Intents  BY DEF done
<1>1. intents' \in Log  BY <1>0 DEF Prune, Log, done
<1>2. promised' \in [Intents -> {None} \cup Promises]  BY DEF Prune
<1>3. DOMAIN writes = 1..Len(writes) /\ \A n \in 1..Len(writes) : writes[n] \in Persists
  OBVIOUS
<1>4. cleared \in Seq(Persists)
  <2>1. cleared \in [1..Len(writes) -> Persists]
    <3> SUFFICES ASSUME NEW n \in 1..Len(writes) PROVE cleared[n] \in Persists
      BY <1>3
    <3>1. writes[n] \in Persists  BY <1>3
    <3>2. [writes[n] EXCEPT !.ack = <<>>] \in Persists  BY <3>1 DEF Persists
    <3>3. QED  BY <1>3, <3>1, <3>2
  <2>2. QED  BY <2>1
<1>5. [checksum |-> intents', ack |-> <<>>] \in Persists  BY <1>1 DEF Persists
<1>6. writes' \in Seq(Persists)  BY <1>4, <1>5 DEF Prune, done
<1>7. UNCHANGED <<part, up, faults>> /\ calls' \in 0..Bound /\ Bound' = Bound
  BY DEF Prune, Call, Bound
<1>8. UNCHANGED <<written, file, executed, settled, queueVars>> /\ known' \subseteq Intents  BY DEF Prune
<1>9. unsure' \subseteq Intents \cup Keys  BY DEF Prune
<1>10. runs' \in [Callers -> Run]
  <2>1. ASSUME NEW r \in Run PROVE [r EXCEPT !.live = "lost"] \in Run  BY DEF Run
  <2>2. \A c \in Callers : runs[c] \in Run /\ [runs[c] EXCEPT !.live = "lost"] \in Run
    BY <2>1 DEF TypeOK
  <2>3. QED  BY <2>2 DEF Prune
<1>11. QED  BY <1>1, <1>2, <1>6, <1>7, <1>8, <1>9, <1>10 DEF queueVars

\* What the loop of a reconciliation does up to its next await.
Advanced(c, todo, log) ==
  /\ intents' \in Log /\ writes' \in Seq(Persists) /\ runs' \in [Callers -> Run]
  /\ settled' \in {settled, "thrown"}
  /\ \A i \in Intents : i \notin todo => intents'[i] = log[i]
  /\ \A i \in Intents : log[i] = None <=> intents'[i] = None
  /\ \A d \in Callers \ {c} : runs'[d] = runs[d]
  /\ runs'[c].todo \subseteq todo
  /\ \/ runs'[c] = NoRun /\ Persist(<<>>) /\ settled' = settled
     \/ runs'[c] = NoRun /\ writes' = writes /\ settled' = "thrown"
     \/ /\ runs'[c].at \in runs'[c].todo /\ runs'[c].outcome = None
        /\ log[runs'[c].at] # None <=> runs'[c].live = "held"
        /\ writes' = writes /\ settled' = settled

LEMMA AdvanceEffect ==
  ASSUME TypeOK, NEW c \in Callers, NEW todo \in SUBSET Intents, NEW log \in Log, Advance(c, todo, log)
  PROVE  Advanced(c, todo, log)
<1> USE DEF Advanced
<1>1. PICK expired \in SUBSET todo :
        /\ \A i \in expired : log[i] # None
        /\ intents' = [i \in Intents |-> IF i \in expired THEN [log[i] EXCEPT !.status = "expired"] ELSE log[i]]
        /\ \/ \E i \in todo \ expired :
                /\ runs' = [runs EXCEPT ![c] = [todo |-> todo \ expired, at |-> i, outcome |-> None,
                                               live |-> IF log[i] = None THEN "absent" ELSE "held"]]
                /\ UNCHANGED <<writes, settled>>
           \/ todo = expired /\ runs' = [runs EXCEPT ![c] = NoRun] /\ Persist(<<>>) /\ UNCHANGED settled
           \/ /\ \E i \in todo \ expired : log[i] = None
              /\ runs' = [runs EXCEPT ![c] = NoRun] /\ settled' = "thrown" /\ UNCHANGED writes
  BY DEF Advance
<1>2. \A i \in expired : [log[i] EXCEPT !.status = "expired"] \in IntentRecord
  BY <1>1 DEF Log, IntentRecord, Statuses
<1>3. intents' \in Log  BY <1>1, <1>2 DEF Log
<1>4. \A i \in Intents : intents'[i] = IF i \in expired THEN [log[i] EXCEPT !.status = "expired"] ELSE log[i]
  BY <1>1
<1>5. \A i \in Intents : log[i] = None <=> intents'[i] = None
  BY <1>1, <1>2, <1>4, OfflineAssumption
<1>6. \A i \in Intents : i \notin todo => intents'[i] = log[i]  BY <1>4
<1>7. NoRun \in Run /\ NoRun.todo = {}  BY DEF NoRun, Run
<1>8. CASE \E i \in todo \ expired :
             /\ runs' = [runs EXCEPT ![c] = [todo |-> todo \ expired, at |-> i, outcome |-> None,
                                            live |-> IF log[i] = None THEN "absent" ELSE "held"]]
             /\ UNCHANGED <<writes, settled>>
  <2>1. PICK i \in todo \ expired :
             /\ runs' = [runs EXCEPT ![c] = [todo |-> todo \ expired, at |-> i, outcome |-> None,
                                            live |-> IF log[i] = None THEN "absent" ELSE "held"]]
             /\ UNCHANGED <<writes, settled>>
    BY <1>8
  <2>2. [todo |-> todo \ expired, at |-> i, outcome |-> None,
         live |-> IF log[i] = None THEN "absent" ELSE "held"] \in Run
    BY DEF Run
  <2>3. runs' \in [Callers -> Run] /\ \A d \in Callers \ {c} : runs'[d] = runs[d]
    BY <2>1, <2>2 DEF TypeOK
  <2>4. /\ runs'[c].todo = todo \ expired /\ runs'[c].at = i /\ runs'[c].outcome = None
        /\ runs'[c].live = IF log[i] = None THEN "absent" ELSE "held"
    BY <2>1 DEF TypeOK
  <2>5. writes' \in Seq(Persists)  BY <2>1 DEF TypeOK
  <2>6. QED  BY <1>3, <1>5, <1>6, <2>1, <2>3, <2>4, <2>5
<1>9. CASE runs' = [runs EXCEPT ![c] = NoRun] /\ Persist(<<>>) /\ UNCHANGED settled
  <2>1. writes' \in Seq(Persists)  BY <1>3, <1>9, PersistType DEF TypeOK
  <2>2. runs' \in [Callers -> Run] /\ runs'[c] = NoRun /\ \A d \in Callers \ {c} : runs'[d] = runs[d]
    BY <1>7, <1>9 DEF TypeOK
  <2>3. QED  BY <1>3, <1>5, <1>6, <1>7, <1>9, <2>1, <2>2
<1>10. CASE runs' = [runs EXCEPT ![c] = NoRun] /\ settled' = "thrown" /\ UNCHANGED writes
  <2>1. runs' \in [Callers -> Run] /\ runs'[c] = NoRun /\ \A d \in Callers \ {c} : runs'[d] = runs[d]
    BY <1>7, <1>10 DEF TypeOK
  <2>2. writes' \in Seq(Persists)  BY <1>10 DEF TypeOK
  <2>3. QED  BY <1>3, <1>5, <1>6, <1>7, <1>10, <2>1, <2>2
<1>11. QED  BY <1>1, <1>8, <1>9, <1>10

\* The log that a result leaves, with the intent it is the result of.
LEMMA ResultType ==
  ASSUME TypeOK, NEW i \in Intents, intents[i] # None, NEW o \in {None} \cup Outcomes
  PROVE  /\ [intents EXCEPT ![i] = After(@, o)] \in Log
         /\ [intents EXCEPT ![i] = After(@, o)][i] # None
         /\ o = "committed" => [intents EXCEPT ![i] = After(@, o)][i].status = "committed"
         /\ \A j \in Intents \ {i} : [intents EXCEPT ![i] = After(@, o)][j] = intents[j]
<1>1. intents[i] \in IntentRecord  BY DEF TypeOK, Log
<1>2. After(intents[i], o) \in IntentRecord  BY <1>1, AfterType
<1>3. After(intents[i], o) # None  BY <1>2, OfflineAssumption
<1>4. o = "committed" => After(intents[i], o).status = "committed"  BY DEF After
<1>5. QED  BY <1>2, <1>3, <1>4 DEF TypeOK, Log

\* A reconciliation that holds an intent has it in the log.
Held == \A c \in Callers : runs[c].live = "held" => runs[c].at \in Intents /\ intents[runs[c].at] # None

LEMMA TypeRun ==
  ASSUME TypeOK, Held, NEW c \in Callers,
         \/ Reconcile(c) \/ Executed(c)
         \/ \E i \in Intents, o \in Outcomes : Execute(c, i, o)
  PROVE  TypeOK'
<1>1. CASE Reconcile(c)
  <2>1. Pending \in SUBSET Intents /\ intents \in Log  BY DEF Pending, TypeOK
  <2>2. /\ intents' \in Log /\ writes' \in Seq(Persists) /\ runs' \in [Callers -> Run]
        /\ settled' \in {settled, "thrown"}
    BY <1>1, <2>1, AdvanceEffect DEF Reconcile, Advanced
  <2>3. unsure' \subseteq Intents \cup Keys  BY <1>1, <2>1 DEF Reconcile, TypeOK
  <2>4. QED  BY <1>1, <2>2, <2>3, OfflineAssumption DEF Reconcile, Call, TypeOK, Bound, queueVars
<1>2. ASSUME NEW i \in Intents, NEW o \in Outcomes, Execute(c, i, o) PROVE TypeOK'
  <2>0. runs[c] \in Run  BY DEF TypeOK
  <2>1. runs' \in [Callers -> Run]
    <3>1. [runs[c] EXCEPT !.outcome = o] \in Run  BY <2>0 DEF Run
    <3>2. runs' = [runs EXCEPT ![c] = [runs[c] EXCEPT !.outcome = o]]
      BY <1>2, <2>0 DEF Execute, Run, TypeOK
    <3>3. QED  BY <3>1, <3>2 DEF TypeOK
  <2>2. executed' \in [Intents -> Nat]
    <3>1. executed' = executed \/ executed' = [executed EXCEPT ![i] = @ + 1]
      BY <1>2 DEF Execute
    <3>2. executed \in [Intents -> Nat]  BY DEF TypeOK
    <3>3. QED  BY ONLY <3>1, <3>2
  <2>3. unsure' \subseteq Intents \cup Keys  BY <1>2 DEF Execute, TypeOK
  <2>4. UNCHANGED <<part, up>> /\ calls' = calls /\ faults' \in 0..MaxFaults
    <3>1. CASE o = "unknown"  BY <1>2, <3>1, FaultType DEF Execute, TypeOK
    <3>2. CASE o # "unknown"  BY <1>2, <3>2 DEF Execute, Step, TypeOK
    <3>3. QED  BY <3>1, <3>2
  <2>5. QED  BY <1>2, <2>1, <2>2, <2>3, <2>4 DEF Execute, TypeOK, Bound, queueVars
<1>3. CASE Executed(c)
  <2> DEFINE at == runs[c].at
             left == runs[c].todo \ {at}
             after == [intents EXCEPT ![at] = After(@, runs[c].outcome)]
  <2>1. runs[c] \in Run  BY DEF TypeOK
  <2>2. left \in SUBSET Intents /\ intents \in Log /\ NoRun \in Run
    BY <2>1 DEF Run, TypeOK, NoRun
  <2>3. /\ intents' \in Log /\ writes' \in Seq(Persists) /\ runs' \in [Callers -> Run]
        /\ settled' \in {settled, "thrown"}
    <3>1. CASE runs[c].live = "held"
      <4>1. at \in Intents /\ intents[at] # None  BY <3>1 DEF Held
      <4>2. after \in Log  BY <2>1, <4>1, ResultType DEF Run
      <4>3. Advance(c, left, after)  BY <1>3, <3>1 DEF Executed
      <4>4. Advanced(c, left, after)  BY <2>2, <4>2, <4>3, AdvanceEffect
      <4>5. QED  BY <4>4 DEF Advanced
    <3>2. CASE runs[c].live = "lost"
      <4>1. Advance(c, left, intents)  BY <1>3, <3>2 DEF Executed
      <4>2. Advanced(c, left, intents)  BY <2>2, <4>1, AdvanceEffect
      <4>3. QED  BY <4>2 DEF Advanced
    <3>3. CASE runs[c].live \notin {"held", "lost"}
      <4>1. runs' = [runs EXCEPT ![c] = NoRun] /\ settled' = "thrown" /\ UNCHANGED <<intents, writes>>
        BY <1>3, <3>3 DEF Executed
      <4>2. QED  BY <2>2, <4>1 DEF TypeOK
    <3>4. QED  BY <3>1, <3>2, <3>3
  <2>4. QED  BY <1>3, <2>3 DEF Executed, Step, TypeOK, Bound, queueVars
<1>4. QED  BY <1>1, <1>2, <1>3

LEMMA TypeFile ==
  ASSUME TypeOK, Serialise \/ Rename \/ PersistFails \/ Crash \/ Open
  PROVE  TypeOK'
<1> USE OfflineAssumption DEF TypeOK, Bound, queueVars
<1>1. CASE Serialise
  <2>1. writes # <<>> /\ Head(writes) \in Persists  BY <1>1 DEF Serialise
  <2>2. written' \in [content : Log, checksum : Log]  BY <1>1, <2>1 DEF Serialise, Persists
  <2>3. QED  BY <1>1, <2>2 DEF Serialise, Step
<1>2. CASE Rename
  <2>1. writes # <<>> /\ Head(writes) \in Persists  BY <1>2 DEF Rename
  <2>2. writes' \in Seq(Persists)  BY <1>2, <2>1 DEF Rename
  <2>3. promised' \in [Intents -> {None} \cup Promises]
    <3>1. CASE Head(writes).ack = <<>>  BY <1>2, <3>1 DEF Rename
    <3>2. CASE Head(writes).ack # <<>>
      <4>1. Head(writes).ack \in Intents \X Promises  BY <2>1, <3>2 DEF Persists
      <4>2. Head(writes).ack[1] \in Intents /\ Head(writes).ack[2] \in Promises  BY <4>1
      <4>3. QED  BY <1>2, <3>2, <4>2 DEF Rename
    <3>3. QED  BY <3>1, <3>2
  <2>4. QED  BY <1>2, <2>2, <2>3 DEF Rename, Step
<1>3. CASE PersistFails
  <2>1. file' \in [content : Log, checksum : Log]  BY <1>3 DEF PersistFails
  <2>2. QED  BY <1>3, <2>1 DEF PersistFails, Fault
<1>4. CASE Crash
  <2>1. runs' \in [Callers -> Run]  BY <1>4 DEF Crash, NoRun, Run
  <2>2. unsure' \subseteq Intents \cup Keys  BY <1>4 DEF Crash
  <2>3. writes' \in Seq(Persists) /\ written' = None  BY <1>4 DEF Crash
  <2>4. /\ up' \in BOOLEAN /\ faults' \in 0..MaxFaults /\ known' \subseteq Intents
        /\ UNCHANGED <<part, calls, intents, file, executed, promised, settled, queueVars>>
    BY <1>4, FaultType DEF Crash
  <2>5. QED  BY <2>1, <2>2, <2>3, <2>4
<1>5. CASE Open  BY <1>5 DEF Open
<1>6. QED  BY <1>1, <1>2, <1>3, <1>4, <1>5

-----------------------------------------------------------------------------
\* What a queued write makes of the items is a list of items.
LEMMA DraftType ==
  ASSUME items \in Seq(Item),
         NEW job \in [kind : {"add"}, by : Keys] \cup [kind : {"attempt", "shift"}, by : Callers],
         job.kind = "attempt" => items # <<>>
  PROVE  Draft(job) \in Seq(Item)
<1>1. CASE job.kind = "add"
  <2>1. [key |-> job.by, attempts |-> 0] \in Item  BY <1>1 DEF Item
  <2>2. QED  BY <1>1, <2>1 DEF Draft
<1>2. CASE job.kind = "attempt"
  <2>1. items[1] \in Item  BY <1>2
  <2>2. [items[1] EXCEPT !.attempts = @ + 1] \in Item
    <3>1. ASSUME NEW i \in Item PROVE [i EXCEPT !.attempts = @ + 1] \in Item  BY DEF Item
    <3>2. QED  BY <2>1, <3>1
  <2>3. Draft(job) = [items EXCEPT ![1] = [items[1] EXCEPT !.attempts = @ + 1]]
    BY <1>2 DEF Draft
  <2>4. QED  BY <1>2, <2>2, <2>3
<1>3. CASE job.kind = "shift"
  BY <1>3 DEF Draft
<1>4. QED  BY <1>1, <1>2, <1>3

\* Looking at the first item starts an attempt or ends the flush.
LEMMA LookType ==
  ASSUME TypeOK, NEW c \in Callers, Look(c)
  PROVE  /\ flushes' \in [Callers -> {None, "attempt", "send", "remove", "next"}]
         /\ jobs' \in Seq([kind : {"add"}, by : Keys] \cup [kind : {"attempt", "shift"}, by : Callers])
<1>1. /\ flushes \in [Callers -> {None, "attempt", "send", "remove", "next"}]
      /\ jobs \in Seq([kind : {"add"}, by : Keys] \cup [kind : {"attempt", "shift"}, by : Callers])
  BY DEF TypeOK
<1>2. [kind |-> "attempt", by |-> c] \in [kind : {"attempt", "shift"}, by : Callers]
  OBVIOUS
<1>3. CASE items = <<>> \/ Head(items).attempts >= MaxAttempts
  BY <1>1, <1>3 DEF Look
<1>4. CASE ~(items = <<>> \/ Head(items).attempts >= MaxAttempts)
  BY <1>1, <1>2, <1>4 DEF Look, Job
<1>5. QED  BY <1>3, <1>4

LEMMA UnremovedType == ASSUME TypeOK PROVE Unremoved \subseteq Keys
<1>1. CASE items = <<>>  BY <1>1 DEF Unremoved
<1>2. CASE items # <<>>
  <2>1. Head(items) \in Item  BY <1>2 DEF TypeOK
  <2>2. QED  BY <1>2, <2>1 DEF Unremoved, Item
<1>3. QED  BY <1>1, <1>2

LEMMA TypeQueue ==
  ASSUME TypeOK,
         \/ \E k \in Keys : EnqueueChange(k)
         \/ \E c \in Callers :
              Flush(c) \/ FlushOn(c) \/ \E arrives, answered \in BOOLEAN : Send(c, arrives, answered)
         \/ AppliedElsewhere \/ Mutate \/ MutateFails \/ CrashQueue \/ OpenQueue
  PROVE  TypeOK'
<1> USE OfflineAssumption DEF TypeOK, Bound, logVars
<1>1. ASSUME NEW k \in Keys, EnqueueChange(k) PROVE TypeOK'
  BY <1>1 DEF EnqueueChange, Job, Call
<1>2. ASSUME NEW c \in Callers, Flush(c) PROVE TypeOK'
  <2>1. unsure' \subseteq Intents \cup Keys  BY <1>2 DEF Flush
  <2>2. /\ flushes' \in [Callers -> {None, "attempt", "send", "remove", "next"}]
        /\ jobs' \in Seq([kind : {"add"}, by : Keys] \cup [kind : {"attempt", "shift"}, by : Callers])
    BY <1>2, LookType DEF Flush
  <2>3. UNCHANGED <<part, up, faults>> /\ calls' \in 0..Bound /\ Bound' = Bound
    BY <1>2 DEF Flush, Call
  <2>4. UNCHANGED <<logVars, items, saved, server, accepted>> /\ again' \subseteq Keys  BY <1>2 DEF Flush
  <2>5. QED  BY <2>1, <2>2, <2>3, <2>4
<1>3. ASSUME NEW c \in Callers, FlushOn(c) PROVE TypeOK'
  BY <1>3, LookType DEF FlushOn, Step
<1>4. CASE Mutate
  <2> DEFINE job == Head(jobs)
  <2>1. job \in [kind : {"add"}, by : Keys] \cup [kind : {"attempt", "shift"}, by : Callers]
    BY <1>4 DEF Mutate
  <2>2. items' \in Seq(Item) /\ saved' \in Seq(Item)
    BY <1>4, <2>1, DraftType DEF Mutate, Saved
  <2>3. accepted' \in Seq(Keys)  BY <1>4, <2>1 DEF Mutate
  <2>4. flushes' \in [Callers -> {None, "attempt", "send", "remove", "next"}]
    BY <1>4, <2>1 DEF Mutate
  <2>5. jobs' \in Seq([kind : {"add"}, by : Keys] \cup [kind : {"attempt", "shift"}, by : Callers])
    BY <1>4 DEF Mutate
  <2>6. UNCHANGED <<part, up, calls, faults, logVars, server, unsure>>  BY <1>4 DEF Mutate, Step
  <2>8. again' \subseteq Keys  BY <1>4, <2>1 DEF Mutate, Repeats
  <2>7. QED  BY <2>2, <2>3, <2>4, <2>5, <2>6, <2>8
<1>5. CASE MutateFails
  <2>1. faults' \in 0..MaxFaults /\ calls' = calls /\ part' = part
    BY <1>5, FaultType DEF MutateFails
  <2>2. flushes' \in [Callers -> {None, "attempt", "send", "remove", "next"}]
    BY <1>5 DEF MutateFails
  <2>3. jobs' \in Seq([kind : {"add"}, by : Keys] \cup [kind : {"attempt", "shift"}, by : Callers])
    BY <1>5 DEF MutateFails
  <2>4. Head(jobs) \in [kind : {"add"}, by : Keys] \cup [kind : {"attempt", "shift"}, by : Callers]
    BY <1>5 DEF MutateFails
  <2>5. saved' \in Seq(Item)  BY <1>5, <2>4, DraftType DEF MutateFails
  <2>6. unsure' \subseteq Intents \cup Keys  BY <1>5, <2>4 DEF MutateFails
  <2>7. again' \subseteq Keys
    <3>1. Repeats(Head(jobs)) \subseteq Keys  BY <2>4 DEF Repeats
    <3>2. QED  BY <1>5, <3>1, UnremovedType DEF MutateFails
  <2>8. QED  BY <1>5, <2>1, <2>2, <2>3, <2>5, <2>6, <2>7 DEF MutateFails
<1>6. ASSUME NEW c \in Callers, NEW arrives \in BOOLEAN, NEW answered \in BOOLEAN,
             Send(c, arrives, answered)
      PROVE  TypeOK'
  <2>1. server' \in Seq(Keys \cup {None})
    <3>1. CASE items = <<>>  BY <1>6, <3>1 DEF Send
    <3>2. CASE items # <<>>
      <4>1. Head(items) \in Item  BY <3>2
      <4>2. Head(items).key \in Keys  BY <4>1 DEF Item
      <4>3. Applied(Head(items).key) \in Seq(Keys \cup {None})  BY <4>2 DEF Applied
      <4>4. QED  BY <1>6, <3>2, <4>3 DEF Send
    <3>3. QED  BY <3>1, <3>2
  <2>2. flushes' \in [Callers -> {None, "attempt", "send", "remove", "next"}]
    BY <1>6 DEF Send
  <2>3. jobs' \in Seq([kind : {"add"}, by : Keys] \cup [kind : {"attempt", "shift"}, by : Callers])
    <3>1. [kind |-> "shift", by |-> c] \in [kind : {"attempt", "shift"}, by : Callers]
      OBVIOUS
    <3>2. jobs' = jobs \/ jobs' = Append(jobs, [kind |-> "shift", by |-> c])
      BY <1>6 DEF Send, Job
    <3>3. jobs \in Seq([kind : {"add"}, by : Keys] \cup [kind : {"attempt", "shift"}, by : Callers])
      OBVIOUS
    <3>4. [kind |-> "shift", by |-> c] \in [kind : {"add"}, by : Keys] \cup [kind : {"attempt", "shift"}, by : Callers]
      BY <3>1
    <3>5. CASE jobs' = jobs  BY <3>3, <3>5
    <3>6. CASE jobs' = Append(jobs, [kind |-> "shift", by |-> c])  BY ONLY <3>3, <3>4, <3>6
    <3>7. QED  BY <3>2, <3>5, <3>6
  <2>4. again' \subseteq Keys  BY <1>6, UnremovedType DEF Send
  <2>5. QED  BY <1>6, <2>1, <2>2, <2>3, <2>4 DEF Send, Step
<1>7. CASE CrashQueue
  <2>1. faults' \in 0..MaxFaults /\ calls' = calls /\ part' = part
    BY <1>7, FaultType DEF CrashQueue
  <2>2. jobs' = <<>> /\ up' = FALSE
        /\ flushes' \in [Callers -> {None, "attempt", "send", "remove", "next"}]
    BY <1>7 DEF CrashQueue
  <2>3. jobs' \in Seq([kind : {"add"}, by : Keys] \cup [kind : {"attempt", "shift"}, by : Callers])
    BY <2>2
  <2>4. UNCHANGED <<logVars, items, saved, server, accepted, unsure>> /\ again' \subseteq Keys
    BY <1>7, UnremovedType DEF CrashQueue
  <2>5. QED  BY <2>1, <2>2, <2>3, <2>4
<1>8. CASE OpenQueue  BY <1>8 DEF OpenQueue
<1>10. CASE AppliedElsewhere  BY <1>10 DEF AppliedElsewhere, Call
<1> HIDE OfflineAssumption DEF TypeOK, Bound, logVars
<1>9. QED  BY <1>1, <1>2, <1>3, <1>4, <1>5, <1>6, <1>7, <1>8, <1>10

LEMMA TypeStep == ASSUME TypeOK, Held, [Next]_vars PROVE TypeOK'
<1>1. CASE Next
  <2>1. ASSUME NEW i \in Intents, Enqueue(i) \/ EnqueueKnown(i) \/ Cancel(i) \/ Retry(i) PROVE TypeOK'
    BY <2>1, TypeIntents
  <2>2. CASE Prune  BY <2>2, TypePrune
  <2>3. CASE Serialise \/ Rename \/ PersistFails \/ Crash \/ Open  BY <2>3, TypeFile
  <2>4. ASSUME NEW c \in Callers,
               \/ Reconcile(c) \/ Executed(c)
               \/ \E i \in Intents, o \in Outcomes : Execute(c, i, o)
        PROVE  TypeOK'
    BY <2>4, TypeRun
  <2>5. CASE \/ \E k \in Keys : EnqueueChange(k)
             \/ \E c \in Callers :
                  Flush(c) \/ FlushOn(c) \/ \E arrives, answered \in BOOLEAN : Send(c, arrives, answered)
             \/ AppliedElsewhere \/ Mutate \/ MutateFails \/ CrashQueue \/ OpenQueue
    BY <2>5, TypeQueue
  <2>6. QED  BY <1>1, <2>1, <2>2, <2>3, <2>4, <2>5 DEF Next
<1>2. CASE UNCHANGED vars
  BY <1>2 DEF TypeOK, Bound, vars, logVars, queueVars
<1>3. QED  BY <1>1, <1>2

-----------------------------------------------------------------------------
(* The log of intents: what its queue of writes, its file and the          *)
(* reconciliations say of each other.                                      *)

\* The log's process runs (or the behaviour is one of the queue of changes).
Live == up \/ part # "intents"
Quiet == \A c \in Callers : runs[c].at = None

\* The write that is serialised is the first of the queue, what is executed is
\* listed, and nothing is under way while the process is down.
Shape ==
  /\ ~Live => writes = <<>> /\ written = None /\ \A c \in Callers : runs[c] = NoRun
  /\ written # None => writes # <<>> /\ written.checksum = writes[1].checksum
  /\ \A c \in Callers : IF runs[c].at = None THEN runs[c] = NoRun ELSE runs[c].at \in runs[c].todo
  /\ Held

LEMMA PersistEffect ==
  ASSUME TypeOK, intents' \in Log, NEW a \in {<<>>} \cup (Intents \X Promises), Persist(a)
  PROVE  /\ Len(writes') = Len(writes) + 1
         /\ writes'[Len(writes')] = [checksum |-> intents', ack |-> a]
         /\ \A n \in 1..Len(writes) : writes'[n] = writes[n]
<1>1. writes \in Seq(Persists)  BY DEF TypeOK
<1>2. [checksum |-> intents', ack |-> a] \in Persists  BY DEF Persists
<1>3. QED  BY <1>1, <1>2 DEF Persist

LEMMA TailEffect ==
  ASSUME TypeOK, writes # <<>>, writes' = Tail(writes)
  PROVE  /\ Len(writes') = Len(writes) - 1 /\ Len(writes) > 0
         /\ \A n \in 1..Len(writes') : n + 1 \in 1..Len(writes) /\ writes'[n] = writes[n + 1]
<1>1. writes \in Seq(Persists)  BY DEF TypeOK
<1>2. QED  BY <1>1

\* What prune() does to the log, its promises and its queue.
Pruned == {i \in Intents : Is(i, {"committed", "expired", "cancelled"})}

LEMMA PruneEffect ==
  ASSUME TypeOK, Prune
  PROVE  /\ \A i \in Intents : intents'[i] = IF i \in Pruned THEN None ELSE intents[i]
         /\ \A i \in Intents : promised'[i] = IF i \in Pruned THEN None ELSE promised[i]
         /\ \A i \in Pruned : Listed(i) => i \in unsure'
         /\ unsure \subseteq unsure'
         /\ Len(writes') = Len(writes) + 1
         /\ writes'[Len(writes')] = [checksum |-> intents', ack |-> <<>>]
         /\ \A n \in 1..Len(writes) :
              /\ writes'[n].checksum = writes[n].checksum
              /\ \/ writes'[n].ack = <<>>
                 \/ /\ writes'[n].ack = writes[n].ack
                    /\ writes[n].ack # <<>> => writes[n].ack[1] \notin Pruned
         /\ \A c \in Callers :
              /\ runs'[c].todo = runs[c].todo /\ runs'[c].at = runs[c].at
              /\ IF runs[c].at \in Pruned THEN runs'[c].live # "held" ELSE runs'[c] = runs[c]
         /\ UNCHANGED <<part, up, written, file, executed, settled>>
<1> DEFINE cleared == [n \in DOMAIN writes |->
                         IF writes[n].ack # <<>> /\ Head(writes[n].ack) \in Pruned
                         THEN [writes[n] EXCEPT !.ack = <<>>] ELSE writes[n]]
<1>1. DOMAIN writes = 1..Len(writes) /\ \A n \in 1..Len(writes) : writes[n] \in Persists
  BY DEF TypeOK
<1>2. \A n \in 1..Len(writes) :
        /\ cleared[n] \in Persists
        /\ cleared[n].checksum = writes[n].checksum
        /\ \/ cleared[n].ack = <<>>
           \/ /\ cleared[n].ack = writes[n].ack
              /\ writes[n].ack # <<>> => Head(writes[n].ack) \notin Pruned
  <2> SUFFICES ASSUME NEW n \in 1..Len(writes)
      PROVE  /\ cleared[n] \in Persists
             /\ cleared[n].checksum = writes[n].checksum
             /\ \/ cleared[n].ack = <<>>
                \/ /\ cleared[n].ack = writes[n].ack
                   /\ writes[n].ack # <<>> => Head(writes[n].ack) \notin Pruned
    OBVIOUS
  <2>1. writes[n] \in Persists  BY <1>1
  <2>2. /\ [writes[n] EXCEPT !.ack = <<>>] \in Persists
        /\ [writes[n] EXCEPT !.ack = <<>>].ack = <<>>
        /\ [writes[n] EXCEPT !.ack = <<>>].checksum = writes[n].checksum
    BY <2>1 DEF Persists
  <2>3. QED  BY <1>1, <2>1, <2>2
<1>3. \A n \in 1..Len(writes) : writes[n].ack # <<>> => Head(writes[n].ack) = writes[n].ack[1]
  BY <1>1 DEF Persists
<1>4. intents' \in Log  BY TypePrune DEF TypeOK
<1>5. [checksum |-> intents', ack |-> <<>>] \in Persists  BY <1>4 DEF Persists
<1>6. writes' = Append(cleared, [checksum |-> intents', ack |-> <<>>])  BY DEF Prune, Pruned
<1>7. cleared \in Seq(Persists) /\ Len(cleared) = Len(writes)
  <2> HIDE DEF cleared
  <2>1. DOMAIN cleared = 1..Len(writes)  BY <1>1 DEF cleared
  <2>2. cleared = [n \in 1..Len(writes) |-> cleared[n]]  BY <1>1 DEF cleared
  <2>3. Len(writes) \in Nat  BY DEF TypeOK
  <2>4. QED  BY <1>2, <2>1, <2>2, <2>3
<1> HIDE DEF cleared
<1>8. /\ Len(writes') = Len(writes) + 1
      /\ writes'[Len(writes')] = [checksum |-> intents', ack |-> <<>>]
      /\ \A n \in 1..Len(writes) : writes'[n] = cleared[n]
  BY <1>5, <1>6, <1>7
<1>9. \A i \in Intents : intents'[i] = IF i \in Pruned THEN None ELSE intents[i]
  BY DEF Prune, Pruned
<1>10. \A i \in Intents : promised'[i] = IF i \in Pruned THEN None ELSE promised[i]
  BY DEF Prune, Pruned
<1>11. unsure \subseteq unsure' /\ \A i \in Pruned : Listed(i) => i \in unsure'
  BY DEF Prune, Pruned
<1>12. UNCHANGED <<part, up, written, file, executed, settled>>
  BY DEF Prune, Call
<1>13. ASSUME NEW c \in Callers
       PROVE  /\ runs'[c].todo = runs[c].todo /\ runs'[c].at = runs[c].at
              /\ IF runs[c].at \in Pruned THEN runs'[c].live # "held" ELSE runs'[c] = runs[c]
  <2>1. runs[c] \in Run  BY DEF TypeOK
  <2>2. runs'[c] = IF runs[c].at \in Pruned /\ runs[c].live = "held"
                   THEN [runs[c] EXCEPT !.live = "lost"] ELSE runs[c]
    BY DEF Prune, Pruned
  <2>3. /\ [runs[c] EXCEPT !.live = "lost"].todo = runs[c].todo
        /\ [runs[c] EXCEPT !.live = "lost"].at = runs[c].at
        /\ [runs[c] EXCEPT !.live = "lost"].live = "lost"
    BY <2>1 DEF Run
  <2>4. QED  BY <2>2, <2>3
<1>14. QED  BY <1>2, <1>3, <1>8, <1>9, <1>10, <1>11, <1>12, <1>13

\* What the other actions change, one value at a time.
Appended(a) ==
  /\ Len(writes') = Len(writes) + 1
  /\ writes'[Len(writes')] = [checksum |-> intents', ack |-> a]
  /\ \A n \in 1..Len(writes) : writes'[n] = writes[n]

InLog == part = "intents" /\ part' = part /\ up /\ up'

LEMMA EnqueueEffect ==
  ASSUME TypeOK, NEW i \in Intents, Enqueue(i)
  PROVE  /\ InLog /\ intents[i] = None
         /\ intents'[i] = [status |-> "pending", attempts |-> 0] /\ intents'[i] # None
         /\ \A j \in Intents \ {i} : intents'[j] = intents[j]
         /\ executed'[i] = 0 /\ \A j \in Intents \ {i} : executed'[j] = executed[j]
         /\ promised'[i] = None /\ \A j \in Intents \ {i} : promised'[j] = promised[j]
         /\ Appended(<<i, "enqueued">>)
         /\ UNCHANGED <<written, file, runs, settled, unsure>>
<1>1. [status |-> "pending", attempts |-> 0] \in IntentRecord  BY DEF IntentRecord, Statuses
<1>2. [status |-> "pending", attempts |-> 0] # None  BY <1>1, OfflineAssumption
<1>3. intents' \in Log  BY TypeIntents DEF TypeOK
<1>4. Appended(<<i, "enqueued">>)
  BY <1>3, PersistEffect DEF Enqueue, Appended, Promises
<1>5. InLog  BY DEF InLog, Enqueue, Call
<1>6. QED  BY <1>2, <1>4, <1>5 DEF TypeOK, Log, Enqueue

LEMMA CancelEffect ==
  ASSUME TypeOK, NEW i \in Intents, Cancel(i)
  PROVE  /\ InLog /\ intents[i] # None /\ intents[i].status # "committed"
         /\ intents'[i] # None /\ intents'[i].status = "cancelled"
         /\ \A j \in Intents \ {i} : intents'[j] = intents[j]
         /\ \/ Listed(i) /\ Appended(<<>>)
            \/ ~Listed(i) /\ Appended(<<i, "cancelled">>)
         /\ UNCHANGED <<written, file, runs, executed, promised, settled, unsure>>
<1>1. /\ intents' \in Log /\ intents'[i] \in IntentRecord /\ intents'[i].status = "cancelled"
      /\ \A j \in Intents \ {i} : intents'[j] = intents[j]
  BY StatusType DEF Cancel, TypeOK, Statuses
<1>2. intents'[i] # None  BY <1>1, OfflineAssumption
<1>3. \/ Listed(i) /\ Appended(<<>>)
      \/ ~Listed(i) /\ Appended(<<i, "cancelled">>)
  <2>1. CASE Listed(i)
    <3>1. Persist(<<>>)  BY <2>1 DEF Cancel
    <3>2. QED  BY <1>1, <2>1, <3>1, PersistEffect DEF Appended
  <2>2. CASE ~Listed(i)
    <3>1. Persist(<<i, "cancelled">>)  BY <2>2 DEF Cancel
    <3>2. QED  BY <1>1, <2>2, <3>1, PersistEffect DEF Appended, Promises
  <2>3. QED  BY <2>1, <2>2
<1>4. InLog /\ intents[i] # None /\ intents[i].status # "committed"
  BY DEF InLog, Cancel, Call, Is
<1>5. UNCHANGED <<written, file, runs, executed, promised, settled, unsure>>  BY DEF Cancel
<1>6. QED  BY <1>1, <1>2, <1>3, <1>4, <1>5

LEMMA RetryEffect ==
  ASSUME TypeOK, NEW i \in Intents, Retry(i)
  PROVE  /\ InLog /\ intents[i] # None /\ intents[i].status \in {"conflict", "failed"}
         /\ intents'[i] # None
         /\ \A j \in Intents \ {i} : intents'[j] = intents[j]
         /\ promised'[i] # "cancelled" /\ (promised'[i] # None => promised[i] # None)
         /\ \A j \in Intents \ {i} : promised'[j] = promised[j]
         /\ Appended(<<>>)
         /\ UNCHANGED <<written, file, runs, executed, settled, unsure>>
<1>1. intents[i] # None /\ intents[i].status \in {"conflict", "failed"}
  BY DEF Retry, Is, Retryable
<1>2. /\ intents' \in Log /\ intents'[i] \in IntentRecord
      /\ \A j \in Intents \ {i} : intents'[j] = intents[j]
  BY <1>1, StatusType DEF Retry, TypeOK, Statuses
<1>3. intents'[i] # None  BY <1>2, OfflineAssumption
<1>4. Appended(<<>>)  BY <1>2, PersistEffect DEF Retry, Appended
<1>5. /\ promised'[i] # "cancelled" /\ (promised'[i] # None => promised[i] # None)
      /\ \A j \in Intents \ {i} : promised'[j] = promised[j]
  BY OfflineAssumption DEF Retry, TypeOK, Promises
<1>6. InLog /\ UNCHANGED <<written, file, runs, executed, settled, unsure>>
  BY DEF InLog, Retry, Call
<1>7. QED  BY <1>1, <1>2, <1>3, <1>4, <1>5, <1>6

\* Where the loop of a reconciliation can be at its next await.
Turn(c, todo) ==
  /\ \A d \in Callers \ {c} : runs'[d] = runs[d]
  /\ runs'[c].todo \subseteq todo
  /\ \/ runs'[c] = NoRun /\ Appended(<<>>) /\ settled' = settled
     \/ runs'[c] = NoRun /\ writes' = writes /\ settled' = "thrown"
     \/ /\ runs'[c].at \in runs'[c].todo /\ runs'[c].outcome = None
        /\ writes' = writes /\ settled' = settled

LEMMA AdvanceTurns ==
  ASSUME TypeOK, NEW c \in Callers, NEW todo \in SUBSET Intents, NEW log \in Log, Advance(c, todo, log)
  PROVE  /\ Turn(c, todo)
         /\ \A i \in Intents : i \notin todo => intents'[i] = log[i]
         /\ \A i \in Intents : log[i] = None <=> intents'[i] = None
         /\ runs'[c].at \in Intents /\ log[runs'[c].at] # None => runs'[c].live = "held"
         /\ runs'[c].live = "held" => runs'[c].at \in Intents /\ intents'[runs'[c].at] # None
<1>1. Advanced(c, todo, log)  BY AdvanceEffect
<1>2. intents' \in Log  BY <1>1 DEF Advanced
<1>3. Persist(<<>>) => Appended(<<>>)  BY <1>2, PersistEffect DEF Appended
<1>4. Turn(c, todo)  BY <1>1, <1>3 DEF Advanced, Turn
<1>5. \/ runs'[c] = NoRun
      \/ runs'[c].at \in Intents /\ (log[runs'[c].at] # None <=> runs'[c].live = "held")
  BY <1>1 DEF Advanced
<1>6. NoRun.at = None /\ NoRun.live = None /\ None # "held" /\ None \notin Intents
  BY OfflineAssumption DEF NoRun
<1>7. /\ \A i \in Intents : i \notin todo => intents'[i] = log[i]
      /\ \A i \in Intents : log[i] = None <=> intents'[i] = None
  BY <1>1 DEF Advanced
<1>8. QED  BY <1>4, <1>5, <1>6, <1>7

LEMMA ReconcileEffect ==
  ASSUME TypeOK, NEW c \in Callers, Reconcile(c)
  PROVE  /\ InLog /\ runs[c].at = None /\ Turn(c, Pending)
         /\ \A i \in Intents : i \notin Pending => intents'[i] = intents[i]
         /\ \A i \in Intents : intents[i] = None <=> intents'[i] = None
         /\ runs'[c].at \in Intents => runs'[c].live = "held"
         /\ runs'[c].live = "held" => runs'[c].at \in Intents /\ intents'[runs'[c].at] # None
         /\ unsure \subseteq unsure' /\ \A i \in Pending : Listed(i) => i \in unsure'
         /\ UNCHANGED <<written, file, executed, promised>>
<1>1. /\ InLog /\ runs[c].at = None /\ Advance(c, Pending, intents)
      /\ unsure \subseteq unsure' /\ \A i \in Pending : Listed(i) => i \in unsure'
      /\ UNCHANGED <<written, file, executed, promised>>
  BY DEF InLog, Reconcile, Call
<1>2. Pending \in SUBSET Intents /\ intents \in Log  BY DEF Pending, TypeOK
<1>3. \A i \in Pending : intents[i] # None  BY DEF Pending, Is
<1>4. runs'[c].at \in Intents => runs'[c].live = "held"
  <2>1. runs'[c] = NoRun \/ runs'[c].at \in Pending  BY <1>1, <1>2, AdvanceTurns DEF Turn
  <2>2. NoRun.at = None /\ None \notin Intents  BY OfflineAssumption DEF NoRun
  <2>3. runs'[c].at \in Intents /\ intents[runs'[c].at] # None => runs'[c].live = "held"
    BY <1>1, <1>2, AdvanceTurns
  <2>4. QED  BY <1>3, <2>1, <2>2, <2>3
<1>5. QED  BY <1>1, <1>2, <1>4, AdvanceTurns

LEMMA ExecuteEffect ==
  ASSUME TypeOK, NEW c \in Callers, NEW i \in Intents, NEW o \in Outcomes, Execute(c, i, o)
  PROVE  /\ InLog /\ runs[c].at = i /\ runs[c].outcome = None
         /\ runs'[c].todo = runs[c].todo /\ runs'[c].at = i /\ runs'[c].outcome = o
         /\ runs'[c].live = runs[c].live
         /\ \A d \in Callers \ {c} : runs'[d] = runs[d]
         /\ \A j \in Intents \ {i} : executed'[j] = executed[j]
         /\ o = "committed" => executed'[i] = executed[i] + 1
         /\ o \notin {"committed", "unknown"} => executed'[i] = executed[i]
         /\ unsure \subseteq unsure' /\ (o = "unknown" => i \in unsure')
         /\ UNCHANGED <<intents, writes, written, file, promised, settled>>
<1>1. runs[c] \in Run  BY DEF TypeOK
<1>2. runs' = [runs EXCEPT ![c] = [runs[c] EXCEPT !.outcome = o]]
  BY <1>1 DEF Execute, Run, TypeOK
<1>3. /\ [runs[c] EXCEPT !.outcome = o].todo = runs[c].todo
      /\ [runs[c] EXCEPT !.outcome = o].at = runs[c].at
      /\ [runs[c] EXCEPT !.outcome = o].outcome = o
      /\ [runs[c] EXCEPT !.outcome = o].live = runs[c].live
  BY <1>1 DEF Run
<1>4. runs'[c] = [runs[c] EXCEPT !.outcome = o] /\ \A d \in Callers \ {c} : runs'[d] = runs[d]
  BY <1>2 DEF TypeOK
<1>5. InLog
  <2>1. CASE o = "unknown"  BY <2>1 DEF InLog, Execute, Fault
  <2>2. CASE o # "unknown"  BY <2>2 DEF InLog, Execute, Step
  <2>3. QED  BY <2>1, <2>2
<1>6. /\ \A j \in Intents \ {i} : executed'[j] = executed[j]
      /\ o = "committed" => executed'[i] = executed[i] + 1
      /\ o \notin {"committed", "unknown"} => executed'[i] = executed[i]
  BY DEF Execute, TypeOK
<1>7. unsure \subseteq unsure' /\ (o = "unknown" => i \in unsure')  BY DEF Execute
<1>8. /\ runs[c].at = i /\ runs[c].outcome = None
      /\ UNCHANGED <<intents, writes, written, file, promised, settled>>
  BY DEF Execute
<1>9. QED  BY <1>3, <1>4, <1>5, <1>6, <1>7, <1>8

\* The result of an execution: it goes to the intent the reconciliation holds,
\* or to none; the reconciliation goes on with the others, or throws.
LEMMA ExecutedEffect ==
  ASSUME TypeOK, Shape, NEW c \in Callers, Executed(c)
  PROVE  /\ InLog /\ runs[c].at \in runs[c].todo /\ runs[c].at \in Intents
         /\ Turn(c, runs[c].todo \ {runs[c].at})
         /\ \A i \in Intents : i \notin runs[c].todo => intents'[i] = intents[i]
         /\ \A i \in Intents : intents[i] = None <=> intents'[i] = None
         /\ runs'[c].at \in Intents /\ intents[runs'[c].at] # None => runs'[c].live = "held"
         /\ runs'[c].live = "held" => runs'[c].at \in Intents /\ intents'[runs'[c].at] # None
         /\ runs[c].live = "held" /\ runs[c].outcome = "committed" =>
              intents'[runs[c].at].status = "committed"
         /\ UNCHANGED <<written, file, executed, promised, unsure>>
<1> DEFINE at == runs[c].at
           left == runs[c].todo \ {at}
           after == [intents EXCEPT ![at] = After(@, runs[c].outcome)]
<1>1. runs[c] \in Run /\ intents \in Log  BY DEF TypeOK
<1>2. InLog /\ UNCHANGED <<written, file, executed, promised, unsure>>
  BY DEF InLog, Executed, Step
<1>3. runs[c].outcome # None  BY DEF Executed
<1>4. at \in runs[c].todo /\ at \in Intents  BY <1>1, <1>3 DEF Shape, NoRun, Run
<1>5. left \in SUBSET Intents /\ at \notin left  BY <1>1 DEF Run
<1>6. CASE runs[c].live = "held"
  <2>1. intents[at] # None  BY <1>6 DEF Shape, Held
  <2>2. /\ after \in Log /\ after[at] # None
        /\ runs[c].outcome = "committed" => after[at].status = "committed"
        /\ \A j \in Intents \ {at} : after[j] = intents[j]
    BY <1>1, <1>4, <2>1, ResultType DEF Run
  <2>3. Advance(c, left, after)  BY <1>6 DEF Executed
  <2> HIDE DEF after
  <2>4. /\ Turn(c, left)
        /\ \A i \in Intents : i \notin left => intents'[i] = after[i]
        /\ \A i \in Intents : after[i] = None <=> intents'[i] = None
        /\ runs'[c].at \in Intents /\ after[runs'[c].at] # None => runs'[c].live = "held"
        /\ runs'[c].live = "held" => runs'[c].at \in Intents /\ intents'[runs'[c].at] # None
    BY <1>5, <2>2, <2>3, AdvanceTurns
  <2>5. QED  BY <1>2, <1>4, <1>5, <2>1, <2>2, <2>4
<1>7. CASE runs[c].live = "lost"
  <2>1. Advance(c, left, intents)  BY <1>7 DEF Executed
  <2>2. QED  BY <1>1, <1>2, <1>4, <1>5, <1>7, <2>1, AdvanceTurns
<1>8. CASE runs[c].live \notin {"held", "lost"}
  <2>1. runs' = [runs EXCEPT ![c] = NoRun] /\ settled' = "thrown" /\ UNCHANGED <<intents, writes>>
    BY <1>8 DEF Executed
  <2>2. runs'[c] = NoRun /\ \A d \in Callers \ {c} : runs'[d] = runs[d]  BY <2>1 DEF TypeOK
  <2>3. QED  BY <1>2, <1>4, <1>8, <2>1, <2>2, OfflineAssumption DEF Turn, NoRun
<1>9. QED  BY <1>6, <1>7, <1>8

LEMMA SerialiseEffect ==
  ASSUME TypeOK, Serialise
  PROVE  /\ InLog /\ writes # <<>> /\ Len(writes) > 0 /\ written = None
         /\ written' = [content |-> intents, checksum |-> writes[1].checksum]
         /\ UNCHANGED <<intents, writes, file, runs, executed, promised, settled, unsure>>
  BY DEF InLog, Serialise, Step, TypeOK

LEMMA RenameEffect ==
  ASSUME TypeOK, Rename
  PROVE  /\ InLog /\ writes # <<>> /\ written # None /\ file' = written /\ written' = None
         /\ writes' = Tail(writes)
         /\ settled' = IF settled = "failed" THEN "yes" ELSE settled
         /\ \/ writes[1].ack = <<>> /\ promised' = promised
            \/ /\ writes[1].ack # <<>> /\ writes[1].ack \in Intents \X Promises
               /\ promised' = [promised EXCEPT ![writes[1].ack[1]] = writes[1].ack[2]]
         /\ UNCHANGED <<intents, runs, executed, unsure>>
<1>1. writes # <<>> /\ writes[1] \in Persists /\ Head(writes) = writes[1]
  BY DEF Rename, TypeOK
<1>2. writes[1].ack \in {<<>>} \cup (Intents \X Promises)  BY <1>1 DEF Persists
<1>3. QED  BY <1>1, <1>2 DEF InLog, Rename, Step

LEMMA PersistFailsEffect ==
  ASSUME TypeOK, PersistFails
  PROVE  /\ InLog /\ writes # <<>> /\ writes' = Tail(writes) /\ written' = None
         /\ settled' = IF settled = "yes" THEN "failed" ELSE settled
         /\ file' = file \/ (written # None /\ file' = written)
         /\ UNCHANGED <<intents, runs, executed, promised, unsure>>
  BY DEF InLog, PersistFails, Fault

\* The queue of changes leaves the log of intents alone.
LEMMA QueueEffect ==
  ASSUME TypeOK,
         \/ \E k \in Keys : EnqueueChange(k)
         \/ \E c \in Callers :
              Flush(c) \/ FlushOn(c) \/ \E arrives, answered \in BOOLEAN : Send(c, arrives, answered)
         \/ AppliedElsewhere \/ Mutate \/ MutateFails \/ CrashQueue \/ OpenQueue
  PROVE  part # "intents" /\ part' = part /\ UNCHANGED logVars /\ unsure \subseteq unsure'
<1>1. ASSUME NEW k \in Keys, EnqueueChange(k)
      PROVE  part # "intents" /\ part' = part /\ UNCHANGED logVars /\ unsure \subseteq unsure'
  BY <1>1 DEF EnqueueChange, Call
<1>2. ASSUME NEW c \in Callers, Flush(c) \/ FlushOn(c)
      PROVE  part # "intents" /\ part' = part /\ UNCHANGED logVars /\ unsure \subseteq unsure'
  BY <1>2 DEF Flush, FlushOn, Call, Step
<1>3. ASSUME NEW c \in Callers, NEW arrives \in BOOLEAN, NEW answered \in BOOLEAN, Send(c, arrives, answered)
      PROVE  part # "intents" /\ part' = part /\ UNCHANGED logVars /\ unsure \subseteq unsure'
  BY <1>3 DEF Send, Step
<1>4. CASE Mutate  BY <1>4 DEF Mutate, Step
<1>5. CASE MutateFails  BY <1>5 DEF MutateFails, Fault
<1>6. CASE CrashQueue  BY <1>6 DEF CrashQueue, Fault
<1>7. CASE OpenQueue  BY <1>7 DEF OpenQueue
<1>9. CASE AppliedElsewhere  BY <1>9 DEF AppliedElsewhere, Call
<1>8. QED  BY <1>1, <1>2, <1>3, <1>4, <1>5, <1>6, <1>7, <1>9

\* A step that changes nothing of the log.
Aside ==
  /\ part' = part /\ (part # "intents" \/ up' = up)
  /\ UNCHANGED <<intents, writes, written, file, runs, executed, promised, settled>>
  /\ unsure \subseteq unsure'

LEMMA StepCases ==
  ASSUME TypeOK, [Next]_vars
  PROVE  \/ \E i \in Intents : Enqueue(i) \/ Cancel(i) \/ Retry(i)
         \/ Prune
         \/ \E c \in Callers : Reconcile(c) \/ Executed(c)
         \/ \E c \in Callers, i \in Intents, o \in Outcomes : Execute(c, i, o)
         \/ Serialise \/ Rename \/ PersistFails \/ Crash \/ Open \/ Aside
<1>1. CASE UNCHANGED vars  BY <1>1 DEF vars, logVars, Aside
<1>4. ASSUME NEW i \in Intents, EnqueueKnown(i) PROVE Aside
  BY <1>4 DEF EnqueueKnown, Call, Aside
<1>2. CASE \/ \E k \in Keys : EnqueueChange(k)
           \/ \E c \in Callers :
                Flush(c) \/ FlushOn(c) \/ \E arrives, answered \in BOOLEAN : Send(c, arrives, answered)
           \/ AppliedElsewhere \/ Mutate \/ MutateFails \/ CrashQueue \/ OpenQueue
  BY <1>2, QueueEffect DEF Aside, logVars
<1>3. QED  BY <1>1, <1>2, <1>4 DEF Next

\* A persist appended behind the one that is serialised leaves it the first.
LEMMA AppendedShape ==
  ASSUME TypeOK, Shape, written' = written, Len(writes') = Len(writes) + 1, writes' \in Seq(Persists),
         \A n \in 1..Len(writes) : writes'[n].checksum = writes[n].checksum
  PROVE  written' # None => writes' # <<>> /\ written'.checksum = writes'[1].checksum
<1>1. Len(writes) \in Nat /\ (writes # <<>> => Len(writes) > 0)  BY DEF TypeOK
<1>2. writes' # <<>>  BY <1>1
<1>3. written # None => 1 \in 1..Len(writes)  BY <1>1 DEF Shape
<1>4. QED  BY <1>2, <1>3 DEF Shape

LEMMA AppendedKeeps ==
  ASSUME TypeOK, TypeOK', Shape, NEW a, Appended(a), InLog, UNCHANGED <<written, runs>>,
         \A i \in Intents : intents[i] # None => intents'[i] # None
  PROVE  Shape'
<1>1. written' # None => writes' # <<>> /\ written'.checksum = writes'[1].checksum
  BY AppendedShape DEF Appended, TypeOK
<1>2. QED  BY <1>1 DEF Shape, Held, Live, InLog

LEMMA TurnKeeps ==
  ASSUME TypeOK, TypeOK', Shape, NEW c \in Callers, NEW todo, Turn(c, todo), InLog, written' = written,
         \A i \in Intents : intents[i] # None => intents'[i] # None,
         runs'[c].live = "held" => runs'[c].at \in Intents /\ intents'[runs'[c].at] # None
  PROVE  Shape'
<1>1. written' # None => writes' # <<>> /\ written'.checksum = writes'[1].checksum
  <2>1. CASE Appended(<<>>)  BY <2>1, AppendedShape DEF Appended, TypeOK
  <2>2. CASE writes' = writes  BY <2>2 DEF Shape
  <2>3. QED  BY <2>1, <2>2 DEF Turn
<1>2. \A d \in Callers : IF runs'[d].at = None THEN runs'[d] = NoRun ELSE runs'[d].at \in runs'[d].todo
  <2>1. ASSUME NEW d \in Callers \ {c}
        PROVE  IF runs'[d].at = None THEN runs'[d] = NoRun ELSE runs'[d].at \in runs'[d].todo
    BY <2>1 DEF Turn, Shape
  <2>2. IF runs'[c].at = None THEN runs'[c] = NoRun ELSE runs'[c].at \in runs'[c].todo
    <3>1. runs'[c] \in Run  BY DEF TypeOK
    <3>2. CASE runs'[c] = NoRun  BY <3>2 DEF NoRun
    <3>3. CASE runs'[c].at \in runs'[c].todo  BY <3>1, <3>3, OfflineAssumption DEF Run
    <3>4. QED  BY <3>2, <3>3 DEF Turn
  <2>3. QED  BY <2>1, <2>2
<1>3. Held'  BY DEF Turn, Shape, Held
<1>4. QED  BY <1>1, <1>2, <1>3 DEF Shape, Live, InLog

LEMMA ShapeStep == ASSUME TypeOK, TypeOK', Shape, [Next]_vars PROVE Shape'
<1> USE DEF Shape, Live
<1>1. ASSUME NEW i \in Intents, Enqueue(i) \/ Cancel(i) \/ Retry(i) PROVE Shape'
  <2>1. /\ InLog /\ UNCHANGED <<written, runs>>
        /\ \E a \in {<<>>, <<i, "enqueued">>, <<i, "cancelled">>} : Appended(a)
        /\ \A j \in Intents : intents[j] # None => intents'[j] # None
    BY <1>1, EnqueueEffect, CancelEffect, RetryEffect
  <2>2. QED  BY <2>1, AppendedKeeps
<1>2. CASE Prune
  <2>1. /\ Len(writes') = Len(writes) + 1
        /\ \A n \in 1..Len(writes) : writes'[n].checksum = writes[n].checksum
        /\ \A i \in Intents : intents'[i] = IF i \in Pruned THEN None ELSE intents[i]
        /\ \A c \in Callers :
              /\ runs'[c].todo = runs[c].todo /\ runs'[c].at = runs[c].at
              /\ IF runs[c].at \in Pruned THEN runs'[c].live # "held" ELSE runs'[c] = runs[c]
        /\ UNCHANGED <<part, up, written>>
    BY <1>2, PruneEffect
  <2>2. part = "intents" /\ up  BY <1>2 DEF Prune, Call
  <2>3. written' # None => writes' # <<>> /\ written'.checksum = writes'[1].checksum
    BY <2>1, AppendedShape DEF TypeOK
  <2>4. None \notin Pruned  BY OfflineAssumption DEF Pruned
  <2>5. Held'  BY <2>1 DEF Held
  <2>6. QED  BY <2>1, <2>2, <2>3, <2>4, <2>5
<1>3. ASSUME NEW c \in Callers, Reconcile(c) PROVE Shape'
  BY <1>3, ReconcileEffect, TurnKeeps
<1>4. ASSUME NEW c \in Callers, NEW i \in Intents, NEW o \in Outcomes, Execute(c, i, o) PROVE Shape'
  <2>1. /\ InLog /\ UNCHANGED <<intents, writes, written>> /\ runs[c].at = i /\ runs'[c].at = i
        /\ runs'[c].todo = runs[c].todo /\ runs'[c].live = runs[c].live
        /\ \A d \in Callers \ {c} : runs'[d] = runs[d]
    BY <1>4, ExecuteEffect
  <2>2. i # None  BY OfflineAssumption
  <2>3. Held'  BY <2>1 DEF Held
  <2>4. QED  BY <2>1, <2>2, <2>3 DEF InLog
<1>5. ASSUME NEW c \in Callers, Executed(c) PROVE Shape'
  <2>1. /\ Turn(c, runs[c].todo \ {runs[c].at}) /\ InLog /\ written' = written
        /\ \A i \in Intents : intents[i] # None => intents'[i] # None
        /\ runs'[c].live = "held" => runs'[c].at \in Intents /\ intents'[runs'[c].at] # None
    BY <1>5, ExecutedEffect
  <2>2. QED  BY <2>1, TurnKeeps
<1>6. CASE Serialise  BY <1>6, SerialiseEffect DEF InLog, Held
<1>7. CASE Rename  BY <1>7, RenameEffect DEF InLog, Held
<1>8. CASE PersistFails  BY <1>8, PersistFailsEffect DEF InLog, Held
<1>9. CASE Crash  BY <1>9, OfflineAssumption DEF Crash, Fault, NoRun, Held
<1>10. CASE Open
  <2>1. /\ ~Live /\ Live' /\ UNCHANGED <<writes, written, runs>>  BY <1>10 DEF Open
  <2>2. Held'  BY <2>1, OfflineAssumption DEF Held, NoRun
  <2>3. QED  BY <2>1, <2>2
<1>11. CASE Aside  BY <1>11 DEF Aside, logVars, Held
<1>12. QED
  BY <1>1, <1>2, <1>3, <1>4, <1>5, <1>6, <1>7, <1>8, <1>9, <1>10, <1>11, StepCases

TypeInv == TypeOK /\ Shape

LEMMA TypeInvInit == Init => TypeInv
  BY TypeInit, OfflineAssumption DEF Init, TypeInv, Shape, Held, NoRun, Live

LEMMA TypeInvStep == TypeInv /\ [Next]_vars => TypeInv'
<1> SUFFICES ASSUME TypeInv, [Next]_vars PROVE TypeInv'  OBVIOUS
<1>1. TypeOK'  BY TypeStep DEF TypeInv, Shape
<1>2. QED  BY <1>1, ShapeStep DEF TypeInv

\* Every variable keeps its type.
THEOREM TypeCorrect == Spec => []TypeOK
<1>1. TypeInv => TypeOK  BY DEF TypeInv
<1>2. QED  BY <1>1, TypeInvInit, TypeInvStep, PTL DEF Spec

-----------------------------------------------------------------------------
\* While no reconciliation runs and none has thrown, the last queued persist
\* has the intents and their checksum; when there is none, the file has.
AtRest ==
  Live /\ settled # "thrown" /\ Quiet =>
    /\ writes # <<>> => writes[Len(writes)].checksum = intents
    /\ written # None /\ Len(writes) = 1 => written.content = intents
    /\ settled = "yes" /\ writes = <<>> => file = [content |-> intents, checksum |-> intents]

\* An appended persist is the last, and not the one that is being written.
LEMMA AppendedAtRest ==
  ASSUME TypeOK, TypeOK', Shape, Len(writes') = Len(writes) + 1,
         writes'[Len(writes')].checksum = intents', written' = written
  PROVE  AtRest'
<1>1. Len(writes) \in Nat /\ Len(writes') \in Nat /\ (writes # <<>> => Len(writes) > 0)
  <2>1. Len(writes) \in Nat /\ (writes # <<>> => Len(writes) > 0)  BY QueueOK
  <2>2. QED  BY <2>1
<1>2. writes' # <<>>  BY <1>1
<1>3. written # None => Len(writes') > 1  BY <1>1 DEF Shape
<1>4. QED  BY <1>2, <1>3 DEF AtRest

\* The last of a longer queue stays the last when the first is taken.
LEMMA TailLast ==
  ASSUME TypeOK, writes # <<>>, writes' = Tail(writes)
  PROVE  /\ writes' # <<>> => writes'[Len(writes')] = writes[Len(writes)]
         /\ writes' = <<>> => Len(writes) = 1
<1>1. writes \in Seq(Persists) /\ writes' \in Seq(Persists)  BY DEF TypeOK
<1>2. /\ Len(writes') = Len(writes) - 1
      /\ \A n \in 1..Len(writes') : writes'[n] = writes[n + 1]
  BY TailEffect
<1>3. writes' # <<>> => Len(writes') \in 1..Len(writes')  BY <1>1
<1>4. QED  BY <1>1, <1>2, <1>3

LEMMA AtRestStep == ASSUME TypeOK, TypeOK', Shape, AtRest, [Next]_vars PROVE AtRest'
<1>1. ASSUME NEW i \in Intents, Enqueue(i) \/ Cancel(i) \/ Retry(i) PROVE AtRest'
  <2>1. written' = written /\ \E a \in {<<>>, <<i, "enqueued">>, <<i, "cancelled">>} : Appended(a)
    BY <1>1, EnqueueEffect, CancelEffect, RetryEffect
  <2>2. QED  BY <2>1, AppendedAtRest DEF Appended
<1>2. CASE Prune
  <2>1. /\ Len(writes') = Len(writes) + 1 /\ written' = written
        /\ writes'[Len(writes')].checksum = intents'
    BY <1>2, PruneEffect
  <2>2. QED  BY <2>1, AppendedAtRest
<1>3. ASSUME NEW c \in Callers, Reconcile(c) \/ Executed(c) PROVE AtRest'
  <2>1. PICK todo : Turn(c, todo) /\ written' = written
    BY <1>3, ReconcileEffect, ExecutedEffect
  <2>2. CASE Appended(<<>>)  BY <2>1, <2>2, AppendedAtRest DEF Appended
  <2>3. CASE settled' = "thrown"  BY <2>3 DEF AtRest
  <2>4. CASE runs'[c].at \in runs'[c].todo
    <3>1. runs'[c] \in Run  BY DEF TypeOK
    <3>2. runs'[c].at # None  BY <2>4, <3>1, OfflineAssumption DEF Run
    <3>3. QED  BY <3>2 DEF AtRest, Quiet
  <2>5. QED  BY <2>1, <2>2, <2>3, <2>4 DEF Turn
<1>4. ASSUME NEW c \in Callers, NEW i \in Intents, NEW o \in Outcomes, Execute(c, i, o) PROVE AtRest'
  <2>1. runs'[c].at = i  BY <1>4, ExecuteEffect
  <2>2. QED  BY <2>1, OfflineAssumption DEF AtRest, Quiet
<1>7. CASE Serialise
  <2>1. /\ written' = [content |-> intents, checksum |-> writes[1].checksum] /\ Live
        /\ writes # <<>> /\ UNCHANGED <<writes, intents, runs, settled, file>>
    BY <1>7, SerialiseEffect DEF InLog, Live
  <2>2. Quiet' = Quiet  BY <2>1 DEF Quiet
  <2>3. QED  BY <2>1, <2>2 DEF AtRest
<1>8. CASE Rename
  <2>1. /\ InLog /\ writes # <<>> /\ written # None /\ file' = written /\ written' = None
        /\ writes' = Tail(writes) /\ settled' = (IF settled = "failed" THEN "yes" ELSE settled)
        /\ UNCHANGED <<intents, runs>>
    BY <1>8, RenameEffect
  <2>2. Quiet' = Quiet /\ Live  BY <2>1 DEF Quiet, InLog, Live
  <2>3. SUFFICES ASSUME settled # "thrown", Quiet
                 PROVE  /\ writes' # <<>> => writes'[Len(writes')].checksum = intents'
                        /\ writes' = <<>> => file' = [content |-> intents', checksum |-> intents']
    BY <2>1, <2>2 DEF AtRest
  <2>4. writes[Len(writes)].checksum = intents  BY <2>1, <2>2, <2>3 DEF AtRest
  <2>5. CASE writes' # <<>>  BY <2>1, <2>4, <2>5, TailLast
  <2>6. CASE writes' = <<>>
    <3>1. Len(writes) = 1  BY <2>1, <2>6, TailLast
    <3>2. written.content = intents /\ written.checksum = intents
      BY <2>1, <2>2, <2>3, <2>4, <3>1 DEF AtRest, Shape
    <3>3. written \in [content : Log, checksum : Log]  BY <2>1 DEF TypeOK
    <3>4. QED  BY <2>1, <2>6, <3>2, <3>3
  <2>7. QED  BY <2>5, <2>6
<1>9. CASE PersistFails
  <2>1. /\ InLog /\ writes # <<>> /\ written' = None /\ writes' = Tail(writes)
        /\ settled' = (IF settled = "yes" THEN "failed" ELSE settled)
        /\ UNCHANGED <<intents, runs>>
    BY <1>9, PersistFailsEffect
  <2>2. Quiet' = Quiet /\ Live  BY <2>1 DEF Quiet, InLog, Live
  <2>3. QED  BY <2>1, <2>2, TailLast DEF AtRest
<1>10. CASE Crash  BY <1>10 DEF Crash, Fault, AtRest, Live
<1>11. CASE Open
  <2>1. ~Live /\ UNCHANGED <<writes, written, file>> /\ intents' = file.content
        /\ file.content = file.checksum
    BY <1>11 DEF Open, Readable, Live
  <2>2. file \in [content : Log, checksum : Log]  BY DEF TypeOK
  <2>3. writes' = <<>> /\ written' = None  BY <2>1 DEF Shape
  <2>4. file' = [content |-> intents', checksum |-> intents']  BY <2>1, <2>2
  <2>5. QED  BY <2>3, <2>4 DEF AtRest
<1>12. CASE Aside  BY <1>12 DEF Aside, logVars, AtRest, Live, Quiet
<1>13. QED
  BY <1>1, <1>2, <1>3, <1>4, <1>7, <1>8, <1>9, <1>10, <1>11, <1>12, StepCases

-----------------------------------------------------------------------------
\* What was promised of an intent is in the file and on its way to it, and
\* what a queued persist will acknowledge is in the intents it will write.
KeptIntent(i) ==
  promised[i] # None =>
    /\ file.content[i] # None
    /\ Live => intents[i] # None
    /\ written # None => written.content[i] # None

KeptWrite(n) ==
  writes[n].ack # <<>> =>
    /\ intents[writes[n].ack[1]] # None
    /\ n = 1 /\ written # None => written.content[writes[n].ack[1]] # None

Kept == (\A i \in Intents : KeptIntent(i)) /\ \A n \in 1..Len(writes) : KeptWrite(n)

\* Only the last write is new, and it is not the one that is being written.
LEMMA AppendedKept ==
  ASSUME TypeOK, TypeOK', Shape, Kept, NEW a \in {<<>>} \cup (Intents \X Promises), Appended(a),
         written' = written, \A j \in Intents : intents[j] # None => intents'[j] # None,
         a # <<>> => intents'[a[1]] # None
  PROVE  \A n \in 1..Len(writes') : KeptWrite(n)'
<1> SUFFICES ASSUME NEW n \in 1..Len(writes'), writes'[n].ack # <<>>
    PROVE  /\ intents'[writes'[n].ack[1]] # None
           /\ n = 1 /\ written' # None => written'.content[writes'[n].ack[1]] # None
  BY DEF KeptWrite
<1>1. Len(writes) \in Nat /\ (writes # <<>> => Len(writes) > 0)  BY QueueOK
<1>2. CASE n \in 1..Len(writes)
  <2>1. writes'[n] = writes[n] /\ KeptWrite(n)  BY <1>2 DEF Appended, Kept
  <2>2. writes[n] \in Persists  BY <1>2, QueueOK
  <2>3. writes[n].ack[1] \in Intents  BY <2>1, <2>2 DEF Persists
  <2>4. QED  BY <2>1, <2>3 DEF KeptWrite
<1>3. CASE n = Len(writes')
  <2>1. writes'[n].ack = a  BY <1>3 DEF Appended
  <2>2. written # None => n > 1  BY <1>1, <1>3 DEF Appended, Shape
  <2>3. QED  BY <2>1, <2>2
<1>4. QED  BY <1>1, <1>2, <1>3 DEF Appended

LEMMA KeptStep == ASSUME TypeOK, TypeOK', Shape, Kept, [Next]_vars PROVE Kept'
<1> USE DEF KeptIntent
<1>1. ASSUME NEW i \in Intents, Enqueue(i) PROVE Kept'
  <2>1. /\ InLog /\ intents[i] = None /\ intents'[i] # None /\ promised'[i] = None
        /\ \A j \in Intents \ {i} : intents'[j] = intents[j] /\ promised'[j] = promised[j]
        /\ Appended(<<i, "enqueued">>) /\ UNCHANGED <<written, file>>
    BY <1>1, EnqueueEffect
  <2>2. \A n \in 1..Len(writes') : KeptWrite(n)'
    <3>1. <<i, "enqueued">> \in Intents \X Promises  BY DEF Promises
    <3>2. \A j \in Intents : intents[j] # None => intents'[j] # None  BY <2>1
    <3>3. QED  BY <2>1, <3>1, <3>2, AppendedKept
  <2>3. QED  BY <2>1, <2>2 DEF Kept, InLog, Live
<1>2. ASSUME NEW i \in Intents, Cancel(i) PROVE Kept'
  <2>1. /\ InLog /\ intents'[i] # None /\ \A j \in Intents \ {i} : intents'[j] = intents[j]
        /\ Appended(<<>>) \/ Appended(<<i, "cancelled">>)
        /\ UNCHANGED <<written, file, promised>>
    BY <1>2, CancelEffect
  <2>2. \A n \in 1..Len(writes') : KeptWrite(n)'
    <3>1. <<i, "cancelled">> \in Intents \X Promises  BY DEF Promises
    <3>2. \A j \in Intents : intents[j] # None => intents'[j] # None  BY <2>1
    <3>3. QED  BY <2>1, <3>1, <3>2, AppendedKept
  <2>3. QED  BY <2>1, <2>2 DEF Kept, InLog, Live
<1>3. ASSUME NEW i \in Intents, Retry(i) PROVE Kept'
  <2>1. /\ InLog /\ intents'[i] # None /\ \A j \in Intents \ {i} : intents'[j] = intents[j]
        /\ promised'[i] # None => promised[i] # None
        /\ \A j \in Intents \ {i} : promised'[j] = promised[j]
        /\ Appended(<<>>) /\ UNCHANGED <<written, file>>
    BY <1>3, RetryEffect
  <2>2. \A j \in Intents : intents[j] # None => intents'[j] # None  BY <2>1
  <2>3. \A n \in 1..Len(writes') : KeptWrite(n)'  BY <2>1, <2>2, AppendedKept
  <2>4. QED  BY <2>1, <2>3 DEF Kept, InLog, Live
<1>4. CASE Prune
  <2>1. /\ \A i \in Intents : intents'[i] = IF i \in Pruned THEN None ELSE intents[i]
        /\ \A i \in Intents : promised'[i] = IF i \in Pruned THEN None ELSE promised[i]
        /\ Len(writes') = Len(writes) + 1
        /\ writes'[Len(writes')].ack = <<>>
        /\ \A n \in 1..Len(writes) :
              \/ writes'[n].ack = <<>>
              \/ /\ writes'[n].ack = writes[n].ack
                 /\ writes[n].ack # <<>> => writes[n].ack[1] \notin Pruned
        /\ UNCHANGED <<part, up, written, file>>
    BY <1>4, PruneEffect
  <2>2. ASSUME NEW n \in 1..Len(writes'), writes'[n].ack # <<>> PROVE KeptWrite(n)'
    <3>1. Len(writes) \in Nat  BY QueueOK
    <3>2. n \in 1..Len(writes)  BY <2>1, <2>2, <3>1
    <3>3. writes'[n].ack = writes[n].ack /\ writes[n].ack[1] \notin Pruned  BY <2>1, <2>2, <3>2
    <3>4. writes[n] \in Persists  BY <3>2, QueueOK
    <3>5. writes[n].ack[1] \in Intents  BY <2>2, <3>3, <3>4 DEF Persists
    <3>6. QED  BY <2>1, <3>2, <3>3, <3>5 DEF Kept, KeptWrite
  <2>3. \A i \in Intents : KeptIntent(i)'  BY <2>1 DEF Kept, Live
  <2>4. QED  BY <2>2, <2>3 DEF Kept, KeptWrite
<1>5. ASSUME NEW c \in Callers, NEW i \in Intents, NEW o \in Outcomes, Execute(c, i, o) PROVE Kept'
  <2>1. InLog /\ UNCHANGED <<intents, writes, written, file, promised>>  BY <1>5, ExecuteEffect
  <2>2. QED  BY <2>1 DEF Kept, KeptWrite, InLog, Live
<1>6. ASSUME NEW c \in Callers, Reconcile(c) \/ Executed(c) PROVE Kept'
  <2>1. /\ InLog /\ UNCHANGED <<written, file, promised>> /\ \E todo : Turn(c, todo)
        /\ \A j \in Intents : intents[j] # None => intents'[j] # None
    BY <1>6, ReconcileEffect, ExecutedEffect
  <2>2. \A n \in 1..Len(writes') : KeptWrite(n)'
    <3>1. CASE Appended(<<>>)  BY <2>1, <3>1, AppendedKept
    <3>2. CASE writes' = writes
      <4> SUFFICES ASSUME NEW n \in 1..Len(writes), writes[n].ack # <<>> PROVE KeptWrite(n)'
        BY <3>2 DEF KeptWrite
      <4>1. writes[n] \in Persists  BY DEF TypeOK
      <4>2. writes[n].ack[1] \in Intents  BY <4>1 DEF Persists
      <4>3. QED  BY <2>1, <3>2, <4>2 DEF Kept, KeptWrite
    <3>3. QED  BY <2>1, <3>1, <3>2 DEF Turn
  <2>3. QED  BY <2>1, <2>2 DEF Kept, InLog, Live
<1>8. CASE Serialise
  <2>1. /\ InLog /\ written' = [content |-> intents, checksum |-> writes[1].checksum]
        /\ UNCHANGED <<intents, writes, file, promised>>
    BY <1>8, SerialiseEffect
  <2>2. QED  BY <2>1 DEF Kept, KeptWrite, InLog, Live
<1>9. CASE Rename
  <2>1. /\ InLog /\ writes # <<>> /\ written # None /\ file' = written /\ written' = None
        /\ writes' = Tail(writes) /\ UNCHANGED intents
        /\ \/ writes[1].ack = <<>> /\ promised' = promised
           \/ /\ writes[1].ack # <<>> /\ writes[1].ack \in Intents \X Promises
              /\ promised' = [promised EXCEPT ![writes[1].ack[1]] = writes[1].ack[2]]
    BY <1>9, RenameEffect
  <2>2. ASSUME NEW n \in 1..Len(writes') PROVE KeptWrite(n)'
    <3>1. n + 1 \in 1..Len(writes) /\ writes'[n] = writes[n + 1]  BY <2>1, TailEffect
    <3>2. QED  BY <2>1, <3>1 DEF Kept, KeptWrite
  <2>3. 1 \in 1..Len(writes)  BY <2>1, TailEffect DEF TypeOK
  <2>4. ASSUME NEW i \in Intents PROVE KeptIntent(i)'
    <3>1. CASE writes[1].ack # <<>> /\ i = writes[1].ack[1]
      BY <2>1, <2>3, <3>1 DEF Kept, KeptWrite
    <3>2. CASE ~(writes[1].ack # <<>> /\ i = writes[1].ack[1])
      <4>1. promised'[i] = promised[i]  BY <2>1, <3>2 DEF TypeOK
      <4>2. QED  BY <2>1, <4>1 DEF Kept, InLog, Live
    <3>3. QED  BY <3>1, <3>2
  <2>5. QED  BY <2>2, <2>4 DEF Kept
<1>10. CASE PersistFails
  <2>1. /\ InLog /\ writes # <<>> /\ written' = None /\ writes' = Tail(writes)
        /\ file' = file \/ (written # None /\ file' = written)
        /\ UNCHANGED <<intents, promised>>
    BY <1>10, PersistFailsEffect
  <2>2. ASSUME NEW n \in 1..Len(writes') PROVE KeptWrite(n)'
    <3>1. n + 1 \in 1..Len(writes) /\ writes'[n] = writes[n + 1]  BY <2>1, TailEffect
    <3>2. QED  BY <2>1, <3>1 DEF Kept, KeptWrite
  <2>3. QED  BY <2>1, <2>2 DEF Kept, InLog, Live
<1>11. CASE Crash
  <2>1. writes' = <<>> /\ written' = None /\ ~Live' /\ UNCHANGED <<file, promised>>
    BY <1>11 DEF Crash, Fault, Live
  <2>2. QED  BY <2>1 DEF Kept
<1>12. CASE Open
  <2>1. ~Live /\ UNCHANGED <<writes, written, file, promised>> /\ intents' = file.content
    BY <1>12 DEF Open, Live
  <2>2. writes = <<>> /\ written = None  BY <2>1 DEF Shape
  <2>3. QED  BY <2>1, <2>2 DEF Kept
<1>13. CASE Aside  BY <1>13 DEF Aside, logVars, Kept, KeptWrite, Live
<1>14. QED
  BY <1>1, <1>2, <1>3, <1>4, <1>5, <1>6, <1>8, <1>9, <1>10, <1>11, <1>12, <1>13, StepCases

\* An intent in memory is in the last persist, in the one that is written if it
\* is the last, and in the file when none is queued and none has failed.
Answered ==
  /\ part # "intents" => known = {}
  /\ Live => \A i \in known : intents[i] # None
  /\ ~Live => \A i \in known : file.content[i] # None
  /\ Live => \A i \in Intents : intents[i] # None =>
       /\ written # None /\ Len(writes) = 1 => written.content[i] # None
       /\ writes = <<>> /\ settled = "yes" => file.content[i] # None

\* Who changes the set of intents that were answered from memory.
LEMMA KnownStep ==
  ASSUME TypeOK, [Next]_vars
  PROVE  known' = known \/ Prune \/ Crash \/ \E i \in Intents : EnqueueKnown(i)
<1>1. CASE UNCHANGED vars  BY <1>1 DEF vars, logVars
<1>2. ASSUME NEW i \in Intents, Enqueue(i) \/ Cancel(i) \/ Retry(i) PROVE known' = known
  BY <1>2 DEF Enqueue, Cancel, Retry
<1>3. CASE Serialise \/ Rename \/ PersistFails \/ Open
  BY <1>3 DEF Serialise, Rename, PersistFails, Open
<1>4. ASSUME NEW c \in Callers, Reconcile(c) \/ Executed(c) PROVE known' = known
  BY <1>4 DEF Reconcile, Executed
<1>5. ASSUME NEW c \in Callers, NEW i \in Intents, NEW o \in Outcomes, Execute(c, i, o)
      PROVE  known' = known
  BY <1>5 DEF Execute
<1>6. CASE \/ \E k \in Keys : EnqueueChange(k)
           \/ \E c \in Callers :
                Flush(c) \/ FlushOn(c) \/ \E arrives, answered \in BOOLEAN : Send(c, arrives, answered)
           \/ AppliedElsewhere \/ Mutate \/ MutateFails \/ CrashQueue \/ OpenQueue
  BY <1>6, QueueEffect DEF logVars
<1>7. QED  BY <1>1, <1>2, <1>3, <1>4, <1>5, <1>6 DEF Next

\* A queued persist, or one that failed, stands for whatever memory has.
LEMMA AppendedAnswered ==
  ASSUME TypeOK, Shape, Len(writes') = Len(writes) + 1, written' = written, writes' \in Seq(Persists)
  PROVE  Len(writes') # 0 /\ writes' # <<>> /\ (written' # None => Len(writes') # 1)
<1>1. Len(writes) \in Nat /\ (writes # <<>> => Len(writes) > 0)  BY QueueOK
<1>2. QED  BY <1>1 DEF Shape

LEMMA AnsweredStep ==
  ASSUME TypeOK, TypeOK', Shape, Answered, [Next]_vars PROVE Answered'
<1>1. ASSUME NEW i \in Intents, Enqueue(i) \/ Cancel(i) \/ Retry(i) PROVE Answered'
  <2>1. /\ InLog /\ written' = written /\ \E a \in {<<>>, <<i, "enqueued">>, <<i, "cancelled">>} : Appended(a)
        /\ \A j \in Intents : intents[j] # None => intents'[j] # None
    BY <1>1, EnqueueEffect, CancelEffect, RetryEffect
  <2>2. known' = known  BY <1>1 DEF Enqueue, Cancel, Retry
  <2>3. writes' # <<>> /\ (written' # None => Len(writes') # 1)
    BY <2>1, AppendedAnswered DEF Appended, TypeOK
  <2>4. known \subseteq Intents  BY DEF TypeOK
  <2>5. QED  BY <2>1, <2>2, <2>3, <2>4 DEF Answered, InLog, Live
<1>2. CASE Prune
  <2>1. /\ Len(writes') = Len(writes) + 1 /\ UNCHANGED <<part, up, written>>
        /\ \A i \in Intents : intents'[i] = IF i \in Pruned THEN None ELSE intents[i]
    BY <1>2, PruneEffect
  <2>2. part = "intents" /\ up /\ known' = known \ Pruned  BY <1>2 DEF Prune, Call, Pruned
  <2>3. writes' # <<>> /\ (written' # None => Len(writes') # 1)
    BY <2>1, AppendedAnswered DEF TypeOK
  <2>4. known \subseteq Intents  BY DEF TypeOK
  <2>5. QED  BY <2>1, <2>2, <2>3, <2>4 DEF Answered, Live
<1>3. ASSUME NEW c \in Callers, Reconcile(c) \/ Executed(c) PROVE Answered'
  <2>1. /\ InLog /\ UNCHANGED <<written, file>> /\ \E todo : Turn(c, todo)
        /\ \A j \in Intents : intents[j] = None <=> intents'[j] = None
    BY <1>3, ReconcileEffect, ExecutedEffect
  <2>2. known' = known /\ known \subseteq Intents  BY <1>3 DEF Reconcile, Executed, TypeOK
  <2>3. CASE Appended(<<>>)
    <3>1. writes' # <<>> /\ (written' # None => Len(writes') # 1)
      BY <2>1, <2>3, AppendedAnswered DEF Appended, TypeOK
    <3>2. QED  BY <2>1, <2>2, <3>1 DEF Answered, InLog, Live
  <2>4. CASE writes' = writes /\ settled' \in {settled, "thrown"}
    BY <2>1, <2>2, <2>4 DEF Answered, InLog, Live
  <2>5. QED  BY <2>1, <2>3, <2>4 DEF Turn
<1>4. ASSUME NEW c \in Callers, NEW i \in Intents, NEW o \in Outcomes, Execute(c, i, o) PROVE Answered'
  <2>1. InLog /\ UNCHANGED <<intents, writes, written, file, settled>>  BY <1>4, ExecuteEffect
  <2>2. known' = known  BY <1>4 DEF Execute
  <2>3. QED  BY <2>1, <2>2 DEF Answered, InLog, Live
<1>5. CASE Serialise
  <2>1. /\ InLog /\ written' = [content |-> intents, checksum |-> writes[1].checksum]
        /\ UNCHANGED <<intents, writes, file, settled>>
    BY <1>5, SerialiseEffect
  <2>2. known' = known  BY <1>5 DEF Serialise
  <2>3. QED  BY <2>1, <2>2 DEF Answered, InLog, Live
<1>6. CASE Rename
  <2>1. /\ InLog /\ writes # <<>> /\ written # None /\ file' = written /\ written' = None
        /\ writes' = Tail(writes) /\ UNCHANGED intents
    BY <1>6, RenameEffect
  <2>2. writes' = <<>> => Len(writes) = 1  BY <2>1, TailLast
  <2>3. known' = known  BY <1>6 DEF Rename
  <2>4. QED  BY <2>1, <2>2, <2>3 DEF Answered, InLog, Live
<1>7. CASE PersistFails
  <2>1. /\ InLog /\ written' = None /\ UNCHANGED intents
        /\ settled' = (IF settled = "yes" THEN "failed" ELSE settled)
    BY <1>7, PersistFailsEffect
  <2>2. known' = known  BY <1>7 DEF PersistFails
  <2>3. QED  BY <2>1, <2>2 DEF Answered, InLog, Live
<1>8. CASE Crash
  <2>1. /\ part = "intents" /\ part' = part /\ ~up' /\ file' = file
        /\ known' = {i \in known : file.content[i] # None}
    BY <1>8 DEF Crash, Fault
  <2>2. QED  BY <2>1 DEF Answered, Live
<1>9. CASE Open
  <2>1. /\ ~Live /\ UNCHANGED <<part, writes, written, file, known>> /\ intents' = file.content
    BY <1>9 DEF Open, Live
  <2>2. written' = None  BY <2>1 DEF Shape
  <2>3. QED  BY <2>1, <2>2 DEF Answered
<1>10. CASE Aside
  <2>1. CASE known' = known  BY <1>10, <2>1 DEF Aside, Answered, Live
  <2>2. ASSUME NEW i \in Intents, EnqueueKnown(i) PROVE Answered'
    <3>1. /\ part = "intents" /\ up /\ up' = up /\ intents[i] # None /\ known' = known \cup {i}
      BY <2>2 DEF EnqueueKnown, Call
    <3>2. QED  BY <1>10, <3>1 DEF Aside, Answered, Live
  <2>3. QED  BY <1>2, <1>8, <2>1, <2>2, KnownStep
<1>11. QED
  BY <1>1, <1>2, <1>3, <1>4, <1>5, <1>6, <1>7, <1>8, <1>9, <1>10, StepCases

LogInv == TypeOK /\ Shape /\ AtRest /\ Kept /\ Answered

LEMMA LogInit == Init => LogInv
  BY TypeInvInit
  DEF TypeInv, Init, LogInv, AtRest, Kept, KeptIntent, KeptWrite, Answered, NoIntents, NoRun, Live, Quiet

LEMMA LogStep == LogInv /\ [Next]_vars => LogInv'
  BY TypeInvStep, AtRestStep, KeptStep, AnsweredStep DEF LogInv, TypeInv

\* An intent whose enqueue() returned after its own persist stays in the file
\* until it is pruned; one whose enqueue() was answered from memory is in the
\* file as soon as no persist is queued and none has failed since (that it may
\* not be until then is the code's, sync-plane.js:17); and a log at rest is the
\* one in its file, so that it opens again.
THEOREM Survival == Spec => []IntentsSurvive
<1>1. LogInv => IntentsSurvive
  <2> SUFFICES ASSUME LogInv PROVE IntentsSurvive  OBVIOUS
  <2>1. TypeOK /\ FileSettles  BY DEF LogInv, FileSettles, AtRest, Live, Quiet
  <2>2. \A i \in Intents : promised[i] # None => file.content[i] # None
    BY DEF LogInv, Kept, KeptIntent
  <2>3. \A i \in known : file.content[i] # None \/ (up /\ (writes # <<>> \/ settled # "yes"))
    BY DEF LogInv, Answered, Live, TypeOK
  <2>4. QED  BY <2>1, <2>2, <2>3 DEF IntentsSurvive, EnqueuedIsDurable
<1>2. QED  BY <1>1, LogInit, LogStep, PTL DEF Spec

-----------------------------------------------------------------------------
\* A cancellation that is acknowledged, or will be, keeps the intent off every
\* list; the acknowledged one is also in the file and on its way to it.
Cancelled(log, i) == log[i] # None /\ log[i].status = "cancelled"
Off(i) == Cancelled(intents, i) /\ ~Listed(i)

CancelledIntent(i) ==
  promised[i] = "cancelled" =>
    /\ Cancelled(file.content, i)
    /\ Live => Off(i)
    /\ written # None => Cancelled(written.content, i)

CancelledWrite(n, i) ==
  writes[n].ack = <<i, "cancelled">> =>
    Off(i) /\ (n = 1 /\ written # None => Cancelled(written.content, i))

Cancellations ==
  /\ \A i \in Intents : CancelledIntent(i)
  /\ \A n \in 1..Len(writes), i \in Intents : CancelledWrite(n, i)

\* Only prune(), a crash and opening again take an intent out of the log.
LEMMA OffStays ==
  ASSUME TypeOK, Shape, NEW i \in Intents, Off(i),
         \/ \E j \in Intents : Enqueue(j) \/ Cancel(j) \/ Retry(j)
         \/ \E c \in Callers : Reconcile(c) \/ Executed(c)
         \/ \E c \in Callers, j \in Intents, o \in Outcomes : Execute(c, j, o)
         \/ Serialise \/ Rename \/ PersistFails
  PROVE  Off(i)'
<1> USE DEF Off, Cancelled, Listed
<1>1. ASSUME NEW j \in Intents, Enqueue(j) PROVE Off(i)'
  <2>1. /\ intents[j] = None /\ runs' = runs
        /\ \A k \in Intents \ {j} : intents'[k] = intents[k]
    BY <1>1, EnqueueEffect
  <2>2. QED  BY <2>1
<1>2. ASSUME NEW j \in Intents, Cancel(j) PROVE Off(i)'
  <2>1. /\ intents'[j] # None /\ intents'[j].status = "cancelled" /\ runs' = runs
        /\ \A k \in Intents \ {j} : intents'[k] = intents[k]
    BY <1>2, CancelEffect
  <2>2. QED  BY <2>1
<1>3. ASSUME NEW j \in Intents, Retry(j) PROVE Off(i)'
  <2>1. /\ intents[j].status \in {"conflict", "failed"} /\ runs' = runs
        /\ \A k \in Intents \ {j} : intents'[k] = intents[k]
    BY <1>3, RetryEffect
  <2>2. QED  BY <2>1
<1>4. ASSUME NEW c \in Callers, Reconcile(c) PROVE Off(i)'
  <2>1. Turn(c, Pending) /\ (i \notin Pending => intents'[i] = intents[i])
    BY <1>4, ReconcileEffect
  <2>2. i \notin Pending  BY DEF Pending, Is
  <2>3. QED  BY <2>1, <2>2 DEF Turn
<1>5. ASSUME NEW c \in Callers, Executed(c) PROVE Off(i)'
  <2>1. Turn(c, runs[c].todo \ {runs[c].at}) /\ (i \notin runs[c].todo => intents'[i] = intents[i])
    BY <1>5, ExecutedEffect
  <2>2. QED  BY <2>1 DEF Turn
<1>7. ASSUME NEW c \in Callers, NEW j \in Intents, NEW o \in Outcomes, Execute(c, j, o) PROVE Off(i)'
  <2>1. /\ intents' = intents /\ runs'[c].todo = runs[c].todo
        /\ \A d \in Callers \ {c} : runs'[d] = runs[d]
    BY <1>7, ExecuteEffect
  <2>2. QED  BY <2>1
<1>8. CASE Serialise \/ Rename \/ PersistFails
  BY <1>8, SerialiseEffect, RenameEffect, PersistFailsEffect
<1>9. QED  BY <1>1, <1>2, <1>3, <1>4, <1>5, <1>7, <1>8

LEMMA AppendedCancelled ==
  ASSUME TypeOK, Shape, Cancellations, NEW a, Appended(a), written' = written,
         \A i \in Intents : Off(i) => Off(i)',
         \A i \in Intents : a = <<i, "cancelled">> => Off(i)'
  PROVE  \A n \in 1..Len(writes'), i \in Intents : CancelledWrite(n, i)'
<1> SUFFICES ASSUME NEW n \in 1..Len(writes'), NEW i \in Intents, writes'[n].ack = <<i, "cancelled">>
    PROVE  Off(i)' /\ (n = 1 /\ written' # None => Cancelled(written'.content, i))
  BY DEF CancelledWrite, Cancelled
<1>1. Len(writes) \in Nat /\ (writes # <<>> => Len(writes) > 0)  BY DEF TypeOK
<1>2. CASE n \in 1..Len(writes)
  <2>1. writes[n].ack = <<i, "cancelled">>  BY <1>2 DEF Appended
  <2>2. CancelledWrite(n, i)  BY <1>2 DEF Cancellations
  <2>3. QED  BY <2>1, <2>2 DEF CancelledWrite
<1>3. CASE n = Len(writes')
  <2>1. writes'[n] = [checksum |-> intents', ack |-> a]  BY <1>3 DEF Appended
  <2>2. a = <<i, "cancelled">>  BY <2>1
  <2>3. written # None => n > 1  BY <1>1, <1>3 DEF Appended, Shape
  <2>4. QED  BY <2>2, <2>3
<1>4. QED  BY <1>1, <1>2, <1>3 DEF Appended

LEMMA CancelStep == ASSUME TypeOK, TypeOK', Shape, Cancellations, [Next]_vars PROVE Cancellations'
<1>1. ASSUME NEW j \in Intents, Enqueue(j) \/ Cancel(j) \/ Retry(j) PROVE Cancellations'
  <2>1. \A i \in Intents : Off(i) => Off(i)'  BY <1>1, OffStays
  <2>2. /\ InLog /\ UNCHANGED <<written, file>>
        /\ \A i \in Intents : promised'[i] = "cancelled" => promised[i] = "cancelled"
    BY <1>1, EnqueueEffect, CancelEffect, RetryEffect, OfflineAssumption DEF Promises
  <2>3. \/ Appended(<<>>) \/ Appended(<<j, "enqueued">>)
        \/ Off(j)' /\ Appended(<<j, "cancelled">>)
    BY <1>1, EnqueueEffect, CancelEffect, RetryEffect DEF Off, Cancelled, Listed
  <2>4. \A n \in 1..Len(writes'), i \in Intents : CancelledWrite(n, i)'
    <3>1. PICK a \in {<<>>, <<j, "enqueued">>, <<j, "cancelled">>} :
            Appended(a) /\ (a = <<j, "cancelled">> => Off(j)')
      BY <2>3
    <3>2. \A i \in Intents : a = <<i, "cancelled">> => i = j  OBVIOUS
    <3>3. QED  BY <2>1, <2>2, <3>1, <3>2, AppendedCancelled
  <2>5. QED  BY <2>1, <2>2, <2>4 DEF Cancellations, CancelledIntent, Cancelled, InLog, Live
<1>2. CASE Prune
  <2>1. /\ \A i \in Intents : intents'[i] = IF i \in Pruned THEN None ELSE intents[i]
        /\ \A i \in Intents : promised'[i] = IF i \in Pruned THEN None ELSE promised[i]
        /\ Len(writes') = Len(writes) + 1
        /\ writes'[Len(writes')].ack = <<>>
        /\ \A n \in 1..Len(writes) :
              \/ writes'[n].ack = <<>>
              \/ /\ writes'[n].ack = writes[n].ack
                 /\ writes[n].ack # <<>> => writes[n].ack[1] \notin Pruned
        /\ \A c \in Callers : runs'[c].todo = runs[c].todo
        /\ UNCHANGED <<part, up, written, file>>
    BY <1>2, PruneEffect
  <2>2. \A i \in Intents : i \notin Pruned /\ Off(i) => Off(i)'
    BY <2>1 DEF Off, Cancelled, Listed
  <2>3. ASSUME NEW n \in 1..Len(writes'), NEW i \in Intents, writes'[n].ack = <<i, "cancelled">>
        PROVE  CancelledWrite(n, i)'
    <3>1. Len(writes) \in Nat  BY DEF TypeOK
    <3>2. <<i, "cancelled">> # <<>> /\ <<i, "cancelled">>[1] = i  OBVIOUS
    <3>3. n \in 1..Len(writes)  BY <2>1, <2>3, <3>1, <3>2
    <3>4. writes[n].ack = <<i, "cancelled">> /\ i \notin Pruned  BY <2>1, <2>3, <3>2, <3>3
    <3>5. CancelledWrite(n, i)  BY <3>3 DEF Cancellations
    <3>6. QED  BY <2>1, <2>2, <3>4, <3>5 DEF CancelledWrite, Cancelled
  <2>4. ASSUME NEW i \in Intents, promised'[i] = "cancelled" PROVE CancelledIntent(i)'
    <3>1. i \notin Pruned /\ promised[i] = "cancelled"
      BY <2>1, <2>4, OfflineAssumption DEF Promises
    <3>2. QED  BY <2>1, <2>2, <3>1 DEF Cancellations, CancelledIntent, Cancelled, Live
  <2>5. QED  BY <2>3, <2>4 DEF Cancellations, CancelledIntent, CancelledWrite
<1>3. ASSUME NEW c \in Callers, NEW i \in Intents, NEW o \in Outcomes, Execute(c, i, o)
      PROVE  Cancellations'
  <2>1. \A j \in Intents : Off(j) => Off(j)'  BY <1>3, OffStays
  <2>2. InLog /\ UNCHANGED <<writes, written, file, promised>>  BY <1>3, ExecuteEffect
  <2>3. QED
    BY <2>1, <2>2 DEF Cancellations, CancelledIntent, CancelledWrite, Cancelled, InLog, Live
<1>4. ASSUME NEW c \in Callers, Reconcile(c) \/ Executed(c) PROVE Cancellations'
  <2>1. \A i \in Intents : Off(i) => Off(i)'  BY <1>4, OffStays
  <2>2. InLog /\ (\E todo : Turn(c, todo)) /\ UNCHANGED <<written, file, promised>>
    BY <1>4, ReconcileEffect, ExecutedEffect
  <2>3. \A n \in 1..Len(writes'), i \in Intents : CancelledWrite(n, i)'
    <3>1. CASE Appended(<<>>)
      <4>1. \A i \in Intents : <<>> # <<i, "cancelled">>  OBVIOUS
      <4>2. QED  BY <2>1, <2>2, <3>1, <4>1, AppendedCancelled
    <3>2. CASE writes' = writes
      BY <2>1, <2>2, <3>2 DEF Cancellations, CancelledWrite, Cancelled
    <3>3. QED  BY <2>2, <3>1, <3>2 DEF Turn
  <2>4. QED  BY <2>1, <2>2, <2>3 DEF Cancellations, CancelledIntent, Cancelled, InLog, Live
<1>5. CASE Serialise
  <2>1. \A i \in Intents : Off(i) => Off(i)'  BY <1>5, OffStays
  <2>2. /\ InLog /\ written' = [content |-> intents, checksum |-> writes[1].checksum]
        /\ UNCHANGED <<intents, writes, file, promised>>
    BY <1>5, SerialiseEffect
  <2>3. QED
    BY <2>1, <2>2 DEF Cancellations, CancelledIntent, CancelledWrite, Off, Cancelled, InLog, Live
<1>6. CASE Rename
  <2>1. \A i \in Intents : Off(i) => Off(i)'  BY <1>6, OffStays
  <2>2. /\ InLog /\ writes # <<>> /\ written # None /\ file' = written /\ written' = None
        /\ writes' = Tail(writes)
        /\ \/ writes[1].ack = <<>> /\ promised' = promised
           \/ /\ writes[1].ack # <<>> /\ writes[1].ack \in Intents \X Promises
              /\ promised' = [promised EXCEPT ![writes[1].ack[1]] = writes[1].ack[2]]
    BY <1>6, RenameEffect
  <2>3. ASSUME NEW n \in 1..Len(writes'), NEW i \in Intents PROVE CancelledWrite(n, i)'
    <3>1. n + 1 \in 1..Len(writes) /\ writes'[n] = writes[n + 1]  BY <2>2, TailEffect
    <3>2. QED  BY <2>1, <2>2, <3>1 DEF Cancellations, CancelledWrite
  <2>4. 1 \in 1..Len(writes)  BY <2>2, TailEffect DEF TypeOK
  <2>5. ASSUME NEW i \in Intents, promised'[i] = "cancelled" PROVE CancelledIntent(i)'
    <3>1. CASE writes[1].ack # <<>> /\ i = writes[1].ack[1]
      <4>1. promised'[i] = writes[1].ack[2]  BY <2>2, <3>1 DEF TypeOK
      <4>2. writes[1].ack = <<i, "cancelled">>  BY <2>2, <2>5, <3>1, <4>1
      <4>3. CancelledWrite(1, i)  BY <2>4 DEF Cancellations
      <4>4. QED  BY <2>1, <2>2, <4>2, <4>3 DEF CancelledWrite, CancelledIntent, Cancelled
    <3>2. CASE ~(writes[1].ack # <<>> /\ i = writes[1].ack[1])
      <4>1. promised'[i] = promised[i]  BY <2>2, <3>2 DEF TypeOK
      <4>2. QED  BY <2>1, <2>2, <2>5, <4>1 DEF Cancellations, CancelledIntent, Cancelled, InLog, Live
    <3>3. QED  BY <3>1, <3>2
  <2>6. QED  BY <2>3, <2>5 DEF Cancellations, CancelledIntent
<1>7. CASE PersistFails
  <2>1. \A i \in Intents : Off(i) => Off(i)'  BY <1>7, OffStays
  <2>2. /\ InLog /\ writes # <<>> /\ written' = None /\ writes' = Tail(writes)
        /\ (file' = file \/ (written # None /\ file' = written)) /\ promised' = promised
    BY <1>7, PersistFailsEffect
  <2>3. ASSUME NEW n \in 1..Len(writes'), NEW i \in Intents PROVE CancelledWrite(n, i)'
    <3>1. n + 1 \in 1..Len(writes) /\ writes'[n] = writes[n + 1]  BY <2>2, TailEffect
    <3>2. QED  BY <2>1, <2>2, <3>1 DEF Cancellations, CancelledWrite
  <2>4. QED  BY <2>1, <2>2, <2>3 DEF Cancellations, CancelledIntent, Cancelled, InLog, Live
<1>8. CASE Crash
  <2>1. writes' = <<>> /\ written' = None /\ ~Live' /\ UNCHANGED <<file, promised>>
    BY <1>8 DEF Crash, Fault, Live
  <2>2. QED  BY <2>1 DEF Cancellations, CancelledIntent, Cancelled
<1>9. CASE Open
  <2>1. ~Live /\ UNCHANGED <<writes, written, file, promised, runs>> /\ intents' = file.content
    BY <1>9 DEF Open, Live
  <2>2. writes = <<>> /\ written = None /\ \A c \in Callers : runs[c] = NoRun  BY <2>1 DEF Shape
  <2>3. \A i \in Intents : ~Listed(i)'  BY <2>1, <2>2 DEF Listed, NoRun
  <2>4. QED  BY <2>1, <2>2, <2>3 DEF Cancellations, CancelledIntent, Cancelled, Off
<1>10. CASE Aside
  BY <1>10 DEF Aside, logVars, Cancellations, CancelledIntent, CancelledWrite, Cancelled, Off, Listed, Live
<1>11. QED
  BY <1>1, <1>2, <1>3, <1>4, <1>5, <1>6, <1>7, <1>8, <1>9, <1>10, StepCases

CancelInv == TypeOK /\ Shape /\ Cancellations

LEMMA CancelInvInit == Init => CancelInv
  BY TypeInvInit, OfflineAssumption
  DEF TypeInv, Promises, Init, CancelInv, Cancellations, CancelledIntent, CancelledWrite, NoIntents,
                  NoRun, Live, Cancelled, Off, Listed

LEMMA CancelInvStep == CancelInv /\ [Next]_vars => CancelInv'
  BY TypeInvStep, CancelStep DEF CancelInv, TypeInv

\* What the actions other than an execution do to the count of executions.
LEMMA ExecutedGrows ==
  ASSUME TypeOK, [Next]_vars, NEW i \in Intents,
         ~\E c \in Callers, o \in Outcomes : Execute(c, i, o)
  PROVE  executed'[i] <= executed[i]
<1>1. executed[i] \in Nat  BY DEF TypeOK
<1>2. ASSUME NEW j \in Intents, Enqueue(j) \/ Cancel(j) \/ Retry(j) PROVE executed'[i] <= executed[i]
  <2>1. executed'[i] = executed[i] \/ executed'[i] = 0
    BY <1>2, EnqueueEffect, CancelEffect, RetryEffect
  <2>2. QED  BY <1>1, <2>1
<1>3. CASE Prune  BY <1>1, <1>3, PruneEffect
<1>4. ASSUME NEW c \in Callers, Reconcile(c) \/ Executed(c)
      PROVE  executed'[i] <= executed[i]
  BY <1>1, <1>4 DEF Reconcile, Executed
<1>5. ASSUME NEW c \in Callers, NEW j \in Intents, NEW o \in Outcomes, Execute(c, j, o)
      PROVE  executed'[i] <= executed[i]
  <2>1. j # i  BY <1>5
  <2>2. QED  BY <1>1, <1>5, <2>1, ExecuteEffect
<1>6. CASE Serialise \/ Rename \/ PersistFails \/ Crash \/ Open \/ Aside
  BY <1>1, <1>6 DEF Serialise, Rename, PersistFails, Crash, Open, Aside, logVars
<1>7. QED  BY <1>2, <1>3, <1>4, <1>5, <1>6, StepCases

\* What cancel() acknowledged of an intent that was on no list is final: the
\* intent is not executed after it, nor after a restart.
THEOREM Cancellation == Spec => CancelledIsNotExecuted
<1>1. ASSUME CancelInv, [Next]_vars, NEW i \in Intents, promised[i] = "cancelled"
      PROVE  executed'[i] <= executed[i]
  <2>1. ASSUME NEW c \in Callers, NEW o \in Outcomes, Execute(c, i, o) PROVE FALSE
    <3>1. InLog /\ i \in runs[c].todo
      BY <1>1, <2>1, ExecuteEffect, OfflineAssumption DEF CancelInv, Shape
    <3>2. Off(i)  BY <1>1, <3>1 DEF CancelInv, Cancellations, CancelledIntent, InLog, Live
    <3>3. QED  BY <3>1, <3>2 DEF Off, Listed
  <2>2. QED  BY <1>1, <2>1, ExecutedGrows DEF CancelInv
<1>2. CancelInv /\ [Next]_vars =>
        [\A i \in Intents : promised[i] = "cancelled" => executed'[i] <= executed[i]]_vars
  BY <1>1
<1>3. QED  BY <1>2, CancelInvInit, CancelInvStep, PTL DEF Spec, CancelledIsNotExecuted

-----------------------------------------------------------------------------
\* An intent that is executed once is on its way to the status "committed", or
\* has it, or is pruned; and it is on the list of one reconciliation at most.
Done(log, i) == log[i] = None \/ log[i].status = "committed"

OnTheWay(i) == \E c \in Callers : runs[c].at = i /\ runs[c].outcome = "committed"

Once(i) ==
  /\ \A c, d \in Callers : i \in runs[c].todo /\ i \in runs[d].todo => c = d
  /\ Listed(i) => intents[i] # None
  /\ \A c \in Callers : runs[c].at = i => runs[c].live = "held"
  /\ executed[i] > 0 =>
       /\ executed[i] = 1
       /\ Live => OnTheWay(i) \/ (~Listed(i) /\ Done(intents, i))
       /\ ~Live => Done(file.content, i)

OneExecution == \A i \in Intents \ unsure : Once(i)

LEMMA OnceIntents ==
  ASSUME TypeOK, TypeOK', Shape, NEW i \in Intents, Once(i),
         NEW j \in Intents, Enqueue(j) \/ Cancel(j) \/ Retry(j)
  PROVE  Once(i)'
<1> USE DEF Once, Listed, OnTheWay, Done, Live, InLog
<1>1. CASE Enqueue(j)
  <2>1. /\ InLog /\ intents[j] = None /\ intents'[j] # None /\ executed'[j] = 0 /\ runs' = runs
        /\ \A k \in Intents \ {j} : intents'[k] = intents[k] /\ executed'[k] = executed[k]
    BY <1>1, EnqueueEffect
  <2>2. CASE i = j  BY <2>1, <2>2
  <2>3. CASE i # j  BY <2>1, <2>3
  <2>4. QED  BY <2>2, <2>3
<1>2. CASE Cancel(j) \/ Retry(j)
  <2>1. /\ InLog /\ ~Done(intents, j) /\ intents'[j] # None /\ executed' = executed /\ runs' = runs
        /\ \A k \in Intents \ {j} : intents'[k] = intents[k]
    BY <1>2, CancelEffect, RetryEffect
  <2>2. CASE i = j  BY <2>1, <2>2
  <2>3. CASE i # j  BY <2>1, <2>3
  <2>4. QED  BY <2>2, <2>3
<1>3. QED  BY <1>1, <1>2

LEMMA OncePrune ==
  ASSUME TypeOK, TypeOK', Shape, NEW i \in Intents \ unsure', Once(i), Prune
  PROVE  Once(i)'
<1> USE DEF Once, Listed, OnTheWay, Done, Live
<1>1. /\ intents'[i] = (IF i \in Pruned THEN None ELSE intents[i])
      /\ i \in Pruned => ~Listed(i)
      /\ \A c \in Callers :
            /\ runs'[c].todo = runs[c].todo /\ runs'[c].at = runs[c].at
            /\ IF runs[c].at \in Pruned THEN runs'[c].live # "held" ELSE runs'[c] = runs[c]
      /\ UNCHANGED <<part, up, file, executed>>
  BY PruneEffect
<1>2. part = "intents" /\ up  BY DEF Prune, Call
<1>3. CASE i \in Pruned
  <2>1. \A c \in Callers : runs[c].at # i  BY <1>1, <1>3, OfflineAssumption DEF Shape
  <2>2. QED  BY <1>1, <1>2, <1>3, <2>1
<1>4. CASE i \notin Pruned  BY <1>1, <1>2, <1>4
<1>5. QED  BY <1>3, <1>4

LEMMA OnceReconcile ==
  ASSUME TypeOK, TypeOK', Shape, NEW i \in Intents \ unsure', Once(i), NEW c \in Callers, Reconcile(c)
  PROVE  Once(i)'
<1> USE DEF Once, Listed, OnTheWay, Done, Live, InLog
<1>1. /\ InLog /\ runs[c].at = None /\ Turn(c, Pending)
      /\ i \notin Pending => intents'[i] = intents[i]
      /\ intents[i] = None <=> intents'[i] = None
      /\ runs'[c].at = i => runs'[c].live = "held"
      /\ i \in Pending => ~Listed(i)
      /\ UNCHANGED executed
  BY ReconcileEffect
<1>2. runs[c].todo = {} /\ i # None  BY <1>1, OfflineAssumption DEF Shape, NoRun
<1>3. /\ runs'[c].todo \subseteq Pending /\ \A d \in Callers \ {c} : runs'[d] = runs[d]
      /\ runs'[c].at = i => i \in Pending
  BY <1>1, <1>2 DEF Turn, NoRun
<1>4. CASE i \in Pending
  <2>1. intents[i] # None /\ intents[i].status = "pending"  BY <1>4 DEF Pending, Is
  <2>2. \A d \in Callers : runs[d].at # i  BY <1>1, <1>2, <1>4 DEF Shape
  <2>3. ~(executed[i] > 0)  BY <1>1, <2>1, <2>2
  <2>4. \A d \in Callers : i \in runs'[d].todo => d = c  BY <1>1, <1>3, <1>4
  <2>5. QED  BY <1>1, <1>3, <2>1, <2>2, <2>3, <2>4
<1>5. CASE i \notin Pending
  <2>1. \A d \in Callers : i \in runs'[d].todo <=> i \in runs[d].todo  BY <1>2, <1>3, <1>5
  <2>2. OnTheWay(i) => OnTheWay(i)'  BY <1>1, <1>2, <1>3
  <2>3. \A d \in Callers : runs'[d].at = i => runs'[d].live = "held"  BY <1>1, <1>3
  <2>4. QED  BY <1>1, <1>5, <2>1, <2>2, <2>3
<1>6. QED  BY <1>4, <1>5

LEMMA OnceExecute ==
  ASSUME TypeOK, TypeOK', Shape, NEW i \in Intents \ unsure', Once(i),
         NEW c \in Callers, NEW j \in Intents, NEW o \in Outcomes, Execute(c, j, o)
  PROVE  Once(i)'
<1> USE DEF Once, Listed, OnTheWay, Done, Live, InLog
<1>1. /\ InLog /\ runs[c].at = j /\ runs[c].outcome = None
      /\ runs'[c].todo = runs[c].todo /\ runs'[c].at = j /\ runs'[c].outcome = o
      /\ runs'[c].live = runs[c].live
      /\ \A d \in Callers \ {c} : runs'[d] = runs[d]
      /\ \A k \in Intents \ {j} : executed'[k] = executed[k]
      /\ o = "committed" => executed'[j] = executed[j] + 1
      /\ o \notin {"committed", "unknown"} => executed'[j] = executed[j]
      /\ o = "unknown" => j \in unsure'
      /\ UNCHANGED intents
  BY ExecuteEffect
<1>2. i # None /\ j # None /\ executed[i] \in Nat  BY OfflineAssumption DEF TypeOK
<1>3. \A d \in Callers : i \in runs'[d].todo <=> i \in runs[d].todo  BY <1>1
<1>4. \A d \in Callers : runs'[d].at = i => runs'[d].live = "held"  BY <1>1
<1>5. CASE i = j
  <2>1. i \in runs[c].todo  BY <1>1, <1>2, <1>5 DEF Shape
  <2>2. ~OnTheWay(i)
    <3>1. ASSUME NEW d \in Callers, runs[d].at = i PROVE d = c
      <4>1. i \in runs[d].todo  BY <1>2, <3>1 DEF Shape
      <4>2. QED  BY <2>1, <4>1
    <3>2. QED  BY <1>1, <3>1, OfflineAssumption DEF Outcomes
  <2>3. executed[i] = 0  BY <1>1, <1>2, <2>1, <2>2
  <2>4. executed'[i] = 0 \/ (o = "committed" /\ executed'[i] = 1)  BY <1>1, <1>5, <2>3
  <2>5. o = "committed" => OnTheWay(i)'  BY <1>1, <1>5
  <2>6. QED  BY <1>1, <1>3, <1>4, <2>4, <2>5
<1>6. CASE i # j
  <2>1. OnTheWay(i) => OnTheWay(i)'  BY <1>1, <1>6
  <2>2. executed'[i] = executed[i]  BY <1>1, <1>6
  <2>3. QED  BY <1>1, <1>3, <1>4, <2>1, <2>2
<1>7. QED  BY <1>5, <1>6

LEMMA OnceExecuted ==
  ASSUME TypeOK, TypeOK', Shape, NEW i \in Intents, Once(i), NEW c \in Callers, Executed(c)
  PROVE  Once(i)'
<1> USE DEF Once, Listed, OnTheWay, Done, Live, InLog
<1> DEFINE at == runs[c].at
<1>1. /\ InLog /\ at \in Intents /\ at \in runs[c].todo /\ Turn(c, runs[c].todo \ {at})
      /\ i \notin runs[c].todo => intents'[i] = intents[i]
      /\ intents[i] = None <=> intents'[i] = None
      /\ runs'[c].at = i /\ intents[i] # None => runs'[c].live = "held"
      /\ runs[c].live = "held" /\ runs[c].outcome = "committed" => intents'[at].status = "committed"
      /\ UNCHANGED executed
  BY ExecutedEffect
<1>2. i # None  BY OfflineAssumption
<1>3. /\ runs'[c].todo \subseteq runs[c].todo \ {at} /\ \A d \in Callers \ {c} : runs'[d] = runs[d]
      /\ runs'[c].at = i => i \in runs'[c].todo
  BY <1>1, <1>2 DEF Turn, NoRun
<1>4. \A d \in Callers : i \in runs'[d].todo => i \in runs[d].todo  BY <1>3
<1>5. \A d \in Callers : runs'[d].at = i => runs'[d].live = "held"
  <2>1. runs'[c].at = i => intents[i] # None  BY <1>3
  <2>2. QED  BY <1>1, <1>3, <2>1
<1>6. CASE i = at
  <2>1. \A d \in Callers : i \notin runs'[d].todo  BY <1>1, <1>3, <1>6
  <2>2. runs[c].live = "held"  BY <1>6
  <2>3. ASSUME OnTheWay(i) PROVE Done(intents', i)
    <3>1. PICK d \in Callers : runs[d].at = i /\ runs[d].outcome = "committed"  BY <2>3
    <3>2. i \in runs[d].todo  BY <1>2, <3>1 DEF Shape
    <3>3. d = c  BY <1>1, <1>6, <3>2
    <3>4. QED  BY <1>1, <1>6, <2>2, <3>1, <3>3
  <2>4. Listed(i)  BY <1>1, <1>6
  <2>5. QED  BY <1>1, <1>5, <2>1, <2>3, <2>4
<1>7. CASE i # at
  <2>1. OnTheWay(i) => OnTheWay(i)'  BY <1>3, <1>7
  <2>2. ~Listed(i) => intents'[i] = intents[i]  BY <1>1
  <2>3. QED  BY <1>1, <1>4, <1>5, <2>1, <2>2
<1>8. QED  BY <1>6, <1>7

LEMMA OnceStep ==
  ASSUME TypeOK, TypeOK', Shape, Shape', AtRest, OneExecution, [Next]_vars
  PROVE  OneExecution'
<1> SUFFICES ASSUME NEW i \in Intents \ unsure' PROVE Once(i)'
  BY DEF OneExecution
<1>1. Once(i)
  <2>1. unsure \subseteq unsure'
    <3>1. ASSUME NEW j \in Intents, Enqueue(j) \/ Cancel(j) \/ Retry(j) PROVE unsure \subseteq unsure'
      BY <3>1, EnqueueEffect, CancelEffect, RetryEffect
    <3>2. CASE Prune  BY <3>2, PruneEffect
    <3>3. ASSUME NEW c \in Callers, Reconcile(c) \/ Executed(c) PROVE unsure \subseteq unsure'
      BY <3>3, ReconcileEffect, ExecutedEffect
    <3>4. ASSUME NEW c \in Callers, NEW j \in Intents, NEW o \in Outcomes, Execute(c, j, o)
          PROVE  unsure \subseteq unsure'
      BY <3>4, ExecuteEffect
    <3>5. CASE Serialise \/ Rename \/ PersistFails \/ Crash \/ Open \/ Aside
      BY <3>5 DEF Serialise, Rename, PersistFails, Crash, Open, Aside
    <3>6. QED  BY <3>1, <3>2, <3>3, <3>4, <3>5, StepCases
  <2>2. QED  BY <2>1 DEF OneExecution
<1>2. ASSUME NEW j \in Intents, Enqueue(j) \/ Cancel(j) \/ Retry(j) PROVE Once(i)'
  BY <1>1, <1>2, OnceIntents
<1>3. CASE Prune  BY <1>1, <1>3, OncePrune
<1>4. ASSUME NEW c \in Callers, Reconcile(c) \/ Executed(c) PROVE Once(i)'
  BY <1>1, <1>4, OnceReconcile, OnceExecuted
<1>5. ASSUME NEW c \in Callers, NEW j \in Intents, NEW o \in Outcomes, Execute(c, j, o) PROVE Once(i)'
  BY <1>1, <1>5, OnceExecute
<1>6. CASE Serialise \/ Rename \/ PersistFails
  <2>1. InLog /\ UNCHANGED <<intents, runs, executed>>
    BY <1>6, SerialiseEffect, RenameEffect, PersistFailsEffect
  <2>2. QED  BY <1>1, <2>1 DEF Once, Listed, OnTheWay, Done, Live, InLog
<1>7. CASE Crash
  <2>1. /\ Live /\ ~Live' /\ UNCHANGED <<intents, file, executed>>
        /\ \A c \in Callers : runs'[c] = NoRun
        /\ \/ writes = <<>> /\ settled = "yes" /\ Quiet
           \/ ~(executed[i] > 0)
    BY <1>7 DEF Crash, Fault, Live, Quiet
  <2>2. ~Listed(i)' /\ \A c \in Callers : i \notin runs'[c].todo /\ runs'[c].at # i
    BY <2>1, OfflineAssumption DEF Listed, NoRun
  <2>3. ASSUME executed[i] > 0 PROVE Done(file.content, i)
    <3>1. file.content = intents /\ Quiet  BY <2>1, <2>3 DEF AtRest
    <3>2. ~OnTheWay(i)  BY <3>1, OfflineAssumption DEF Quiet, OnTheWay
    <3>3. QED  BY <1>1, <2>1, <2>3, <3>1, <3>2 DEF Once, Done
  <2>4. QED  BY <1>1, <2>1, <2>2, <2>3 DEF Once, Done
<1>8. CASE Open
  <2>1. /\ ~Live /\ Live' /\ UNCHANGED <<file, runs, executed>> /\ intents' = file.content
    BY <1>8 DEF Open, Live
  <2>2. ~Listed(i)' /\ \A c \in Callers : i \notin runs'[c].todo /\ runs'[c].at # i
    BY <2>1, OfflineAssumption DEF Shape, Listed, NoRun
  <2>3. QED  BY <1>1, <2>1, <2>2 DEF Once, Done
<1>9. CASE Aside
  BY <1>1, <1>9 DEF Aside, logVars, Once, Listed, OnTheWay, Done, Live
<1>10. QED  BY <1>2, <1>3, <1>4, <1>5, <1>6, <1>7, <1>8, <1>9, StepCases

OnceInv == TypeOK /\ Shape /\ AtRest /\ OneExecution

LEMMA OnceInvInit == Init => OnceInv
<1> SUFFICES ASSUME Init PROVE OnceInv  OBVIOUS
<1>1. TypeOK /\ Shape /\ AtRest  BY LogInit DEF LogInv
<1>2. OneExecution
  BY OfflineAssumption DEF Init, OneExecution, Once, Listed, NoRun, NoIntents, Live
<1>3. QED  BY <1>1, <1>2 DEF OnceInv

LEMMA OnceInvStep == OnceInv /\ [Next]_vars => OnceInv'
  BY TypeInvStep, AtRestStep, OnceStep DEF OnceInv, TypeInv

\* An intent is executed once through retries, failed persists, cancellations
\* and restarts, whatever the number of reconciliations.
THEOREM Execution == Spec => []ExecutedOnce
<1>1. OnceInv => ExecutedOnce
  <2> SUFFICES ASSUME OnceInv, NEW i \in Intents \ unsure PROVE executed[i] <= 1
    BY DEF ExecutedOnce
  <2>1. executed[i] \in Nat /\ (executed[i] > 0 => executed[i] = 1)
    BY DEF OnceInv, TypeOK, OneExecution, Once
  <2>2. QED  BY <2>1
<1>2. QED  BY <1>1, OnceInvInit, OnceInvStep, PTL DEF Spec

-----------------------------------------------------------------------------
(* The queue of changes.                                                   *)

Has(s, k) == \E n \in 1..Len(s) : s[n].key = k
Ahead(s, a, b) == \A p, q \in 1..Len(s) : s[p].key = a /\ s[q].key = b => p < q

\* A queued write of a flush is the one that the flush waits for.
JobsOK ==
  /\ \A n \in 1..Len(jobs) : jobs[n].kind # "add" =>
       flushes[jobs[n].by] = IF jobs[n].kind = "attempt" THEN "attempt" ELSE "remove"
  /\ \A m, n \in 1..Len(jobs) :
       jobs[m].kind # "add" /\ jobs[n].kind # "add" /\ jobs[m].by = jobs[n].by => m = n

\* One flush at a time, and what it is about to remove was applied.
AloneOK ==
  Keys \subseteq unsure
    \/ /\ \A c, d \in Callers : flushes[c] # None /\ flushes[d] # None => c = d
       /\ \A c \in Callers :
            flushes[c] = "remove" => items # <<>> /\ Contains(server, items[1].key)

\* An accepted change that the server has not applied is in the file, and in
\* memory while there is one.
HeldChange(k) ==
  k \in unsure \/ Contains(server, k) \/ (Has(saved, k) /\ (up => Has(items, k)))

\* Of two accepted changes the later one is behind the earlier one.
InTurn(a, b) ==
  Contains(server, a)
    \/ (~Contains(server, b) /\ Ahead(saved, a, b) /\ (up => Ahead(items, a, b)))

OrderOK ==
  unsure = {} =>
    /\ \A k \in Keys : Has(saved, k) \/ (up /\ Has(items, k)) => Contains(accepted, k)
    /\ \A k \in Keys : Contains(server, k) => Contains(accepted, k)
    /\ \A i, j \in 1..Len(accepted) : i < j => InTurn(accepted[i], accepted[j])

\* No two items have one key.
Distinct(s) == \A p, q \in 1..Len(s) : s[p].key = s[q].key => p = q

\* A change that the server applied and that may not be sent again is in the
\* items only as the first, which the one flush is about to remove.
AgainOK ==
  again = Keys
    \/ /\ \A c, d \in Callers : flushes[c] # None /\ flushes[d] # None => c = d
       /\ Distinct(items) /\ Distinct(saved)
       /\ \A k \in Keys \ again : Contains(server, k) /\ (Has(saved, k) \/ (up /\ Has(items, k))) =>
            /\ up /\ items # <<>> /\ items[1].key = k
            /\ \E c \in Callers : flushes[c] = "remove"

ChangesOK ==
  /\ ~up => jobs = <<>> /\ \A c \in Callers : flushes[c] = None
  /\ JobsOK /\ AloneOK /\ OrderOK /\ AgainOK /\ AppliedOnce
  /\ \A n \in 1..Len(accepted) : HeldChange(accepted[n])

Delivery == IF part = "queue" THEN ChangesOK ELSE accepted = <<>> /\ server = <<>>

Jobs == [kind : {"add"}, by : Keys] \cup [kind : {"attempt", "shift"}, by : Callers]

LEMMA ChangeTypes ==
  ASSUME TypeOK
  PROVE  /\ jobs \in Seq(Jobs) /\ items \in Seq(Item) /\ saved \in Seq(Item)
         /\ server \in Seq(Keys \cup {None}) /\ accepted \in Seq(Keys) /\ again \subseteq Keys
         /\ flushes \in [Callers -> {None, "attempt", "send", "remove", "next"}]
         /\ None \notin {"attempt", "send", "remove", "next"}
  BY OfflineAssumption DEF TypeOK, Jobs

\* What a queued write does to the items: it adds one behind them, counts an
\* attempt, or takes the first away.
LEMMA Drafted ==
  ASSUME items \in Seq(Item), NEW job \in Jobs, job.kind = "attempt" => items # <<>>,
         NEW d, d = Draft(job)
  PROVE  /\ \A k : Has(items, k) =>
              Has(d, k) \/ (job.kind = "shift" /\ items # <<>> /\ k = items[1].key)
         /\ \A k : Has(d, k) => Has(items, k) \/ (job.kind = "add" /\ k = job.by)
         /\ job.kind = "add" => Has(d, job.by)
         /\ \A a, b : Ahead(items, a, b) =>
              Ahead(d, a, b) \/ (job.kind = "add" /\ ~Has(items, job.by) /\ a = job.by)
         /\ job.kind # "shift" /\ items # <<>> => d # <<>> /\ d[1].key = items[1].key
<1> DEFINE n == Len(items)
<1>1. n \in Nat /\ (items # <<>> => n > 0) /\ \A i \in 1..n : items[i] \in Item  OBVIOUS
<1>2. CASE job.kind = "add" /\ Has(items, job.by)
  <2>1. d = items  BY <1>2 DEF Draft, Has
  <2>2. QED  BY <1>2, <2>1
<1>3. CASE job.kind = "add" /\ ~Has(items, job.by)
  <2> DEFINE new == [key |-> job.by, attempts |-> 0]
  <2>1. d = Append(items, new)  BY <1>3 DEF Draft, Has
  <2>2. new \in Item /\ new.key = job.by  BY <1>3 DEF Item, Jobs
  <2> HIDE DEF new
  <2>3. Len(d) = n + 1 /\ d[n + 1] = new /\ \A i \in 1..n : d[i] = items[i]  BY <2>1, <2>2
  <2> HIDE DEF n
  <2>4. \A i \in 1..Len(d) : i \in 1..n \/ i = n + 1  BY <1>1, <2>3
  <2>5. \A i \in 1..n : i \in 1..Len(d)  BY <1>1, <2>3
  <2>6. n + 1 \in 1..Len(d)  BY <1>1, <2>3
  <2>7. \A k : Has(items, k) => Has(d, k)  BY <2>3, <2>5 DEF Has, n
  <2>8. \A k : Has(d, k) => Has(items, k) \/ k = job.by  BY <2>2, <2>3, <2>4 DEF Has, n
  <2>9. Has(d, job.by)  BY <2>2, <2>3, <2>6 DEF Has
  <2>10. ASSUME NEW a, NEW b, Ahead(items, a, b), a # job.by PROVE Ahead(d, a, b)
    <3> SUFFICES ASSUME NEW p \in 1..Len(d), NEW q \in 1..Len(d), d[p].key = a, d[q].key = b
                 PROVE  p < q
      BY DEF Ahead
    <3>1. p \in 1..n /\ items[p].key = a  BY <2>2, <2>3, <2>4, <2>10
    <3>2. CASE q = n + 1  BY <1>1, <3>1, <3>2
    <3>3. CASE q \in 1..n  BY <2>3, <2>10, <3>1, <3>3 DEF Ahead, n
    <3>4. QED  BY <2>4, <3>2, <3>3
  <2>11. items # <<>> => d # <<>> /\ d[1].key = items[1].key
    <3>1. SUFFICES ASSUME items # <<>> PROVE d # <<>> /\ d[1].key = items[1].key  OBVIOUS
    <3>2. 1 \in 1..n  BY <1>1, <3>1 DEF n
    <3>3. d[1] = items[1] /\ Len(d) > 0  BY <1>1, <2>3, <3>2
    <3>4. QED  BY <3>3
  <2>12. QED  BY <1>3, <2>7, <2>8, <2>9, <2>10, <2>11
<1>4. CASE job.kind = "attempt"
  <2>1. items[1] \in Item /\ items # <<>>  BY <1>1, <1>4
  <2> DEFINE tried == [items[1] EXCEPT !.attempts = @ + 1]
  <2>2. d = [items EXCEPT ![1] = tried]  BY <1>4 DEF Draft
  <2>3. tried.key = items[1].key  BY <2>1 DEF Item
  <2> HIDE DEF tried
  <2>4. Len(d) = n /\ \A i \in 1..n : d[i].key = items[i].key  BY <2>2, <2>3
  <2>5. d # <<>> /\ d[1].key = items[1].key  BY <1>1, <2>1, <2>2, <2>4
  <2>6. QED  BY <1>4, <2>4, <2>5 DEF Has, Ahead
<1>5. CASE job.kind = "shift" /\ items = <<>>
  <2>1. d = items  BY <1>5 DEF Draft
  <2>2. QED  BY <1>5, <2>1
<1>6. CASE job.kind = "shift" /\ items # <<>>
  <2>1. d = Tail(items)  BY <1>6 DEF Draft
  <2>2. n > 0 /\ Len(d) = n - 1 /\ \A i \in 1..(n - 1) : d[i] = items[i + 1]  BY <1>1, <1>6, <2>1
  <2> HIDE DEF n
  <2>3. \A i \in 1..Len(d) : i + 1 \in 1..n /\ d[i] = items[i + 1]  BY <1>1, <2>2
  <2>4. \A i \in 1..n : i = 1 \/ (i - 1 \in 1..Len(d) /\ d[i - 1] = items[i])
    <3> SUFFICES ASSUME NEW i \in 1..n, i # 1 PROVE i - 1 \in 1..Len(d) /\ d[i - 1] = items[i]
      OBVIOUS
    <3>1. i - 1 \in 1..(n - 1) /\ (i - 1) + 1 = i  BY <1>1
    <3>2. QED  BY <2>2, <3>1
  <2>5. \A k : Has(items, k) => Has(d, k) \/ k = items[1].key  BY <2>4 DEF Has, n
  <2>6. \A k : Has(d, k) => Has(items, k)  BY <2>3 DEF Has, n
  <2>7. ASSUME NEW a, NEW b, Ahead(items, a, b) PROVE Ahead(d, a, b)
    <3> SUFFICES ASSUME NEW p \in 1..Len(d), NEW q \in 1..Len(d), d[p].key = a, d[q].key = b
                 PROVE  p < q
      BY DEF Ahead
    <3>1. p + 1 < q + 1  BY <2>3, <2>7 DEF Ahead, n
    <3>2. p \in Int /\ q \in Int  BY <1>1, <2>2
    <3>3. QED  BY <3>1, <3>2
  <2>8. QED  BY <1>6, <2>5, <2>6, <2>7
<1>7. job.kind \in {"add", "attempt", "shift"}  BY DEF Jobs
<1>8. QED  BY <1>2, <1>3, <1>4, <1>5, <1>6, <1>7

\* The items have different keys after a queued write, and what it takes away
\* is not among them any more.
LEMMA DraftDistinct ==
  ASSUME items \in Seq(Item), Distinct(items), NEW job \in Jobs, job.kind = "attempt" => items # <<>>,
         NEW d, d = Draft(job)
  PROVE  Distinct(d) /\ (job.kind = "shift" /\ items # <<>> => ~Has(d, items[1].key))
<1> DEFINE n == Len(items)
<1>1. n \in Nat /\ (items # <<>> => n > 0) /\ \A i \in 1..n : items[i] \in Item  OBVIOUS
<1>2. CASE job.kind = "add" /\ Has(items, job.by)
  BY <1>2 DEF Draft, Has
<1>3. CASE job.kind = "add" /\ ~Has(items, job.by)
  <2> DEFINE new == [key |-> job.by, attempts |-> 0]
  <2>1. d = Append(items, new)  BY <1>3 DEF Draft, Has
  <2>2. new \in Item /\ new.key = job.by  BY <1>3 DEF Item, Jobs
  <2> HIDE DEF new
  <2>3. Len(d) = n + 1 /\ d[n + 1] = new /\ \A i \in 1..n : d[i] = items[i]  BY <2>1, <2>2
  <2>4. \A i \in 1..n : items[i].key # job.by  BY <1>3 DEF Has
  <2> HIDE DEF n
  <2>5. \A i \in 1..Len(d) : i \in 1..n \/ i = n + 1  BY <1>1, <2>3
  <2>6. \A p, q \in 1..n : items[p].key = items[q].key => p = q  BY DEF Distinct, n
  <2>7. Distinct(d)  BY <2>2, <2>3, <2>4, <2>5, <2>6 DEF Distinct
  <2>8. QED  BY <1>3, <2>7
<1>4. CASE job.kind = "attempt"
  <2>1. items[1] \in Item /\ items # <<>>  BY <1>1, <1>4
  <2> DEFINE tried == [items[1] EXCEPT !.attempts = @ + 1]
  <2>2. d = [items EXCEPT ![1] = tried]  BY <1>4 DEF Draft
  <2>3. tried.key = items[1].key  BY <2>1 DEF Item
  <2> HIDE DEF tried
  <2>4. Len(d) = n /\ \A i \in 1..n : d[i].key = items[i].key  BY <2>2, <2>3
  <2>5. QED  BY <1>4, <2>4 DEF Distinct
<1>5. CASE job.kind = "shift" /\ items = <<>>
  <2>1. d = items  BY <1>5 DEF Draft
  <2>2. QED  BY <1>5, <2>1
<1>6. CASE job.kind = "shift" /\ items # <<>>
  <2>1. d = Tail(items)  BY <1>6 DEF Draft
  <2>2. n > 0 /\ Len(d) = n - 1 /\ \A i \in 1..(n - 1) : d[i] = items[i + 1]  BY <1>1, <1>6, <2>1
  <2>3. \A p, q \in 1..n : items[p].key = items[q].key => p = q  BY DEF Distinct
  <2> HIDE DEF n
  <2>4. \A i \in 1..Len(d) : i + 1 \in 1..n /\ d[i] = items[i + 1] /\ i + 1 # 1 /\ i \in Int
    BY <1>1, <2>2
  <2>5. ASSUME NEW p \in 1..Len(d), NEW q \in 1..Len(d), d[p].key = d[q].key PROVE p = q
    <3>1. p + 1 \in 1..n /\ q + 1 \in 1..n /\ items[p + 1].key = items[q + 1].key
      BY <2>4, <2>5
    <3>3. p + 1 = q + 1  BY <2>3, <3>1
    <3>2. QED  BY <2>4, <3>3
  <2>6. 1 \in 1..n  BY <1>1, <2>2
  <2>7. ~Has(d, items[1].key)  BY <2>3, <2>4, <2>6 DEF Has
  <2>8. QED  BY <2>5, <2>7 DEF Distinct
<1>7. job.kind \in {"add", "attempt", "shift"}  BY DEF Jobs
<1>8. QED  BY <1>2, <1>3, <1>4, <1>5, <1>6, <1>7

\* No change that may not be sent again is both applied and still queued.
NoneDelivered == \A k \in Keys \ again : ~(Contains(server, k) /\ (Has(saved, k) \/ (up /\ Has(items, k))))

\* While the one flush is not about to remove anything there is none.
LEMMA NotRemoving ==
  ASSUME AgainOK, again # Keys, \A c \in Callers : flushes[c] # "remove"
  PROVE  NoneDelivered
  BY DEF AgainOK, NoneDelivered

LEMMA OnlyFlush ==
  ASSUME TypeOK, AgainOK, again # Keys, NEW c \in Callers, flushes[c] \in {"attempt", "send", "next"}
  PROVE  /\ \A d \in Callers : flushes[d] # None => d = c
         /\ NoneDelivered
<1>1. \A d \in Callers : flushes[d] # None => d = c  BY ChangeTypes DEF AgainOK
<1>2. \A d \in Callers : flushes[d] # "remove"  BY <1>1, ChangeTypes
<1>3. QED  BY <1>1, <1>2, NotRemoving

\* A flush that waits for no write may begin to wait for one.
LEMMA JobAdded ==
  ASSUME TypeOK, TypeOK', JobsOK, NEW c \in Callers, flushes[c] \notin {"attempt", "remove"},
         NEW v, flushes' = [flushes EXCEPT ![c] = v],
         \/ jobs' = jobs
         \/ v = "attempt" /\ jobs' = Append(jobs, [kind |-> "attempt", by |-> c])
         \/ v = "remove" /\ jobs' = Append(jobs, [kind |-> "shift", by |-> c])
  PROVE  JobsOK'
<1> DEFINE n == Len(jobs)
<1>1. jobs \in Seq(Jobs) /\ n \in Nat /\ \A i \in 1..n : jobs[i] \in Jobs  BY ChangeTypes
<1>2. \A i \in 1..n : jobs[i].kind # "add" => jobs[i].by # c  BY DEF JobsOK
<1>3. \A i \in 1..n : jobs[i].kind # "add" => jobs[i].by \in Callers  BY <1>1 DEF Jobs
<1>4. \A d \in Callers \ {c} : flushes'[d] = flushes[d]  BY ChangeTypes
<1>5. flushes'[c] = v  BY ChangeTypes
<1>6. CASE jobs' = jobs  BY <1>2, <1>3, <1>4, <1>6 DEF JobsOK
<1>7. ASSUME NEW kind \in {"attempt", "shift"}, jobs' = Append(jobs, [kind |-> kind, by |-> c]),
             v = IF kind = "attempt" THEN "attempt" ELSE "remove"
      PROVE  JobsOK'
  <2> DEFINE new == [kind |-> kind, by |-> c]
  <2>1. new \in Jobs /\ new.kind = kind /\ new.by = c  BY DEF Jobs
  <2>2. jobs' = Append(jobs, new)  BY <1>7
  <2> HIDE DEF new
  <2>3. Len(jobs') = n + 1 /\ jobs'[n + 1] = new /\ \A i \in 1..n : jobs'[i] = jobs[i]
    BY <1>1, <2>1, <2>2
  <2> HIDE DEF n
  <2>4. \A i \in 1..Len(jobs') : i \in 1..n \/ i = n + 1  BY <1>1, <2>3
  <2>5. ASSUME NEW i \in 1..Len(jobs'), jobs'[i].kind # "add"
        PROVE  flushes'[jobs'[i].by] = IF jobs'[i].kind = "attempt" THEN "attempt" ELSE "remove"
    <3>1. CASE i = n + 1  BY <1>5, <1>7, <2>1, <2>3, <3>1
    <3>2. CASE i \in 1..n
      <4>1. jobs'[i] = jobs[i] /\ jobs[i].by \in Callers \ {c}  BY <1>2, <1>3, <2>3, <2>5, <3>2
      <4>2. flushes[jobs[i].by] = IF jobs[i].kind = "attempt" THEN "attempt" ELSE "remove"
        BY <2>5, <3>2, <4>1 DEF JobsOK, n
      <4>3. QED  BY <1>4, <4>1, <4>2
    <3>3. QED  BY <2>4, <3>1, <3>2
  <2>6. ASSUME NEW i \in 1..Len(jobs'), NEW j \in 1..Len(jobs'),
               jobs'[i].kind # "add", jobs'[j].kind # "add", jobs'[i].by = jobs'[j].by
        PROVE  i = j
    <3>1. CASE i \in 1..n /\ j \in 1..n  BY <2>3, <2>6, <3>1 DEF JobsOK, n
    <3>2. CASE i \in 1..n /\ j = n + 1  BY <1>2, <2>1, <2>3, <2>6, <3>2
    <3>3. CASE i = n + 1 /\ j \in 1..n  BY <1>2, <2>1, <2>3, <2>6, <3>3
    <3>4. QED  BY <2>4, <3>1, <3>2, <3>3
  <2>7. QED  BY <2>5, <2>6 DEF JobsOK
<1>8. QED  BY <1>6, <1>7

\* The write at the head of the queue is done, and whoever waits for it goes on.
LEMMA JobDone ==
  ASSUME TypeOK, TypeOK', JobsOK, jobs # <<>>, jobs' = Tail(jobs), NEW v,
         flushes' = IF jobs[1].kind = "add" THEN flushes
                    ELSE [flushes EXCEPT ![jobs[1].by] = v]
  PROVE  JobsOK'
<1> DEFINE n == Len(jobs)
<1>1. jobs \in Seq(Jobs) /\ n \in Nat /\ n > 0 /\ \A i \in 1..n : jobs[i] \in Jobs  BY ChangeTypes
<1>2. Len(jobs') = n - 1 /\ \A i \in 1..(n - 1) : jobs'[i] = jobs[i + 1]  BY <1>1
<1> HIDE DEF n
<1>3. \A i \in 1..Len(jobs') : i + 1 \in 1..n /\ jobs'[i] = jobs[i + 1] /\ i + 1 # 1
  BY <1>1, <1>2
<1>4. ASSUME NEW i \in 1..Len(jobs'), jobs'[i].kind # "add"
      PROVE  flushes'[jobs'[i].by] = flushes[jobs'[i].by]
  <2>1. CASE jobs[1].kind = "add"  BY <2>1
  <2>2. CASE jobs[1].kind # "add"
    <3>1. 1 \in 1..n  BY <1>1
    <3>2. jobs[i + 1].by # jobs[1].by  BY <1>3, <1>4, <2>2, <3>1 DEF JobsOK, n
    <3>3. jobs[i + 1].by \in Callers /\ jobs[1].by \in Callers  BY <1>1, <1>3, <1>4, <2>2, <3>1 DEF Jobs
    <3>4. QED  BY <1>3, <2>2, <3>2, <3>3, ChangeTypes
  <2>3. QED  BY <2>1, <2>2
<1>5. ASSUME NEW i \in 1..Len(jobs'), NEW j \in 1..Len(jobs'),
             jobs'[i].kind # "add", jobs'[j].kind # "add", jobs'[i].by = jobs'[j].by
      PROVE  i = j
  <2>1. i + 1 = j + 1  BY <1>3, <1>5 DEF JobsOK, n
  <2>2. i \in Int /\ j \in Int  BY <1>1, <1>2
  <2>3. QED  BY <2>1, <2>2
<1>6. QED  BY <1>3, <1>4, <1>5 DEF JobsOK, n

\* Nothing is lost and nothing is overtaken when the items and the server's
\* changes stay.
LEMMA ChangesStay ==
  ASSUME ChangesOK, UNCHANGED <<items, saved, server, accepted, up>>, unsure \subseteq unsure',
         again \subseteq again'
  PROVE  /\ OrderOK' /\ AppliedOnce'
         /\ \A n \in 1..Len(accepted') : HeldChange(accepted[n])'
  BY DEF ChangesOK, OrderOK, AppliedOnce, HeldChange, InTurn

LEMMA EnqueueChangeOK ==
  ASSUME TypeOK, TypeOK', ChangesOK, NEW k \in Keys, EnqueueChange(k)
  PROVE  ChangesOK'
<1>1. /\ jobs' = Append(jobs, [kind |-> "add", by |-> k]) /\ up /\ up' = up
      /\ UNCHANGED <<items, saved, flushes, server, accepted, again, unsure>>
  BY DEF EnqueueChange, Call, Job
<1>2. JobsOK'
  <2> DEFINE n == Len(jobs)
             new == [kind |-> "add", by |-> k]
  <2>1. jobs \in Seq(Jobs) /\ n \in Nat /\ new \in Jobs /\ new.kind = "add"
    BY ChangeTypes DEF Jobs
  <2>2. jobs' = Append(jobs, new)  BY <1>1
  <2> HIDE DEF new
  <2>3. Len(jobs') = n + 1 /\ jobs'[n + 1] = new /\ \A i \in 1..n : jobs'[i] = jobs[i]
    BY <2>1, <2>2
  <2> HIDE DEF n
  <2>4. \A i \in 1..Len(jobs') : jobs'[i].kind # "add" => i \in 1..n /\ jobs'[i] = jobs[i]
    BY <2>1, <2>3
  <2>5. QED  BY <1>1, <2>4 DEF ChangesOK, JobsOK, n
<1>3. AloneOK'  BY <1>1 DEF ChangesOK, AloneOK
<1>5. AgainOK'  BY <1>1 DEF ChangesOK, AgainOK, Distinct, Has
<1>4. QED  BY <1>1, <1>2, <1>3, <1>5, ChangesStay DEF ChangesOK

\* A change of another client is none of the queue's.
LEMMA AppliedElsewhereOK ==
  ASSUME TypeOK, TypeOK', ChangesOK, AppliedElsewhere PROVE ChangesOK'
<1> DEFINE n == Len(server)
<1>1. /\ server' = Append(server, None) /\ up' = up
      /\ UNCHANGED <<items, saved, jobs, flushes, accepted, again, unsure>>
  BY DEF AppliedElsewhere, Call
<1>2. /\ server \in Seq(Keys \cup {None}) /\ n \in Nat /\ DOMAIN server = 1..n
      /\ Len(server') = n + 1 /\ DOMAIN server' = 1..(n + 1) /\ server'[n + 1] = None
      /\ \A i \in 1..n : server'[i] = server[i]
  BY <1>1, ChangeTypes
<1> HIDE DEF n
<1>3. \A i \in 1..(n + 1) : i \in 1..n \/ i = n + 1  BY <1>2
<1>4. \A i \in 1..n : i \in 1..(n + 1)  BY <1>2
<1>5. \A k : k # None => (Contains(server', k) <=> Contains(server, k))
  BY <1>2, <1>3, <1>4 DEF Contains, n
<1>6. None \notin Keys  BY OfflineAssumption
<1>7. \A i \in 1..Len(accepted) : accepted[i] # None  BY <1>6, ChangeTypes
<1>8. JobsOK'  BY <1>1 DEF ChangesOK, JobsOK
<1>9. AloneOK'
  <2>1. \A k : Contains(server, k) => Contains(server', k)
    BY <1>2, <1>4 DEF Contains, n
  <2>2. QED  BY <1>1, <2>1 DEF ChangesOK, AloneOK
<1>10. OrderOK'  BY <1>1, <1>5, <1>6, <1>7 DEF ChangesOK, OrderOK, InTurn
<1>11. AgainOK'  BY <1>1, <1>5, <1>6 DEF ChangesOK, AgainOK, Distinct, Has
<1>12. AppliedOnce'
  <2> SUFFICES ASSUME NEW i \in DOMAIN server', NEW j \in DOMAIN server',
                      i < j, server'[i] = server'[j], server'[i] # None
               PROVE  server'[i] \in again' /\ j - i > Retention
    BY DEF AppliedOnce
  <2>1. j \in 1..n /\ i \in 1..n  BY <1>2, <1>3
  <2>2. server[i] = server[j] /\ server[i] # None  BY <1>2, <2>1
  <2>3. QED  BY <1>1, <1>2, <2>1, <2>2 DEF ChangesOK, AppliedOnce
<1>13. \A i \in 1..Len(accepted') : HeldChange(accepted[i])'
  BY <1>1, <1>5, <1>7 DEF ChangesOK, HeldChange
<1>14. QED  BY <1>1, <1>8, <1>9, <1>10, <1>11, <1>12, <1>13 DEF ChangesOK

\* A flush looks at the first item when it waits for nothing.
LEMMA LookOK ==
  ASSUME TypeOK, TypeOK', ChangesOK, NEW c \in Callers, flushes[c] \in {None, "next"}, Look(c),
         up, UNCHANGED <<items, saved, server, accepted, up>>, unsure \subseteq unsure',
         again' = again \/ again' = Keys,
         flushes[c] = None /\ (\E d \in Callers : flushes[d] # None) =>
           Keys \subseteq unsure' /\ again' = Keys
  PROVE  ChangesOK'
<1>1. \/ flushes' = [flushes EXCEPT ![c] = None] /\ jobs' = jobs
      \/ /\ flushes' = [flushes EXCEPT ![c] = "attempt"]
         /\ jobs' = Append(jobs, [kind |-> "attempt", by |-> c])
  BY DEF Look, Job
<1>2. flushes[c] \notin {"attempt", "remove"}  BY ChangeTypes
<1>3. JobsOK'  BY <1>1, <1>2, JobAdded DEF ChangesOK
<1>4. AloneOK'
  <2> SUFFICES ASSUME ~(Keys \subseteq unsure') PROVE AloneOK'  BY DEF AloneOK
  <2>1. /\ \A a, b \in Callers : flushes[a] # None /\ flushes[b] # None => a = b
        /\ \A d \in Callers : flushes[d] # None => d = c
    BY DEF ChangesOK, AloneOK
  <2>2. /\ flushes'[c] \in {None, "attempt"} /\ \A d \in Callers \ {c} : flushes'[d] = flushes[d]
    BY <1>1, ChangeTypes
  <2>3. \A d \in Callers : flushes'[d] # "remove"  BY <2>1, <2>2, ChangeTypes
  <2>4. QED  BY <2>1, <2>2, <2>3 DEF AloneOK
<1>5. AgainOK'
  <2> SUFFICES ASSUME again' # Keys PROVE AgainOK'  BY DEF AgainOK
  <2>1. /\ again' = again /\ \A d \in Callers : flushes[d] # None => d = c
        /\ Distinct(items) /\ Distinct(saved)
    BY DEF ChangesOK, AgainOK
  <2>2. /\ flushes'[c] \in {None, "attempt"} /\ \A d \in Callers \ {c} : flushes'[d] = flushes[d]
    BY <1>1, ChangeTypes
  <2>3. \A d \in Callers : flushes'[d] # None => d = c  BY <2>1, <2>2
  <2>4. \A d \in Callers : flushes[d] # "remove"  BY <2>1, ChangeTypes
  <2>5. NoneDelivered  BY <2>1, <2>4, NotRemoving DEF ChangesOK
  <2>6. QED  BY <2>1, <2>3, <2>5 DEF AgainOK, NoneDelivered, Distinct, Has
<1>6. again \subseteq again'  BY ChangeTypes
<1>7. QED  BY <1>3, <1>4, <1>5, <1>6, ChangesStay DEF ChangesOK

LEMMA FlushOK ==
  ASSUME TypeOK, TypeOK', ChangesOK, NEW c \in Callers, Flush(c) \/ FlushOn(c)
  PROVE  ChangesOK'
<1>1. CASE Flush(c)
  <2>1. /\ up /\ flushes[c] = None /\ Look(c) /\ UNCHANGED <<items, saved, server, accepted, up>>
        /\ unsure \subseteq unsure' /\ (again' = again \/ again' = Keys)
        /\ (\E d \in Callers : flushes[d] # None) => Keys \subseteq unsure' /\ again' = Keys
    BY <1>1 DEF Flush, Call
  <2>2. QED  BY <2>1, LookOK
<1>2. CASE FlushOn(c)
  <2>1. /\ up /\ flushes[c] = "next" /\ Look(c)
        /\ UNCHANGED <<items, saved, server, accepted, up, unsure, again>>
    BY <1>2 DEF FlushOn, Step
  <2>2. flushes[c] # None  BY <2>1, ChangeTypes
  <2>3. QED  BY <2>1, <2>2, LookOK
<1>3. QED  BY <1>1, <1>2

\* The items a flush removes, if it removes any, begin with an applied change.
LEMMA ShiftIsApplied ==
  ASSUME TypeOK, JobsOK, AloneOK, ~(Keys \subseteq unsure), jobs # <<>>, jobs[1].kind = "shift"
  PROVE  items # <<>> /\ Contains(server, items[1].key)
<1>1. jobs \in Seq(Jobs) /\ 1 \in 1..Len(jobs) /\ jobs[1] \in Jobs  BY ChangeTypes
<1>2. jobs[1].by \in Callers /\ flushes[jobs[1].by] = "remove"  BY <1>1 DEF JobsOK, Jobs
<1>3. QED  BY <1>2 DEF AloneOK

\* What holds of an accepted change holds of it in the draft.
LEMMA DraftHolds ==
  ASSUME TypeOK, ChangesOK, up, jobs # <<>>, jobs[1].kind = "attempt" => items # <<>>,
         NEW d, d = Draft(jobs[1]), NEW k \in Keys, Contains(accepted, k),
         k \notin unsure, ~Contains(server, k)
  PROVE  Has(d, k)
<1>1. Has(items, k)  BY DEF ChangesOK, HeldChange, Contains
<1>2. jobs[1] \in Jobs /\ items \in Seq(Item)  BY ChangeTypes
<1>3. jobs[1].kind = "shift" /\ items # <<>> /\ k = items[1].key => Contains(server, k)
  BY ShiftIsApplied DEF ChangesOK
<1>4. QED  BY <1>1, <1>2, <1>3, Drafted

\* The accepted changes are in turn in the draft.
LEMMA DraftTurns ==
  ASSUME TypeOK, ChangesOK, up, unsure = {}, jobs # <<>>, jobs[1].kind = "attempt" => items # <<>>,
         NEW d, d = Draft(jobs[1]),
         NEW i \in 1..Len(accepted), NEW j \in 1..Len(accepted), i < j, ~Contains(server, accepted[i])
  PROVE  Ahead(d, accepted[i], accepted[j])
<1>1. InTurn(accepted[i], accepted[j]) /\ HeldChange(accepted[i])  BY DEF ChangesOK, OrderOK
<1>2. Ahead(items, accepted[i], accepted[j]) /\ Has(items, accepted[i])
  BY <1>1 DEF InTurn, HeldChange
<1>3. jobs[1] \in Jobs /\ items \in Seq(Item)  BY ChangeTypes
<1>4. QED  BY <1>2, <1>3, Drafted

LEMMA MutateOK == ASSUME TypeOK, TypeOK', ChangesOK, Mutate PROVE ChangesOK'
<1> DEFINE job == jobs[1]
           d == Draft(job)
           N == Len(accepted)
<1>1. /\ up /\ up' = up /\ jobs # <<>> /\ (job.kind = "attempt" => items # <<>>)
      /\ items' = d /\ saved' = d /\ jobs' = Tail(jobs) /\ UNCHANGED <<server, unsure>>
      /\ accepted' = IF job.kind = "add" /\ ~Contains(accepted, job.by)
                     THEN Append(accepted, job.by) ELSE accepted
      /\ flushes' = IF job.kind = "add" THEN flushes
                    ELSE [flushes EXCEPT ![job.by] = IF job.kind = "attempt" THEN "send" ELSE "next"]
      /\ again' = again \cup Repeats(job)
  <2>1. jobs # <<>>  BY DEF Mutate
  <2>2. Head(jobs) = jobs[1]  BY <2>1, ChangeTypes
  <2>3. QED  BY <2>2 DEF Mutate, Saved, Step
<1>2. job \in Jobs /\ items \in Seq(Item) /\ accepted \in Seq(Keys) /\ N \in Nat  BY <1>1, ChangeTypes
<1>3. /\ \A k : Has(d, k) => Has(items, k) \/ (job.kind = "add" /\ k = job.by)
      /\ job.kind = "add" => Has(d, job.by)
      /\ \A a, b : Ahead(items, a, b) =>
           Ahead(d, a, b) \/ (job.kind = "add" /\ ~Has(items, job.by) /\ a = job.by)
      /\ job.kind # "shift" /\ items # <<>> => d # <<>> /\ d[1].key = items[1].key
  BY <1>1, <1>2, Drafted
<1>4. JobsOK'  BY <1>1, JobDone DEF ChangesOK
<1>5. AloneOK'
  <2> SUFFICES ASSUME ~(Keys \subseteq unsure) PROVE AloneOK'  BY <1>1 DEF AloneOK
  <2>1. \A a, b \in Callers : flushes[a] # None /\ flushes[b] # None => a = b
    BY DEF ChangesOK, AloneOK
  <2>2. CASE job.kind = "add"
    <3>1. \A c \in Callers : flushes[c] = "remove" => d # <<>> /\ d[1].key = items[1].key /\ items # <<>>
      BY <1>3, <2>2 DEF ChangesOK, AloneOK
    <3>2. QED  BY <1>1, <2>1, <2>2, <3>1 DEF ChangesOK, AloneOK
  <2>3. CASE job.kind # "add"
    <3>1. job.by \in Callers /\ 1 \in 1..Len(jobs)  BY <1>1, <1>2, <2>3, ChangeTypes DEF Jobs
    <3>2. flushes[job.by] # None
      BY <2>3, <3>1, ChangeTypes DEF ChangesOK, JobsOK
    <3>3. /\ flushes'[job.by] \in {"send", "next"}
          /\ \A c \in Callers \ {job.by} : flushes'[c] = flushes[c]
      BY <1>1, <2>3, <3>1, ChangeTypes
    <3>4. \A c \in Callers : flushes'[c] # "remove"  BY <2>1, <3>1, <3>2, <3>3, ChangeTypes
    <3>5. \A a \in Callers : flushes'[a] # None => a = job.by  BY <2>1, <3>1, <3>2, <3>3
    <3>6. QED  BY <3>4, <3>5 DEF AloneOK
  <2>4. QED  BY <2>2, <2>3
<1> HIDE DEF d
<1>6. /\ N <= Len(accepted') /\ \A n \in 1..N : accepted'[n] = accepted[n]
      /\ \A n \in 1..Len(accepted') : n \in 1..N \/
            (n = N + 1 /\ accepted'[n] = job.by /\ job.kind = "add" /\ ~Contains(accepted, job.by))
      /\ \A k : Contains(accepted, k) => Contains(accepted', k)
      /\ job.kind = "add" => Contains(accepted', job.by)
  <2>1. CASE job.kind = "add" /\ ~Contains(accepted, job.by)
    <3>1. job.by \in Keys  BY <1>2, <2>1 DEF Jobs
    <3>2. accepted' = Append(accepted, job.by)  BY <1>1, <2>1
    <3> HIDE DEF job
    <3>3. /\ Len(accepted') = N + 1 /\ accepted'[N + 1] = job.by
          /\ \A n \in 1..N : accepted'[n] = accepted[n]
      BY <1>2, <3>1, <3>2
    <3>4. \A n \in 1..Len(accepted') : n \in 1..N \/ n = N + 1  BY <1>2, <3>3
    <3>5. \A n \in 1..N : n \in 1..Len(accepted')  BY <1>2, <3>3
    <3>6. N + 1 \in 1..Len(accepted')  BY <1>2, <3>3
    <3>7. N <= Len(accepted')  BY <1>2, <3>3
    <3> HIDE DEF N
    <3>8. QED  BY <2>1, <3>3, <3>4, <3>5, <3>6, <3>7 DEF Contains, N
  <2>2. CASE ~(job.kind = "add" /\ ~Contains(accepted, job.by))
    <3>1. accepted' = accepted  BY <1>1, <2>2
    <3>2. QED  BY <1>2, <2>2, <3>1
  <2>3. QED  BY <2>1, <2>2
<1> HIDE DEF N
<1>7. \A n \in 1..N : accepted[n] \in Keys /\ Contains(accepted, accepted[n])
  BY <1>2 DEF Contains, N
<1>8. ASSUME NEW n \in 1..Len(accepted') PROVE HeldChange(accepted[n])'
  <2>1. CASE n \in 1..N
    <3>1. HeldChange(accepted[n])  BY <2>1 DEF ChangesOK, N
    <3>2. accepted[n] \notin unsure /\ ~Contains(server, accepted[n]) => Has(d, accepted[n])
      BY <1>1, <1>7, <2>1, DraftHolds DEF d
    <3>3. QED  BY <1>1, <1>6, <2>1, <3>1, <3>2 DEF HeldChange
  <2>2. CASE accepted'[n] = job.by /\ job.kind = "add"
    BY <1>1, <1>3, <2>2 DEF HeldChange
  <2>3. QED  BY <1>6, <2>1, <2>2
<1>9. OrderOK'
  <2> SUFFICES ASSUME unsure = {} PROVE OrderOK'  BY <1>1 DEF OrderOK
  <2>1. /\ \A k \in Keys : Has(items, k) => Contains(accepted, k)
        /\ \A k \in Keys : Contains(server, k) => Contains(accepted, k)
    BY <1>1 DEF ChangesOK, OrderOK
  <2>2. \A k \in Keys : Has(d, k) => Contains(accepted', k)  BY <1>3, <1>6, <2>1
  <2>3. ASSUME NEW i \in 1..Len(accepted'), NEW j \in 1..Len(accepted'), i < j
        PROVE  InTurn(accepted[i], accepted[j])'
    <3>1. i \in 1..N
      BY <1>2, <1>6, <2>3
    <3>2. CASE Contains(server, accepted[i])  BY <1>1, <1>6, <3>1, <3>2 DEF InTurn
    <3>3. CASE ~Contains(server, accepted[i]) /\ j \in 1..N
      <4>1. Ahead(d, accepted[i], accepted[j])
        BY <1>1, <2>3, <3>1, <3>3, DraftTurns DEF d, N
      <4>2. ~Contains(server, accepted[j])
        BY <2>3, <3>1, <3>3 DEF ChangesOK, OrderOK, InTurn, N
      <4>3. QED  BY <1>1, <1>6, <3>1, <3>3, <4>1, <4>2 DEF InTurn
    <3>4. CASE /\ ~Contains(server, accepted[i])
               /\ accepted'[j] = job.by /\ job.kind = "add" /\ ~Contains(accepted, job.by)
      <4>1. job.by \in Keys /\ accepted[i] # job.by  BY <1>2, <1>7, <3>1, <3>4 DEF Jobs
      <4>2. ~Has(items, job.by) /\ ~Contains(server, job.by)  BY <2>1, <3>4, <4>1
      <4>3. Ahead(items, accepted[i], job.by)  BY <4>2 DEF Ahead, Has
      <4>4. Ahead(d, accepted[i], job.by)  BY <1>3, <4>1, <4>3
      <4>5. QED  BY <1>1, <1>6, <3>1, <3>4, <4>2, <4>4 DEF InTurn
    <3>5. QED  BY <1>6, <3>2, <3>3, <3>4
  <2>4. \A k \in Keys : Contains(server, k) => Contains(accepted', k)  BY <1>6, <2>1
  <2>5. QED  BY <1>1, <2>2, <2>3, <2>4 DEF OrderOK
<1>10. AgainOK'
  <2> SUFFICES ASSUME again' # Keys PROVE AgainOK'  BY DEF AgainOK
  <2>1. again \subseteq again' /\ again # Keys
    <3>1. again \subseteq again'  BY <1>1
    <3>2. again' \subseteq Keys  BY DEF TypeOK
    <3>3. QED  BY <3>1, <3>2
  <2>2. /\ \A a, b \in Callers : flushes[a] # None /\ flushes[b] # None => a = b
        /\ Distinct(items) /\ Distinct(saved)
        /\ \A k \in Keys \ again : Contains(server, k) /\ (Has(saved, k) \/ (up /\ Has(items, k))) =>
             /\ items # <<>> /\ items[1].key = k
             /\ \E c \in Callers : flushes[c] = "remove"
    BY <2>1 DEF ChangesOK, AgainOK
  <2>3. Distinct(items') /\ Distinct(saved')  BY <1>1, <1>2, <2>2, DraftDistinct DEF d
  <2>4. CASE job.kind = "add"
    <3>1. flushes' = flushes /\ \A k \in Keys \ again' : Contains(server, k) => k # job.by
      BY <1>1, <2>4 DEF Repeats
    <3>2. ASSUME NEW k \in Keys \ again', Contains(server, k), Has(d, k)
          PROVE  /\ d # <<>> /\ d[1].key = k
                 /\ \E c \in Callers : flushes[c] = "remove"
      <4>1. Has(items, k)  BY <1>3, <2>4, <3>1, <3>2
      <4>2. items # <<>> /\ items[1].key = k /\ \E c \in Callers : flushes[c] = "remove"
        BY <1>1, <2>1, <2>2, <3>2, <4>1
      <4>3. QED  BY <1>3, <2>4, <4>2
    <3>3. QED  BY <1>1, <2>2, <2>3, <3>1, <3>2 DEF AgainOK
  <2>5. CASE job.kind # "add"
    <3>1. job.by \in Callers /\ 1 \in 1..Len(jobs)  BY <1>1, <1>2, <2>5, ChangeTypes DEF Jobs
    <3>2. flushes[job.by] = IF job.kind = "attempt" THEN "attempt" ELSE "remove"
      BY <2>5, <3>1 DEF ChangesOK, JobsOK
    <3>3. \A c \in Callers : flushes[c] # None => c = job.by  BY <2>2, <3>1, <3>2, ChangeTypes
    <3>4. \A c \in Callers \ {job.by} : flushes'[c] = flushes[c]
      BY <1>1, <2>5, <3>1, ChangeTypes
    <3>5. \A c \in Callers : flushes'[c] # None => c = job.by  BY <3>1, <3>3, <3>4
    <3>6. ASSUME NEW k \in Keys \ again', Contains(server, k), Has(d, k) PROVE FALSE
      <4>1. Has(items, k)  BY <1>3, <2>5, <3>6
      <4>2. CASE job.kind = "attempt"
        <5>1. NoneDelivered  BY <2>1, <3>1, <3>2, <4>2, OnlyFlush DEF ChangesOK
        <5>2. QED  BY <1>1, <2>1, <3>6, <4>1, <5>1 DEF NoneDelivered
      <4>3. CASE job.kind = "shift"
        <5>1. items # <<>> /\ items[1].key = k  BY <1>1, <2>1, <2>2, <3>6, <4>1
        <5>2. ~Has(d, k)  BY <1>2, <2>2, <4>3, <5>1, DraftDistinct DEF d
        <5>3. QED  BY <3>6, <5>2
      <4>4. QED  BY <1>2, <2>5, <4>2, <4>3 DEF Jobs
    <3>7. QED  BY <1>1, <2>3, <3>5, <3>6 DEF AgainOK
  <2>6. QED  BY <2>4, <2>5
<1>11. AppliedOnce'  BY <1>1 DEF ChangesOK, AppliedOnce
<1>12. QED  BY <1>1, <1>4, <1>5, <1>8, <1>9, <1>10, <1>11 DEF ChangesOK

LEMMA MutateFailsOK == ASSUME TypeOK, TypeOK', ChangesOK, MutateFails PROVE ChangesOK'
<1> DEFINE job == jobs[1]
           d == Draft(job)
<1>1. /\ up /\ up' = up /\ jobs # <<>> /\ jobs' = Tail(jobs) /\ UNCHANGED <<items, server, accepted>>
      /\ saved' = saved \/ (saved' = d /\ (job.kind = "attempt" => items # <<>>))
      /\ flushes' = IF job.kind = "add" THEN flushes ELSE [flushes EXCEPT ![job.by] = None]
      /\ unsure' = IF job.kind = "add" /\ saved' # saved THEN unsure \cup {job.by} ELSE unsure
      /\ again' = again \cup (IF job.kind = "shift" THEN Unremoved ELSE Repeats(job))
  <2>1. jobs # <<>>  BY DEF MutateFails
  <2>2. Head(jobs) = jobs[1]  BY <2>1, ChangeTypes
  <2>3. QED  BY <2>2 DEF MutateFails
<1>2. job \in Jobs /\ items \in Seq(Item)  BY <1>1, ChangeTypes
<1>3. unsure \subseteq unsure'  BY <1>1
<1>4. JobsOK'  BY <1>1, JobDone DEF ChangesOK
<1>5. AloneOK'
  <2> SUFFICES ASSUME ~(Keys \subseteq unsure') PROVE AloneOK'  BY DEF AloneOK
  <2>1. \A a, b \in Callers : flushes[a] # None /\ flushes[b] # None => a = b
    BY <1>3 DEF ChangesOK, AloneOK
  <2>2. \A c \in Callers : flushes'[c] = flushes[c] \/ flushes'[c] = None
    BY <1>1, ChangeTypes
  <2>3. QED  BY <1>1, <1>3, <2>1, <2>2, ChangeTypes DEF ChangesOK, AloneOK
<1> HIDE DEF d
<1>9. AgainOK'
  <2> SUFFICES ASSUME again' # Keys PROVE AgainOK'  BY DEF AgainOK
  <2>1. again \subseteq again' /\ again # Keys
    <3>1. again \subseteq again'  BY <1>1
    <3>2. again' \subseteq Keys  BY DEF TypeOK
    <3>3. QED  BY <3>1, <3>2
  <2>2. /\ \A a, b \in Callers : flushes[a] # None /\ flushes[b] # None => a = b
        /\ Distinct(items) /\ Distinct(saved)
        /\ \A k \in Keys \ again : Contains(server, k) /\ (Has(saved, k) \/ (up /\ Has(items, k))) =>
             /\ items # <<>> /\ items[1].key = k
             /\ \E c \in Callers : flushes[c] = "remove"
    BY <2>1 DEF ChangesOK, AgainOK
  <2>3. Distinct(saved') /\ Distinct(items')
    BY <1>1, <1>2, <2>2, DraftDistinct DEF d
  <2>4. \A k : Has(saved', k) => Has(saved, k) \/ Has(items, k) \/ (job.kind = "add" /\ k = job.by)
    BY <1>1, <1>2, Drafted DEF d
  <2>5. CASE job.kind = "add"
    <3>1. flushes' = flushes /\ \A k \in Keys \ again' : Contains(server, k) => k # job.by
      BY <1>1, <2>5 DEF Repeats
    <3>2. QED  BY <1>1, <2>1, <2>2, <2>3, <2>4, <3>1 DEF AgainOK, Has
  <2>6. CASE job.kind # "add"
    <3>1. job.by \in Callers /\ 1 \in 1..Len(jobs)  BY <1>1, <1>2, <2>6, ChangeTypes DEF Jobs
    <3>2. flushes[job.by] = IF job.kind = "attempt" THEN "attempt" ELSE "remove"
      BY <2>6, <3>1 DEF ChangesOK, JobsOK
    <3>3. \A c \in Callers : flushes[c] # None => c = job.by  BY <2>2, <3>1, <3>2, ChangeTypes
    <3>4. flushes'[job.by] = None /\ \A c \in Callers \ {job.by} : flushes'[c] = flushes[c]
      BY <1>1, <2>6, <3>1, ChangeTypes
    <3>5. \A c \in Callers : flushes'[c] = None  BY <3>3, <3>4
    <3>6. ASSUME NEW k \in Keys \ again', Contains(server, k), Has(saved', k) \/ Has(items, k)
          PROVE  FALSE
      <4>1. Has(saved, k) \/ (up /\ Has(items, k))  BY <1>1, <2>4, <2>6, <3>6
      <4>2. CASE job.kind = "attempt"
        <5>1. NoneDelivered  BY <2>1, <3>1, <3>2, <4>2, OnlyFlush DEF ChangesOK
        <5>2. QED  BY <2>1, <3>6, <4>1, <5>1 DEF NoneDelivered
      <4>3. CASE job.kind = "shift"
        <5>1. items # <<>> /\ items[1].key = k  BY <2>1, <2>2, <3>6, <4>1
        <5>2. Head(items) = items[1]  BY <1>2, <5>1
        <5>3. k \in again'  BY <1>1, <4>3, <5>1, <5>2 DEF Unremoved
        <5>4. QED  BY <3>6, <5>3
      <4>4. QED  BY <1>2, <2>6, <4>2, <4>3 DEF Jobs
    <3>7. QED  BY <1>1, <2>3, <3>5, <3>6 DEF AgainOK, Has
  <2>7. QED  BY <2>5, <2>6
<1>10. again \subseteq again'  BY <1>1
<1>6. CASE saved' = saved
  BY <1>1, <1>3, <1>4, <1>5, <1>6, <1>9, <1>10, ChangesStay DEF ChangesOK
<1>7. CASE saved' = d /\ saved' # saved /\ (job.kind = "attempt" => items # <<>>)
  <2>1. ASSUME NEW n \in 1..Len(accepted) PROVE HeldChange(accepted[n])'
    <3>1. accepted[n] \in Keys /\ Contains(accepted, accepted[n])
      BY ChangeTypes DEF Contains
    <3>2. HeldChange(accepted[n])  BY DEF ChangesOK
    <3>3. accepted[n] \notin unsure /\ ~Contains(server, accepted[n]) => Has(d, accepted[n])
      BY <1>1, <1>7, <3>1, DraftHolds DEF d
    <3>4. QED  BY <1>1, <1>3, <1>7, <3>2, <3>3 DEF HeldChange
  <2>2. OrderOK'
    <3> SUFFICES ASSUME unsure' = {} PROVE OrderOK'  BY DEF OrderOK
    <3>1. unsure = {} /\ job.kind # "add"  BY <1>1, <1>7
    <3>2. \A k : Has(d, k) => Has(items, k)
      BY <1>2, <1>7, <3>1, Drafted DEF d
    <3>3. \A k \in Keys : Has(d, k) \/ Has(items, k) => Contains(accepted, k)
      BY <1>1, <3>1, <3>2 DEF ChangesOK, OrderOK
    <3>4. ASSUME NEW i \in 1..Len(accepted), NEW j \in 1..Len(accepted), i < j
          PROVE  InTurn(accepted[i], accepted[j])'
      <4>1. InTurn(accepted[i], accepted[j])  BY <3>1, <3>4 DEF ChangesOK, OrderOK
      <4>2. ~Contains(server, accepted[i]) => Ahead(d, accepted[i], accepted[j])
        BY <1>1, <1>7, <3>1, <3>4, DraftTurns DEF d
      <4>3. QED  BY <1>1, <1>7, <4>1, <4>2 DEF InTurn
    <3>5. \A k \in Keys : Contains(server, k) => Contains(accepted, k)
      BY <3>1 DEF ChangesOK, OrderOK
    <3>6. QED  BY <1>1, <1>7, <3>3, <3>4, <3>5 DEF OrderOK
  <2>3. AppliedOnce'  BY <1>1, <1>10 DEF ChangesOK, AppliedOnce
  <2>4. QED  BY <1>1, <1>4, <1>5, <1>9, <2>1, <2>2, <2>3 DEF ChangesOK
<1>8. QED  BY <1>1, <1>6, <1>7

\* What the server has applied when a change arrives, known to it or not.
LEMMA ServerTakes ==
  ASSUME TypeOK, NEW k \in Keys, NEW s, s = Applied(k)
  PROVE  \A x : Contains(s, x) <=> Contains(server, x) \/ x = k
<1> DEFINE n == Len(server)
<1>1. server \in Seq(Keys \cup {None}) /\ n \in Nat /\ DOMAIN server = 1..n  BY ChangeTypes
<1>2. CASE Remembered(k)  BY <1>1, <1>2 DEF Applied, Remembered, Contains
<1>3. CASE ~Remembered(k)
  <2>1. s = Append(server, k)  BY <1>3 DEF Applied
  <2>2. Len(s) = n + 1 /\ DOMAIN s = 1..(n + 1) /\ s[n + 1] = k /\ \A i \in 1..n : s[i] = server[i]
    BY <1>1, <2>1
  <2> HIDE DEF n
  <2>3. \A i \in 1..(n + 1) : i \in 1..n \/ i = n + 1  BY <1>1
  <2>4. n + 1 \in 1..(n + 1) /\ \A i \in 1..n : i \in 1..(n + 1)  BY <1>1
  <2>5. QED  BY <2>2, <2>3, <2>4 DEF Contains, n
<1>4. QED  BY <1>2, <1>3

\* A change that it applies once more has fallen out of those it remembers, and
\* was one that may be sent again.
LEMMA AppliedOnceTakes ==
  ASSUME TypeOK, AppliedOnce, NEW k \in Keys, server' = Applied(k), again \subseteq again',
         Contains(server, k) => k \in again'
  PROVE  AppliedOnce'
<1> DEFINE n == Len(server)
<1>1. server \in Seq(Keys \cup {None}) /\ n \in Nat /\ DOMAIN server = 1..n /\ Retention \in Nat
  BY ChangeTypes, OfflineAssumption
<1>2. CASE Remembered(k)  BY <1>2 DEF Applied, AppliedOnce
<1>3. CASE ~Remembered(k)
  <2>1. server' = Append(server, k)  BY <1>3 DEF Applied
  <2>2. /\ DOMAIN server' = 1..(n + 1) /\ server'[n + 1] = k
        /\ \A i \in 1..n : server'[i] = server[i]
    BY <1>1, <2>1
  <2>3. \A i \in 1..n : server[i] = k => i <= n - Retention /\ k \in again'
    BY <1>1, <1>3 DEF Remembered, Contains
  <2> HIDE DEF n
  <2> SUFFICES ASSUME NEW i \in DOMAIN server', NEW j \in DOMAIN server',
                      i < j, server'[i] = server'[j], server'[i] # None
               PROVE  server'[i] \in again' /\ j - i > Retention
    BY DEF AppliedOnce
  <2>4. i \in 1..n /\ (j \in 1..n \/ j = n + 1)  BY <1>1, <2>2
  <2>5. CASE j \in 1..n
    <3>1. server[i] = server[j] /\ server[i] # None /\ i \in DOMAIN server /\ j \in DOMAIN server
      BY <1>1, <2>2, <2>4, <2>5
    <3>2. server[i] \in again /\ j - i > Retention  BY <3>1 DEF AppliedOnce
    <3>3. QED  BY <2>2, <2>4, <3>2
  <2>6. CASE j = n + 1
    <3>1. server[i] = k /\ server'[i] = k  BY <2>2, <2>4, <2>6
    <3>2. i <= n - Retention /\ k \in again'  BY <2>3, <2>4, <3>1
    <3>3. j - i > Retention  BY ONLY <1>1, <2>4, <2>6, <3>2
    <3>4. QED  BY <3>1, <3>2, <3>3
  <2>7. QED  BY <2>4, <2>5, <2>6
<1>4. QED  BY <1>2, <1>3

LEMMA SendOK ==
  ASSUME TypeOK, TypeOK', ChangesOK, NEW c \in Callers, NEW arrives \in BOOLEAN,
         NEW answered \in BOOLEAN, Send(c, arrives, answered)
  PROVE  ChangesOK'
<1>1. /\ up /\ up' = up /\ flushes[c] = "send" /\ UNCHANGED <<items, saved, accepted, unsure>>
      /\ \/ /\ server' = server /\ flushes' = [flushes EXCEPT ![c] = None] /\ jobs' = jobs
            /\ again' = again
         \/ /\ items # <<>> /\ server' = Applied(items[1].key)
            /\ \/ /\ flushes' = [flushes EXCEPT ![c] = None] /\ jobs' = jobs
                  /\ again' = again \cup {items[1].key}
               \/ /\ flushes' = [flushes EXCEPT ![c] = "remove"] /\ again' = again
                  /\ jobs' = Append(jobs, [kind |-> "shift", by |-> c])
  <2>1. items # <<>> => Head(items) = items[1]  BY ChangeTypes
  <2>2. QED  BY <2>1 DEF Send, Step, Job, Unremoved
<1>2. flushes[c] \notin {"attempt", "remove"} /\ flushes[c] # None  BY <1>1, ChangeTypes
<1>3. JobsOK'  BY <1>1, <1>2, JobAdded DEF ChangesOK
<1>6. again \subseteq again'  BY <1>1
<1>7. ASSUME again # Keys
      PROVE  /\ \A d \in Callers : flushes'[d] # None => d = c
             /\ NoneDelivered /\ Distinct(items') /\ Distinct(saved')
  <2>1. (\A d \in Callers : flushes[d] # None => d = c) /\ NoneDelivered
    BY <1>1, <1>7, OnlyFlush DEF ChangesOK
  <2>2. \A d \in Callers \ {c} : flushes'[d] = flushes[d]  BY <1>1, ChangeTypes
  <2>3. Distinct(items) /\ Distinct(saved)  BY <1>7 DEF ChangesOK, AgainOK
  <2>4. QED  BY <1>1, <2>1, <2>2, <2>3
<1>4. CASE server' = server /\ flushes' = [flushes EXCEPT ![c] = None] /\ again' = again
  <2>1. \A d \in Callers : flushes'[d] = flushes[d] \/ flushes'[d] = None  BY <1>4, ChangeTypes
  <2>2. AloneOK'  BY <1>1, <1>4, <2>1, ChangeTypes DEF ChangesOK, AloneOK
  <2>4. AgainOK'  BY <1>1, <1>4, <1>7 DEF AgainOK, NoneDelivered, Has
  <2>3. QED  BY <1>1, <1>3, <1>4, <2>2, <2>4, ChangesStay DEF ChangesOK
<1>5. CASE /\ items # <<>> /\ server' = Applied(items[1].key)
           /\ \/ flushes' = [flushes EXCEPT ![c] = None] /\ again' = again \cup {items[1].key}
              \/ flushes' = [flushes EXCEPT ![c] = "remove"] /\ again' = again
  <2> DEFINE h == items[1].key
             n == Len(accepted)
  <2>1. h \in Keys /\ 1 \in 1..Len(items)
    <3>1. items[1] \in Item /\ 1 \in 1..Len(items)  BY <1>5, ChangeTypes
    <3>2. QED  BY <3>1 DEF Item
  <2> HIDE DEF h
  <2>2. \A x : Contains(server', x) <=> Contains(server, x) \/ x = h
    BY <1>5, <2>1, ServerTakes DEF h
  <2>3. AloneOK'
    <3> SUFFICES ASSUME ~(Keys \subseteq unsure) PROVE AloneOK'  BY <1>1 DEF AloneOK
    <3>1. \A d \in Callers : flushes[d] # None => d = c  BY <1>2 DEF ChangesOK, AloneOK
    <3>2. \A d \in Callers \ {c} : flushes'[d] = flushes[d]  BY <1>5, ChangeTypes
    <3>3. \A d \in Callers : flushes'[d] # None => d = c  BY <3>1, <3>2
    <3>4. items' # <<>> /\ Contains(server', items'[1].key)  BY <1>1, <1>5, <2>2 DEF h
    <3>5. QED  BY <3>3, <3>4 DEF AloneOK
  <2>4. \A i \in 1..Len(accepted') : HeldChange(accepted[i])'
    BY <1>1, <2>2 DEF ChangesOK, HeldChange
  <2>5. OrderOK'
    <3> SUFFICES ASSUME unsure = {} PROVE OrderOK'  BY <1>1 DEF OrderOK
    <3>1. Has(items, h)  BY <2>1 DEF Has, h
    <3>2. /\ \A k \in Keys : Has(saved, k) \/ (up /\ Has(items, k)) => Contains(accepted, k)
          /\ \A k \in Keys : Contains(server, k) => Contains(accepted, k)
      BY DEF ChangesOK, OrderOK
    <3>3. \A k \in Keys : Contains(server', k) => Contains(accepted, k)
      BY <1>1, <2>2, <3>1, <3>2
    <3>4. ASSUME NEW i \in 1..Len(accepted), NEW j \in 1..Len(accepted), i < j
          PROVE  InTurn(accepted[i], accepted[j])'
      <4>1. InTurn(accepted[i], accepted[j]) /\ HeldChange(accepted[i])
        BY <3>4 DEF ChangesOK, OrderOK
      <4>2. CASE Contains(server', accepted[i])  BY <1>1, <4>2 DEF InTurn
      <4>3. CASE ~Contains(server', accepted[i])
        <5>1. ~Contains(server, accepted[i]) /\ accepted[i] # h  BY <2>2, <4>3
        <5>2. Has(items, accepted[i]) /\ Ahead(items, accepted[i], accepted[j])
          BY <1>1, <4>1, <5>1 DEF HeldChange, InTurn
        <5>3. accepted[j] # h
          <6> SUFFICES ASSUME accepted[j] = h PROVE FALSE  OBVIOUS
          <6>1. PICK p \in 1..Len(items) : items[p].key = accepted[i]  BY <5>2 DEF Has
          <6>2. p < 1  BY <2>1, <5>2, <6>1 DEF Ahead, h
          <6>3. QED  BY <6>2
        <5>4. QED  BY <1>1, <2>2, <4>1, <5>1, <5>3 DEF InTurn
      <4>4. QED  BY <4>2, <4>3
    <3>5. QED  BY <1>1, <3>2, <3>3, <3>4 DEF OrderOK
  <2>6. AgainOK'
    <3> SUFFICES ASSUME again' # Keys PROVE AgainOK'  BY DEF AgainOK
    <3>1. again # Keys
      <4>1. again' \subseteq Keys  BY DEF TypeOK
      <4>2. QED  BY <1>6, <4>1
    <3>2. ASSUME NEW k \in Keys \ again', Contains(server', k), Has(saved, k) \/ (up /\ Has(items, k))
          PROVE  k = h /\ \E d \in Callers : flushes'[d] = "remove"
      <4>1. ~Contains(server, k)  BY <1>6, <1>7, <3>1, <3>2 DEF NoneDelivered
      <4>2. k = h  BY <2>2, <3>2, <4>1
      <4>3. flushes' = [flushes EXCEPT ![c] = "remove"]  BY <1>5, <3>2, <4>2 DEF h
      <4>4. flushes'[c] = "remove"  BY <4>3, ChangeTypes
      <4>5. QED  BY <4>2, <4>4
    <3>3. QED  BY <1>1, <1>5, <1>7, <3>1, <3>2 DEF AgainOK, Has, h
  <2>7. AppliedOnce'
    <3>1. Has(items, h)  BY <2>1 DEF Has, h
    <3>2. Contains(server, h) => h \in again
      BY <1>1, <1>7, <2>1, <3>1 DEF NoneDelivered
    <3>3. QED  BY <1>5, <1>6, <2>1, <3>2, AppliedOnceTakes DEF ChangesOK, h
  <2>8. QED  BY <1>1, <1>3, <2>3, <2>4, <2>5, <2>6, <2>7 DEF ChangesOK
<1>8. QED  BY <1>1, <1>4, <1>5

LEMMA StopAndStartOK ==
  ASSUME TypeOK, TypeOK', ChangesOK, CrashQueue \/ OpenQueue PROVE ChangesOK'
<1>1. CASE CrashQueue
  <2>1. /\ ~up' /\ jobs' = <<>> /\ \A c \in Callers : flushes'[c] = None
        /\ UNCHANGED <<items, saved, server, accepted, unsure>> /\ Len(jobs') = 0
        /\ again' = IF \E c \in Callers : flushes[c] = "remove" THEN again \cup Unremoved ELSE again
    BY <1>1 DEF CrashQueue
  <2>2. JobsOK'  BY <2>1 DEF JobsOK
  <2>3. AloneOK'
    <3>1. \A c \in Callers : flushes'[c] # "remove"  BY <2>1, ChangeTypes
    <3>2. \/ Keys \subseteq unsure
          \/ \A a, b \in Callers : flushes'[a] # None /\ flushes'[b] # None => a = b
      BY <2>1
    <3>3. QED  BY <2>1, <3>1, <3>2 DEF AloneOK
  <2>4. OrderOK' /\ AppliedOnce' /\ \A n \in 1..Len(accepted') : HeldChange(accepted[n])'
    BY <2>1 DEF ChangesOK, OrderOK, AppliedOnce, HeldChange, InTurn
  <2>5. AgainOK'
    <3> SUFFICES ASSUME again' # Keys PROVE AgainOK'  BY DEF AgainOK
    <3>1. again \subseteq again' /\ again # Keys
      <4>1. again \subseteq again'  BY <2>1
      <4>2. again' \subseteq Keys  BY DEF TypeOK
      <4>3. QED  BY <4>1, <4>2
    <3>2. ASSUME NEW k \in Keys \ again', Contains(server, k), Has(saved, k) PROVE FALSE
      <4>1. /\ items # <<>> /\ items[1].key = k
            /\ \E c \in Callers : flushes[c] = "remove"
        BY <3>1, <3>2 DEF ChangesOK, AgainOK
      <4>2. Head(items) = items[1]  BY <4>1, ChangeTypes
      <4>3. k \in again'  BY <2>1, <4>1, <4>2 DEF Unremoved
      <4>4. QED  BY <3>2, <4>3
    <3>3. Distinct(items) /\ Distinct(saved)  BY <3>1 DEF ChangesOK, AgainOK
    <3>4. QED  BY <2>1, <3>2, <3>3 DEF AgainOK, Distinct, Has
  <2>6. QED  BY <2>1, <2>2, <2>3, <2>4, <2>5 DEF ChangesOK
<1>2. CASE OpenQueue
  <2>1. /\ ~up /\ up' = TRUE /\ items' = saved
        /\ UNCHANGED <<saved, jobs, flushes, server, accepted, again, unsure>>
    BY <1>2 DEF OpenQueue
  <2>2. JobsOK'  BY <2>1 DEF ChangesOK, JobsOK
  <2>3. AloneOK'
    <3>1. \A c \in Callers : flushes[c] = None  BY <2>1 DEF ChangesOK
    <3>2. \A c \in Callers : flushes'[c] # "remove"  BY <2>1, <3>1, ChangeTypes
    <3>3. QED  BY <2>1, <3>1, <3>2 DEF AloneOK
  <2>4. OrderOK' /\ AppliedOnce' /\ \A n \in 1..Len(accepted') : HeldChange(accepted[n])'
    BY <2>1 DEF ChangesOK, OrderOK, AppliedOnce, HeldChange, InTurn
  <2>5. AgainOK'  BY <2>1 DEF ChangesOK, AgainOK, Distinct, Has
  <2>6. QED  BY <2>1, <2>2, <2>3, <2>4, <2>5 DEF ChangesOK
<1>3. QED  BY <1>1, <1>2

LEMMA ChangesStep ==
  ASSUME TypeOK, TypeOK', ChangesOK,
         \/ \E k \in Keys : EnqueueChange(k)
         \/ \E c \in Callers :
              Flush(c) \/ FlushOn(c) \/ \E arrives, answered \in BOOLEAN : Send(c, arrives, answered)
         \/ AppliedElsewhere \/ Mutate \/ MutateFails \/ CrashQueue \/ OpenQueue
  PROVE  ChangesOK'
  BY EnqueueChangeOK, FlushOK, SendOK, AppliedElsewhereOK, MutateOK, MutateFailsOK, StopAndStartOK

\* The log of intents leaves the queue of changes alone.
LEMMA LogActions ==
  ASSUME \/ \E i \in Intents : Enqueue(i) \/ EnqueueKnown(i) \/ Cancel(i) \/ Retry(i)
         \/ Prune \/ Serialise \/ Rename \/ PersistFails \/ Crash \/ Open
         \/ \E c \in Callers :
              Reconcile(c) \/ Executed(c) \/ \E i \in Intents, o \in Outcomes : Execute(c, i, o)
  PROVE  part = "intents" /\ part' = part /\ UNCHANGED queueVars
<1>1. ASSUME NEW i \in Intents, Enqueue(i) \/ EnqueueKnown(i) \/ Cancel(i) \/ Retry(i)
      PROVE  part = "intents" /\ part' = part /\ UNCHANGED queueVars
  BY <1>1 DEF Enqueue, EnqueueKnown, Cancel, Retry, Call
<1>2. CASE Prune \/ Serialise \/ Rename
  BY <1>2 DEF Prune, Serialise, Rename, Call, Step
<1>3. CASE PersistFails \/ Crash \/ Open
  BY <1>3 DEF PersistFails, Crash, Open, Fault
<1>4. ASSUME NEW c \in Callers, Reconcile(c) \/ Executed(c)
      PROVE  part = "intents" /\ part' = part /\ UNCHANGED queueVars
  BY <1>4 DEF Reconcile, Executed, Call, Step
<1>5. ASSUME NEW c \in Callers, NEW i \in Intents, NEW o \in Outcomes, Execute(c, i, o)
      PROVE  part = "intents" /\ part' = part /\ UNCHANGED queueVars
  BY <1>5 DEF Execute, Fault, Step
<1>6. QED  BY <1>1, <1>2, <1>3, <1>4, <1>5

DeliveryInv == TypeInv /\ Delivery

LEMMA DeliveryInit == Init => DeliveryInv
<1> SUFFICES ASSUME Init PROVE Delivery  BY TypeInvInit DEF DeliveryInv
<1>1. accepted = <<>> /\ server = <<>> /\ jobs = <<>> /\ items = <<>> /\ saved = <<>>
      /\ \A c \in Callers : flushes[c] = None
  BY DEF Init
<1>2. JobsOK  BY <1>1 DEF JobsOK
<1>3. AloneOK  BY <1>1, OfflineAssumption DEF AloneOK
<1>4. OrderOK  BY <1>1 DEF OrderOK, Has, Contains
<1>5. AppliedOnce  BY <1>1 DEF AppliedOnce
<1>6. AgainOK  BY <1>1 DEF AgainOK, Distinct, Has
<1>7. QED  BY <1>1, <1>2, <1>3, <1>4, <1>5, <1>6 DEF Delivery, ChangesOK

LEMMA DeliveryStep == DeliveryInv /\ [Next]_vars => DeliveryInv'
<1> SUFFICES ASSUME DeliveryInv, [Next]_vars PROVE DeliveryInv'  OBVIOUS
<1>1. TypeInv' /\ TypeOK /\ TypeOK'  BY TypeInvStep DEF DeliveryInv, TypeInv
<1>2. CASE UNCHANGED vars
  BY <1>1, <1>2 DEF vars, queueVars, DeliveryInv, Delivery, ChangesOK, JobsOK, AloneOK, OrderOK,
     AppliedOnce, HeldChange, InTurn, AgainOK, Distinct, Has
<1>3. CASE \/ \E i \in Intents : Enqueue(i) \/ EnqueueKnown(i) \/ Cancel(i) \/ Retry(i)
           \/ Prune \/ Serialise \/ Rename \/ PersistFails \/ Crash \/ Open
           \/ \E c \in Callers :
                Reconcile(c) \/ Executed(c) \/ \E i \in Intents, o \in Outcomes : Execute(c, i, o)
  BY <1>1, <1>3, LogActions DEF queueVars, DeliveryInv, Delivery
<1>4. CASE \/ \E k \in Keys : EnqueueChange(k)
           \/ \E c \in Callers :
                Flush(c) \/ FlushOn(c) \/ \E arrives, answered \in BOOLEAN : Send(c, arrives, answered)
           \/ AppliedElsewhere \/ Mutate \/ MutateFails \/ CrashQueue \/ OpenQueue
  <2>1. part = "queue" /\ part' = "queue"
    BY <1>1, <1>4, QueueEffect, OfflineAssumption DEF TypeOK
  <2>2. ChangesOK'  BY <1>1, <1>4, <2>1, ChangesStep DEF DeliveryInv, Delivery
  <2>3. QED  BY <1>1, <2>1, <2>2 DEF DeliveryInv, Delivery
<1>5. QED  BY <1>2, <1>3, <1>4 DEF Next

\* Every change the queue accepted is in its file until the server has applied
\* it, and is applied after those accepted before it: through lost answers,
\* failed writes and restarts, for any number of flushes (operations.js:41-60).
\* It is applied a second time only when the queue had a reason to send it again
\* and the server has applied Retention other changes since (index.js:219): a
\* flush that runs alone and whose answers arrive sends nothing twice.
THEOREM Deliveries == Spec => []ChangesDelivered
<1>1. DeliveryInv => ChangesDelivered
  <2> SUFFICES ASSUME DeliveryInv PROVE ChangesDelivered  OBVIOUS
  <2>1. /\ accepted \in Seq(Keys) /\ server \in Seq(Keys \cup {None}) /\ saved \in Seq(Item)
        /\ DOMAIN accepted = 1..Len(accepted) /\ DOMAIN saved = 1..Len(saved)
        /\ Len(accepted) \in Nat
    BY ChangeTypes DEF DeliveryInv, TypeInv
  <2>2. CASE part # "queue"
    <3>1. accepted = <<>> /\ server = <<>> /\ DOMAIN accepted = {} /\ DOMAIN server = {}
      BY <2>2 DEF DeliveryInv, Delivery
    <3>2. QED  BY <3>1 DEF ChangesDelivered, NoChangeLost, AppliedOnce, SentInOrder
  <2>3. CASE part = "queue"
    <3>1. ChangesOK  BY <2>3 DEF DeliveryInv, Delivery
    <3>2. NoChangeLost  BY <2>1, <3>1 DEF ChangesOK, HeldChange, Has, NoChangeLost
    <3>3. SentInOrder  BY <2>1, <3>1 DEF ChangesOK, OrderOK, InTurn, SentInOrder
    <3>4. QED  BY <3>1, <3>2, <3>3 DEF ChangesOK, ChangesDelivered
  <2>4. QED  BY <2>2, <2>3
<1>2. QED  BY <1>1, DeliveryInit, DeliveryStep, PTL DEF Spec
=============================================================================
