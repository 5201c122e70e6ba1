------------------------ MODULE PartitionCommitProofs ------------------------
(***************************************************************************)
(* Proofs about PartitionCommit, for any transactions, partitions, plans   *)
(* and number of faults.                                                   *)
(***************************************************************************)
EXTENDS PartitionCommit, TLAPS

\* What the safety theorems assume of the application: it does not call recover()
\* while the write of a decision has failed, nor execute an aborted id again.
Handled == {"doubt", "reuse"} \cap Operations = {}

-----------------------------------------------------------------------------
\* What one change of an entry changes.
LEMMA SetStatusEffect ==
  ASSUME coord \in [Transactions -> CoordinatorEntries], NEW t \in Transactions,
         NEW s \in {"none", "preparing", "aborting", "aborted", "committing", "committed"},
         SetStatus(t, s)
  PROVE  /\ coord' \in [Transactions -> CoordinatorEntries]
         /\ coord'[t].status = s
         /\ coord'[t].prepared = coord[t].prepared
         /\ coord'[t].committed = coord[t].committed
         /\ \A u \in Transactions \ {t} : coord'[u] = coord[u]
  BY DEF CoordinatorEntries, SetStatus

LEMMA NotePreparedEffect ==
  ASSUME coord \in [Transactions -> CoordinatorEntries], NEW t \in Transactions,
         NEW p \in Participants,
         coord' = [coord EXCEPT ![t].prepared = @ \cup {p}]
  PROVE  /\ coord' \in [Transactions -> CoordinatorEntries]
         /\ coord'[t].status = coord[t].status
         /\ coord'[t].prepared = coord[t].prepared \cup {p}
         /\ coord'[t].committed = coord[t].committed
         /\ \A u \in Transactions \ {t} : coord'[u] = coord[u]
  BY DEF CoordinatorEntries

LEMMA NoteCommittedEffect ==
  ASSUME coord \in [Transactions -> CoordinatorEntries], NEW t \in Transactions,
         NEW p \in Participants,
         coord' = [coord EXCEPT ![t].committed = @ \cup {p}]
  PROVE  /\ coord' \in [Transactions -> CoordinatorEntries]
         /\ coord'[t].status = coord[t].status
         /\ coord'[t].prepared = coord[t].prepared
         /\ coord'[t].committed = coord[t].committed \cup {p}
         /\ \A u \in Transactions \ {t} : coord'[u] = coord[u]
  BY DEF CoordinatorEntries

LEMMA ReserveEffect ==
  ASSUME part \in [Participants -> [Transactions -> ParticipantEntries]],
         NEW p \in Participants, NEW t \in Transactions, NEW e \in ParticipantEntries,
         part' = [part EXCEPT ![p][t] = e]
  PROVE  /\ part' \in [Participants -> [Transactions -> ParticipantEntries]]
         /\ part'[p][t] = e
         /\ \A q \in Participants, u \in Transactions :
              q # p \/ u # t => part'[q][u] = part[q][u]
  OBVIOUS

LEMMA SetPartEffect ==
  ASSUME part \in [Participants -> [Transactions -> ParticipantEntries]],
         NEW p \in Participants, NEW t \in Transactions,
         NEW s \in {"none", "prepared", "committed", "aborted"},
         part' = [part EXCEPT ![p][t].status = s]
  PROVE  /\ part' \in [Participants -> [Transactions -> ParticipantEntries]]
         /\ part'[p][t].status = s
         /\ \A q \in Participants, u \in Transactions :
              q # p \/ u # t => part'[q][u] = part[q][u]
  BY DEF ParticipantEntries

LEMMA SavePartEffect ==
  ASSUME partFile \in [Participants -> [Transactions -> ParticipantEntries]],
         part' \in [Participants -> [Transactions -> ParticipantEntries]],
         NEW p \in Participants, SavePart(p) \/ SavePartFails(p)
  PROVE  /\ partFile' \in [Participants -> [Transactions -> ParticipantEntries]]
         /\ \A q \in Participants : q # p => partFile'[q] = partFile[q]
         /\ partFile'[p] \in {part'[p], partFile[p]}
         /\ SavePart(p) => partFile'[p] = part'[p]
  BY DEF SavePart, SavePartFails

-----------------------------------------------------------------------------
\* Types.

Deciding == {"prepare", "note", "decide"}
Committing == {"commit", "apply", "mark", "noted", "finish"}

\* The operation in progress works on a transaction and its participants.
RunTyped ==
  run # NoRun =>
    /\ run.at # "scan" => run.tx \in Transactions
    /\ run.at \in Deciding \cup Committing => run.todo \subseteq Planned(run.tx)
    /\ run.at \in {"note", "apply", "mark", "noted"} => run.now \in run.todo

Typed == TypeOK /\ RunTyped

LEMMA PlanType ==
  ASSUME NEW t \in Transactions
  PROVE  /\ Planned(t) \subseteq Participants
         /\ \A p \in Planned(t) :
              /\ Plan[t][p] \in Writes
              /\ DOMAIN Plan[t][p] \subseteq Keys
              /\ \A k \in DOMAIN Plan[t][p] : Plan[t][p][k] \in Values
  <1>1. PICK ps \in SUBSET Participants : Plan[t] \in [ps -> Writes]
    BY PlanAssumption
  <1>2. Planned(t) = ps
    BY <1>1 DEF Planned
  <1>3. ASSUME NEW w \in Writes
        PROVE  DOMAIN w \subseteq Keys /\ \A k \in DOMAIN w : w[k] \in Values
    BY DEF Writes
  <1>4. QED
    BY <1>1, <1>2, <1>3

\* Noting the values of some keys of a partition gives writes.
LEMMA NotedType ==
  ASSUME NEW records \in [Keys -> Values], NEW keys \in SUBSET Keys
  PROVE  [k \in keys |-> records[k]] \in Writes
  BY DEF Writes

LEMMA WrittenType ==
  ASSUME NEW records \in [Keys -> Values], NEW writes,
         \A k \in DOMAIN writes \cap Keys : writes[k] \in Values
  PROVE  Written(records, writes) \in [Keys -> Values]
  BY DEF Written

LEMMA TypedInit == Init => Typed
  <1> SUFFICES ASSUME Init PROVE Typed
    OBVIOUS
  <1>1. Nothing \in Writes
    BY DEF Nothing, Writes
  <1>2. QED
    BY <1>1, RoutedAssumption, FaultAssumption
       DEF Init, Typed, TypeOK, RunTyped, CoordinatorEntries, ParticipantEntries

\* Writing memory to a file keeps the type of the file.
LEMMA SavePartType ==
  ASSUME Typed, NEW p,
         part' \in [Participants -> [Transactions -> ParticipantEntries]],
         SavePart(p) \/ SavePartFails(p)
  PROVE  /\ partFile' \in [Participants -> [Transactions -> ParticipantEntries]]
         /\ faults' \in 0..MaxFaults
  <1>1. partFile' \in [Participants -> [Transactions -> ParticipantEntries]]
    BY DEF Typed, TypeOK, SavePart, SavePartFails
  <1>2. faults' \in 0..MaxFaults
    BY FaultAssumption DEF Typed, TypeOK, SavePart, SavePartFails, Fault
  <1>3. QED
    BY <1>1, <1>2

LEMMA SaveCoordinatorType ==
  ASSUME Typed, coord' \in [Transactions -> CoordinatorEntries],
         SaveCoordinator \/ SaveFails
  PROVE  /\ coordFile' \in [Transactions -> CoordinatorEntries]
         /\ faults' \in 0..MaxFaults
  <1>1. coordFile' \in [Transactions -> CoordinatorEntries]
    BY DEF Typed, TypeOK, SaveCoordinator, SaveFails
  <1>2. faults' \in 0..MaxFaults
    BY FaultAssumption DEF Typed, TypeOK, SaveCoordinator, SaveFails, Fault
  <1>3. QED
    BY <1>1, <1>2

\* An operation that throws, or whose catch takes over, leaves typed variables.
LEMMA ThrowType ==
  ASSUME Typed, run # NoRun, Throw \/ Return
  PROVE  /\ up' \in {"down", "recovering", "refused", "up"}
         /\ run' \in Runs \cup {NoRun}
         /\ reported' \in [Transactions -> {"none", "committed", "failed"}]
         /\ RunTyped'
  BY DEF Typed, TypeOK, RunTyped, Throw, Return

LEMMA CatchType ==
  ASSUME Typed, run # NoRun, Catch, run.at \in Deciding
  PROVE  /\ up' \in {"down", "recovering", "refused", "up"}
         /\ run' \in Runs \cup {NoRun}
         /\ reported' \in [Transactions -> {"none", "committed", "failed"}]
         /\ RunTyped'
  <1>1. CASE Throw
    BY <1>1, ThrowType
  <1>2. CASE Step("failing") /\ Going
    <2>1. run \in Runs
      BY DEF Typed, TypeOK
    <2>2. run' \in Runs /\ run'.at = "failing" /\ run'.tx = run.tx
      BY <1>2, <2>1 DEF Step, Runs
    <2>3. QED
      BY <1>2, <2>2 DEF Typed, TypeOK, RunTyped, Going, Deciding, Committing
  <1>3. QED
    BY <1>1, <1>2 DEF Catch

LEMMA TypedStep == Typed /\ [Next]_vars => Typed'
  <1> SUFFICES ASSUME Typed, [Next]_vars PROVE Typed'
    OBVIOUS
  <1> USE DEF Going, Step, Visit, Loop
  <1>a. ASSUME run.at # "none" PROVE run \in Runs /\ run # NoRun
    BY <1>a DEF Typed, TypeOK, NoRun
  <1>1. CASE Prepare
    <2>1. run \in Runs /\ run # NoRun /\ run.tx \in Transactions /\ run.at = "prepare"
      BY <1>1, <1>a DEF Prepare, Typed, RunTyped
    <2>2. PICK p \in run.todo :
            \/ /\ part[p][run.tx].status # "none"
               /\ Visit(p, "note") /\ Going
               /\ UNCHANGED <<part, partFile, faults>>
            \/ /\ part[p][run.tx].status = "none" /\ ~Locked(p, DOMAIN Plan[run.tx][p], run.tx)
               /\ part' = [part EXCEPT ![p][run.tx] =
                             [status |-> "prepared",
                              before |-> [k \in DOMAIN Plan[run.tx][p] |-> db[p][k]]]]
               /\ \/ SavePart(p) /\ Visit(p, "note") /\ Going
                  \/ SavePartFails(p) /\ Catch
            \/ /\ part[p][run.tx].status = "none" /\ Locked(p, DOMAIN Plan[run.tx][p], run.tx)
               /\ Catch
               /\ UNCHANGED <<part, partFile, faults>>
      BY <1>1 DEF Prepare
    <2>3. p \in Planned(run.tx) /\ p \in Participants
      BY <2>1, PlanType DEF Typed, RunTyped, Deciding
    <2>4. [status |-> "prepared", before |-> [k \in DOMAIN Plan[run.tx][p] |-> db[p][k]]]
            \in ParticipantEntries
      BY <2>1, <2>3, PlanType, NotedType DEF Typed, TypeOK, ParticipantEntries
    <2>5. /\ part' \in [Participants -> [Transactions -> ParticipantEntries]]
          /\ partFile' \in [Participants -> [Transactions -> ParticipantEntries]]
          /\ faults' \in 0..MaxFaults
      <3>1. CASE UNCHANGED <<part, partFile, faults>>
        BY <3>1 DEF Typed, TypeOK
      <3>2. CASE /\ part' = [part EXCEPT ![p][run.tx] =
                             [status |-> "prepared",
                              before |-> [k \in DOMAIN Plan[run.tx][p] |-> db[p][k]]]]
                 /\ SavePart(p) \/ SavePartFails(p)
        BY <3>2, <2>1, <2>3, <2>4, ReserveEffect, SavePartType DEF Typed, TypeOK
      <3>3. QED
        BY <2>2, <3>1, <3>2
    <2>6. /\ up' \in {"down", "recovering", "refused", "up"}
          /\ run' \in Runs \cup {NoRun}
          /\ reported' \in [Transactions -> {"none", "committed", "failed"}]
          /\ RunTyped'
      <3>1. CASE Catch
        BY <3>1, <2>1, CatchType DEF Deciding
      <3>2. CASE Visit(p, "note") /\ Going
        <4>1. run' \in Runs /\ run'.todo = run.todo /\ run'.tx = run.tx /\ run'.now = p
              /\ run'.at = "note"
          BY <3>2, <2>1, <2>3 DEF Runs
        <4>2. QED
          BY <3>2, <4>1, <2>1, <2>2 DEF Typed, TypeOK, RunTyped, Deciding, Committing
      <3>3. QED
        BY <3>1, <3>2, <2>2
    <2>7. QED
      BY <1>1, <2>5, <2>6 DEF Prepare, Typed, TypeOK
  <1>2. CASE NotePrepared
    <2>1. run \in Runs /\ run # NoRun /\ run.tx \in Transactions /\ run.now \in run.todo
      BY <1>2, <1>a DEF NotePrepared, Typed, RunTyped
    <2>2. /\ coord' \in [Transactions -> CoordinatorEntries]
          /\ coordFile' \in [Transactions -> CoordinatorEntries]
          /\ faults' \in 0..MaxFaults
      <3>1. coord' \in [Transactions -> CoordinatorEntries]
        BY <1>2, <2>1, NotePreparedEffect DEF NotePrepared, Typed, TypeOK, Runs
      <3>2. QED
        BY <1>2, <2>1, <3>1, SaveCoordinatorType DEF NotePrepared
    <2>3. /\ up' \in {"down", "recovering", "refused", "up"}
          /\ run' \in Runs \cup {NoRun}
          /\ reported' \in [Transactions -> {"none", "committed", "failed"}]
          /\ RunTyped'
      <3>1. CASE Catch
        BY <3>1, <1>2, <2>1, CatchType DEF NotePrepared, Deciding
      <3>2. CASE Going /\ Loop(IF Rest = {} THEN "decide" ELSE "prepare", Rest)
        BY <3>2, <1>2, <2>1
           DEF NotePrepared, Typed, TypeOK, RunTyped, Runs, Rest, Deciding, Committing
      <3>3. QED
        BY <3>1, <3>2, <1>2 DEF NotePrepared
    <2>4. QED
      BY <1>2, <2>2, <2>3 DEF NotePrepared, Typed, TypeOK
  <1>3. CASE Decide \/ Finish \/ StartAbort \/ EndAbort
    <2>1. run \in Runs /\ run # NoRun /\ run.tx \in Transactions
      BY <1>3, <1>a DEF Decide, Finish, StartAbort, EndAbort, Typed, RunTyped
    <2>2. /\ coord' \in [Transactions -> CoordinatorEntries]
          /\ coordFile' \in [Transactions -> CoordinatorEntries]
          /\ faults' \in 0..MaxFaults
      <3>1. PICK s \in {"committing", "committed", "aborting", "aborted"} : SetStatus(run.tx, s)
        BY <1>3 DEF Decide, Finish, StartAbort, EndAbort
      <3>2. coord' \in [Transactions -> CoordinatorEntries]
        BY <2>1, <3>1, SetStatusEffect DEF Typed, TypeOK
      <3>3. SaveCoordinator \/ SaveFails
        BY <1>3 DEF Decide, Finish, StartAbort, EndAbort
      <3>4. QED
        BY <2>1, <3>2, <3>3, SaveCoordinatorType
    <2>3. /\ up' \in {"down", "recovering", "refused", "up"}
          /\ run' \in Runs \cup {NoRun}
          /\ reported' \in [Transactions -> {"none", "committed", "failed"}]
          /\ RunTyped'
      <3>1. CASE Throw
        BY <3>1, <2>1, ThrowType
      <3>2. CASE Going /\ Loop("commit", Planned(run.tx)) /\ Decide
        BY <3>2, <2>1, PlanType DEF Decide, Typed, TypeOK, RunTyped, Runs, Deciding, Committing
      <3>3. CASE Going /\ Loop("abort", coord[run.tx].prepared)
        BY <3>3, <2>1
           DEF Typed, TypeOK, RunTyped, Runs, Deciding, Committing, CoordinatorEntries
      <3>4. CASE up' = up /\ run' \in {NoRun, Scanning}
                 /\ reported' \in {reported, [reported EXCEPT ![run.tx] = "committed"]}
        BY <3>4, <2>1
           DEF Typed, TypeOK, RunTyped, Runs, Scanning, NoRun, Deciding, Committing
      <3>5. QED
        BY <1>3, <3>1, <3>2, <3>3, <3>4 DEF Decide, Finish, StartAbort, EndAbort
    <2>4. QED
      BY <1>3, <2>2, <2>3 DEF Decide, Finish, StartAbort, EndAbort, Typed, TypeOK
  <1>4. CASE Commit
    <2>1. run \in Runs /\ run # NoRun /\ run.tx \in Transactions /\ run.at = "commit"
      BY <1>4, <1>a DEF Commit, Typed, RunTyped
    <2>2. PICK p \in run.todo :
            \/ Going /\ (Visit(p, "noted") \/ Visit(p, "apply"))
            \/ Throw
      BY <1>4 DEF Commit
    <2>3. /\ up' \in {"down", "recovering", "refused", "up"}
          /\ run' \in Runs \cup {NoRun}
          /\ reported' \in [Transactions -> {"none", "committed", "failed"}]
          /\ RunTyped'
      <3>1. CASE Throw
        BY <3>1, <2>1, ThrowType
      <3>2. CASE Going /\ (Visit(p, "noted") \/ Visit(p, "apply"))
        <4>1. p \in Participants /\ run.todo \subseteq Planned(run.tx)
          BY <2>1 DEF Typed, RunTyped, Runs, Committing
        <4>2. /\ run' \in Runs /\ run'.tx = run.tx /\ run'.todo = run.todo
              /\ run'.now = p
          BY <3>2, <2>1, <4>1 DEF Runs
        <4>3. RunTyped'
          BY <2>1, <4>1, <4>2 DEF RunTyped, Planned
        <4>4. QED
          BY <3>2, <4>2, <4>3 DEF Typed, TypeOK
      <3>3. QED
        BY <2>2, <3>1, <3>2
    <2>4. QED
      BY <1>4, <2>3 DEF Commit, Typed, TypeOK
  <1>5. CASE Apply
    <2>1. run \in Runs /\ run # NoRun /\ run.tx \in Transactions /\ run.at = "apply"
          /\ run.now \in run.todo /\ run.todo \subseteq Planned(run.tx)
      BY <1>5, <1>a DEF Apply, Typed, RunTyped, Committing
    <2>2. CASE Throw /\ UNCHANGED <<db, applied>> /\ Fault("io")
      BY <1>5, <2>1, <2>2, ThrowType, FaultAssumption DEF Apply, Fault, Typed, TypeOK
    <2>3. CASE /\ db' = [db EXCEPT ![run.now] = Written(db[run.now], Plan[run.tx][run.now])]
               /\ applied' = [applied EXCEPT ![run.tx] = @ \cup {run.now}]
               /\ Step("mark") /\ Going
               /\ UNCHANGED faults
      <3>1. Written(db[run.now], Plan[run.tx][run.now]) \in [Keys -> Values]
        BY <2>1, PlanType, WrittenType DEF Typed, TypeOK, Runs
      <3>2. db' \in [Participants -> [Keys -> Values]]
            /\ applied' \in [Transactions -> SUBSET Participants]
        BY <2>1, <2>3, <3>1 DEF Typed, TypeOK, Runs
      <3>3. run' \in Runs /\ RunTyped'
        BY <2>1, <2>3 DEF Typed, RunTyped, Runs, Deciding, Committing
      <3>4. QED
        BY <1>5, <2>3, <3>2, <3>3 DEF Apply, Typed, TypeOK
    <2>4. QED
      BY <1>5, <2>2, <2>3 DEF Apply
  <1>6. CASE Mark
    <2>1. run \in Runs /\ run # NoRun /\ run.tx \in Transactions /\ run.at = "mark"
          /\ run.now \in run.todo /\ run.now \in Participants
      BY <1>6, <1>a DEF Mark, Typed, RunTyped, Runs
    <2>2. /\ part' \in [Participants -> [Transactions -> ParticipantEntries]]
          /\ partFile' \in [Participants -> [Transactions -> ParticipantEntries]]
          /\ faults' \in 0..MaxFaults
      <3>1. part' \in [Participants -> [Transactions -> ParticipantEntries]]
        BY <1>6, <2>1, SetPartEffect DEF Mark, Typed, TypeOK
      <3>2. QED
        BY <1>6, <2>1, <3>1, SavePartType DEF Mark
    <2>3. CASE Throw
      BY <1>6, <2>1, <2>2, <2>3, ThrowType DEF Mark, Typed, TypeOK
    <2>4. CASE Step("noted") /\ Going
      <3>1. run' \in Runs /\ RunTyped'
        BY <2>1, <2>4 DEF Typed, RunTyped, Runs, Deciding, Committing
      <3>2. QED
        BY <1>6, <2>2, <2>4, <3>1 DEF Mark, Typed, TypeOK
    <2>5. QED
      BY <1>6, <2>3, <2>4 DEF Mark
  <1>7. CASE NoteCommitted
    <2>1. run \in Runs /\ run # NoRun /\ run.tx \in Transactions /\ run.now \in run.todo
      BY <1>7, <1>a DEF NoteCommitted, Typed, RunTyped
    <2>2. /\ coord' \in [Transactions -> CoordinatorEntries]
          /\ coordFile' \in [Transactions -> CoordinatorEntries]
          /\ faults' \in 0..MaxFaults
      <3>1. coord' \in [Transactions -> CoordinatorEntries]
        BY <1>7, <2>1, NoteCommittedEffect DEF NoteCommitted, Typed, TypeOK, Runs
      <3>2. QED
        BY <1>7, <2>1, <3>1, SaveCoordinatorType DEF NoteCommitted
    <2>3. /\ up' \in {"down", "recovering", "refused", "up"}
          /\ run' \in Runs \cup {NoRun}
          /\ reported' \in [Transactions -> {"none", "committed", "failed"}]
          /\ RunTyped'
      <3>1. CASE Throw
        BY <3>1, <2>1, ThrowType
      <3>2. CASE Going /\ Loop(IF Rest = {} THEN "finish" ELSE "commit", Rest)
        <4>1. /\ run' \in Runs /\ run'.tx = run.tx /\ run'.at \in {"finish", "commit"}
              /\ run'.todo = run.todo \ {run.now}
          BY <3>2, <2>1 DEF Runs, Rest
        <4>2. run.todo \subseteq Planned(run.tx)
          BY <1>7, <2>1 DEF NoteCommitted, Typed, RunTyped, Committing
        <4>3. RunTyped'
          BY <2>1, <4>1, <4>2 DEF RunTyped, Planned
        <4>4. QED
          BY <3>2, <4>1, <4>3 DEF Typed, TypeOK
      <3>3. QED
        BY <3>1, <3>2, <1>7 DEF NoteCommitted
    <2>4. QED
      BY <1>7, <2>2, <2>3 DEF NoteCommitted, Typed, TypeOK
  <1>8. CASE Abort
    <2>1. run \in Runs /\ run # NoRun /\ run.tx \in Transactions /\ run.at = "abort"
      BY <1>8, <1>a DEF Abort, Typed, RunTyped
    <2>2. PICK p \in run.todo :
            /\ \/ UNCHANGED <<part, partFile, faults>>
               \/ /\ part' = [part EXCEPT ![p][run.tx].status = "aborted"]
                  /\ SavePart(p) \/ SavePartFails(p)
            /\ Loop("abort", run.todo \ {p}) /\ Going
      BY <1>8 DEF Abort
    <2>3. /\ part' \in [Participants -> [Transactions -> ParticipantEntries]]
          /\ partFile' \in [Participants -> [Transactions -> ParticipantEntries]]
          /\ faults' \in 0..MaxFaults
      <3>1. CASE UNCHANGED <<part, partFile, faults>>
        BY <3>1 DEF Typed, TypeOK
      <3>2. CASE /\ part' = [part EXCEPT ![p][run.tx].status = "aborted"]
                 /\ SavePart(p) \/ SavePartFails(p)
        <4>1. p \in Participants
          BY <2>1 DEF Runs
        <4>2. part' \in [Participants -> [Transactions -> ParticipantEntries]]
          BY <3>2, <2>1, <4>1, SetPartEffect DEF Typed, TypeOK
        <4>3. QED
          BY <3>2, <2>1, <4>1, <4>2, SavePartType
      <3>3. QED
        BY <2>2, <3>1, <3>2
    <2>4. run' \in Runs /\ RunTyped'
      BY <2>1, <2>2 DEF Typed, RunTyped, Runs, Deciding, Committing
    <2>5. QED
      BY <1>8, <2>2, <2>3, <2>4 DEF Abort, Typed, TypeOK
  <1>9. CASE \E t \in Transactions : Scan(t)
    <2>1. PICK t \in Transactions : Scan(t)
      BY <1>9
    <2>2. run \in Runs /\ run # NoRun /\ run.at = "scan"
      BY <2>1, <1>a DEF Scan
    <2>3. run' \in Runs /\ RunTyped'
      <3>1. /\ run' \in Runs /\ run'.tx = t /\ run'.at \in {"commit", "finish", "abort"}
            /\ run'.at \in {"commit", "finish"} => run'.todo \subseteq Planned(t)
        <4> DEFINE left == Planned(t) \ coord[t].committed
        <4>1. \/ run' = [run EXCEPT !.tx = t, !.at = "commit", !.todo = left]
              \/ run' = [run EXCEPT !.tx = t, !.at = "finish", !.todo = {}]
              \/ run' = [run EXCEPT !.tx = t, !.at = "abort", !.todo = coord[t].prepared]
          BY <2>1 DEF Scan
        <4>2. left \in SUBSET Participants /\ coord[t].prepared \in SUBSET Participants
          BY PlanType DEF Typed, TypeOK, CoordinatorEntries
        <4>3. QED
          BY <2>2, <4>1, <4>2 DEF Runs
      <3>2. QED
        BY <3>1 DEF RunTyped, Planned, Deciding, Committing
    <2>4. QED
      BY <2>1, <2>3 DEF Scan, Typed, TypeOK
  <1>10. CASE Recovered
    <2>1. run # NoRun
      BY <1>10, <1>a DEF Recovered
    <2>2. QED
      BY <1>10, <2>1, ThrowType DEF Recovered, Typed, TypeOK
  <1>11. CASE Start \/ Recover \/ Crash
    <2>1. run' \in Runs \cup {NoRun} /\ RunTyped'
      BY <1>11 DEF Start, Recover, Crash, Runs, RunTyped, Scanning, NoRun, Deciding, Committing
    <2>2. QED
      BY <1>11, <2>1, FaultAssumption DEF Start, Recover, Crash, Fault, Typed, TypeOK
  <1>12. CASE \E t \in Transactions : Execute(t)
    <2>1. PICK t \in Transactions : Execute(t)
      BY <1>12
    <2>2. /\ coord' \in [Transactions -> CoordinatorEntries]
          /\ coordFile' \in [Transactions -> CoordinatorEntries]
          /\ faults' \in 0..MaxFaults
      <3>1. coord' \in [Transactions -> CoordinatorEntries]
        <4>1. coord[t].status \in
                {"none", "preparing", "aborting", "aborted", "committing", "committed"}
          BY DEF Typed, TypeOK, CoordinatorEntries
        <4>2. QED
          BY <2>1, <4>1, SetStatusEffect DEF Execute, Typed, TypeOK
      <3>2. QED
        BY <2>1, <3>1, SaveCoordinatorType DEF Execute
    <2>3. run' \in Runs \cup {NoRun} /\ RunTyped'
      BY <2>1, PlanType DEF Execute, Runs, RunTyped, Typed, TypeOK, Deciding, Committing
    <2>4. QED
      BY <2>1, <2>2, <2>3 DEF Execute, Typed, TypeOK
  <1>13. CASE \E w \in Routed : Route(w) \/ Land(w)
    <2>1. PICK w \in Routed : Route(w) \/ Land(w)
      BY <1>13
    <2>2. /\ w.participant \in Participants
          /\ \A k \in DOMAIN w.writes \cap Keys : w.writes[k] \in Values
      BY RoutedAssumption DEF Writes
    <2>3. CASE Route(w)
      BY <2>3 DEF Route, Typed, TypeOK, RunTyped
    <2>4. CASE Land(w)
      <3>1. Written(db[w.participant], w.writes) \in [Keys -> Values]
        BY <2>2, WrittenType DEF Typed, TypeOK
      <3>2. db' \in [Participants -> [Keys -> Values]]
        BY <2>4, <3>1 DEF Land, Typed, TypeOK
      <3>3. QED
        BY <2>4, <3>2 DEF Land, Typed, TypeOK, RunTyped
    <2>5. QED
      BY <2>1, <2>3, <2>4
  <1>14. CASE UNCHANGED vars
    BY <1>14 DEF vars, Typed, TypeOK, RunTyped
  <1>15. QED
    BY <1>1, <1>2, <1>3, <1>4, <1>5, <1>6, <1>7, <1>8, <1>9, <1>10, <1>11, <1>12, <1>13, <1>14
       DEF Next, Continue

\* The variables keep their types, whatever fails and whatever is called.
THEOREM TypeCorrect == Spec => []TypeOK
  <1>1. Typed => TypeOK
    BY DEF Typed
  <1>2. QED
    BY <1>1, TypedInit, TypedStep, PTL DEF Spec

-----------------------------------------------------------------------------
\* Reservations exclude each other, whatever fails and whatever is called.

\* No two transactions hold the same record in the entries of participant p.
Exclusive(entries, p) ==
  \A t, u \in Transactions :
    /\ t # u /\ p \in Planned(t) \cap Planned(u)
    /\ entries[t].status = "prepared" /\ entries[u].status = "prepared"
    => DOMAIN Plan[t][p] \cap DOMAIN Plan[u][p] = {}

HInv == Typed /\ \A p \in Participants : Exclusive(part[p], p) /\ Exclusive(partFile[p], p)

LEMMA PrepareExcludes ==
  ASSUME HInv, Prepare, NEW q \in Participants
  PROVE  Exclusive(part'[q], q) /\ Exclusive(partFile'[q], q)
  <1> DEFINE t == run.tx
  <1>1. Typed /\ t \in Transactions /\ run.todo \subseteq Planned(t)
    BY DEF Prepare, HInv, Typed, TypeOK, RunTyped, NoRun, Deciding
  <1>2. PICK p \in run.todo :
          \/ UNCHANGED <<part, partFile>>
          \/ /\ ~Locked(p, DOMAIN Plan[t][p], t)
             /\ part' = [part EXCEPT ![p][t] =
                           [status |-> "prepared",
                            before |-> [k \in DOMAIN Plan[t][p] |-> db[p][k]]]]
             /\ SavePart(p) \/ SavePartFails(p)
    BY DEF Prepare
  <1>3. CASE UNCHANGED <<part, partFile>>
    BY <1>3 DEF HInv
  <1>4. CASE /\ ~Locked(p, DOMAIN Plan[t][p], t)
             /\ part' = [part EXCEPT ![p][t] =
                           [status |-> "prepared",
                            before |-> [k \in DOMAIN Plan[t][p] |-> db[p][k]]]]
             /\ SavePart(p) \/ SavePartFails(p)
    <2>1. p \in Planned(t) /\ p \in Participants
      BY <1>1, PlanType
    <2>2. [status |-> "prepared", before |-> [k \in DOMAIN Plan[t][p] |-> db[p][k]]]
            \in ParticipantEntries
      BY <1>1, <2>1, PlanType, NotedType DEF Typed, TypeOK, ParticipantEntries
    <2>3. /\ part' \in [Participants -> [Transactions -> ParticipantEntries]]
          /\ \A r \in Participants, u \in Transactions :
               r # p \/ u # t => part'[r][u] = part[r][u]
      BY <1>1, <1>4, <2>1, <2>2, ReserveEffect DEF Typed, TypeOK
    <2>4. Exclusive(part'[q], q)
      <3>1. CASE q # p
        BY <2>1, <2>3, <3>1 DEF HInv, Exclusive
      <3>2. CASE q = p
        <4> SUFFICES ASSUME NEW u \in Transactions, NEW v \in Transactions,
                            u # v, p \in Planned(u) \cap Planned(v),
                            part'[p][u].status = "prepared", part'[p][v].status = "prepared"
                     PROVE  DOMAIN Plan[u][p] \cap DOMAIN Plan[v][p] = {}
          BY <3>2 DEF Exclusive
        <4>1. ASSUME NEW w \in Transactions, w # t, p \in Planned(w), part[p][w].status = "prepared"
              PROVE  DOMAIN Plan[t][p] \cap DOMAIN Plan[w][p] = {}
          BY <1>4, <4>1 DEF Locked
        <4>2. QED
          BY <2>1, <2>3, <4>1 DEF HInv, Exclusive
      <3>3. QED
        BY <3>1, <3>2
    <2>5. partFile'[q] \in {part'[q], partFile[q]}
      <3>1. SavePart(p) \/ SavePartFails(p)
        BY <1>4
      <3>2. QED
        BY <1>1, <2>1, <2>3, <3>1, SavePartEffect DEF Typed, TypeOK
    <2>6. QED
      BY <2>4, <2>5 DEF HInv
  <1>5. QED
    BY <1>2, <1>3, <1>4

\* A participant that changes a status to another one than "prepared" excludes no less.
LEMMA ReleaseExcludes ==
  ASSUME HInv, NEW p \in Participants, NEW t \in Transactions,
         NEW s \in {"committed", "aborted"}, part' = [part EXCEPT ![p][t].status = s],
         SavePart(p) \/ SavePartFails(p), NEW q \in Participants
  PROVE  Exclusive(part'[q], q) /\ Exclusive(partFile'[q], q)
  <1>1. /\ part' \in [Participants -> [Transactions -> ParticipantEntries]]
        /\ part'[p][t].status = s
        /\ \A r \in Participants, u \in Transactions : r # p \/ u # t => part'[r][u] = part[r][u]
    <2>1. part \in [Participants -> [Transactions -> ParticipantEntries]]
      BY DEF HInv, Typed, TypeOK
    <2>2. CASE s = "committed"
      <3>1. part' = [part EXCEPT ![p][t].status = "committed"]
        BY <2>2
      <3>2. /\ part' \in [Participants -> [Transactions -> ParticipantEntries]]
            /\ part'[p][t].status = "committed"
            /\ \A r \in Participants, u \in Transactions :
                 r # p \/ u # t => part'[r][u] = part[r][u]
        BY <2>1, <3>1, SetPartEffect
      <3>3. QED
        BY <2>2, <3>2
    <2>3. CASE s = "aborted"
      <3>1. part' = [part EXCEPT ![p][t].status = "aborted"]
        BY <2>3
      <3>2. /\ part' \in [Participants -> [Transactions -> ParticipantEntries]]
            /\ part'[p][t].status = "aborted"
            /\ \A r \in Participants, u \in Transactions :
                 r # p \/ u # t => part'[r][u] = part[r][u]
        BY <2>1, <3>1, SetPartEffect
      <3>3. QED
        BY <2>3, <3>2
    <2>4. QED
      BY <2>2, <2>3
  <1>2. Exclusive(part'[q], q)
    BY <1>1 DEF HInv, Exclusive
  <1>3. partFile'[q] \in {part'[q], partFile[q]}
    BY <1>1, SavePartEffect DEF HInv, Typed, TypeOK
  <1>4. QED
    BY <1>2, <1>3 DEF HInv

\* Two transactions never hold the same record reserved, in memory or on disk.
THEOREM OneHolderAlways == Spec => []OneHolder
  <1>1. Init => HInv
    BY TypedInit DEF Init, HInv, Exclusive
  <1>2. HInv /\ [Next]_vars => HInv'
    <2> SUFFICES ASSUME HInv, [Next]_vars, NEW q \in Participants
                 PROVE  Exclusive(part'[q], q) /\ Exclusive(partFile'[q], q)
      BY TypedStep DEF HInv, Exclusive
    <2>1. CASE UNCHANGED <<part, partFile>> \/ Start \/ Crash
      BY <2>1 DEF Start, Crash, HInv
    <2>2. CASE Prepare
      BY <2>2, PrepareExcludes
    <2>3. CASE Mark
      <3>1. run.now \in Participants /\ run.tx \in Transactions
        BY <2>3 DEF Mark, HInv, Typed, TypeOK, RunTyped, NoRun, Runs, Committing
      <3>2. QED
        BY <2>3, <3>1, ReleaseExcludes DEF Mark
    <2>4. CASE Abort
      <3>1. PICK p \in run.todo :
              \/ UNCHANGED <<part, partFile>>
              \/ /\ part' = [part EXCEPT ![p][run.tx].status = "aborted"]
                 /\ SavePart(p) \/ SavePartFails(p)
        BY <2>4 DEF Abort
      <3>2. p \in Participants /\ run.tx \in Transactions
        BY <2>4 DEF Abort, HInv, Typed, TypeOK, RunTyped, NoRun, Runs
      <3>3. QED
        BY <2>1, <3>1, <3>2, ReleaseExcludes
    <2>5. QED
      BY <2>1, <2>2, <2>3, <2>4
         DEF Next, Continue, vars, NotePrepared, Decide, Commit, Apply, NoteCommitted, Finish,
             StartAbort, EndAbort, Scan, Recovered, Recover, Execute, Route, Land
  <1>3. HInv => OneHolder
    BY DEF HInv, Exclusive, OneHolder
  <1>4. QED
    BY <1>1, <1>2, <1>3, PTL DEF Spec

-----------------------------------------------------------------------------
\* The inductive invariant.

Kept == {"prepared", "committed"}      \* of a participant

\* Where an operation is agrees with the status of its transaction.
RunAgrees ==
  run # NoRun =>
    /\ run.op = "execute" => up = "up"
    /\ run.at \in Deciding \cup {"failing"} => run.op = "execute"
    /\ run.at = "scan" => run.op = "recover"
    /\ run.at \in Deciding \cup Committing \cup {"failing"} => coordFile[run.tx].status # "none"
    /\ run.at \in Deciding => coord[run.tx].status \in {"preparing", "committing"}
    /\ run.at \in Committing => coord[run.tx].status = "committing"
    /\ run.at = "failing" => coord[run.tx].status = "preparing"
    /\ run.at = "abort" => coord[run.tx].status \in {"preparing", "aborting"}
    /\ run.at = "abort" /\ run.op = "execute" => coord[run.tx].status = "aborting"
    /\ run.at \in {"decide", "finish"} => run.todo = {}

\* The loops have done their work on the participants they visited.
LoopsAgree ==
  run # NoRun =>
    /\ run.at \in Deciding =>
         \A p \in Planned(run.tx) :
           p \notin run.todo \/ (run.at = "note" /\ p = run.now)
             => part[p][run.tx].status \in Kept
    /\ run.at \in Committing => Planned(run.tx) \ run.todo \subseteq applied[run.tx]
    /\ run.at \in {"mark", "noted"} => run.now \in applied[run.tx]

\* The coordinator's memory is the file, or one step ahead of it.
FileFollows ==
  \A t \in Transactions :
    /\ coordFile[t].status # "none" => coord[t].status # "none"
    /\ coordFile[t].status = "aborting" => coord[t].status \in {"aborting", "aborted"}
    /\ coordFile[t].status = "aborted" => coord[t].status = "aborted"
    /\ coordFile[t].status = "committed" => coord[t].status = "committed"
    /\ coordFile[t].status \in Decided => coord[t].status \in Decided
    /\ coord[t].status = "committed" => coordFile[t].status \in Decided

\* Nobody acts on a decision that is not in the file.
DoubtAgrees ==
  run # NoRun =>
    /\ run.at \in Deciding \cup Committing => ~InDoubt(run.tx)
    /\ run.op = "recover" => \A t \in Transactions : ~InDoubt(t)

\* What the participants have of a transaction agrees with its decision.
PartsAgree ==
  \A t \in Transactions : \A p \in Planned(t) :
    /\ part[p][t].status # "none" \/ partFile[p][t].status # "none"
         => coordFile[t].status # "none"
    /\ coord[t].status \in Decided => part[p][t].status \in Kept /\ partFile[p][t].status \in Kept
    /\ part[p][t].status = "committed" \/ partFile[p][t].status = "committed"
         => p \in applied[t]

\* A reservation is on disk unless its operation is about to abort.
ReservationsSaved ==
  \A t \in Transactions : \A p \in Planned(t) :
    /\ part[p][t].status \in Kept /\ coord[t].status = "preparing"
    /\ ~(run.at = "failing" /\ run.tx = t)
    => partFile[p][t].status \in Kept

\* A participant aborts only what the coordinator aborts, or will once it has
\* recovered.
AbortsKnown ==
  \A t \in Transactions : \A p \in Planned(t) :
    part[p][t].status = "aborted" =>
      \/ coord[t].status \in {"aborting", "aborted"}
      \/ coord[t].status = "preparing"
         /\ (up # "up" \/ (run.op = "recover" /\ run.tx = t /\ run.at = "abort"))

\* What is noted as committed has been applied.
NotesAgree ==
  \A t \in Transactions :
    /\ applied[t] \subseteq Planned(t)
    /\ coord[t].committed \cup coordFile[t].committed \subseteq applied[t]
    /\ coord[t].status = "committed" => applied[t] = Planned(t)

\* What callers are told is on disk.
AnswersAgree ==
  \A t \in Transactions : reported[t] = "committed" => coordFile[t].status = "committed"

IInv ==
  /\ Typed /\ RunAgrees /\ LoopsAgree /\ FileFollows /\ DoubtAgrees /\ PartsAgree
  /\ ReservationsSaved /\ AbortsKnown /\ NotesAgree /\ AnswersAgree

LEMMA IInvInit == Init => IInv
  <1> SUFFICES ASSUME Init PROVE IInv
    OBVIOUS
  <1>1. Typed
    BY TypedInit
  <1>2. \A t \in Transactions : \A p \in Planned(t) : p \in Participants
    BY PlanType
  <1>3. QED
    BY <1>1, <1>2
       DEF Init, IInv, RunAgrees, LoopsAgree, DoubtAgrees, FileFollows, PartsAgree, ReservationsSaved,
           AbortsKnown, NotesAgree, AnswersAgree, Decided, Kept

-----------------------------------------------------------------------------
\* Writes of the coordinator's file.

\* How the status of a transaction moves.
Moves(t) ==
  \/ coord'[t].status = coord[t].status
  \/ coord[t].status = "none" /\ coord'[t].status = "preparing"
  \/ coord[t].status = "preparing" /\ coord'[t].status = "aborting"
  \/ coord[t].status \in {"preparing", "aborting"} /\ coord'[t].status = "aborted"
  \/ /\ coord[t].status = "preparing" /\ coord'[t].status = "committing"
     /\ \A p \in Planned(t) : part[p][t].status \in Kept /\ partFile[p][t].status \in Kept
  \/ /\ coord[t].status = "committing" /\ coord'[t].status = "committed"
     /\ coordFile[t].status \in Decided /\ Planned(t) \subseteq applied[t]

\* A step that writes at most the coordinator's memory and file.
Coordinates(t) ==
  /\ coord' \in [Transactions -> CoordinatorEntries]
  /\ coordFile' \in {coordFile, coord'}
  /\ \A u \in Transactions \ {t} : coord'[u] = coord[u]
  /\ Moves(t)
  /\ coord'[t].committed \subseteq applied[t]
  /\ UNCHANGED <<part, partFile, applied>>

\* Such a step, for a transaction.
Steps(t) == t \in Transactions /\ Coordinates(t)

LEMMA CoordinatesKeeps ==
  ASSUME IInv, NEW t \in Transactions, Coordinates(t)
  PROVE  /\ FileFollows' /\ PartsAgree' /\ NotesAgree'
         /\ \A u \in Transactions :
              /\ coordFile[u].status = "committed" => coordFile'[u].status = "committed"
              /\ coordFile[u].status = "aborted" => coordFile'[u].status = "aborted"
              /\ coordFile[u].status \in Decided => coordFile'[u].status \in Decided
  <1>1. FileFollows'
    <2> SUFFICES ASSUME NEW u \in Transactions PROVE FileFollows!(u)'
      BY DEF FileFollows
    <2> QED
      BY DEF Coordinates, Moves, IInv, FileFollows, Decided
  <1>2. PartsAgree'
    <2> SUFFICES ASSUME NEW u \in Transactions, NEW p \in Planned(u)
                 PROVE  PartsAgree!(u)!(p)'
      BY DEF PartsAgree
    <2> QED
      BY DEF Coordinates, Moves, IInv, FileFollows, PartsAgree, Decided, Kept
  <1>3. NotesAgree'
    BY DEF Coordinates, Moves, IInv, NotesAgree
  <1>4. ASSUME NEW u \in Transactions
        PROVE  /\ coordFile[u].status = "committed" => coordFile'[u].status = "committed"
               /\ coordFile[u].status = "aborted" => coordFile'[u].status = "aborted"
               /\ coordFile[u].status \in Decided => coordFile'[u].status \in Decided
    BY DEF Coordinates, Moves, IInv, FileFollows, Decided
  <1>5. QED
    BY <1>1, <1>2, <1>3, <1>4

\* Such a step keeps what is pending if its transaction is not left undecided,
\* or its participants are as an undecided transaction's have to be.
LEMMA CoordinatesPending ==
  ASSUME IInv, NEW t \in Transactions, Coordinates(t),
         run = NoRun \/ run.tx = t,
         up # "up" => up' # "up",
         coord'[t].status = "preparing" =>
           \A p \in Planned(t) :
             /\ part[p][t].status # "aborted"
             /\ part[p][t].status \in Kept => partFile[p][t].status \in Kept
  PROVE  ReservationsSaved' /\ AbortsKnown'
  <1>1. NoRun.at = "none" /\ NoRun.op = "none"
    BY DEF NoRun
  <1>2. ReservationsSaved'
    <2> SUFFICES ASSUME NEW u \in Transactions, NEW p \in Planned(u)
                 PROVE  ReservationsSaved!(u)!(p)'
      BY DEF ReservationsSaved
    <2>1. CASE u = t
      BY <2>1 DEF Coordinates, Kept
    <2>2. CASE u # t
      BY <2>2, <1>1 DEF Coordinates, IInv, ReservationsSaved
    <2>3. QED
      BY <2>1, <2>2
  <1>3. AbortsKnown'
    <2> SUFFICES ASSUME NEW u \in Transactions, NEW p \in Planned(u)
                 PROVE  AbortsKnown!(u)!(p)'
      BY DEF AbortsKnown
    <2>1. CASE u = t
      BY <2>1 DEF Coordinates, Moves, IInv, AbortsKnown, Kept
    <2>2. CASE u # t
      BY <2>2, <1>1 DEF Coordinates, IInv, AbortsKnown
    <2>3. QED
      BY <2>1, <2>2
  <1>4. QED
    BY <1>2, <1>3

\* How an operation ends: Throw and Return tell nobody that it committed.
LEMMA EndKeeps ==
  ASSUME Typed, Throw \/ Return
  PROVE  /\ run' = NoRun /\ RunAgrees' /\ LoopsAgree'
         /\ up # "up" /\ up' = "up" => Return /\ up = "recovering"
         /\ \A t \in Transactions : reported'[t] = "committed" => reported[t] = "committed"
  <1>1. run' = NoRun /\ RunAgrees' /\ LoopsAgree'
    BY DEF Throw, Return, RunAgrees, LoopsAgree
  <1>2. up # "up" /\ up' = "up" => Return /\ up = "recovering"
    BY DEF Throw, Return
  <1>3. \A t \in Transactions : reported'[t] = "committed" => reported[t] = "committed"
    BY DEF Throw, Return, Typed, TypeOK
  <1>4. QED
    BY <1>1, <1>2, <1>3

\* A step that runs on with the coordinator's operation at its transaction.
LEMMA CoordinatesIInv ==
  ASSUME IInv, Typed', DoubtAgrees', NEW t \in Transactions, Coordinates(t),
         ReservationsSaved', AbortsKnown', RunAgrees', LoopsAgree',
         \A u \in Transactions :
           reported'[u] = "committed" =>
             reported[u] = "committed" \/ coordFile'[u].status = "committed"
  PROVE  IInv'
  <1>1. AnswersAgree'
    BY CoordinatesKeeps DEF IInv, AnswersAgree
  <1>2. QED
    BY <1>1, CoordinatesKeeps DEF IInv

LEMMA NotePreparedKeeps == IInv /\ NotePrepared /\ Typed' /\ DoubtAgrees' => IInv' /\ Steps(run.tx)
  <1> SUFFICES ASSUME IInv, NotePrepared, Typed', DoubtAgrees' PROVE IInv' /\ Steps(run.tx)
    OBVIOUS
  <1> DEFINE t == run.tx
  <1> USE DEF Steps
  <1>1. /\ Typed /\ run \in Runs /\ run # NoRun /\ t \in Transactions /\ run.at = "note"
        /\ run.now \in run.todo /\ run.now \in Participants /\ run.todo \subseteq Planned(t)
    BY DEF NotePrepared, IInv, Typed, TypeOK, RunTyped, NoRun, Runs, Deciding
  <1>2. Coordinates(t) /\ coord'[t].status = coord[t].status
    BY <1>1, NotePreparedEffect
       DEF NotePrepared, Coordinates, Moves, SaveCoordinator, SaveFails, IInv, Typed, TypeOK,
           NotesAgree
  <1>3. /\ coord[t].status \in {"preparing", "committing"}
        /\ run.op = "execute" /\ up = "up" /\ coordFile[t].status # "none"
    BY <1>1 DEF IInv, RunAgrees, Deciding
  <1>4. ReservationsSaved' /\ AbortsKnown'
    <2>1. ASSUME coord'[t].status = "preparing", NEW p \in Planned(t)
          PROVE  /\ part[p][t].status # "aborted"
                 /\ part[p][t].status \in Kept => partFile[p][t].status \in Kept
      BY <1>1, <1>2, <1>3, <2>1 DEF IInv, ReservationsSaved, AbortsKnown
    <2>2. QED
      BY <1>1, <1>2, <1>3, <2>1, CoordinatesPending
  <1>5. CASE Throw
    BY <1>1, <1>2, <1>4, <1>5, EndKeeps, CoordinatesIInv
  <1>6. CASE /\ Step("failing") /\ Going /\ coord[t].status = "preparing"
    <2>1. run' \in Runs /\ run'.at = "failing" /\ run'.tx = t /\ run'.op = "execute"
      BY <1>1, <1>3, <1>6 DEF Step, Runs
    <2>2. coordFile'[t].status # "none"
      BY <1>2, <1>3, <1>6 DEF Coordinates
    <2>3. RunAgrees' /\ LoopsAgree'
      BY <1>1, <1>2, <1>3, <1>6, <2>1, <2>2 DEF RunAgrees, LoopsAgree, Going, Deciding, Committing
    <2>4. QED
      BY <1>1, <1>2, <1>4, <1>6, <2>3, CoordinatesIInv DEF Going
  <1>7. CASE Going /\ Loop(IF Rest = {} THEN "decide" ELSE "prepare", Rest)
    <2>1. /\ run' \in Runs /\ run'.at \in {"decide", "prepare"} /\ run'.tx = t
          /\ run'.op = "execute" /\ run'.todo = run.todo \ {run.now}
          /\ run'.at = "decide" => run'.todo = {}
      BY <1>1, <1>3, <1>7 DEF Loop, Runs, Rest
    <2>2. coordFile'[t].status # "none"
      BY <1>2, <1>3 DEF Coordinates
    <2>3. RunAgrees'
      BY <1>1, <1>2, <1>3, <1>7, <2>1, <2>2 DEF RunAgrees, Going, Deciding, Committing
    <2>4. LoopsAgree'
      BY <1>1, <1>2, <2>1 DEF IInv, LoopsAgree, Coordinates, Deciding, Committing, Planned
    <2>5. QED
      BY <1>1, <1>2, <1>4, <1>7, <2>3, <2>4, CoordinatesIInv DEF Going
  <1>8. QED
    BY <1>1, <1>5, <1>6, <1>7 DEF NotePrepared, Catch

LEMMA DecideKeeps == Handled /\ IInv /\ Decide /\ Typed' /\ DoubtAgrees' => IInv' /\ Steps(run.tx)
  <1> SUFFICES ASSUME Handled, IInv, Decide, Typed', DoubtAgrees' PROVE IInv' /\ Steps(run.tx)
    OBVIOUS
  <1> DEFINE t == run.tx
  <1> USE DEF Steps
  <1>1. /\ Typed /\ run \in Runs /\ run # NoRun /\ t \in Transactions /\ run.at = "decide"
        /\ coord[t].status \in {"preparing", "committing"} /\ coordFile[t].status # "none"
        /\ run.op = "execute" /\ up = "up" /\ run.todo = {}
    BY DEF Decide, IInv, Typed, TypeOK, RunTyped, RunAgrees, NoRun, Deciding
  <1>2. \A p \in Planned(t) : part[p][t].status \in Kept /\ partFile[p][t].status \in Kept
    <2>1. \A p \in Planned(t) : part[p][t].status \in Kept
      BY <1>1 DEF IInv, LoopsAgree, Deciding
    <2>2. CASE coord[t].status = "preparing"
      BY <1>1, <2>1, <2>2 DEF IInv, ReservationsSaved
    <2>3. CASE coord[t].status = "committing"
      BY <1>1, <2>1, <2>3 DEF IInv, FileFollows, PartsAgree, Decided
    <2>4. QED
      BY <1>1, <2>1, <2>2, <2>3
  <1>3. Coordinates(t) /\ coord'[t].status = "committing"
    <2>1. /\ SetStatus(t, "committing") /\ coordFile' \in {coordFile, coord'}
          /\ UNCHANGED <<part, partFile, applied>>
      BY DEF Decide, SaveCoordinator, SaveFails
    <2>2. /\ coord' \in [Transactions -> CoordinatorEntries]
          /\ coord'[t].status = "committing" /\ coord'[t].committed = coord[t].committed
          /\ \A u \in Transactions \ {t} : coord'[u] = coord[u]
      BY <1>1, <2>1, SetStatusEffect DEF Typed, TypeOK
    <2>3. QED
      BY <1>1, <1>2, <2>1, <2>2 DEF Coordinates, Moves, IInv, NotesAgree
  <1>4. up' = up
    BY <1>1 DEF Decide, Going, Throw
  <1>5. ReservationsSaved' /\ AbortsKnown'
    BY <1>1, <1>3, <1>4, CoordinatesPending
  <1>6. CASE Throw
    BY <1>1, <1>3, <1>5, <1>6, EndKeeps, CoordinatesIInv
  <1>7. CASE Going /\ Loop("commit", Planned(t)) /\ SaveCoordinator
    <2>1. /\ run' \in Runs /\ run'.at = "commit" /\ run'.tx = t
          /\ run'.op = "execute" /\ run'.todo = Planned(t)
      BY <1>1, <1>7, PlanType DEF Loop, Runs
    <2>2. coordFile'[t].status # "none"
      BY <1>3, <1>7 DEF SaveCoordinator
    <2>3. RunAgrees'
      BY <1>1, <1>3, <1>7, <2>1, <2>2 DEF RunAgrees, Going, Deciding, Committing
    <2>4. LoopsAgree'
      BY <2>1 DEF LoopsAgree, Deciding, Committing, Planned
    <2>5. QED
      BY <1>1, <1>3, <1>5, <1>7, <2>3, <2>4, CoordinatesIInv DEF Going
  <1>8. QED
    BY <1>6, <1>7 DEF Decide

LEMMA NoteCommittedKeeps == IInv /\ NoteCommitted /\ Typed' /\ DoubtAgrees' => IInv' /\ Steps(run.tx)
  <1> SUFFICES ASSUME IInv, NoteCommitted, Typed', DoubtAgrees' PROVE IInv' /\ Steps(run.tx)
    OBVIOUS
  <1> DEFINE t == run.tx
  <1> USE DEF Steps
  <1>1. /\ Typed /\ run \in Runs /\ run # NoRun /\ t \in Transactions /\ run.at = "noted"
        /\ run.now \in run.todo /\ run.now \in Participants /\ run.todo \subseteq Planned(t)
    BY DEF NoteCommitted, IInv, Typed, TypeOK, RunTyped, NoRun, Runs, Committing
  <1>2. /\ coord[t].status = "committing" /\ coordFile[t].status # "none"
        /\ run.now \in applied[t] /\ Planned(t) \ run.todo \subseteq applied[t]
        /\ run.op = "execute" => up = "up"
    BY <1>1 DEF IInv, RunAgrees, LoopsAgree, Committing
  <1>3. Coordinates(t) /\ coord'[t].status = "committing"
    BY <1>1, <1>2, NoteCommittedEffect
       DEF NoteCommitted, Coordinates, Moves, SaveCoordinator, SaveFails, IInv, Typed, TypeOK,
           NotesAgree
  <1>4. up # "up" => up' # "up"
    BY DEF NoteCommitted, Going, Throw
  <1>5. ReservationsSaved' /\ AbortsKnown'
    BY <1>1, <1>3, <1>4, CoordinatesPending
  <1>6. CASE Throw
    BY <1>1, <1>3, <1>5, <1>6, EndKeeps, CoordinatesIInv
  <1>7. CASE Going /\ Loop(IF Rest = {} THEN "finish" ELSE "commit", Rest)
    <2>1. /\ run' \in Runs /\ run'.at \in {"finish", "commit"} /\ run'.tx = t
          /\ run'.op = run.op /\ run'.todo = run.todo \ {run.now}
          /\ run'.at = "finish" => run'.todo = {}
      BY <1>1, <1>7 DEF Loop, Runs, Rest
    <2>2. coordFile'[t].status # "none"
      BY <1>2, <1>3 DEF Coordinates
    <2>3. RunAgrees'
      BY <1>1, <1>2, <1>3, <1>7, <2>1, <2>2 DEF RunAgrees, Going, Deciding, Committing
    <2>4. LoopsAgree'
      BY <1>1, <1>2, <1>3, <2>1 DEF LoopsAgree, Coordinates, Deciding, Committing, Planned
    <2>5. QED
      BY <1>1, <1>3, <1>5, <1>7, <2>3, <2>4, CoordinatesIInv DEF Going
  <1>8. QED
    BY <1>6, <1>7 DEF NoteCommitted

LEMMA FinishKeeps == IInv /\ Finish /\ Typed' /\ DoubtAgrees' => IInv' /\ Steps(run.tx)
  <1> SUFFICES ASSUME IInv, Finish, Typed', DoubtAgrees' PROVE IInv' /\ Steps(run.tx)
    OBVIOUS
  <1> DEFINE t == run.tx
  <1> USE DEF Steps
  <1>1. /\ Typed /\ run \in Runs /\ run # NoRun /\ t \in Transactions /\ run.at = "finish"
        /\ coord[t].status = "committing" /\ coordFile[t].status \in Decided
        /\ run.todo = {} /\ Planned(t) \subseteq applied[t]
    BY DEF Finish, IInv, Typed, TypeOK, RunTyped, RunAgrees, LoopsAgree, DoubtAgrees, InDoubt,
           Decided, NoRun, Committing
  <1>2. Coordinates(t) /\ coord'[t].status = "committed"
    BY <1>1, SetStatusEffect
       DEF Finish, Coordinates, Moves, SaveCoordinator, SaveFails, IInv, Typed, TypeOK, NotesAgree
  <1>3. up # "up" => up' # "up"
    BY DEF Finish, Throw
  <1>4. ReservationsSaved' /\ AbortsKnown'
    BY <1>1, <1>2, <1>3, CoordinatesPending
  <1>5. CASE Throw
    BY <1>1, <1>2, <1>4, <1>5, EndKeeps, CoordinatesIInv
  <1>6. CASE run' = NoRun /\ reported' = [reported EXCEPT ![t] = "committed"] /\ SaveCoordinator
    <2>1. RunAgrees' /\ LoopsAgree'
      BY <1>6 DEF RunAgrees, LoopsAgree
    <2>2. ASSUME NEW u \in Transactions, reported'[u] = "committed"
          PROVE  reported[u] = "committed" \/ coordFile'[u].status = "committed"
      BY <1>1, <1>2, <1>6, <2>2 DEF SaveCoordinator, Typed, TypeOK
    <2>3. QED
      BY <1>1, <1>2, <1>4, <2>1, <2>2, CoordinatesIInv
  <1>7. CASE run' = Scanning /\ UNCHANGED reported
    <2>1. RunAgrees' /\ LoopsAgree'
      BY <1>7 DEF RunAgrees, LoopsAgree, Scanning, Deciding, Committing
    <2>2. QED
      BY <1>1, <1>2, <1>4, <1>7, <2>1, CoordinatesIInv
  <1>8. QED
    BY <1>5, <1>6, <1>7 DEF Finish

LEMMA StartAbortKeeps == IInv /\ StartAbort /\ Typed' /\ DoubtAgrees' => IInv' /\ Steps(run.tx)
  <1> SUFFICES ASSUME IInv, StartAbort, Typed', DoubtAgrees' PROVE IInv' /\ Steps(run.tx)
    OBVIOUS
  <1> DEFINE t == run.tx
  <1> USE DEF Steps
  <1>1. /\ Typed /\ run \in Runs /\ run # NoRun /\ t \in Transactions /\ run.at = "failing"
        /\ coord[t].status = "preparing" /\ run.op = "execute" /\ up = "up"
    BY DEF StartAbort, IInv, Typed, TypeOK, RunTyped, RunAgrees, NoRun
  <1>2. Coordinates(t) /\ coord'[t].status = "aborting"
    BY <1>1, SetStatusEffect
       DEF StartAbort, Coordinates, Moves, SaveCoordinator, SaveFails, IInv, Typed, TypeOK,
           NotesAgree
  <1>3. up' = up
    BY <1>1 DEF StartAbort, Throw, Going
  <1>4. ReservationsSaved' /\ AbortsKnown'
    BY <1>1, <1>2, <1>3, CoordinatesPending
  <1>5. CASE Throw
    BY <1>1, <1>2, <1>4, <1>5, EndKeeps, CoordinatesIInv
  <1>6. CASE Loop("abort", coord[t].prepared) /\ Going
    <2>1. run'.at = "abort" /\ run'.tx = t /\ run'.op = "execute"
      BY <1>1, <1>6 DEF Loop, Runs
    <2>2. RunAgrees' /\ LoopsAgree'
      BY <1>1, <1>2, <1>3, <2>1 DEF RunAgrees, LoopsAgree, Deciding, Committing
    <2>3. QED
      BY <1>1, <1>2, <1>4, <1>6, <2>2, CoordinatesIInv DEF Going
  <1>7. QED
    BY <1>5, <1>6 DEF StartAbort

LEMMA EndAbortKeeps == IInv /\ EndAbort /\ Typed' /\ DoubtAgrees' => IInv' /\ Steps(run.tx)
  <1> SUFFICES ASSUME IInv, EndAbort, Typed', DoubtAgrees' PROVE IInv' /\ Steps(run.tx)
    OBVIOUS
  <1> DEFINE t == run.tx
  <1> USE DEF Steps
  <1>1. /\ Typed /\ run \in Runs /\ run # NoRun /\ t \in Transactions /\ run.at = "abort"
        /\ coord[t].status \in {"preparing", "aborting"}
    BY DEF EndAbort, IInv, Typed, TypeOK, RunTyped, RunAgrees, NoRun
  <1>2. Coordinates(t) /\ coord'[t].status = "aborted"
    BY <1>1, SetStatusEffect
       DEF EndAbort, Coordinates, Moves, SaveCoordinator, SaveFails, IInv, Typed, TypeOK,
           NotesAgree
  <1>3. up # "up" => up' # "up"
    BY DEF EndAbort, Throw, Going
  <1>4. ReservationsSaved' /\ AbortsKnown'
    BY <1>1, <1>2, <1>3, CoordinatesPending
  <1>5. CASE Throw
    BY <1>1, <1>2, <1>4, <1>5, EndKeeps, CoordinatesIInv
  <1>6. CASE run' = Scanning /\ Going
    <2>1. RunAgrees' /\ LoopsAgree'
      BY <1>6 DEF RunAgrees, LoopsAgree, Scanning, Deciding, Committing
    <2>2. QED
      BY <1>1, <1>2, <1>4, <1>6, <2>1, CoordinatesIInv DEF Going
  <1>7. QED
    BY <1>5, <1>6 DEF EndAbort

LEMMA ExecuteKeeps ==
  ASSUME Handled, IInv, NEW t \in Transactions, Execute(t), Typed', DoubtAgrees' PROVE IInv' /\ Steps(t)
  <1>1. /\ Typed /\ run = NoRun /\ up = "up" /\ up' = up
        /\ coord[t].status \in {"none", "preparing", "committing"}
        /\ UNCHANGED <<part, partFile, applied>>
    BY DEF Execute, Startable, Handled, IInv
  <1>2. Coordinates(t) /\ coord'[t].status \in {"preparing", "committing"}
    <2> DEFINE s == IF coord[t].status = "none" THEN "preparing" ELSE coord[t].status
    <2>1. s \in {"preparing", "committing"} /\ SetStatus(t, s)
      BY <1>1 DEF Execute
    <2>2. /\ coord' \in [Transactions -> CoordinatorEntries]
          /\ coord'[t].status = s /\ coord'[t].committed = coord[t].committed
          /\ \A u \in Transactions \ {t} : coord'[u] = coord[u]
      BY <1>1, <2>1, SetStatusEffect DEF Typed, TypeOK
    <2>3. coordFile' \in {coordFile, coord'}
      BY DEF Execute, SaveCoordinator, SaveFails
    <2>4. QED
      BY <1>1, <2>1, <2>2, <2>3 DEF Coordinates, Moves, IInv, NotesAgree
  <1>3. NoRun.at = "none" /\ NoRun.op = "none"
    BY DEF NoRun
  <1>4. ASSUME coord'[t].status = "preparing", NEW p \in Planned(t)
        PROVE  /\ part[p][t].status # "aborted"
               /\ part[p][t].status \in Kept => partFile[p][t].status \in Kept
    <2>1. CASE coord[t].status = "none"
      BY <1>1, <2>1 DEF IInv, PartsAgree, FileFollows, Kept
    <2>2. CASE coord[t].status = "preparing"
      BY <1>1, <1>3, <2>2 DEF IInv, ReservationsSaved, AbortsKnown
    <2>3. CASE coord[t].status = "committing"
      BY <1>1, <2>3 DEF IInv, PartsAgree, FileFollows, Kept, Decided
    <2>4. QED
      BY <1>1, <2>1, <2>2, <2>3
  <1>5. ReservationsSaved' /\ AbortsKnown'
    BY <1>1, <1>2, <1>4, CoordinatesPending
  <1>6. \A u \in Transactions : reported'[u] = "committed" => reported[u] = "committed"
    BY <1>1 DEF Execute, Typed, TypeOK
  <1>7. RunAgrees' /\ LoopsAgree'
    <2>1. CASE run' = run
      BY <1>1, <2>1 DEF RunAgrees, LoopsAgree
    <2>2. CASE SaveCoordinator /\ run' = [op |-> "execute", tx |-> t, at |-> "prepare",
                                          todo |-> Planned(t), now |-> "none"]
      BY <1>1, <1>2, <2>2
         DEF RunAgrees, LoopsAgree, SaveCoordinator, Deciding, Committing, Planned
    <2>3. QED
      BY <2>1, <2>2 DEF Execute
  <1>8. QED
    BY <1>2, <1>5, <1>6, <1>7, CoordinatesIInv DEF Steps

-----------------------------------------------------------------------------
\* Writes of the participants' files.

LEMMA PrepareKeeps == IInv /\ Prepare /\ Typed' /\ DoubtAgrees' => IInv'
  <1> SUFFICES ASSUME IInv, Prepare, Typed', DoubtAgrees' PROVE IInv'
    OBVIOUS
  <1> DEFINE t == run.tx
  <1>1. /\ Typed /\ run \in Runs /\ run # NoRun /\ t \in Transactions /\ run.at = "prepare"
        /\ run.todo \subseteq Planned(t) /\ coord[t].status \in {"preparing", "committing"}
        /\ coordFile[t].status # "none" /\ run.op = "execute" /\ up = "up"
        /\ UNCHANGED <<coord, coordFile, applied>>
    BY DEF Prepare, IInv, Typed, TypeOK, RunTyped, RunAgrees, NoRun, Deciding
  <1>2. PICK p \in run.todo :
          \/ /\ part[p][t].status # "none"
             /\ Visit(p, "note") /\ Going
             /\ UNCHANGED <<part, partFile, faults>>
          \/ /\ part[p][t].status = "none" /\ ~Locked(p, DOMAIN Plan[t][p], t)
             /\ part' = [part EXCEPT ![p][t] =
                           [status |-> "prepared",
                            before |-> [k \in DOMAIN Plan[t][p] |-> db[p][k]]]]
             /\ \/ SavePart(p) /\ Visit(p, "note") /\ Going
                \/ SavePartFails(p) /\ Catch
          \/ /\ part[p][t].status = "none" /\ Locked(p, DOMAIN Plan[t][p], t)
             /\ Catch
             /\ UNCHANGED <<part, partFile, faults>>
    BY DEF Prepare
  <1>3. p \in Planned(t) /\ p \in Participants
    BY <1>1, PlanType
  <1>4. /\ part[p][t].status # "none" => part'[p][t] = part[p][t]
        /\ part'[p][t].status = part[p][t].status \/ part'[p][t].status = "prepared"
        /\ part[p][t].status = "none" /\ ~Catch => part'[p][t].status = "prepared" /\ SavePart(p)
        /\ \A q \in Participants, u \in Transactions : q # p \/ u # t => part'[q][u] = part[q][u]
        /\ \A q \in Participants, u \in Transactions :
             partFile'[q][u] \in {part'[q][u], partFile[q][u]}
    <2>1. CASE UNCHANGED <<part, partFile>> /\ (part[p][t].status = "none" => Catch)
      BY <2>1, <1>1
    <2>2. CASE /\ part[p][t].status = "none"
               /\ part' = [part EXCEPT ![p][t] =
                             [status |-> "prepared",
                              before |-> [k \in DOMAIN Plan[t][p] |-> db[p][k]]]]
               /\ \/ SavePart(p)
                  \/ SavePartFails(p) /\ Catch
      <3>1. [status |-> "prepared", before |-> [k \in DOMAIN Plan[t][p] |-> db[p][k]]]
              \in ParticipantEntries
        BY <1>1, <1>3, PlanType, NotedType DEF Typed, TypeOK, ParticipantEntries
      <3>2. /\ part' \in [Participants -> [Transactions -> ParticipantEntries]]
            /\ part'[p][t].status = "prepared"
            /\ \A q \in Participants, u \in Transactions :
                 q # p \/ u # t => part'[q][u] = part[q][u]
        BY <1>1, <1>3, <2>2, <3>1, ReserveEffect DEF Typed, TypeOK
      <3>3. \A q \in Participants, u \in Transactions :
              partFile'[q][u] \in {part'[q][u], partFile[q][u]}
        <4>1. SavePart(p) \/ SavePartFails(p)
          BY <2>2
        <4>2. /\ \A q \in Participants : q # p => partFile'[q] = partFile[q]
              /\ partFile'[p] \in {part'[p], partFile[p]}
          BY <1>1, <1>3, <3>2, <4>1, SavePartEffect DEF Typed, TypeOK
        <4>3. QED
          BY <4>2
      <3>4. QED
        BY <2>2, <3>2, <3>3
    <2>3. QED
      BY <1>2, <2>1, <2>2
  <1>5. PartsAgree'
    <2> SUFFICES ASSUME NEW u \in Transactions, NEW q \in Planned(u)
                 PROVE  PartsAgree!(u)!(q)'
      BY DEF PartsAgree
    <2>1. q \in Participants
      BY PlanType
    <2>2. QED
      BY <1>1, <1>4, <2>1 DEF IInv, PartsAgree, FileFollows, Kept
  <1>6. FileFollows' /\ NotesAgree'
    BY <1>1 DEF IInv, FileFollows, NotesAgree
  <1>7. ASSUME part[p][t].status # "none" PROVE part[p][t].status \in Kept
    <2>1. part[p][t].status # "aborted"
      BY <1>1, <1>3 DEF IInv, AbortsKnown
    <2>2. part[p][t].status \in {"none", "prepared", "committed", "aborted"}
      BY <1>1, <1>3 DEF Typed, TypeOK, ParticipantEntries
    <2>3. QED
      BY <1>7, <2>1, <2>2 DEF Kept
  <1>8. up' = up
    BY <1>1, <1>2 DEF Going, Catch, Throw
  <1>9. AbortsKnown'
    <2> SUFFICES ASSUME NEW u \in Transactions, NEW q \in Planned(u)
                 PROVE  AbortsKnown!(u)!(q)'
      BY DEF AbortsKnown
    <2>1. q \in Participants
      BY PlanType
    <2>2. QED
      BY <1>1, <1>4, <1>8, <2>1 DEF IInv, AbortsKnown
  <1>10. CASE Visit(p, "note") /\ Going
    <2>1. /\ run'.at = "note" /\ run'.tx = t /\ run'.op = "execute" /\ run'.now = p
          /\ run'.todo = run.todo
      BY <1>1, <1>3, <1>10 DEF Visit, Runs
    <2>0. ~Catch
      BY <1>1, <2>1 DEF Catch, Step, Throw, NoRun, Runs
    <2>2. part'[p][t].status \in Kept
      BY <1>4, <1>7, <2>0 DEF Kept
    <2>3. RunAgrees'
      BY <1>1, <1>8, <2>1 DEF RunAgrees, Deciding, Committing
    <2>4. LoopsAgree'
      <3>1. ASSUME NEW q \in Planned(t), q \notin run.todo
            PROVE  part'[q][t].status \in Kept
        BY <1>1, <1>4, <3>1, PlanType DEF IInv, LoopsAgree, Deciding, Kept
      <3>2. QED
        BY <2>1, <2>2, <3>1 DEF LoopsAgree, Deciding, Committing
    <2>5. ReservationsSaved'
      <3> SUFFICES ASSUME NEW u \in Transactions, NEW q \in Planned(u)
                   PROVE  ReservationsSaved!(u)!(q)'
        BY DEF ReservationsSaved
      <3>1. q \in Participants
        BY PlanType
      <3>2. CASE u = t /\ q = p /\ part[p][t].status = "none"
        <4>1. SavePart(p)
          BY <1>4, <2>0, <3>2
        <4>2. QED
          BY <1>1, <1>3, <3>2, <4>1 DEF SavePart, Kept, Typed, TypeOK
      <3>3. CASE ~(u = t /\ q = p /\ part[p][t].status = "none")
        BY <1>1, <1>4, <2>1, <3>1, <3>3 DEF IInv, ReservationsSaved, Kept
      <3>4. QED
        BY <3>2, <3>3
    <2>6. QED
      BY <1>1, <1>5, <1>6, <1>9, <1>10, <2>3, <2>4, <2>5 DEF IInv, AnswersAgree, Going
  <1>11. CASE Catch
    <2>1. CASE coord[t].status = "preparing" /\ Step("failing") /\ Going
      <3>1. run'.at = "failing" /\ run'.tx = t /\ run'.op = "execute"
        BY <1>1, <2>1 DEF Step, Runs
      <3>2. RunAgrees' /\ LoopsAgree'
        BY <1>1, <1>8, <2>1, <3>1 DEF RunAgrees, LoopsAgree, Deciding, Committing
      <3>3. ReservationsSaved'
        <4> SUFFICES ASSUME NEW u \in Transactions, NEW q \in Planned(u)
                     PROVE  ReservationsSaved!(u)!(q)'
          BY DEF ReservationsSaved
        <4>1. q \in Participants
          BY PlanType
        <4>2. QED
          BY <1>1, <1>4, <3>1, <4>1 DEF IInv, ReservationsSaved, Kept
      <3>4. QED
        BY <1>1, <1>5, <1>6, <1>9, <2>1, <3>2, <3>3 DEF IInv, AnswersAgree, Going
    <2>2. CASE coord[t].status # "preparing" /\ Throw
      <3>1. ReservationsSaved'
        <4> SUFFICES ASSUME NEW u \in Transactions, NEW q \in Planned(u)
                     PROVE  ReservationsSaved!(u)!(q)'
          BY DEF ReservationsSaved
        <4>1. q \in Participants
          BY PlanType
        <4>2. QED
          BY <1>1, <1>4, <2>2, <4>1 DEF IInv, ReservationsSaved, Kept
      <3>2. QED
        BY <1>1, <1>5, <1>6, <1>9, <2>2, <3>1, EndKeeps DEF IInv, AnswersAgree
    <2>3. QED
      BY <1>11, <2>1, <2>2 DEF Catch
  <1>12. QED
    BY <1>2, <1>10, <1>11

LEMMA MarkKeeps == IInv /\ Mark /\ Typed' /\ DoubtAgrees' => IInv'
  <1> SUFFICES ASSUME IInv, Mark, Typed', DoubtAgrees' PROVE IInv'
    OBVIOUS
  <1> DEFINE t == run.tx
             p == run.now
  <1>1. /\ Typed /\ run \in Runs /\ run # NoRun /\ t \in Transactions /\ run.at = "mark"
        /\ p \in run.todo /\ p \in Planned(t) /\ p \in Participants
        /\ coord[t].status = "committing" /\ p \in applied[t]
        /\ UNCHANGED <<coord, coordFile, applied>>
    BY DEF Mark, IInv, Typed, TypeOK, RunTyped, RunAgrees, LoopsAgree, NoRun, Runs, Committing
  <1>2. /\ part'[p][t].status = "committed"
        /\ \A q \in Participants, u \in Transactions : q # p \/ u # t => part'[q][u] = part[q][u]
        /\ \A q \in Participants, u \in Transactions :
             partFile'[q][u] \in {part'[q][u], partFile[q][u]}
    <2>1. /\ part' \in [Participants -> [Transactions -> ParticipantEntries]]
          /\ part'[p][t].status = "committed"
          /\ \A q \in Participants, u \in Transactions :
               q # p \/ u # t => part'[q][u] = part[q][u]
      BY <1>1, SetPartEffect DEF Mark, Typed, TypeOK
    <2>2. SavePart(p) \/ SavePartFails(p)
      BY DEF Mark
    <2>3. \A q \in Participants, u \in Transactions :
            partFile'[q][u] \in {part'[q][u], partFile[q][u]}
      BY <1>1, <2>1, <2>2, SavePartEffect DEF Typed, TypeOK
    <2>4. QED
      BY <2>1, <2>3
  <1>3. PartsAgree' /\ ReservationsSaved'
    <2> SUFFICES ASSUME NEW u \in Transactions, NEW q \in Planned(u)
                 PROVE  PartsAgree!(u)!(q)' /\ ReservationsSaved!(u)!(q)'
      BY DEF PartsAgree, ReservationsSaved
    <2>1. q \in Participants
      BY PlanType
    <2>2. PartsAgree!(u)!(q)'
      BY <1>1, <1>2, <2>1 DEF IInv, PartsAgree, FileFollows, Kept, Decided
    <2>3. ReservationsSaved!(u)!(q)'
      BY <1>1, <1>2, <2>1 DEF IInv, ReservationsSaved
    <2>4. QED
      BY <2>2, <2>3
  <1>4. FileFollows' /\ NotesAgree'
    BY <1>1 DEF IInv, FileFollows, NotesAgree
  <1>5. up # "up" => up' # "up"
    BY DEF Mark, Going, Throw
  <1>6. AbortsKnown'
    <2> SUFFICES ASSUME NEW u \in Transactions, NEW q \in Planned(u)
                 PROVE  AbortsKnown!(u)!(q)'
      BY DEF AbortsKnown
    <2>1. q \in Participants
      BY PlanType
    <2>2. QED
      BY <1>1, <1>2, <1>5, <2>1 DEF IInv, AbortsKnown
  <1>7. CASE Throw
    BY <1>1, <1>3, <1>4, <1>6, <1>7, EndKeeps DEF IInv, AnswersAgree
  <1>8. CASE Step("noted") /\ Going
    <2>1. /\ run'.at = "noted" /\ run'.tx = t /\ run'.op = run.op /\ run'.todo = run.todo
          /\ run'.now = run.now
      BY <1>1, <1>8 DEF Step, Runs
    <2>2. RunAgrees' /\ LoopsAgree'
      BY <1>1, <1>8, <2>1 DEF IInv, RunAgrees, LoopsAgree, Going, Deciding, Committing, Planned
    <2>3. QED
      BY <1>1, <1>3, <1>4, <1>6, <1>8, <2>2 DEF IInv, AnswersAgree, Going
  <1>9. QED
    BY <1>7, <1>8 DEF Mark

LEMMA AbortKeeps == IInv /\ Abort /\ Typed' /\ DoubtAgrees' => IInv'
  <1> SUFFICES ASSUME IInv, Abort, Typed', DoubtAgrees' PROVE IInv'
    OBVIOUS
  <1> DEFINE t == run.tx
  <1>1. /\ Typed /\ run \in Runs /\ run # NoRun /\ t \in Transactions /\ run.at = "abort"
        /\ coord[t].status \in {"preparing", "aborting"}
        /\ run.op = "execute" => coord[t].status = "aborting"
        /\ UNCHANGED <<coord, coordFile, applied, up, reported>>
    BY DEF Abort, Going, IInv, Typed, TypeOK, RunTyped, RunAgrees, NoRun
  <1>2. PICK p \in run.todo :
          /\ \/ UNCHANGED <<part, partFile, faults>>
             \/ /\ part[p][t].status \notin {"none", "committed"}
                /\ part' = [part EXCEPT ![p][t].status = "aborted"]
                /\ SavePart(p) \/ SavePartFails(p)
          /\ Loop("abort", run.todo \ {p})
    BY DEF Abort
  <1>3. p \in Participants
    BY <1>1 DEF Runs
  <1>4. run'.at = "abort" /\ run'.tx = t /\ run'.op = run.op
    BY <1>1, <1>2 DEF Loop, Runs
  <1>5. /\ \/ part'[p][t] = part[p][t]
           \/ part'[p][t].status = "aborted" /\ part[p][t].status # "none"
        /\ \A q \in Participants, u \in Transactions : q # p \/ u # t => part'[q][u] = part[q][u]
        /\ \A q \in Participants, u \in Transactions :
             partFile'[q][u] \in {part'[q][u], partFile[q][u]}
    <2>1. CASE UNCHANGED <<part, partFile, faults>>
      BY <2>1
    <2>2. CASE /\ part[p][t].status \notin {"none", "committed"}
               /\ part' = [part EXCEPT ![p][t].status = "aborted"]
               /\ SavePart(p) \/ SavePartFails(p)
      <3>1. /\ part' \in [Participants -> [Transactions -> ParticipantEntries]]
            /\ part'[p][t].status = "aborted"
            /\ \A q \in Participants, u \in Transactions :
                 q # p \/ u # t => part'[q][u] = part[q][u]
        BY <1>1, <1>3, <2>2, SetPartEffect, SMTT(30) DEF Typed, TypeOK
      <3>2. \A q \in Participants, u \in Transactions :
              partFile'[q][u] \in {part'[q][u], partFile[q][u]}
        BY <1>1, <1>3, <2>2, <3>1, SavePartEffect DEF Typed, TypeOK
      <3>3. QED
        BY <2>2, <3>1, <3>2
    <2>3. QED
      BY <1>2, <2>1, <2>2
  <1>6. PartsAgree'
    <2> SUFFICES ASSUME NEW u \in Transactions, NEW q \in Planned(u)
                 PROVE  PartsAgree!(u)!(q)'
      BY DEF PartsAgree
    <2>1. q \in Participants
      BY PlanType
    <2>2. QED
      BY <1>1, <1>3, <1>5, <2>1 DEF IInv, PartsAgree, FileFollows, Kept, Decided
  <1>7. ReservationsSaved'
    <2> SUFFICES ASSUME NEW u \in Transactions, NEW q \in Planned(u)
                 PROVE  ReservationsSaved!(u)!(q)'
      BY DEF ReservationsSaved
    <2>1. q \in Participants
      BY PlanType
    <2>2. QED
      BY <1>1, <1>3, <1>5, <2>1 DEF IInv, ReservationsSaved, Kept
  <1>8. AbortsKnown'
    <2> SUFFICES ASSUME NEW u \in Transactions, NEW q \in Planned(u)
                 PROVE  AbortsKnown!(u)!(q)'
      BY DEF AbortsKnown
    <2>1. q \in Participants /\ run.op \in {"execute", "recover"}
      BY <1>1, PlanType DEF Runs
    <2>2. QED
      BY <1>1, <1>4, <1>5, <2>1 DEF IInv, AbortsKnown
  <1>9. RunAgrees' /\ LoopsAgree'
    BY <1>1, <1>4 DEF IInv, RunAgrees, LoopsAgree, Deciding, Committing
  <1>10. QED
    BY <1>1, <1>6, <1>7, <1>8, <1>9 DEF IInv, FileFollows, NotesAgree, AnswersAgree

-----------------------------------------------------------------------------
\* The partition's transaction, and steps that move only the operation.

LEMMA ApplyKeeps == IInv /\ Apply /\ Typed' /\ DoubtAgrees' => IInv'
  <1> SUFFICES ASSUME IInv, Apply, Typed', DoubtAgrees' PROVE IInv'
    OBVIOUS
  <1> DEFINE t == run.tx
  <1>1. /\ Typed /\ run \in Runs /\ run # NoRun /\ t \in Transactions /\ run.at = "apply"
        /\ run.now \in run.todo /\ run.now \in Planned(t)
        /\ coord[t].status = "committing"
        /\ UNCHANGED <<coord, coordFile, part, partFile>>
    BY DEF Apply, IInv, Typed, TypeOK, RunTyped, RunAgrees, NoRun, Committing
  <1>2. /\ \A u \in Transactions : applied[u] \subseteq applied'[u]
        /\ \A u \in Transactions : applied'[u] \subseteq applied[u] \cup Planned(u)
    <2>1. CASE UNCHANGED applied
      BY <2>1
    <2>2. CASE applied' = [applied EXCEPT ![t] = @ \cup {run.now}]
      BY <1>1, <2>2 DEF Typed, TypeOK
    <2>3. QED
      BY <2>1, <2>2 DEF Apply
  <1>3. FileFollows' /\ PartsAgree'
    BY <1>1, <1>2 DEF IInv, FileFollows, PartsAgree
  <1>4. NotesAgree'
    BY <1>1, <1>2 DEF IInv, NotesAgree
  <1>5. up # "up" => up' # "up"
    BY DEF Apply, Going, Throw
  <1>6. ReservationsSaved' /\ AbortsKnown'
    BY <1>1, <1>5 DEF IInv, ReservationsSaved, AbortsKnown
  <1>7. CASE Throw
    BY <1>1, <1>3, <1>4, <1>6, <1>7, EndKeeps DEF IInv, AnswersAgree
  <1>8. CASE Step("mark") /\ Going /\ applied' = [applied EXCEPT ![t] = @ \cup {run.now}]
    <2>1. /\ run'.at = "mark" /\ run'.tx = t /\ run'.op = run.op /\ run'.todo = run.todo
          /\ run'.now = run.now
      BY <1>1, <1>8 DEF Step, Runs
    <2>2. run.now \in applied'[t]
      BY <1>1, <1>8 DEF Typed, TypeOK
    <2>3. RunAgrees' /\ LoopsAgree'
      BY <1>1, <1>2, <1>8, <2>1, <2>2
         DEF IInv, RunAgrees, LoopsAgree, Going, Deciding, Committing, Planned
    <2>4. QED
      BY <1>1, <1>3, <1>4, <1>6, <1>8, <2>3 DEF IInv, AnswersAgree, Going
  <1>9. QED
    BY <1>7, <1>8 DEF Apply

\* A step that changes neither memory nor files of coordinator and participants,
\* and does not come from an abort.
LEMMA QuietKeeps ==
  ASSUME IInv, UNCHANGED <<coord, coordFile, part, partFile, applied>>, Typed', DoubtAgrees',
         run.at \notin {"abort", "failing"},
         up # "up" /\ up' = "up" => \A t \in Transactions : coord[t].status # "preparing",
         RunAgrees', LoopsAgree',
         \A t \in Transactions : reported'[t] = "committed" => reported[t] = "committed"
  PROVE  IInv'
  <1>1. FileFollows' /\ PartsAgree' /\ NotesAgree' /\ AnswersAgree'
    BY DEF IInv, FileFollows, PartsAgree, NotesAgree, AnswersAgree
  <1>2. ReservationsSaved' /\ AbortsKnown'
    BY DEF IInv, ReservationsSaved, AbortsKnown
  <1>3. QED
    BY <1>1, <1>2 DEF IInv

LEMMA CommitKeeps == IInv /\ Commit /\ Typed' /\ DoubtAgrees' => IInv'
  <1> SUFFICES ASSUME IInv, Commit, Typed', DoubtAgrees' PROVE IInv'
    OBVIOUS
  <1>1. /\ Typed /\ run \in Runs /\ run # NoRun /\ run.tx \in Transactions /\ run.at = "commit"
        /\ run.todo \subseteq Planned(run.tx) /\ coord[run.tx].status = "committing"
        /\ UNCHANGED <<coord, coordFile, part, partFile, applied>>
    BY DEF Commit, IInv, Typed, TypeOK, RunTyped, RunAgrees, NoRun, Committing
  <1>2. PICK p \in run.todo :
          \/ part[p][run.tx].status = "committed" /\ Visit(p, "noted") /\ Going
          \/ Visit(p, "apply") /\ Going
          \/ Throw
    BY DEF Commit
  <1>3. CASE Throw
    <2>1. up # "up" => up' # "up"
      BY <1>3 DEF Throw
    <2>2. QED
      BY <1>1, <1>3, <2>1, EndKeeps, QuietKeeps
  <1>4. CASE /\ Going
             /\ \/ Visit(p, "apply")
                \/ part[p][run.tx].status = "committed" /\ Visit(p, "noted")
    <2>1. /\ run'.at \in {"apply", "noted"} /\ run'.tx = run.tx /\ run'.op = run.op
          /\ run'.todo = run.todo /\ run'.now = p
      BY <1>1, <1>4 DEF Visit, Runs
    <2>2. run'.at = "noted" => p \in applied[run.tx]
      BY <1>1, <1>4 DEF Visit, Runs, IInv, PartsAgree
    <2>3. RunAgrees' /\ LoopsAgree'
      BY <1>1, <1>4, <2>1, <2>2
         DEF IInv, RunAgrees, LoopsAgree, Going, Deciding, Committing, Planned
    <2>4. QED
      BY <1>1, <1>4, <2>3, QuietKeeps DEF Going
  <1>5. QED
    BY <1>2, <1>3, <1>4

LEMMA ScanKeeps ==
  ASSUME IInv, NEW t \in Transactions, Scan(t), Typed', DoubtAgrees' PROVE IInv'
  <1>1. /\ Typed /\ run \in Runs /\ run # NoRun /\ run.at = "scan" /\ run.op = "recover"
        /\ coord[t].status \in {"preparing", "aborting", "committing"}
        /\ UNCHANGED <<coord, coordFile, part, partFile, applied, up, reported>>
    BY DEF Scan, Unsettled, IInv, Typed, TypeOK, RunAgrees, NoRun
  <1> DEFINE left == Planned(t) \ coord[t].committed
  <1>2. \/ /\ run' = [run EXCEPT !.tx = t, !.at = "commit", !.todo = left]
           /\ coord[t].status = "committing"
        \/ /\ run' = [run EXCEPT !.tx = t, !.at = "finish", !.todo = {}]
           /\ coord[t].status = "committing" /\ left = {}
        \/ /\ run' = [run EXCEPT !.tx = t, !.at = "abort", !.todo = coord[t].prepared]
           /\ coord[t].status # "committing"
    BY DEF Scan
  <1>3. /\ run'.op = "recover" /\ run'.tx = t
        /\ \/ run'.at = "commit" /\ run'.todo = left /\ coord[t].status = "committing"
           \/ run'.at = "finish" /\ run'.todo = {} /\ left = {} /\ coord[t].status = "committing"
           \/ run'.at = "abort" /\ coord[t].status \in {"preparing", "aborting"}
    BY <1>1, <1>2 DEF Runs
  <1>4. coord[t].status = "committing" => coordFile[t].status # "none"
    BY <1>1 DEF IInv, DoubtAgrees, InDoubt, Decided
  <1>5. coord[t].committed \subseteq applied[t]
    BY DEF IInv, NotesAgree
  <1>6. RunAgrees'
    BY <1>1, <1>3, <1>4 DEF RunAgrees, Deciding, Committing
  <1>7. LoopsAgree'
    BY <1>1, <1>3, <1>5 DEF LoopsAgree, Deciding, Committing, Planned
  <1>8. QED
    BY <1>1, <1>6, <1>7, QuietKeeps

LEMMA RecoveryKeeps ==
  ASSUME IInv, Recovered \/ Recover \/ Start \/ Crash, Typed', DoubtAgrees' PROVE IInv'
  <1>1. NoRun.at = "none"
    BY DEF NoRun
  <1>2. CASE Recovered
    <2>1. /\ run.at = "scan" /\ UNCHANGED <<coord, coordFile, part, partFile, applied>>
          /\ \A t \in Transactions : coord[t].status # "preparing"
      BY <1>2 DEF Recovered, Unsettled
    <2>2. QED
      BY <1>2, <2>1, EndKeeps, QuietKeeps DEF Recovered, IInv
  <1>3. CASE Recover
    <2>1. RunAgrees' /\ LoopsAgree'
      BY <1>3 DEF Recover, Scanning, RunAgrees, LoopsAgree, Deciding, Committing
    <2>2. QED
      BY <1>1, <1>3, <2>1, QuietKeeps DEF Recover
  <1>4. CASE Start \/ Crash
    <2>1. /\ coord' = coordFile /\ part' = partFile /\ up' # "up"
          /\ run' \in {Scanning, NoRun}
          /\ UNCHANGED <<coordFile, partFile, applied, reported>>
      BY <1>4 DEF Start, Crash
    <2>2. RunAgrees' /\ LoopsAgree'
      BY <2>1 DEF Scanning, NoRun, RunAgrees, LoopsAgree, Deciding, Committing
    <2>3. FileFollows' /\ NotesAgree' /\ AnswersAgree'
      BY <2>1 DEF IInv, FileFollows, NotesAgree, AnswersAgree, Decided
    <2>4. PartsAgree' /\ ReservationsSaved'
      BY <2>1 DEF IInv, FileFollows, PartsAgree, ReservationsSaved
    <2>5. AbortsKnown'
      <3> SUFFICES ASSUME NEW t \in Transactions, NEW p \in Planned(t),
                          partFile[p][t].status = "aborted"
                   PROVE  coordFile[t].status \in {"preparing", "aborting", "aborted"}
        BY <2>1 DEF AbortsKnown
      <3>1. coordFile[t].status \in
              {"none", "preparing", "aborting", "aborted", "committing", "committed"}
        BY DEF IInv, Typed, TypeOK, CoordinatorEntries
      <3>2. QED
        BY <3>1 DEF IInv, FileFollows, PartsAgree, Decided, Kept
    <2>6. QED
      BY <2>2, <2>3, <2>4, <2>5 DEF IInv
  <1>5. QED
    BY <1>2, <1>3, <1>4

\* Nobody starts to act on a decision that is not in the file.
LEMMA DoubtKeeps == Handled /\ IInv /\ [Next]_vars => DoubtAgrees'
  <1> SUFFICES ASSUME Handled, IInv, [Next]_vars PROVE DoubtAgrees'
    OBVIOUS
  <1>1. CASE run' = NoRun
    BY <1>1 DEF DoubtAgrees
  <1>2. CASE coordFile' = coord'
    BY <1>2 DEF DoubtAgrees, InDoubt
  <1>3. CASE UNCHANGED <<coord, coordFile, run>>
    BY <1>3 DEF IInv, DoubtAgrees, InDoubt
  <1>4. ASSUME run # NoRun, run'.op = run.op, run'.tx = run.tx,
               run'.at \in Deciding \cup Committing => run.at \in Deciding \cup Committing,
               UNCHANGED coordFile,
               \A t \in Transactions : coord'[t].status = coord[t].status
        PROVE  DoubtAgrees'
    BY <1>4 DEF IInv, Typed, RunTyped, DoubtAgrees, InDoubt, Deciding, Committing
  <1>5. CASE Decide \/ Finish \/ StartAbort \/ EndAbort \/ (\E t \in Transactions : Execute(t))
    BY <1>1, <1>2, <1>5
       DEF Decide, Finish, StartAbort, EndAbort, Execute, SaveCoordinator, Throw
  <1>6. CASE NotePrepared \/ NoteCommitted
    <2>1. CASE SaveCoordinator
      BY <1>2, <2>1 DEF SaveCoordinator
    <2>2. CASE Throw
      BY <1>1, <2>2 DEF Throw
    <2>3. CASE NotePrepared /\ Step("failing")
      <3>1. run \in Runs /\ run.op = "execute"
        BY <2>3 DEF NotePrepared, NoRun, IInv, Typed, TypeOK, RunAgrees, Deciding
      <3>2. run'.at = "failing" /\ run'.op = "execute"
        BY <2>3, <3>1 DEF Step, Runs
      <3>3. QED
        BY <3>2 DEF DoubtAgrees, Deciding, Committing
    <2>4. QED
      BY <1>6, <2>1, <2>2, <2>3 DEF NotePrepared, NoteCommitted, Catch
  <1>7. CASE Prepare \/ Commit \/ Apply \/ Mark \/ Abort
    <2>1. run # NoRun /\ run \in Runs /\ UNCHANGED <<coord, coordFile>>
      <3>1. run.at # "none" /\ UNCHANGED <<coord, coordFile>>
        <4>1. CASE Prepare
          BY <4>1 DEF Prepare
        <4>2. CASE Commit \/ Apply \/ Mark \/ Abort
          BY <4>2 DEF Commit, Apply, Mark, Abort
        <4>3. QED
          BY <1>7, <4>1, <4>2
      <3>2. run # NoRun
        BY <3>1 DEF NoRun
      <3>3. QED
        BY <3>1, <3>2 DEF IInv, Typed, TypeOK
    <2>2. CASE Throw
      BY <1>1, <2>2 DEF Throw
    <2>4. CASE Prepare
      <3>1. run' = [run EXCEPT !.at = "failing"] => DoubtAgrees'
        BY <2>1, <1>4 DEF Runs, Deciding, Committing
      <3>2. (\E p \in run.todo : Visit(p, "note")) => DoubtAgrees'
        BY <1>4, <2>1, <2>4 DEF Prepare, Visit, Runs, Deciding, Committing
      <3>3. QED
        BY <2>2, <2>4, <3>1, <3>2 DEF Prepare, Catch, Step
    <2>5. CASE Commit \/ Apply \/ Mark \/ Abort
      <3>1. CASE /\ run'.op = run.op /\ run'.tx = run.tx /\ run.at # "abort"
                 /\ run'.at \in Committing
        BY <1>4, <2>1, <2>5, <3>1 DEF Commit, Apply, Mark, Abort, Committing
      <3>2. CASE run'.op = run.op /\ run'.tx = run.tx /\ run'.at = "abort"
        BY <1>4, <2>1, <3>2 DEF Deciding, Committing
      <3>3. QED
        BY <2>1, <2>2, <2>5, <3>1, <3>2
           DEF Commit, Apply, Mark, Abort, Step, Visit, Loop, Runs, Committing
    <2>6. QED
      BY <1>7, <2>4, <2>5
  <1>8. CASE (\E t \in Transactions : Scan(t)) \/ Recovered \/ Recover \/ Start \/ Crash
    <2>1. CASE \E t \in Transactions : Scan(t)
      <3>1. /\ run # NoRun /\ run \in Runs /\ run.op = "recover"
            /\ run'.op = run.op /\ run'.tx \in Transactions
            /\ UNCHANGED <<coord, coordFile>>
        <4>1. run # NoRun /\ run \in Runs /\ run.op = "recover"
          BY <2>1 DEF Scan, NoRun, IInv, Typed, TypeOK, RunAgrees
        <4>2. PICK t \in Transactions : Scan(t)
          BY <2>1
        <4>3. \E at \in {"commit", "finish", "abort"}, todo \in SUBSET Participants :
                run' = [run EXCEPT !.tx = t, !.at = at, !.todo = todo]
          BY <4>2, PlanType DEF Scan, IInv, Typed, TypeOK, CoordinatorEntries
        <4>4. QED
          BY <4>1, <4>2, <4>3 DEF Scan, Runs
      <3>2. QED
        BY <3>1 DEF IInv, DoubtAgrees, InDoubt
    <2>2. CASE Recovered \/ Crash
      BY <1>1, <2>2 DEF Recovered, Return, Crash
    <2>3. CASE Recover
      <3>1. \A t \in Transactions : ~InDoubt(t)
        BY <2>3 DEF Recover, Handled
      <3>2. QED
        BY <2>3, <3>1 DEF Recover, DoubtAgrees, InDoubt, Scanning, Deciding, Committing
    <2>4. CASE Start
      BY <1>2, <2>4 DEF Start
    <2>5. QED
      BY <1>8, <2>1, <2>2, <2>3, <2>4
  <1>9. QED
    BY <1>3, <1>5, <1>6, <1>7, <1>8 DEF Next, Continue, Route, Land, vars

LEMMA IInvStep == Handled /\ IInv /\ [Next]_vars => IInv'
  <1> SUFFICES ASSUME Handled, IInv, [Next]_vars PROVE IInv'
    OBVIOUS
  <1>1. Typed' /\ DoubtAgrees'
    BY TypedStep, DoubtKeeps DEF IInv
  <1>2. CASE UNCHANGED <<up, coord, coordFile, part, partFile, run, applied, reported>>
    BY <1>1, <1>2
       DEF IInv, RunAgrees, LoopsAgree, FileFollows, PartsAgree, ReservationsSaved,
           AbortsKnown, NotesAgree, AnswersAgree
  <1>3. CASE (\E w \in Routed : Route(w) \/ Land(w)) \/ UNCHANGED vars
    BY <1>2, <1>3 DEF Route, Land, vars
  <1>4. CASE Prepare \/ Mark \/ Abort \/ Apply \/ Commit
    BY <1>1, <1>4, PrepareKeeps, MarkKeeps, AbortKeeps, ApplyKeeps, CommitKeeps
  <1>5. CASE NotePrepared \/ Decide \/ NoteCommitted \/ Finish \/ StartAbort \/ EndAbort
    BY <1>1, <1>5, NotePreparedKeeps, DecideKeeps, NoteCommittedKeeps, FinishKeeps,
       StartAbortKeeps, EndAbortKeeps
  <1>6. CASE \E t \in Transactions : Scan(t) \/ Execute(t)
    BY <1>1, <1>6, ScanKeeps, ExecuteKeeps
  <1>7. CASE Recovered \/ Recover \/ Start \/ Crash
    BY <1>1, <1>7, RecoveryKeeps
  <1>8. QED
    BY <1>3, <1>4, <1>5, <1>6, <1>7 DEF Next, Continue

LEMMA Invariance == ASSUME Handled PROVE Spec => []IInv
  <1>1. Init => IInv
    BY IInvInit
  <1>2. IInv /\ [Next]_vars => IInv'
    BY IInvStep
  <1>3. QED
    BY <1>1, <1>2, PTL DEF Spec

-----------------------------------------------------------------------------
\* What a caller was told, and what the coordinator's file calls committed, has
\* happened on every partition of the plan.
THEOREM CommitsEverywhere == ASSUME Handled PROVE Spec => []CommittedEverywhere
  <1>1. IInv => CommittedEverywhere
    BY DEF IInv, AnswersAgree, FileFollows, NotesAgree, CommittedEverywhere
  <1>2. QED
    BY <1>1, Invariance, PTL

\* From the decision on, every partition holds the transaction's reservation or
\* has committed it, on disk.
THEOREM DecisionsAreCovered == ASSUME Handled PROVE Spec => []DecisionIsCovered
  <1>1. IInv => DecisionIsCovered
    BY DEF IInv, FileFollows, PartsAgree, DecisionIsCovered, Decided, Kept
  <1>2. QED
    BY <1>1, Invariance, PTL

\* The coordinator decides once and for all, and no partition changes before
\* the decision to commit is on disk: the protocol implements TransactionOutcome.
THEOREM Refinement == ASSUME Handled PROVE Spec => ImplementsTransactionOutcome
  <1> DEFINE outcome == [t \in Transactions |-> Outcome(t)]
  <1>1. Init => Store!Init
    BY DEF Init, Store!Init, Outcome
  <1>2. ASSUME IInv, [Next]_vars PROVE [Store!Next]_(Store!vars)
    <2>1. Typed' /\ DoubtAgrees'
      BY <1>2, TypedStep, DoubtKeeps DEF IInv
    <2>2. ASSUME NEW t, Steps(t) PROVE Store!Decide
      <3>1. ASSUME NEW u \in Transactions, Outcome(u) # "open" PROVE Outcome(u)' = Outcome(u)
        <4>1. /\ coordFile[u].status = "aborted" => coordFile'[u].status = "aborted"
              /\ coordFile[u].status \in Decided => coordFile'[u].status \in Decided
          BY <1>2, <2>2, CoordinatesKeeps DEF Steps
        <4>2. QED
          BY <3>1, <4>1 DEF Outcome, Decided
      <3>2. \A u \in Transactions : Outcome(u)' \in {"open", "commit", "abort"}
        BY DEF Outcome
      <3>3. UNCHANGED applied
        BY <2>2 DEF Steps, Coordinates
      <3>4. QED
        BY <3>1, <3>2, <3>3 DEF Store!Decide
    <2>3. CASE NotePrepared \/ Decide \/ NoteCommitted \/ Finish \/ StartAbort \/ EndAbort
      BY <1>2, <2>1, <2>2, <2>3, NotePreparedKeeps, DecideKeeps, NoteCommittedKeeps, FinishKeeps,
         StartAbortKeeps, EndAbortKeeps DEF Store!Next
    <2>4. CASE \E t \in Transactions : Execute(t)
      BY <1>2, <2>1, <2>2, <2>4, ExecuteKeeps DEF Store!Next
    <2>5. CASE UNCHANGED <<coordFile, applied>>
      BY <2>5 DEF Store!vars, Outcome
    <2>6. CASE Apply
      <3>1. /\ run.tx \in Transactions /\ run.now \in Participants
            /\ Outcome(run.tx) = "commit" /\ UNCHANGED coordFile
        <4>1. /\ run # NoRun /\ run \in Runs /\ run.tx \in Transactions
              /\ run.now \in run.todo /\ coord[run.tx].status = "committing"
          BY <1>2, <2>6
             DEF Apply, IInv, Typed, TypeOK, RunTyped, RunAgrees, NoRun, Committing
        <4>2. coordFile[run.tx].status \in Decided
          BY <1>2, <2>6, <4>1 DEF Apply, IInv, DoubtAgrees, InDoubt, Committing, Decided
        <4>3. QED
          BY <2>6, <4>1, <4>2 DEF Apply, Outcome, Decided, Runs
      <3>2. CASE UNCHANGED applied
        BY <2>5, <3>1, <3>2
      <3>3. CASE applied' = [applied EXCEPT ![run.tx] = @ \cup {run.now}]
        <4>1. Store!Apply(run.tx, run.now)
          BY <3>1, <3>3 DEF Store!Apply, Outcome
        <4>2. QED
          BY <3>1, <4>1 DEF Store!Next
      <3>4. QED
        BY <2>6, <3>2, <3>3 DEF Apply
    <2>7. QED
      BY <1>2, <2>3, <2>4, <2>5, <2>6
         DEF Next, Continue, vars, Prepare, Commit, Mark, Abort, Scan, Recovered, Start,
             Recover, Crash, Route, Land
  <1>3. QED
    BY <1>1, <1>2, Invariance, PTL DEF Spec, ImplementsTransactionOutcome, Store!Spec
=============================================================================
