--------------------------- MODULE PartitionCommit ---------------------------
(***************************************************************************)
(* Transactions across partitions: the durable coordinator and             *)
(* participants of src/src/distributed.js as ShardedSyncioDatabase         *)
(* (src/src/sharding.js) opens them, all in one process.                   *)
(*                                                                         *)
(* The coordinator runs one execute() or recover() at a time; at every     *)
(* await, routed writes and a crash may come in between.  A change of an   *)
(* entry and the write of its file are one step: nobody but a failing      *)
(* write can tell them apart.  A partition applies a transaction           *)
(* atomically (SyncioDatabase is what makes that so).  A plan is a         *)
(* function from its partitions to the values it gives to their keys; it   *)
(* is prepared and aborted in any order (the caller's), and committed in   *)
(* the order of the participants' names.                                   *)
(*                                                                         *)
(* Faults names what the environment may do: "crash" stops the process,    *)
(* "io" fails the write of a file or the transaction of a partition.       *)
(* Operations names what the application does: "execute", "route" and      *)
(* "recover" call these; "doubt" also calls recover() while memory holds a *)
(* decision that is not on disk, "reuse" executes the id of an aborted     *)
(* transaction again.                                                      *)
(***************************************************************************)
EXTENDS Integers, FiniteSets

CONSTANTS
  Transactions,
  Participants,   \* partitions, each with its participant
  Rank,           \* their place in the order of their names
  Keys, Values,
  Initial,        \* the value of every key at first
  Plan,           \* for each transaction, what it writes on which partition
  Routed,         \* writes the application makes through the router
  Operations,     \* what the application calls
  Faults, MaxFaults

\* Values for some of the keys of a partition.
Writes == UNION {[ks -> Values] : ks \in SUBSET Keys}

ASSUME PlanAssumption ==
  \A t \in Transactions :
    \E ps \in SUBSET Participants : ps # {} /\ Plan[t] \in [ps -> Writes]
ASSUME RankAssumption ==
  /\ Rank \in [Participants -> Nat]
  /\ \A p, q \in Participants : Rank[p] = Rank[q] => p = q
ASSUME RoutedAssumption ==
  Initial \in Values /\ Routed \subseteq [participant : Participants, writes : Writes]
ASSUME FaultAssumption == MaxFaults \in Nat
\* No operation runs for nobody.
ASSUME NobodyAssumption == "none" \notin Transactions /\ "none" \notin Participants

CoordinatorEntries ==
  [status : {"none", "preparing", "aborting", "aborted", "committing", "committed"},
   prepared : SUBSET Participants, committed : SUBSET Participants]
ParticipantEntries ==
  [status : {"none", "prepared", "committed", "aborted"}, before : Writes]

VARIABLES
  up,        \* "down", "recovering", "refused" (open() rejected) or "up"
  coord,     \* the coordinator's state.transactions, and its file
  coordFile,
  part,      \* the participants' state.transactions, and their files
  partFile,
  db,        \* the partitions' records
  routed,    \* routed writes that passed the guard and are queued
  run,       \* the coordinator operation in progress: its transaction, where it
             \* is, the participants left in its loop, the one it is at
  applied,   \* history: partitions each transaction has changed
  reported,  \* history: what execute() told its caller
  faults

vars == <<up, coord, coordFile, part, partFile, db, routed, run, applied, reported, faults>>

NoRun == [op |-> "none", tx |-> "none", at |-> "none", todo |-> {}, now |-> "none"]

Runs ==
  [op : {"execute", "recover"}, tx : Transactions \cup {"none"},
   at : {"prepare", "note", "decide", "commit", "apply", "mark", "noted", "finish",
         "failing", "abort", "scan"},
   todo : SUBSET Participants, now : Participants \cup {"none"}]

TypeOK ==
  /\ up \in {"down", "recovering", "refused", "up"}
  /\ coord \in [Transactions -> CoordinatorEntries]
  /\ coordFile \in [Transactions -> CoordinatorEntries]
  /\ part \in [Participants -> [Transactions -> ParticipantEntries]]
  /\ partFile \in [Participants -> [Transactions -> ParticipantEntries]]
  /\ db \in [Participants -> [Keys -> Values]]
  /\ routed \in SUBSET Routed
  /\ run \in Runs \cup {NoRun}
  /\ applied \in [Transactions -> SUBSET Participants]
  /\ reported \in [Transactions -> {"none", "committed", "failed"}]
  /\ faults \in 0..MaxFaults

Nothing == [k \in {} |-> Initial]

Init ==
  /\ up = "up" /\ run = NoRun /\ routed = {} /\ faults = 0
  /\ coord = [t \in Transactions |->
                [status |-> "none", prepared |-> {}, committed |-> {}]]
  /\ coordFile = coord
  /\ part = [p \in Participants |->
               [t \in Transactions |-> [status |-> "none", before |-> Nothing]]]
  /\ partFile = part
  /\ db = [p \in Participants |-> [k \in Keys |-> Initial]]
  /\ applied = [t \in Transactions |-> {}]
  /\ reported = [t \in Transactions |-> "none"]

Fault(kind) == kind \in Faults /\ faults < MaxFaults /\ faults' = faults + 1

Planned(t) == DOMAIN Plan[t]

\* Variant: the comparison with exceptTxId is the wrong way round.
LockedBySelf(p, keys, t) ==
  \E u \in Transactions \cap {t} :
    /\ part[p][u].status = "prepared"
    /\ p \in Planned(u) /\ keys \cap DOMAIN Plan[u][p] # {}

\* isLocked: a prepared transaction other than t has reserved one of keys at p.
Locked(p, keys, t) ==
  \E u \in Transactions \ {t} :
    /\ part[p][u].status = "prepared"
    /\ p \in Planned(u) /\ keys \cap DOMAIN Plan[u][p] # {}

\* The records of a partition after some writes.
Written(records, writes) ==
  [k \in Keys |-> IF k \in DOMAIN writes THEN writes[k] ELSE records[k]]

\* The running operation goes on: at a step, a participant, a loop over todo.
Step(at) == run' = [run EXCEPT !.at = at]
Visit(p, at) == run' = [run EXCEPT !.at = at, !.now = p]
Loop(at, todo) == run' = [run EXCEPT !.at = at, !.todo = todo]

Scanning == [op |-> "recover", tx |-> "none", at |-> "scan", todo |-> {}, now |-> "none"]

\* recover() ends with an answer; open() has then succeeded.
Return ==
  /\ run' = NoRun
  /\ up' = IF up = "recovering" THEN "up" ELSE up
  /\ UNCHANGED reported

\* Variant: an error forgets to end the operation.
ThrowStuck ==
  /\ run' = [run EXCEPT !.op = "none"]
  /\ up' = IF up = "recovering" THEN "refused" ELSE up
  /\ UNCHANGED reported

\* The operation ends with an error, and open() with it.
Throw ==
  /\ run' = NoRun
  /\ up' = IF up = "recovering" THEN "refused" ELSE up
  /\ reported' = IF run.op = "execute" /\ reported[run.tx] = "none"
                 THEN [reported EXCEPT ![run.tx] = "failed"] ELSE reported

Going == UNCHANGED <<up, reported>>

\* Write the coordinator's file; a failed write may still have replaced it.
SaveCoordinator == coordFile' = coord' /\ UNCHANGED faults
SaveFails == Fault("io") /\ coordFile' \in {coordFile, coord'}
SavePart(p) == partFile' = [partFile EXCEPT ![p] = part'[p]] /\ UNCHANGED faults
SavePartFails(p) ==
  /\ Fault("io")
  /\ \/ partFile' = [partFile EXCEPT ![p] = part'[p]]
     \/ UNCHANGED partFile

SetStatus(t, status) == coord' = [coord EXCEPT ![t].status = status]

-----------------------------------------------------------------------------
\* execute(): prepare every participant, decide, commit every participant.

\* Default ids are fresh; a caller that names one may use it again.
Startable ==
  {"none", "preparing", "committing"}
    \cup (IF "reuse" \in Operations THEN {"aborting", "aborted"} ELSE {})

Execute(t) ==
  /\ up = "up" /\ run = NoRun /\ "execute" \in Operations /\ coord[t].status \in Startable
  /\ SetStatus(t, IF coord[t].status = "none" THEN "preparing" ELSE coord[t].status)
  /\ \/ /\ SaveCoordinator
        /\ run' = [op |-> "execute", tx |-> t, at |-> "prepare", todo |-> Planned(t),
                   now |-> "none"]
        /\ UNCHANGED reported
     \/ /\ SaveFails
        /\ reported' = [reported EXCEPT ![t] = "failed"]
        /\ UNCHANGED run
  /\ UNCHANGED <<up, part, partFile, db, routed, applied>>

\* Variant: the catch aborts a transaction that is already decided.
CatchAlways == Step("failing") /\ Going

\* The catch of execute(): a transaction that is not decided yet is aborted.
Catch ==
  IF coord[run.tx].status = "preparing" THEN Step("failing") /\ Going ELSE Throw

\* A participant reserves its records and notes their values, unless another
\* transaction has reserved one; a transaction it knows, in whatever state, is
\* answered without a change.
Prepare ==
  /\ run.at = "prepare"
  /\ \E p \in run.todo :
       LET t == run.tx
           keys == DOMAIN Plan[t][p]
       IN \/ /\ part[p][t].status # "none"
             /\ Visit(p, "note") /\ Going
             /\ UNCHANGED <<part, partFile, faults>>
          \/ /\ part[p][t].status = "none" /\ ~Locked(p, keys, t)
             /\ part' = [part EXCEPT ![p][t] =
                           [status |-> "prepared", before |-> [k \in keys |-> db[p][k]]]]
             /\ \/ SavePart(p) /\ Visit(p, "note") /\ Going
                \/ SavePartFails(p) /\ Catch
          \/ /\ part[p][t].status = "none" /\ Locked(p, keys, t)
             /\ Catch
             /\ UNCHANGED <<part, partFile, faults>>
  /\ UNCHANGED <<coord, coordFile, db, routed, applied>>

\* Variant: the loop stops after its first participant.
RestEarly == {}

\* Variant: the loop over the participants does not advance.
RestAgain == run.todo

\* The participants the loop has not visited.
Rest == run.todo \ {run.now}

NotePrepared ==
  /\ run.at = "note"
  /\ coord' = [coord EXCEPT ![run.tx].prepared = @ \cup {run.now}]
  /\ \/ /\ SaveCoordinator /\ Going
        /\ Loop(IF Rest = {} THEN "decide" ELSE "prepare", Rest)
     \/ SaveFails /\ Catch
  /\ UNCHANGED <<part, partFile, db, routed, applied>>

\* Variant: the decision is not written before the participants commit.
DecideUnsaved ==
  /\ run.at = "decide"
  /\ SetStatus(run.tx, "committing")
  /\ Loop("commit", Planned(run.tx)) /\ Going
  /\ UNCHANGED <<coordFile, part, partFile, db, routed, applied, faults>>

\* The point of no return: the decision to commit is durable.
Decide ==
  /\ run.at = "decide"
  /\ SetStatus(run.tx, "committing")
  /\ \/ SaveCoordinator /\ Going /\ Loop("commit", Planned(run.tx))
     \/ SaveFails /\ Throw
  /\ UNCHANGED <<part, partFile, db, routed, applied>>

\* A participant's commit checks that nobody changed its records.
Commit ==
  /\ run.at = "commit"
  /\ \E p \in run.todo :
       LET entry == part[p][run.tx]
           unchanged == \A k \in DOMAIN entry.before : db[p][k] = entry.before[k]
       IN /\ \A q \in run.todo : Rank[p] <= Rank[q]
          /\ \/ entry.status = "committed" /\ Visit(p, "noted") /\ Going
             \/ entry.status = "prepared" /\ unchanged /\ Visit(p, "apply") /\ Going
             \/ entry.status = "prepared" /\ ~unchanged /\ Throw
             \/ entry.status \in {"none", "aborted"} /\ Throw
  /\ UNCHANGED <<coord, coordFile, part, partFile, db, routed, applied, faults>>

\* The partition's own transaction; it may be refused (a conflict, an error).
Apply ==
  /\ run.at = "apply"
  /\ LET t == run.tx
         p == run.now
     IN \/ /\ db' = [db EXCEPT ![p] = Written(db[p], Plan[t][p])]
           /\ applied' = [applied EXCEPT ![t] = @ \cup {p}]
           /\ Step("mark") /\ Going
           /\ UNCHANGED faults
        \/ Fault("io") /\ Throw /\ UNCHANGED <<db, applied>>
  /\ UNCHANGED <<coord, coordFile, part, partFile, routed>>

Mark ==
  /\ run.at = "mark"
  /\ part' = [part EXCEPT ![run.now][run.tx].status = "committed"]
  /\ \/ SavePart(run.now) /\ Step("noted") /\ Going
     \/ SavePartFails(run.now) /\ Throw
  /\ UNCHANGED <<coord, coordFile, db, routed, applied>>

NoteCommitted ==
  /\ run.at = "noted"
  /\ coord' = [coord EXCEPT ![run.tx].committed = @ \cup {run.now}]
  /\ \/ /\ SaveCoordinator /\ Going
        /\ Loop(IF Rest = {} THEN "finish" ELSE "commit", Rest)
     \/ SaveFails /\ Throw
  /\ UNCHANGED <<part, partFile, db, routed, applied>>

Finish ==
  /\ run.at = "finish"
  /\ SetStatus(run.tx, "committed")
  /\ \/ /\ SaveCoordinator /\ UNCHANGED up
        /\ IF run.op = "execute"
           THEN run' = NoRun /\ reported' = [reported EXCEPT ![run.tx] = "committed"]
           ELSE run' = Scanning /\ UNCHANGED reported
     \/ SaveFails /\ Throw
  /\ UNCHANGED <<part, partFile, db, routed, applied>>

-----------------------------------------------------------------------------
\* Aborting, from the catch of execute() or from recover().

StartAbort ==
  /\ run.at = "failing"
  /\ SetStatus(run.tx, "aborting")
  /\ \/ SaveCoordinator /\ Loop("abort", coord[run.tx].prepared) /\ Going
     \/ SaveFails /\ Throw
  /\ UNCHANGED <<part, partFile, db, routed, applied>>

\* A participant's abort; its errors are ignored.
Abort ==
  /\ run.at = "abort"
  /\ \E p \in run.todo :
       /\ IF part[p][run.tx].status \in {"none", "committed"}
          THEN UNCHANGED <<part, partFile, faults>>
          ELSE /\ part' = [part EXCEPT ![p][run.tx].status = "aborted"]
               /\ SavePart(p) \/ SavePartFails(p)
       /\ Loop("abort", run.todo \ {p}) /\ Going
  /\ UNCHANGED <<coord, coordFile, db, routed, applied>>

EndAbort ==
  /\ run.at = "abort" /\ run.todo = {}
  /\ SetStatus(run.tx, "aborted")
  /\ \/ /\ SaveCoordinator
        /\ IF run.op = "execute" THEN Throw ELSE run' = Scanning /\ Going
     \/ SaveFails /\ Throw
  /\ UNCHANGED <<part, partFile, db, routed, applied>>

-----------------------------------------------------------------------------
\* recover(), when the database opens and when the application asks for it.

Decided == {"committing", "committed"}

\* The write of a decision failed and left the file without it.
InDoubt(t) == coord[t].status \in Decided /\ coordFile[t].status \notin Decided

\* ShardedSyncioDatabase.open reads the files and recovers.
Start ==
  /\ up \in {"down", "refused"}
  /\ up' = "recovering" /\ run' = Scanning
  /\ coord' = coordFile /\ part' = partFile
  /\ UNCHANGED <<coordFile, partFile, db, routed, applied, reported, faults>>

Recover ==
  /\ up = "up" /\ run = NoRun /\ "recover" \in Operations
  /\ "doubt" \in Operations \/ \A t \in Transactions : ~InDoubt(t)
  /\ run' = Scanning
  /\ UNCHANGED <<up, coord, coordFile, part, partFile, db, routed, applied, reported, faults>>

Unsettled(t) == coord[t].status \in {"preparing", "aborting", "committing"}

\* recover() takes up an entry: what is decided is completed, the rest aborted.
Scan(t) ==
  /\ run.at = "scan" /\ Unsettled(t)
  /\ LET left == Planned(t) \ coord[t].committed
         Take(at, todo) == run' = [run EXCEPT !.tx = t, !.at = at, !.todo = todo]
     IN \/ coord[t].status = "committing" /\ left # {} /\ Take("commit", left)
        \/ coord[t].status = "committing" /\ left = {} /\ Take("finish", {})
        \/ coord[t].status # "committing" /\ Take("abort", coord[t].prepared)
  /\ UNCHANGED <<up, coord, coordFile, part, partFile, db, routed, applied, reported, faults>>

Recovered ==
  /\ run.at = "scan" /\ \A t \in Transactions : ~Unsettled(t)
  /\ Return
  /\ UNCHANGED <<coord, coordFile, part, partFile, db, routed, applied, faults>>

-----------------------------------------------------------------------------
\* Writes through the router: the guard is asked, then the write is queued at
\* the partition.

Route(w) ==
  /\ up = "up" /\ "route" \in Operations
  /\ ~Locked(w.participant, DOMAIN w.writes, "none")
  /\ routed' = routed \cup {w}
  /\ UNCHANGED <<up, coord, coordFile, part, partFile, db, run, applied, reported, faults>>

Land(w) ==
  /\ w \in routed
  /\ db' = [db EXCEPT ![w.participant] = Written(@, w.writes)]
  /\ routed' = routed \ {w}
  /\ UNCHANGED <<up, coord, coordFile, part, partFile, run, applied, reported, faults>>

Crash ==
  /\ up # "down" /\ Fault("crash")
  /\ up' = "down" /\ run' = NoRun /\ routed' = {}
  /\ coord' = coordFile /\ part' = partFile
  /\ UNCHANGED <<coordFile, partFile, db, applied, reported>>

-----------------------------------------------------------------------------
Continue ==
  \/ Prepare \/ NotePrepared \/ Decide \/ Commit \/ Apply \/ Mark \/ NoteCommitted
  \/ Finish \/ StartAbort \/ Abort \/ EndAbort
  \/ \E t \in Transactions : Scan(t)
  \/ Recovered

Next ==
  \/ Continue \/ Start \/ Recover \/ Crash
  \/ \E t \in Transactions : Execute(t)
  \/ \E w \in Routed : Route(w) \/ Land(w)

Spec == Init /\ [][Next]_vars

\* The event loop runs what it has started.
FairSpec == Spec /\ WF_vars(Continue)

-----------------------------------------------------------------------------
\* What a caller was told, and what the coordinator's file calls committed, has
\* happened on every partition of the plan.
CommittedEverywhere ==
  \A t \in Transactions :
    /\ reported[t] = "committed" => coordFile[t].status = "committed"
    /\ coordFile[t].status = "committed" => applied[t] = Planned(t)

\* Two transactions never hold the same record reserved, in memory or on disk.
OneHolder ==
  \A p \in Participants, t, u \in Transactions :
    /\ t # u /\ p \in Planned(t) \cap Planned(u)
    /\ \/ part[p][t].status = "prepared" /\ part[p][u].status = "prepared"
       \/ partFile[p][t].status = "prepared" /\ partFile[p][u].status = "prepared"
    => DOMAIN Plan[t][p] \cap DOMAIN Plan[u][p] = {}

\* From the decision on, every partition holds the transaction's reservation or
\* has committed it, on disk: no crash, failed write or restart undoes a promise.
DecisionIsCovered ==
  \A t \in Transactions :
    coordFile[t].status \in {"committing", "committed"} =>
      \A p \in Planned(t) : partFile[p][t].status \in {"prepared", "committed"}

\* The outcome a restart would find.
Outcome(t) ==
  CASE coordFile[t].status \in {"committing", "committed"} -> "commit"
    [] coordFile[t].status = "aborted" -> "abort"
    [] OTHER -> "open"

Store == INSTANCE TransactionOutcome
           WITH outcome <- [t \in Transactions |-> Outcome(t)]

\* The coordinator decides once and for all, and no partition changes before
\* the decision to commit is on disk.
ImplementsTransactionOutcome == Store!Spec

\* Recovery completes what was decided: opening the database never fails.
RecoveryCompletes == up # "refused"

\* Every execute() and recover() answers.
OperationsSettle == (run # NoRun) ~> (run = NoRun)
=============================================================================
