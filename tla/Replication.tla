----------------------------- MODULE Replication -----------------------------
(***************************************************************************)
(* A Syncio server and those who follow it over HTTP (server.js,           *)
(* client.js, advanced.js): replicas that pull its changes into a database *)
(* of their own and push the changes they queued, and a client that        *)
(* watches a collection as a stream of server-sent events.                 *)
(*                                                                         *)
(* The server numbers every change and retains the last Retention of them. *)
(* A key is a collection with a record id; a change with NoRecord removes. *)
(* Packets are delivered whole or not at all (their digest is checked).    *)
(* A behaviour has either pulling replicas or a watching client: the two   *)
(* meet nowhere but at the server, which they do not change.               *)
(***************************************************************************)
EXTENDS Integers, Sequences, SequencesExt

CONSTANTS
  Keys, Vals, NoRecord,
  UpdatedAt,               \* UpdatedAt[v]: the timestamp record v carries
  Watched,                 \* the keys of the collection the client watches
  Replicas, None,
  Retention, Limit,        \* changeRetention; replicationLimit
  Skew,                    \* may a write at the server carry an older timestamp
  MaxWrites, MaxQueued, MaxFaults

ASSUME ReplicationAssumption ==
  /\ Watched \subseteq Keys /\ NoRecord \notin Vals /\ Skew \in BOOLEAN
  /\ Retention \in Nat \ {0} /\ Limit \in Nat \ {0} /\ UpdatedAt \in [Vals -> Nat]

VARIABLES
  part,       \* "pull" or "watch"
  docs,       \* the records of the server
  log,        \* every change of the server; log[i] has sequence i
  replica,    \* of each replica: its records, and the ids of the changes it retains
  cursor,     \* ReplicationClient.cursor
  response,   \* the answer a pull is working off, or None
  queue,      \* changes a replica has queued for the server
  stream,     \* the subscription: its status at the client, whether the server sends, what is under way
  position,   \* the cursor of watch()
  seen,       \* the sequences the iterator has given
  writes, queued, faults

followers == <<replica, cursor, response>>
watcher == <<stream, position, seen>>
vars == <<part, docs, log, followers, queue, watcher, writes, queued, faults>>

NoDocs == [k \in Keys |-> NoRecord]
Idle == [status |-> "idle", open |-> FALSE, wire |-> <<>>]

Init ==
  /\ part \in {"pull", "watch"} /\ docs = NoDocs /\ log = <<>>
  /\ replica = [r \in Replicas |-> [docs |-> NoDocs, recent |-> <<>>]]
  /\ cursor = [r \in Replicas |-> 0] /\ response = [r \in Replicas |-> None]
  /\ queue = [r \in Replicas |-> <<>>]
  /\ stream = Idle /\ position = 0 /\ seen = <<>>
  /\ writes = 0 /\ queued = 0 /\ faults = 0

-----------------------------------------------------------------------------
(* The server.                                                             *)

Newest(s) == IF Len(s) <= Retention THEN s ELSE SubSeq(s, Len(s) - Retention + 1, Len(s))

OldestRetained == Len(log) - Len(Newest(log)) + 1

\* Variant: off by one.
ResumableLater(c) == c >= OldestRetained - 2 /\ c <= Len(log)

Resumable(c) == c >= OldestRetained - 1 /\ c <= Len(log)

\* The sequences of the retained changes after c in the given keys, in order.
ChangesSince(c, keys) ==
  LET found == {i \in OldestRetained..Len(log) : i > c /\ log[i].key \in keys}
  IN [n \in 1..Cardinality(found) |-> CHOOSE i \in found : Cardinality({j \in found : j <= i}) = n]

\* Variant: ids are not looked up.
KnownNever(id) == FALSE

Known(id) == \E i \in OldestRetained..Len(log) : log[i].id = id

\* Last write wins, the incoming one on equal timestamps; a removal always does.
Resolve(local, remote) ==
  IF local # NoRecord /\ remote # NoRecord /\ UpdatedAt[local] > UpdatedAt[remote] THEN local ELSE remote

\* Variant: only what was there when the client connected is sent.
SentAtStart(key) == stream

\* What a commit puts on the wire of an open subscription.
Sent(key) == IF stream.open /\ key \in Watched
             THEN [stream EXCEPT !.wire = Append(@, Len(log) + 1)] ELSE stream

\* A change is logged as it came in, whatever record was stored.
Commit(id, key, record, stored) ==
  /\ log' = Append(log, [id |-> id, key |-> key, record |-> record])
  /\ docs' = [docs EXCEPT ![key] = stored]
  /\ stream' = Sent(key)
  /\ UNCHANGED <<position, seen>>

\* A collection operation at the server; removing what is not there is no change.
Write(key, record) ==
  /\ writes < MaxWrites /\ writes' = writes + 1
  /\ record = NoRecord => docs[key] # NoRecord
  /\ Skew \/ Resolve(docs[key], record) = record
  /\ Commit(<<"server", writes>>, key, record, record)
  /\ UNCHANGED <<part, followers, queue, queued, faults>>

-----------------------------------------------------------------------------
(* Pushing.                                                                *)

Enqueue(r, key, record) ==
  /\ queued < MaxQueued /\ queued' = queued + 1
  /\ queue' = [queue EXCEPT ![r] = Append(@, [id |-> <<"client", queued>>, key |-> key, record |-> record])]
  /\ UNCHANGED <<part, docs, log, followers, watcher, writes, faults>>

\* Variant: an item is only removed when the server took it as new.
DequeueAccepted(r, answered) ==
  queue' = IF answered /\ ~Known(Head(queue[r]).id) THEN [queue EXCEPT ![r] = Tail(@)] ELSE queue

Dequeue(r, answered) == queue' = IF answered THEN [queue EXCEPT ![r] = Tail(@)] ELSE queue

\* flush() sends the first item; without an answer it stays and is sent again.
Push(r, answered) ==
  /\ queue[r] # <<>>
  /\ LET change == Head(queue[r]) IN
     IF Known(change.id) THEN UNCHANGED <<docs, log, watcher>>
     ELSE Commit(change.id, change.key, change.record, Resolve(docs[change.key], change.record))
  /\ Dequeue(r, answered)
  /\ UNCHANGED <<part, followers, writes, queued>>

FlushAnswered(r) == Push(r, TRUE) /\ UNCHANGED faults
FlushUnanswered(r) == faults < MaxFaults /\ faults' = faults + 1 /\ Push(r, FALSE)

-----------------------------------------------------------------------------
(* Pulling.                                                                *)

\* Variant: the batch is cut and the cursor is that of the server.
BatchToEnd(since) ==
  [events |-> [i \in 1..(IF Len(since) < Limit THEN Len(since) ELSE Limit) |-> log[since[i]]],
   next |-> Len(log)]

Batch(since) ==
  LET n == IF Len(since) < Limit THEN Len(since) ELSE Limit
  IN [events |-> [i \in 1..n |-> log[since[i]]], next |-> since[n]]

\* The server answers with the changes after the cursor.
Pull(r) ==
  LET since == ChangesSince(cursor[r], Keys) IN
  /\ part = "pull" /\ response[r] = None /\ Resumable(cursor[r]) /\ since # <<>>
  /\ response' = [response EXCEPT ![r] = Batch(since)]
  /\ UNCHANGED <<part, docs, log, replica, cursor, queue, watcher, writes, queued, faults>>

\* The cursor has expired: the server sends its records and sequence instead.
PullSnapshot(r) ==
  /\ part = "pull" /\ response[r] = None /\ ~Resumable(cursor[r])
  /\ response' = [response EXCEPT ![r] = [docs |-> docs, next |-> Len(log)]]
  /\ UNCHANGED <<part, docs, log, replica, cursor, queue, watcher, writes, queued, faults>>

IsSnapshot(r) == response[r] # None /\ "docs" \in DOMAIN response[r]
IsBatch(r) == response[r] # None /\ "events" \in DOMAIN response[r]

\* Variant: the ids of dropped changes are kept.
AppliedKept(local, change) ==
  IF change.id \in Range(local.recent) THEN local
  ELSE [docs |-> [local.docs EXCEPT ![change.key] = Resolve(@, change.record)],
        recent |-> Append(local.recent, change.id)]

\* applyReplicatedChange at the replica: a change whose id it retains is skipped.
Applied(local, change) ==
  IF change.id \in Range(local.recent) THEN local
  ELSE [docs |-> [local.docs EXCEPT ![change.key] = Resolve(@, change.record)],
        recent |-> Newest(Append(local.recent, change.id))]

Apply(r) ==
  /\ IsBatch(r) /\ response[r].events # <<>>
  /\ replica' = [replica EXCEPT ![r] = Applied(@, Head(response[r].events))]
  /\ response' = [response EXCEPT ![r].events = Tail(@)]
  /\ UNCHANGED <<part, docs, log, cursor, queue, watcher, writes, queued, faults>>

EndPull(r) ==
  /\ IsBatch(r) /\ response[r].events = <<>>
  /\ cursor' = [cursor EXCEPT ![r] = response[r].next]
  /\ response' = [response EXCEPT ![r] = None]
  /\ UNCHANGED <<part, docs, log, replica, queue, watcher, writes, queued, faults>>

\* replaceState: the records are the snapshot's, the history starts anew.
Reseed(r) ==
  /\ IsSnapshot(r)
  /\ replica' = [replica EXCEPT ![r] = [docs |-> response[r].docs, recent |-> <<>>]]
  /\ cursor' = [cursor EXCEPT ![r] = response[r].next]
  /\ response' = [response EXCEPT ![r] = None]
  /\ UNCHANGED <<part, docs, log, queue, watcher, writes, queued, faults>>

\* The replica's process stops.  Its database and its queue are durable; the
\* client is built again with the last cursor, or with the default.
Restart(r) ==
  /\ part = "pull" /\ faults < MaxFaults /\ faults' = faults + 1
  /\ response' = [response EXCEPT ![r] = None]
  /\ \E c \in {0, cursor[r]} : cursor' = [cursor EXCEPT ![r] = c]
  /\ UNCHANGED <<part, docs, log, replica, queue, watcher, writes, queued>>

-----------------------------------------------------------------------------
(* The stream.                                                             *)

\* Variant: the subscription starts at the present.
ReplayedNone == <<>>

Replayed == ChangesSince(position, Watched)

Connect ==
  /\ part = "watch" /\ stream.status = "idle"
  /\ stream' = IF Resumable(position)
               THEN [status |-> "reading", open |-> TRUE, wire |-> Replayed]
               ELSE [Idle EXCEPT !.status = "refused"]
  /\ UNCHANGED <<part, docs, log, followers, queue, position, seen, writes, queued, faults>>

\* A block is read: the cursor is its id, and the iterator gives the change.
Read ==
  /\ stream.wire # <<>>
  /\ position' = Head(stream.wire)
  /\ seen' = Append(seen, Head(stream.wire))
  /\ stream' = [stream EXCEPT !.wire = Tail(@)]
  /\ UNCHANGED <<part, docs, log, followers, queue, writes, queued, faults>>

\* The server ends the response (backpressure, close): what is written arrives.
EndStream ==
  /\ stream.open /\ faults < MaxFaults /\ faults' = faults + 1
  /\ stream' = [stream EXCEPT !.open = FALSE]
  /\ UNCHANGED <<part, docs, log, followers, queue, position, seen, writes, queued>>

\* The connection is lost with what was under way.
BreakStream ==
  /\ stream.status = "reading" /\ faults < MaxFaults /\ faults' = faults + 1
  /\ stream' = Idle
  /\ UNCHANGED <<part, docs, log, followers, queue, position, seen, writes, queued>>

\* The body has ended: watch() waits and connects again.
EndOfBody ==
  /\ stream.status = "reading" /\ ~stream.open /\ stream.wire = <<>>
  /\ stream' = Idle
  /\ UNCHANGED <<part, docs, log, followers, queue, position, seen, writes, queued, faults>>

-----------------------------------------------------------------------------
Records == Vals \cup {NoRecord}

Follow(r) == Pull(r) \/ PullSnapshot(r) \/ Apply(r) \/ EndPull(r) \/ Reseed(r)
Watch == Connect \/ Read \/ EndOfBody

Next ==
  \/ \E k \in Keys, v \in Records : Write(k, v)
  \/ \E r \in Replicas, k \in Keys, v \in Records : Enqueue(r, k, v)
  \/ \E r \in Replicas : FlushAnswered(r) \/ FlushUnanswered(r) \/ Follow(r) \/ Restart(r)
  \/ Watch \/ EndStream \/ BreakStream

Spec ==
  /\ Init /\ [][Next]_vars
  /\ \A r \in Replicas : WF_vars(Follow(r)) /\ WF_vars(FlushAnswered(r))
  /\ WF_vars(Watch)

-----------------------------------------------------------------------------
Events == [id : {"server", "client"} \X Nat, key : Keys, record : Records]

TypeOK ==
  /\ docs \in [Keys -> Records] /\ log \in Seq(Events)
  /\ \A r \in Replicas :
       /\ replica[r].docs \in [Keys -> Records] /\ Len(replica[r].recent) <= Retention
       /\ cursor[r] \in 0..Len(log)
       /\ IsSnapshot(r) => response[r].docs \in [Keys -> Records]
       /\ IsBatch(r) => response[r].events \in Seq(Events)
       /\ queue[r] \in Seq(Events)
  /\ stream.status \in {"idle", "reading", "refused"} /\ stream.open \in BOOLEAN
  /\ position \in 0..Len(log) /\ Range(seen) \subseteq 1..Len(log)

\* A replica whose cursor has reached the sequence of the server has its
\* records, whatever was applied twice, reseeded, or resolved on the way
\* (ReplicationClient.pull, applyReplicatedChange).
Converged ==
  \A r \in Replicas :
    response[r] = None /\ cursor[r] = Len(log) => replica[r].docs = docs

\* A batch holds every change after the cursor it is asked for, up to the one
\* it gives: an expired cursor never gets a partial history (resumeStatus).
NoPartialHistory ==
  [][\A r \in Replicas :
       response[r] = None /\ IsBatch(r)' =>
         response'[r].events = SubSeq(log, cursor[r] + 1, response'[r].next)]_vars

\* While the server retains a pushed change it has no second one with its id,
\* though the push is repeated when its answer is lost.
PushedOnce ==
  \A i, j \in OldestRetained..Len(log) : log[i].id = log[j].id => i = j

\* Across reconnections the iterator of watch() has given every change of the
\* collection up to its cursor, once and in order.
StreamComplete ==
  /\ Range(seen) = {i \in 1..position : log[i].key \in Watched}
  /\ \A i, j \in DOMAIN seen : i < j => seen[i] < seen[j]

\* What was queued reaches the server, every replica ends with its records, and
\* a watching client is given everything, unless it is told to start anew.
CatchesUp ==
  <>[](/\ \A r \in Replicas : queue[r] = <<>> /\ (part = "pull" => replica[r].docs = docs)
       /\ part = "watch" => \/ stream.status = "refused"
                            \/ Len(seen) = Len(SelectSeq(log, LAMBDA e : e.key \in Watched)))

\* Whoever follows the server has what the server has: replicas at its sequence
\* its records, a watching client the changes up to its position; and a
\* repeated push has added nothing to either.
FollowersAgree == TypeOK /\ Converged /\ PushedOnce /\ StreamComplete
=============================================================================
