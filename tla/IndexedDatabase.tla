---------------------------- MODULE IndexedDatabase ----------------------------
(***************************************************************************)
(* Indexes, schemas, TTL and text search beside the engine:                *)
(* src/src/indexed.js and, around it, src/src/production-db.js.            *)
(*                                                                         *)
(* A call decides at once which way it goes, queues behind the engine's    *)
(* other writes, and works on the indexes after its commit.  Definitions   *)
(* do not queue: they change the memory at once and are saved later.       *)
(* One collection with one index; a record is the value of the indexed     *)
(* field, a scalar or an array (a set of scalars); the text index and the  *)
(* geo index work alike and are one.  The engine works on a queued call in *)
(* one step, checks included, and what it decided lands when the log has   *)
(* it; what an append that fails or is cut off can leave in the log is     *)
(* here only as far as the next open tells (SyncioDatabase has the rest).  *)
(***************************************************************************)
EXTENDS Integers, Sequences

CONSTANTS
  Ids, Scalars, Arrays, NoRecord,
  Valid,      \* the values the schema accepts
  Expired,    \* the values the TTL index finds expired
  Kinds,      \* the metadata that is defined: of "schema", "text", "ttl"
  States,     \* the states replaceState is called with
  Faults, MaxCalls, MaxQueued, MaxFaults

Vals == Scalars \cup Arrays
ASSUME IndexedAssumption ==
  /\ Arrays \subseteq SUBSET Scalars /\ NoRecord \notin Vals
  /\ Valid \subseteq Vals /\ Expired \subseteq Vals /\ States \subseteq [Ids -> Vals \cup {NoRecord}]
  /\ MaxCalls \in Nat /\ MaxQueued \in Nat /\ MaxFaults \in Nat

VARIABLES
  docs,       \* the engine's records: durable and in memory
  queue,      \* calls waiting in the engine's write queue
  landing,    \* the call whose work is done, awaiting the log, and the records it makes
  tail,       \* what the log holds that nothing acknowledged
  settling,   \* the committed call whose continuation is due
  definition, \* definitions: the index, "none", "plain" or "unique"
  index,      \* its map, as pairs; built is FALSE when a rebuild threw
  built,
  saves,      \* defineIndex and dropIndex calls waiting to save the catalog
  catalog,    \* the catalog file
  promised,   \* what the last of them that returned established
  failed,     \* the last save failed: the file may be the one before or the new one
  metadata, text, unsaved, file,  \* production-db: metadata, text index, a save due, its file
  mode,       \* "up", "down", or "broken" when open throws
  disturbed,  \* how definitions and writes came across each other
  calls, faults

wrapped == <<docs, queue, landing, tail, settling>>
indexed == <<definition, index, built, saves, catalog, promised, failed>>
production == <<metadata, text, unsaved, file>>
vars == <<wrapped, indexed, production, mode, disturbed, calls, faults>>

NoCall == [op |-> "none"]

\* A refused line or a fragment of one: the records it makes of those there when it
\* is read; or a log that cannot be read.
Clean == [kind |-> "clean"]
Refuse(records) == [kind |-> "refused", records |-> records]
Unreadable == [kind |-> "unreadable"]

\* Variant of DocumentIndex.rebuild that indexes what is not there.
PairsOfAll(records) == {<<records[i], i>> : i \in Ids}

Pairs(records) == {<<records[i], i>> : i \in {j \in Ids : records[j] # NoRecord}}
Duplicates(records) ==
  \E i, j \in Ids : i # j /\ records[i] # NoRecord /\ records[i] = records[j]

Init ==
  /\ docs = [i \in Ids |-> NoRecord] /\ queue = << >> /\ settling = NoCall
  /\ landing = NoCall /\ tail = Clean
  /\ definition = "none" /\ index = {} /\ built = TRUE /\ saves = << >>
  /\ catalog = "none" /\ promised = "none" /\ failed = FALSE
  /\ metadata = {} /\ text = docs /\ unsaved = FALSE /\ file = {}
  /\ mode = "up" /\ disturbed = {} /\ calls = 0 /\ faults = 0

Up == mode = "up"
Counted == Up /\ calls < MaxCalls /\ calls' = calls + 1
Queued(c) == Len(queue) < MaxQueued /\ queue' = Append(queue, c)
Fault(kind) == kind \in Faults /\ faults < MaxFaults /\ faults' = faults + 1
Disturb(cause, if) == disturbed' = IF if THEN disturbed \cup {cause} ELSE disturbed
Conforms(v) == v \in Valid
Accepted(v) == "schema" \in metadata => Conforms(v)

-----------------------------------------------------------------------------
\* Writes.  A plain call updates the index afterwards by what it read before; with
\* a unique index, insert and upsert are transactions, which check and rebuild, as
\* transaction and applyReplicationChange (its resolver) always do.

Plain(c) == c.op \in {"insert", "upsert", "remove"} /\ ~c.checked

\* Variant of a call that is not validated.
CallUnchecked(op, i, v) ==
  Queued([op |-> op, id |-> i, value |-> v, checked |-> op = "transaction" \/ definition = "unique",
          before |-> IF op = "insert" THEN NoRecord ELSE docs[i]])

Call(op, i, v) ==
  /\ op # "transaction" => Accepted(v)
  /\ Queued([op |-> op, id |-> i, value |-> v, checked |-> op = "transaction" \/ definition = "unique",
             before |-> IF op = "insert" THEN NoRecord ELSE docs[i]])

Write ==
  /\ Counted
  /\ \E op \in {"insert", "upsert", "transaction"}, i \in Ids, v \in Vals : Call(op, i, v)
  /\ UNCHANGED <<docs, landing, tail, settling, indexed, production, mode, disturbed, faults>>

\* update upserts a new version of the record it reads.
Update ==
  /\ Counted
  /\ \E i \in Ids, v \in Vals : docs[i] # NoRecord /\ Call("upsert", i, v)
  /\ UNCHANGED <<docs, landing, tail, settling, indexed, production, mode, disturbed, faults>>

Remove ==
  /\ Counted
  /\ \E i \in Ids : Queued([op |-> "remove", id |-> i, before |-> docs[i], checked |-> FALSE])
  /\ UNCHANGED <<docs, landing, tail, settling, indexed, production, mode, disturbed, faults>>

\* sweepExpired reads what has expired, then removes it in a transaction.
Sweep ==
  LET expired == {i \in Ids : docs[i] \in Expired}
  IN /\ Counted /\ "ttl" \in metadata /\ expired # {}
     /\ Queued([op |-> "sweep", ids |-> expired])
     /\ UNCHANGED <<docs, landing, tail, settling, indexed, production, mode, disturbed, faults>>

\* replaceState checks the schema and nothing else.
Replace ==
  /\ Counted
  /\ \E state \in States :
       /\ \A i \in Ids : state[i] # NoRecord => Accepted(state[i])
       /\ Queued([op |-> "replace", state |-> state])
  /\ UNCHANGED <<docs, landing, tail, settling, indexed, production, mode, disturbed, faults>>

\* Variant of the uniqueness check that compares with nothing but the record itself.
ClashSelf(c) == definition = "unique" /\ c.value # NoRecord /\ docs[c.id] = c.value

Clash(c) == definition = "unique" /\ \E j \in Ids \ {c.id} : docs[j] = c.value

\* What a call commits when its turn comes; docs itself when it rejects.
Committed(c) ==
  CASE c.op = "sweep" -> [i \in Ids |-> IF i \in c.ids THEN NoRecord ELSE docs[i]]
    [] c.op = "replace" -> c.state
    [] c.op = "remove" -> [docs EXCEPT ![c.id] = NoRecord]
    [] OTHER ->
         IF \/ c.op = "insert" /\ docs[c.id] # NoRecord
            \/ c.checked /\ Clash(c)
            \/ c.op = "transaction" /\ ~Accepted(c.value)
         THEN docs ELSE [docs EXCEPT ![c.id] = c.value]

\* The work of a call, behind that of the last one; one that rejects or changes
\* nothing appends nothing.  The continuation of the call before may still be due.
Work ==
  /\ Up /\ landing = NoCall /\ queue # << >> /\ queue' = Tail(queue)
  /\ LET c == Head(queue)
     IN landing' = IF Committed(c) = docs THEN NoCall ELSE [call |-> c, records |-> Committed(c)]
  /\ UNCHANGED <<docs, tail, settling, indexed, production, mode, disturbed, calls, faults>>

\* The log has it.  A line behind what was refused makes the log unreadable, unless a
\* checkpoint of this commit writes it anew.
Land ==
  /\ Up /\ landing # NoCall /\ settling = NoCall
  /\ docs' = landing.records /\ settling' = landing.call /\ landing' = NoCall
  /\ tail' \in IF tail = Clean THEN {Clean} ELSE {Clean, Unreadable}
  /\ Disturb("replaced", landing.call.op = "replace" /\ Duplicates(docs'))
  /\ UNCHANGED <<queue, indexed, production, mode, calls, faults>>

\* The append fails and the call with it: nothing, a fragment or the whole line stays.
LandFails ==
  /\ Up /\ landing # NoCall /\ settling = NoCall /\ Fault("io") /\ landing' = NoCall
  /\ \/ UNCHANGED <<tail, disturbed>>
     \/ /\ disturbed' = disturbed \cup {"torn"}
        /\ tail' \in IF tail # Clean THEN {tail, Unreadable}
                     ELSE {Refuse(docs), Refuse(landing.records)}
  /\ UNCHANGED <<docs, queue, settling, indexed, production, mode, calls>>

\* rebuildAll: a duplicate under a unique index throws and leaves no index.
Rebuild(kind, records) ==
  /\ built' = (kind = "unique" => ~Duplicates(records))
  /\ index' = IF built' /\ kind # "none" THEN Pairs(records) ELSE {}

\* Variant of #updateIndexes that drops the whole entry of the old value.
PatchedEntry(c) ==
  {p \in index : p[1] # c.before}
    \cup (IF c.op = "remove" THEN {} ELSE {<<c.value, c.id>>})

\* The index after a plain call: its entry moves to the new value.
Patched(c) ==
  (index \ {<<c.before, c.id>>}) \cup (IF c.op = "remove" THEN {} ELSE {<<c.value, c.id>>})

\* DocumentIndex.add refuses a second record; the old entry is gone by then.
Refused(c) ==
  /\ definition = "unique" /\ c.op # "remove"
  /\ {p \in index \ {<<c.before, c.id>>} : p[1] = c.value} \notin {{}, {<<c.value, c.id>>}}

\* Variant of the continuation that leaves the text index to the next write.
SettleWithoutText ==
  /\ Up /\ settling # NoCall /\ settling' = NoCall
  /\ Rebuild(definition, docs)
  /\ UNCHANGED <<docs, queue, landing, tail, definition, saves, catalog, promised, failed, text,
                 metadata, unsaved, file, mode, disturbed, calls, faults>>

\* The continuation of a committed call; the text index is rebuilt when the
\* layer below returned.
Settle ==
  /\ Up /\ settling # NoCall /\ settling' = NoCall
  /\ IF ~Plain(settling) THEN Rebuild(definition, docs) /\ text' = IF built' THEN docs ELSE text
     ELSE /\ index' = IF definition = "none" \/ ~built THEN index
                      ELSE IF Refused(settling) THEN index \ {<<settling.before, settling.id>>}
                      ELSE Patched(settling)
          /\ text' = IF built /\ Refused(settling) THEN text ELSE docs
          /\ UNCHANGED built
  /\ UNCHANGED <<docs, queue, landing, tail, definition, saves, catalog, promised, failed,
                 metadata, unsaved, file, mode, disturbed, calls, faults>>

-----------------------------------------------------------------------------
\* Definitions.

\* A write is on its way that the constraint does not see: one in the queue that its
\* work will not check, or one whose work is done and that is not in the records yet.
Overtaken(constraint) ==
  \/ \E n \in DOMAIN queue :
       \/ queue[n].op = "replace"
       \/ queue[n].op \in {"insert", "upsert"} /\ (constraint = "unique" => ~queue[n].checked)
  \/ landing # NoCall /\ landing.call.op \notin {"remove", "sweep"}

\* Variant of defineIndex that does not build the index first.
DefineUnbuilt(kind) ==
  /\ Counted /\ definition = "none"
  /\ definition' = kind /\ index' = Pairs(docs) /\ built' = TRUE
  /\ saves' = Append(saves, [kind |-> kind, previous |-> definition, alone |-> saves = << >>])
  /\ Disturb("raced", kind = "unique" /\ Overtaken(kind))
  /\ UNCHANGED <<wrapped, catalog, promised, failed, production, mode, faults>>

DefineIndex(kind) ==
  /\ Counted /\ definition = "none"
  /\ kind = "unique" => ~Duplicates(docs)
  /\ definition' = kind /\ index' = Pairs(docs) /\ built' = TRUE
  /\ saves' = Append(saves, [kind |-> kind, previous |-> definition, alone |-> saves = << >>])
  /\ Disturb("raced", kind = "unique" /\ Overtaken(kind))
  /\ UNCHANGED <<wrapped, catalog, promised, failed, production, mode, faults>>

DropIndex ==
  /\ Counted /\ definition # "none"
  /\ definition' = "none" /\ Rebuild("none", docs)
  /\ saves' = Append(saves, [kind |-> "none", previous |-> definition, alone |-> saves = << >>])
  /\ UNCHANGED <<wrapped, catalog, promised, failed, production, mode, disturbed, faults>>

\* The catalog is written with the definitions of that moment.
SaveCatalog ==
  /\ Up /\ saves # << >> /\ saves' = Tail(saves)
  /\ catalog' = definition /\ failed' = FALSE
  /\ promised' = IF saves' = << >> THEN Head(saves).kind ELSE promised
  /\ UNCHANGED <<wrapped, definition, index, built, production, mode, disturbed, calls, faults>>

\* Variant that leaves the definitions as they are.
SaveCatalogForgets ==
  /\ Up /\ saves # << >> /\ Fault("io") /\ saves' = Tail(saves)
  /\ catalog' \in {catalog, definition} /\ failed' = TRUE
  /\ UNCHANGED <<wrapped, definition, index, built, promised, production, mode, disturbed, calls>>

\* The failed call puts back the definitions it found, over any made since; the file
\* is the new one when what failed is the sync of the directory behind the rename.
SaveCatalogFails ==
  /\ Up /\ saves # << >> /\ Fault("io") /\ saves' = Tail(saves)
  /\ catalog' \in {catalog, definition} /\ failed' = TRUE
  /\ definition' = Head(saves).previous /\ Rebuild(definition', docs)
  /\ disturbed' = disturbed
       \cup (IF saves' = << >> /\ Head(saves).alone THEN {} ELSE {"overlapped"})
       \cup (IF built' /\ ~(definition' = "unique" /\ Overtaken("unique")) THEN {} ELSE {"raced"})
  /\ UNCHANGED <<wrapped, promised, production, mode, calls>>

\* defineSchema checks the records there are; a text index is built from them.
DefineMetadata(kind) ==
  /\ Counted /\ kind \notin metadata
  /\ kind = "schema" => \A i \in Ids : docs[i] # NoRecord => Conforms(docs[i])
  /\ metadata' = metadata \cup {kind} /\ unsaved' = TRUE
  /\ text' = IF kind = "text" THEN docs ELSE text
  /\ Disturb("raced", kind = "schema" /\ Overtaken(kind))
  /\ UNCHANGED <<wrapped, indexed, file, mode, faults>>

DropMetadata(kind) ==
  /\ Counted /\ kind \in metadata
  /\ metadata' = metadata \ {kind} /\ unsaved' = TRUE
  /\ UNCHANGED <<wrapped, indexed, text, file, mode, disturbed, faults>>

SaveMetadata ==
  /\ Up /\ unsaved /\ unsaved' = FALSE /\ file' = metadata
  /\ UNCHANGED <<wrapped, indexed, metadata, text, mode, disturbed, calls, faults>>

\* Nothing is put back: the definition holds until the restart, and after it when the
\* rename was done.
SaveMetadataFails ==
  /\ Up /\ unsaved /\ Fault("io") /\ unsaved' = FALSE /\ file' \in {file, metadata}
  /\ UNCHANGED <<wrapped, indexed, metadata, text, mode, disturbed, calls>>

-----------------------------------------------------------------------------
\* What the next open will read: of a line under way all, nothing or a fragment.
Crash ==
  /\ Up /\ Fault("crash") /\ mode' = "down"
  /\ queue' = << >> /\ landing' = NoCall /\ settling' = NoCall /\ saves' = << >> /\ unsaved' = FALSE
  /\ \/ docs' = docs /\ UNCHANGED tail
     \/ landing # NoCall /\ tail = Clean /\ docs' = landing.records /\ UNCHANGED tail
     \/ landing # NoCall /\ docs' = docs /\ tail' = IF tail = Clean THEN Refuse(docs) ELSE Unreadable
  /\ disturbed' = disturbed
       \cup (IF catalog # definition \/ metadata # file THEN {"unsaved"} ELSE {})
       \cup (IF tail' # tail THEN {"torn"} ELSE {})
       \cup (IF landing # NoCall /\ landing.call.op = "replace" /\ Duplicates(docs')
             THEN {"replaced"} ELSE {})
  /\ promised' = IF saves = << >> /\ ~failed THEN promised ELSE catalog
  /\ failed' = FALSE
  /\ UNCHANGED <<definition, index, built, catalog, metadata, text, file, calls>>

\* The log is read, with a line that was refused, and the constructors rebuild every
\* index; one that throws fails the open.  A fragment stays in the log.
Open ==
  /\ mode = "down"
  /\ docs' = IF tail.kind = "refused" THEN tail.records ELSE docs
  /\ tail' = IF docs' # docs THEN Clean ELSE tail
  /\ definition' = catalog /\ failed' = FALSE /\ Rebuild(catalog, docs')
  /\ metadata' = file /\ text' = docs'
  /\ mode' = IF built' /\ tail # Unreadable THEN "up" ELSE "broken"
  /\ UNCHANGED <<queue, landing, settling, saves, catalog, promised, unsaved, file, disturbed,
                 calls, faults>>

Next ==
  \/ Write \/ Update \/ Remove \/ Sweep \/ Replace
  \/ Work \/ Land \/ LandFails \/ Settle
  \/ \E kind \in {"plain", "unique"} : DefineIndex(kind)
  \/ DropIndex \/ SaveCatalog \/ SaveCatalogFails
  \/ \E kind \in Kinds : DefineMetadata(kind) \/ DropMetadata(kind)
  \/ SaveMetadata \/ SaveMetadataFails \/ Crash \/ Open

Spec == Init /\ [][Next]_vars

-----------------------------------------------------------------------------
\* Queries: an equality on the indexed field takes the index when there is one, and
\* what it finds is filtered by the condition; an array holds its elements.
Holds(v, w) == v = w \/ (v \in Arrays /\ w \in v)
Scan(w) == {i \in Ids : docs[i] # NoRecord /\ Holds(docs[i], w)}
Query(w) ==
  IF definition = "none" \/ ~built THEN Scan(w)
  ELSE {i \in Scan(w) : <<w, i>> \in index}
\* A text search finds ids through the text index and drops the removed ones.
Search(w) == {i \in Ids : text[i] # NoRecord /\ Holds(text[i], w) /\ docs[i] # NoRecord}

TypeOK ==
  /\ docs \in [Ids -> Vals \cup {NoRecord}] /\ text \in [Ids -> Vals \cup {NoRecord}]
  /\ definition \in {"none", "plain", "unique"} /\ catalog \in {"none", "plain", "unique"}
  /\ index \in SUBSET (Vals \X Ids) /\ metadata \subseteq Kinds /\ file \subseteq Kinds
  /\ calls \in 0..MaxCalls /\ faults \in 0..MaxFaults

Quiet == Up /\ settling = NoCall /\ disturbed = {}

\* However overlapping calls interleave - each takes from the index the value it
\* read before it queued - a query by a scalar finds through the index every scalar
\* record a scan finds (#updateIndexes).
QueryMatchesScan == Quiet => \A w \in Scalars : {i \in Scan(w) : docs[i] = w} \subseteq Query(w)

\* A query by index finds what a scan finds, arrays included.
IndexSatisfiesQuery == Quiet => \A w \in Scalars : Query(w) = Scan(w)

\* No two records share a value under a unique index, unless its definition overtook
\* a write on its way - in the queue unchecked, or checked before there was the index
\* and awaiting the log - or a state with duplicates replaced the records
\* (#assertUniqueCandidateAgainstRecords).
UniqueHolds == Quiet /\ definition = "unique" => ~Duplicates(docs)

\* Every record conforms to an enforced schema, although writes are checked when they
\* are called, not when they commit - unless its definition overtook one on its way
\* (#validateRecord).
SchemaHolds ==
  Up /\ "schema" \in metadata /\ disturbed = {} => \A i \in Ids : docs[i] \in Valid \cup {NoRecord}

\* The database opens again after any crash, unless the file on disk was not what the
\* memory enforced, a definition overtook a write, a replaced state had duplicates or a
\* torn or refused line was left in the log (open, #rebuildAll).
OpensAgain == mode = "broken" => disturbed # {}

\* Once no save is due, memory holds what the last define or drop that returned
\* established, unless one failed that ran beside another; and so does the file, unless
\* the last save failed, whose file may be either (defineIndex).
IndexIsAsPromised ==
  Up /\ saves = << >> /\ "overlapped" \notin disturbed
    => definition = promised /\ (catalog = promised \/ failed)

\* When no call is on its way to the index, text search finds what a scan finds,
\* whichever layer's call wrote it (#rebuildCollectionSpecialIndexes).
SearchIsCurrent == Quiet /\ "text" \in metadata => \A w \in Scalars : Search(w) = Scan(w)

\* However calls overlap, index and text search answer as a scan of the records
\* does (indexed.js:97-110, production-db.js).
AnswersAreCurrent == QueryMatchesScan /\ SearchIsCurrent

\* What a definition that returned promises is kept by every later write: unique
\* values, the schema, and the definition itself, in memory and on disk.
DefinitionsHold == TypeOK /\ UniqueHolds /\ SchemaHolds /\ IndexIsAsPromised
=============================================================================
