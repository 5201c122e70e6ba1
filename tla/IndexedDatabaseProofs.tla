-------------------------- MODULE IndexedDatabaseProofs --------------------------
(***************************************************************************)
(* Proofs about IndexedDatabase, for any identifiers, values, schema, time *)
(* to live, replaced states and number of calls and faults: every          *)
(* invariant that its run checks.                                          *)
(*                                                                         *)
(* The queued calls are where the argument lies: what a call was checked   *)
(* against, or read, when it was made must still do when its turn comes.   *)
(***************************************************************************)
EXTENDS IndexedDatabase, SequenceTheorems, TLAPS

Stored == Vals \cup {NoRecord}
Definitions == {"none", "plain", "unique"}
Writes ==
  {c \in [op : {"insert", "upsert", "transaction"}, id : Ids, value : Vals, checked : BOOLEAN,
          before : Stored] : c.op = "transaction" => c.checked}
Calls ==
  Writes \cup [op : {"remove"}, id : Ids, before : Stored, checked : {FALSE}]
    \cup [op : {"sweep"}, ids : SUBSET Ids] \cup [op : {"replace"}, state : [Ids -> Stored]]
Landings == [call : Calls, records : [Ids -> Stored]]
Tails == {Clean, Unreadable} \cup [kind : {"refused"}, records : [Ids -> Stored]]
Saves == [kind : Definitions, previous : Definitions, alone : BOOLEAN]

Typed ==
  /\ TypeOK
  /\ queue \in Seq(Calls) /\ settling \in Calls \cup {NoCall}
  /\ landing \in Landings \cup {NoCall} /\ tail \in Tails /\ failed \in BOOLEAN
  /\ built \in BOOLEAN /\ saves \in Seq(Saves) /\ promised \in Definitions
  /\ mode \in {"up", "down", "broken"}

-----------------------------------------------------------------------------
(* Calls and sequences.                                                    *)

LEMMA CallFields ==
  ASSUME NEW c \in Calls
  PROVE  /\ c.op \in {"insert", "upsert", "transaction", "remove", "sweep", "replace"}
         /\ c.op \in {"insert", "upsert", "transaction"} => c.id \in Ids /\ c.value \in Vals
         /\ c.op = "transaction" => c.checked
         /\ c.op = "remove" => c.id \in Ids /\ c.checked = FALSE
         /\ c.op = "sweep" => c.ids \in SUBSET Ids
         /\ c.op = "replace" => c.state \in [Ids -> Stored]
         /\ c # NoCall
  <1>1. CASE c \in Writes
    BY <1>1 DEF Writes, NoCall
  <1>2. CASE c \in [op : {"remove"}, id : Ids, before : Stored, checked : {FALSE}]
    <2>1. c.op = "remove" /\ c.id \in Ids /\ c.checked \in {FALSE}
      BY <1>2
    <2>2. c.checked = FALSE
      BY <2>1, Zenon
    <2>3. QED
      BY <2>1, <2>2 DEF NoCall
  <1>3. CASE c \in [op : {"sweep"}, ids : SUBSET Ids]
    BY <1>3 DEF NoCall
  <1>4. CASE c \in [op : {"replace"}, state : [Ids -> Stored]]
    BY <1>4 DEF NoCall
  <1>5. QED
    BY <1>1, <1>2, <1>3, <1>4 DEF Calls

LEMMA Length ==
  ASSUME NEW S, NEW s \in Seq(S)
  PROVE  Len(s) \in Nat /\ DOMAIN s = 1..Len(s) /\ (s = << >> <=> Len(s) = 0)
  OBVIOUS

LEMMA HeadTail ==
  ASSUME NEW S, NEW s \in Seq(S), s # << >>
  PROVE  /\ Head(s) \in S /\ Head(s) = s[1] /\ Tail(s) \in Seq(S)
         /\ Len(s) \in Nat /\ Len(s) >= 1 /\ Len(Tail(s)) = Len(s) - 1
         /\ \A n \in DOMAIN Tail(s) : n + 1 \in DOMAIN s /\ Tail(s)[n] = s[n + 1]
         /\ DOMAIN s = 1..Len(s) /\ DOMAIN Tail(s) = 1..Len(Tail(s))
         /\ Tail(s) = << >> <=> Len(s) = 1
  <1>1. /\ Len(s) \in Nat /\ Len(s) >= 1 /\ DOMAIN s = 1..Len(s)
        /\ \A n \in 1..Len(s) : s[n] \in S
    OBVIOUS
  <1>2. /\ Head(s) \in S /\ Tail(s) \in Seq(S) /\ Len(Tail(s)) = Len(s) - 1
        /\ \A n \in 1..Len(Tail(s)) : Tail(s)[n] = s[n + 1]
    BY <1>1, HeadTailProperties
  <1>3. Head(s) = s[1]
    OBVIOUS
  <1>4. DOMAIN Tail(s) = 1..Len(Tail(s)) /\ (Tail(s) = << >> <=> Len(Tail(s)) = 0)
    BY <1>2, Length
  <1>5. QED
    BY <1>1, <1>2, <1>3, <1>4

LEMMA Appended ==
  ASSUME NEW S, NEW s \in Seq(S), NEW x \in S
  PROVE  /\ Append(s, x) \in Seq(S) /\ Append(s, x) # << >>
         /\ Len(s) \in Nat /\ Len(Append(s, x)) = Len(s) + 1
         /\ DOMAIN s = 1..Len(s) /\ DOMAIN Append(s, x) = 1..(Len(s) + 1)
         /\ \A n \in DOMAIN s : Append(s, x)[n] = s[n]
         /\ Append(s, x)[Len(s) + 1] = x
         /\ s = << >> <=> Len(s) = 0
  OBVIOUS

LEMMA CallType ==
  ASSUME Typed, NEW op \in {"insert", "upsert", "transaction"}, NEW i \in Ids, NEW v \in Vals,
         Call(op, i, v)
  PROVE  /\ queue' \in Seq(Calls)
         /\ \E c \in Writes :
              /\ queue' = Append(queue, c) /\ c.op = op /\ c.value = v
              /\ definition = "unique" => c.checked
              /\ op # "transaction" => Accepted(c.value)
  <1> DEFINE c == [op |-> op, id |-> i, value |-> v,
                   checked |-> op = "transaction" \/ definition = "unique",
                   before |-> IF op = "insert" THEN NoRecord ELSE docs[i]]
  <1>1. (op = "transaction" \/ definition = "unique") \in BOOLEAN
    OBVIOUS
  <1>2. (IF op = "insert" THEN NoRecord ELSE docs[i]) \in Stored
    BY DEF Typed, TypeOK, Stored
  <1>3. c \in Writes
    BY <1>1, <1>2 DEF Writes
  <1>4. queue' = Append(queue, c) /\ (op # "transaction" => Accepted(v))
    BY DEF Call, Queued
  <1>5. c.op = op /\ c.value = v /\ (definition = "unique" => c.checked)
    OBVIOUS
  <1> HIDE DEF c
  <1>6. c \in Calls /\ queue \in Seq(Calls)
    BY <1>3 DEF Calls, Typed
  <1>7. QED
    BY <1>3, <1>4, <1>5, <1>6, Appended

LEMMA InitTyped == Init => Typed
  <1> SUFFICES ASSUME Init PROVE Typed
    OBVIOUS
  <1>1. landing \in Landings \cup {NoCall} /\ tail \in Tails /\ failed \in BOOLEAN
    BY DEF Init, Tails
  <1>2. TypeOK
    BY IndexedAssumption DEF Init, TypeOK, Pairs
  <1>3. QED
    BY <1>1, <1>2 DEF Init, Typed, Definitions

LEMMA LandingFields ==
  ASSUME NEW l \in Landings
  PROVE  l # NoCall /\ l.call \in Calls /\ l.records \in [Ids -> Stored]
  BY DEF Landings, NoCall

LEMMA RefusedTail ==
  ASSUME NEW records \in [Ids -> Stored]
  PROVE  /\ Refuse(records) \in Tails /\ Refuse(records) \notin {Clean, Unreadable}
         /\ Refuse(records).kind = "refused" /\ Refuse(records).records = records
  BY DEF Refuse, Tails, Clean, Unreadable

LEMMA TailFields ==
  ASSUME NEW t \in Tails
  PROVE  /\ t.kind = "refused" => t.records \in [Ids -> Stored]
         /\ Clean \in Tails /\ Unreadable \in Tails /\ Unreadable # Clean
         /\ Clean.kind # "refused"
  BY DEF Tails, Clean, Unreadable

\* A commit keeps the records records.
LEMMA CommittedType ==
  ASSUME docs \in [Ids -> Stored], NEW c \in Calls
  PROVE  Committed(c) \in [Ids -> Stored]
  <1>1. CASE c.op = "sweep"
    BY <1>1 DEF Committed, Stored
  <1>2. CASE c.op = "replace"
    BY <1>2, CallFields DEF Committed
  <1>3. CASE c.op = "remove"
    BY <1>3, CallFields DEF Committed, Stored
  <1>4. CASE c.op \in {"insert", "upsert", "transaction"}
    BY <1>4, CallFields DEF Committed, Stored
  <1>5. QED
    BY <1>1, <1>2, <1>3, <1>4, CallFields

LEMMA RebuildType ==
  ASSUME NEW kind \in Definitions, NEW records \in [Ids -> Stored], Rebuild(kind, records)
  PROVE  built' \in BOOLEAN /\ index' \in SUBSET (Vals \X Ids)
  BY DEF Rebuild, Pairs, Stored
LEMMA NextTyped == Typed /\ [Next]_vars => Typed'
  <1> SUFFICES ASSUME Typed, [Next]_vars PROVE Typed'
    OBVIOUS
  <1> USE DEF Stored, Definitions
  <1>1. CASE Write
    <2>1. PICK op \in {"insert", "upsert", "transaction"}, i \in Ids, v \in Vals : Call(op, i, v)
      BY <1>1 DEF Write
    <2>2. queue' \in Seq(Calls)
      BY <2>1, CallType
    <2>3. QED
      BY <1>1, <2>2, IndexedAssumption
      DEF Write, Counted, Typed, TypeOK, indexed, production
  <1>2. CASE Update
    <2>1. PICK i \in Ids, v \in Vals : Call("upsert", i, v)
      BY <1>2 DEF Update
    <2>2. queue' \in Seq(Calls)
      BY <2>1, CallType
    <2>3. QED
      BY <1>2, <2>2, IndexedAssumption
      DEF Update, Counted, Typed, TypeOK, indexed, production
  <1>3. CASE Remove
    <2>1. PICK i \in Ids :
            Queued([op |-> "remove", id |-> i, before |-> docs[i], checked |-> FALSE])
      BY <1>3 DEF Remove
    <2> DEFINE c == [op |-> "remove", id |-> i, before |-> docs[i], checked |-> FALSE]
    <2>2. c \in Calls
      BY DEF Calls, Typed, TypeOK
    <2>3. queue' \in Seq(Calls)
      BY <2>1, <2>2, Appended DEF Queued, Typed
    <2>4. QED
      BY <1>3, <2>3, IndexedAssumption
      DEF Remove, Counted, Typed, TypeOK, indexed, production
  <1>4. CASE Sweep
    <2> DEFINE c == [op |-> "sweep", ids |-> {i \in Ids : docs[i] \in Expired}]
    <2>1. c \in Calls
      BY DEF Calls
    <2>2. queue' \in Seq(Calls)
      BY <1>4, <2>1, Appended DEF Sweep, Queued, Typed
    <2>3. QED
      BY <1>4, <2>2, IndexedAssumption
      DEF Sweep, Counted, Typed, TypeOK, indexed, production
  <1>5. CASE Replace
    <2>1. PICK state \in States : Queued([op |-> "replace", state |-> state])
      BY <1>5 DEF Replace
    <2> DEFINE c == [op |-> "replace", state |-> state]
    <2>2. c \in Calls
      BY IndexedAssumption DEF Calls
    <2>3. queue' \in Seq(Calls)
      BY <2>1, <2>2, Appended DEF Queued, Typed
    <2>4. QED
      BY <1>5, <2>3, IndexedAssumption
      DEF Replace, Counted, Typed, TypeOK, indexed, production
  <1>6. CASE Work
    <2>1. Head(queue) \in Calls /\ queue' \in Seq(Calls)
      BY <1>6, HeadTail DEF Work, Typed
    <2>2. Committed(Head(queue)) \in [Ids -> Stored]
      BY <2>1, CommittedType DEF Typed, TypeOK
    <2>3. landing' \in Landings \cup {NoCall}
      BY <1>6, <2>1, <2>2 DEF Work, Landings
    <2>4. QED
      BY <1>6, <2>1, <2>3 DEF Work, Typed, TypeOK, indexed, production
  <1>18. CASE Land
    <2>1. landing.call \in Calls /\ landing.records \in [Ids -> Stored]
      BY <1>18, LandingFields DEF Land, Typed
    <2>2. tail' \in Tails
      BY <1>18, TailFields DEF Land, Typed
    <2>3. QED
      BY <1>18, <2>1, <2>2 DEF Land, Typed, TypeOK, indexed, production
  <1>19. CASE LandFails
    <2>1. landing.records \in [Ids -> Stored] /\ docs \in [Ids -> Stored]
      BY <1>19, LandingFields DEF LandFails, Typed, TypeOK
    <2>2. tail' \in Tails
      BY <1>19, <2>1, TailFields, RefusedTail DEF LandFails, Typed
    <2>3. QED
      BY <1>19, <2>2, IndexedAssumption DEF LandFails, Fault, Typed, TypeOK, indexed, production
  <1>7. CASE Settle
    <2>1. settling \in Calls /\ settling' = NoCall
      BY <1>7 DEF Settle, Typed
    <2>2. CASE Plain(settling)
      <3>1. settling.op # "remove" => settling.id \in Ids /\ settling.value \in Vals
        BY <2>1, <2>2, CallFields DEF Plain
      <3>2. index' \in SUBSET (Vals \X Ids) /\ text' \in [Ids -> Stored] /\ built' \in BOOLEAN
        BY <1>7, <2>2, <3>1 DEF Settle, Patched, Typed, TypeOK
      <3>3. QED
        BY <1>7, <2>1, <3>2 DEF Settle, Typed, TypeOK, production
    <2>3. CASE ~Plain(settling)
      <3>1. Rebuild(definition, docs) /\ text' = IF built' THEN docs ELSE text
        BY <1>7, <2>3 DEF Settle
      <3>2. built' \in BOOLEAN /\ index' \in SUBSET (Vals \X Ids) /\ text' \in [Ids -> Stored]
        BY <3>1, RebuildType DEF Typed, TypeOK
      <3>3. QED
        BY <1>7, <2>1, <3>2 DEF Settle, Typed, TypeOK, production
    <2>4. QED
      BY <2>2, <2>3
  <1>8. ASSUME NEW kind \in {"plain", "unique"}, DefineIndex(kind) PROVE Typed'
    <2> DEFINE s == [kind |-> kind, previous |-> definition, alone |-> saves = << >>]
    <2>1. (saves = << >>) \in BOOLEAN
      OBVIOUS
    <2>2. s \in Saves
      BY <2>1 DEF Saves, Typed, TypeOK
    <2>3. saves' \in Seq(Saves)
      BY <1>8, <2>2, Appended DEF DefineIndex, Typed
    <2>4. index' \in SUBSET (Vals \X Ids)
      BY <1>8 DEF DefineIndex, Pairs, Typed, TypeOK
    <2>5. QED
      BY <1>8, <2>3, <2>4, IndexedAssumption
      DEF DefineIndex, Counted, Typed, TypeOK, wrapped, production
  <1>9. CASE DropIndex
    <2> DEFINE s == [kind |-> "none", previous |-> definition, alone |-> saves = << >>]
    <2>1. (saves = << >>) \in BOOLEAN
      OBVIOUS
    <2>2. s \in Saves
      BY <2>1 DEF Saves, Typed, TypeOK
    <2>3. saves' \in Seq(Saves)
      BY <1>9, <2>2, Appended DEF DropIndex, Typed
    <2>4. built' \in BOOLEAN /\ index' \in SUBSET (Vals \X Ids)
      BY <1>9, RebuildType DEF DropIndex, Typed, TypeOK
    <2>5. QED
      BY <1>9, <2>3, <2>4, IndexedAssumption
      DEF DropIndex, Counted, Typed, TypeOK, wrapped, production
  <1>10. CASE SaveCatalog
    <2>1. saves' \in Seq(Saves) /\ Head(saves) \in Saves
      BY <1>10, HeadTail DEF SaveCatalog, Typed
    <2>2. Head(saves).kind \in Definitions
      BY <2>1 DEF Saves
    <2>3. QED
      BY <1>10, <2>1, <2>2 DEF SaveCatalog, Typed, TypeOK, wrapped, production
  <1>11. CASE SaveCatalogFails
    <2>1. saves' \in Seq(Saves) /\ Head(saves) \in Saves
      BY <1>11, HeadTail DEF SaveCatalogFails, Typed
    <2>2. definition' \in Definitions
      BY <1>11, <2>1 DEF SaveCatalogFails, Saves
    <2>3. built' \in BOOLEAN /\ index' \in SUBSET (Vals \X Ids)
      BY <1>11, <2>2, RebuildType DEF SaveCatalogFails, Typed, TypeOK
    <2>4. QED
      BY <1>11, <2>1, <2>2, <2>3, IndexedAssumption
      DEF SaveCatalogFails, Fault, Typed, TypeOK, wrapped, production
  <1>12. ASSUME NEW kind \in Kinds, DefineMetadata(kind) \/ DropMetadata(kind) PROVE Typed'
    BY <1>12, IndexedAssumption
    DEF DefineMetadata, DropMetadata, Counted, Typed, TypeOK, wrapped, indexed
  <1>13. CASE SaveMetadata \/ SaveMetadataFails
    BY <1>13, IndexedAssumption
    DEF SaveMetadata, SaveMetadataFails, Fault, Typed, TypeOK, wrapped, indexed
  <1>14. CASE Crash
    <2>1. docs \in [Ids -> Stored] /\ (landing # NoCall => landing.records \in [Ids -> Stored])
      BY LandingFields DEF Typed, TypeOK
    <2>2. docs' \in [Ids -> Stored] /\ tail' \in Tails
      BY <1>14, <2>1, TailFields, RefusedTail DEF Crash, Typed
    <2>3. promised' \in Definitions
      BY <1>14 DEF Crash, Typed, TypeOK
    <2>4. /\ mode' = "down" /\ queue' = << >> /\ landing' = NoCall /\ settling' = NoCall
          /\ saves' = << >> /\ failed' = FALSE /\ faults < MaxFaults /\ faults' = faults + 1
          /\ UNCHANGED <<definition, index, built, catalog, metadata, text, file, calls>>
      BY <1>14 DEF Crash, Fault
    <2>5. TypeOK'
      BY <2>2, <2>4, IndexedAssumption DEF Typed, TypeOK
    <2>6. queue' \in Seq(Calls) /\ saves' \in Seq(Saves)
      BY <2>4
    <2>7. QED
      BY <2>2, <2>3, <2>4, <2>5, <2>6 DEF Typed
  <1>15. CASE Open
    <2>1. docs' \in [Ids -> Stored] /\ tail' \in Tails
      BY <1>15, TailFields DEF Open, Typed, TypeOK
    <2>2. built' \in BOOLEAN /\ index' \in SUBSET (Vals \X Ids)
      BY <1>15, <2>1, RebuildType DEF Open, Typed, TypeOK
    <2>3. QED
      BY <1>15, <2>1, <2>2 DEF Open, Typed, TypeOK
  <1>16. CASE UNCHANGED vars
    BY <1>16 DEF vars, wrapped, indexed, production, Typed, TypeOK
  <1>17. QED
    BY <1>1, <1>2, <1>3, <1>4, <1>5, <1>6, <1>7, <1>8, <1>9, <1>10, <1>11, <1>12, <1>13,
       <1>14, <1>15, <1>16, <1>18, <1>19 DEF Next

-----------------------------------------------------------------------------
(* The inductive invariant.  Promises are enforced while the database is   *)
(* up and nothing has disturbed them.                                      *)

Enforced == Up /\ disturbed = {}
Conforming(v) == v \in Valid \cup {NoRecord}
Writing(c) == c.op \in {"insert", "upsert"}

\* A queued call was checked for what is enforced now.
Checked(c) ==
  /\ definition = "unique" /\ Writing(c) => c.checked
  /\ "schema" \in metadata /\ Writing(c) => c.value \in Valid
  /\ "schema" \in metadata /\ c.op = "replace" => \A i \in Ids : Conforming(c.state[i])

QueueOK == Enforced => \A n \in DOMAIN queue : Checked(queue[n])

\* Records that satisfy the definitions.
Kept(records) ==
  /\ definition = "unique" => ~Duplicates(records)
  /\ "schema" \in metadata => \A i \in Ids : Conforming(records[i])

RecordsOK == Enforced => built /\ Kept(docs)

\* What is to land was checked for what is enforced now, and changes what the call says.
LandingOK ==
  landing # NoCall =>
    /\ Up
    /\ Plain(landing.call) =>
         /\ \A i \in Ids : i # landing.call.id => landing.records[i] = docs[i]
         /\ landing.records[landing.call.id] = IF landing.call.op = "remove" THEN NoRecord
                                                                          ELSE landing.call.value
    /\ landing.call.op \in {"remove", "sweep"} =>
         \A i \in Ids : landing.records[i] \in {docs[i], NoRecord}
    /\ Enforced => /\ Checked(landing.call)
                   /\ ~(landing.call.op = "replace" /\ Duplicates(landing.records))
                        => Kept(landing.records)

\* Only a disturbance leaves in the log what nothing acknowledged.
TailOK == disturbed = {} => tail = Clean

\* What the call whose continuation is due did to its record still stands.
SettlingOK ==
  settling # NoCall =>
    /\ Up
    /\ Plain(settling) => docs[settling.id] = IF settling.op = "remove" THEN NoRecord
                                                                         ELSE settling.value

\* The index has every record but the one a continuation is due for; other
\* entries may be stale, but not when that continuation could be refused.
IndexOK ==
  Enforced /\ definition # "none" =>
    /\ \A i \in Ids :
         /\ docs[i] # NoRecord
         /\ settling = NoCall \/ (Plain(settling) /\ settling.id # i)
         => <<docs[i], i>> \in index
    /\ definition = "unique" /\ settling # NoCall /\ Plain(settling) /\ settling.op # "remove"
         => index = Pairs(docs)

TextOK == Enforced /\ settling = NoCall => text = docs

\* The last define or drop that is still to save made the definition; one that
\* began alone has the definition to put back.
PromiseOK ==
  /\ \A n \in 2..Len(saves) : ~saves[n].alone
  /\ "overlapped" \notin disturbed /\ Up =>
       IF saves = << >> THEN definition = promised /\ (catalog = promised \/ failed)
       ELSE /\ saves[Len(saves)].kind = definition
            /\ saves[1].alone => (catalog = promised \/ failed) /\ saves[1].previous = promised
  /\ "overlapped" \notin disturbed /\ mode = "down" => catalog = promised

\* What is on disk can be enforced when the database opens.
DownOK ==
  /\ ~Up => queue = << >> /\ landing = NoCall /\ settling = NoCall /\ saves = << >> /\ ~failed
  /\ mode = "down" /\ disturbed = {} =>
       /\ catalog = "unique" => ~Duplicates(docs)
       /\ "schema" \in file => \A i \in Ids : Conforming(docs[i])
  /\ mode = "broken" => disturbed # {}

KeptPromises ==
  /\ QueueOK /\ LandingOK /\ TailOK /\ RecordsOK /\ SettlingOK
  /\ IndexOK /\ TextOK /\ PromiseOK /\ DownOK

LEMMA InitPromises == Init => KeptPromises
  <1> SUFFICES ASSUME Init PROVE KeptPromises
    OBVIOUS
  <1>1. /\ QueueOK /\ LandingOK /\ TailOK /\ RecordsOK /\ SettlingOK
        /\ IndexOK /\ TextOK /\ DownOK
    BY DEF Init, QueueOK, LandingOK, TailOK, RecordsOK, Kept, SettlingOK, IndexOK, TextOK, DownOK,
           Enforced, Up, Conforming
  <1>2. PromiseOK
    BY DEF Init, PromiseOK
  <1>3. QED
    BY <1>1, <1>2 DEF KeptPromises

\* A call that was checked for what is enforced joins the queue.
LEMMA CallQueues ==
  ASSUME Typed, KeptPromises, Up, NEW c \in Calls, queue' = Append(queue, c), Enforced => Checked(c),
         UNCHANGED <<docs, landing, tail, settling, indexed, production, mode, disturbed>>
  PROVE  KeptPromises'
  <1> USE DEF indexed, production, KeptPromises
  <1>1. QueueOK'
    <2> SUFFICES ASSUME Enforced, NEW n \in DOMAIN queue' PROVE Checked(queue[n])'
      BY DEF QueueOK, Enforced, Up
    <2>1. queue \in Seq(Calls)
      BY DEF Typed
    <2>2. CASE n \in DOMAIN queue
      BY <2>1, <2>2, Appended DEF QueueOK, Checked
    <2>3. CASE n \notin DOMAIN queue
      <3>1. queue'[n] = c
        BY <2>1, <2>3, Appended
      <3>2. QED
        BY <3>1 DEF Checked
    <2>4. QED
      BY <2>2, <2>3
  <1>2. /\ LandingOK' /\ TailOK' /\ RecordsOK' /\ SettlingOK'
        /\ IndexOK' /\ TextOK' /\ PromiseOK' /\ DownOK'
    BY DEF LandingOK, TailOK, RecordsOK, Kept, Checked, SettlingOK, IndexOK, TextOK, PromiseOK,
           DownOK, Enforced, Up
  <1>3. QED
    BY <1>1, <1>2

\* Writes are checked when they are called.
LEMMA WritesKeep ==
  ASSUME Typed, KeptPromises, Write \/ Update PROVE KeptPromises'
  <1>1. PICK op \in {"insert", "upsert", "transaction"}, i \in Ids, v \in Vals : Call(op, i, v)
    BY DEF Write, Update
  <1>2. PICK c \in Writes :
          /\ queue' = Append(queue, c) /\ c.op = op
          /\ definition = "unique" => c.checked
          /\ op # "transaction" => Accepted(c.value)
    BY <1>1, CallType
  <1>3. Checked(c)
    BY <1>2 DEF Checked, Writing, Accepted, Conforms
  <1>4. c \in Calls
    BY <1>2 DEF Calls
  <1>5. Up /\ UNCHANGED <<docs, landing, tail, settling, indexed, production, mode, disturbed>>
    BY DEF Write, Update, Counted
  <1>6. QED
    BY <1>2, <1>3, <1>4, <1>5, CallQueues

LEMMA OthersKeep ==
  ASSUME Typed, KeptPromises, Remove \/ Sweep \/ Replace PROVE KeptPromises'
  <1>1. Up /\ UNCHANGED <<docs, landing, tail, settling, indexed, production, mode, disturbed>>
    BY DEF Remove, Sweep, Replace, Counted
  <1>2. \E c \in Calls : queue' = Append(queue, c) /\ Checked(c)
    <2>1. CASE Remove
      <3>1. PICK i \in Ids :
              queue' = Append(queue, [op |-> "remove", id |-> i, before |-> docs[i], checked |-> FALSE])
        BY <2>1 DEF Remove, Queued
      <3>2. [op |-> "remove", id |-> i, before |-> docs[i], checked |-> FALSE] \in Calls
        BY DEF Calls, Typed, TypeOK, Stored
      <3>3. QED
        BY <3>1, <3>2 DEF Checked, Writing
    <2>2. CASE Sweep
      <3>1. queue' = Append(queue, [op |-> "sweep", ids |-> {i \in Ids : docs[i] \in Expired}])
        BY <2>2 DEF Sweep, Queued
      <3>2. [op |-> "sweep", ids |-> {i \in Ids : docs[i] \in Expired}] \in Calls
        BY DEF Calls
      <3>3. QED
        BY <3>1, <3>2 DEF Checked, Writing
    <2>3. CASE Replace
      <3>1. PICK state \in States :
              /\ \A i \in Ids : state[i] # NoRecord => Accepted(state[i])
              /\ queue' = Append(queue, [op |-> "replace", state |-> state])
        BY <2>3 DEF Replace, Queued
      <3>2. [op |-> "replace", state |-> state] \in Calls
        BY IndexedAssumption DEF Calls, Stored
      <3>3. QED
        BY <3>1, <3>2 DEF Checked, Writing, Accepted, Conforms, Conforming
    <2>4. QED
      BY <2>1, <2>2, <2>3
  <1>3. QED
    BY <1>1, <1>2, CallQueues

\* The work of a call makes of the records what was checked for what is enforced.
LEMMA WorkKeepsRecords ==
  ASSUME Typed, KeptPromises, Enforced, NEW c \in Calls, Checked(c), NEW records,
         records = Committed(c), ~(c.op = "replace" /\ Duplicates(records))
  PROVE  Kept(records)
  <1> USE DEF KeptPromises, Kept
  <1>1. docs \in [Ids -> Stored]
    BY DEF Typed, TypeOK, Stored
  <1>2. /\ definition = "unique" => ~Duplicates(docs)
        /\ "schema" \in metadata => \A i \in Ids : Conforming(docs[i])
    BY DEF RecordsOK
  <1>3. CASE c.op = "replace"
    BY <1>3 DEF Committed, Checked
  <1>4. CASE c.op = "sweep"
    BY <1>2, <1>4 DEF Committed, Duplicates, Conforming
  <1>5. CASE c.op = "remove"
    BY <1>1, <1>2, <1>5, CallFields DEF Committed, Duplicates, Conforming
  <1>6. CASE c.op \in {"insert", "upsert", "transaction"}
    <2>1. CASE records = docs
      BY <1>2, <2>1
    <2>2. CASE records # docs
      <3>1. /\ records = [docs EXCEPT ![c.id] = c.value] /\ c.id \in Ids
            /\ ~(c.checked /\ Clash(c)) /\ ~(c.op = "transaction" /\ ~Accepted(c.value))
        BY <1>6, <2>2, CallFields DEF Committed
      <3>2. \A i \in Ids : records[i] = IF i = c.id THEN c.value ELSE docs[i]
        BY <1>1, <3>1
      <3>3. "schema" \in metadata => c.value \in Valid
        BY <1>6, <3>1 DEF Checked, Writing, Accepted, Conforms
      <3>4. "schema" \in metadata => \A i \in Ids : Conforming(records[i])
        BY <1>2, <3>2, <3>3 DEF Conforming
      <3>5. ASSUME definition = "unique" PROVE ~Duplicates(records)
        <4>1. c.checked
          BY <1>6, <3>5, CallFields DEF Checked, Writing
        <4>2. \A j \in Ids \ {c.id} : docs[j] # c.value
          BY <3>1, <3>5, <4>1 DEF Clash
        <4>3. QED
          BY <1>2, <3>2, <3>5, <4>2 DEF Duplicates
      <3>6. QED
        BY <3>4, <3>5
    <2>3. QED
      BY <2>1, <2>2
  <1>7. QED
    BY <1>3, <1>4, <1>5, <1>6, CallFields

\* A call whose turn comes.
LEMMA WorkKeeps ==
  ASSUME Typed, KeptPromises, Work PROVE KeptPromises'
  <1> USE DEF KeptPromises
  <1> DEFINE c == Head(queue)
             l == [call |-> c, records |-> Committed(c)]
  <1>1. /\ Up /\ landing = NoCall
        /\ landing' = IF Committed(c) = docs THEN NoCall ELSE l
        /\ queue' = Tail(queue)
        /\ UNCHANGED <<docs, tail, settling, indexed, production, mode, disturbed>>
    BY DEF Work
  <1>2. /\ c \in Calls /\ c = queue[1] /\ 1 \in DOMAIN queue
        /\ \A n \in DOMAIN queue' : n + 1 \in DOMAIN queue /\ queue'[n] = queue[n + 1]
    BY HeadTail DEF Work, Typed
  <1>3. Enforced => Checked(c)
    BY <1>2 DEF QueueOK
  <1>4. docs \in [Ids -> Stored] /\ l.call = c /\ l.records = Committed(c)
    BY DEF Typed, TypeOK, Stored
  <1> HIDE DEF c, l
  <1>5. QueueOK'
    <2> SUFFICES ASSUME Enforced, NEW n \in DOMAIN queue' PROVE Checked(queue[n])'
      BY <1>1 DEF QueueOK, Enforced, Up
    <2>1. Checked(queue[n + 1])
      BY <1>2 DEF QueueOK
    <2>2. queue'[n] = queue[n + 1]
      BY <1>2
    <2>3. QED
      BY <1>1, <2>1, <2>2 DEF Checked, indexed, production
  <1>6. LandingOK'
    <2> SUFFICES ASSUME landing' # NoCall PROVE LandingOK'
      BY DEF LandingOK
    <2>1. landing' = l /\ Committed(c) # docs
      BY <1>1
    <2>2. Plain(c) =>
            /\ \A i \in Ids : i # c.id => Committed(c)[i] = docs[i]
            /\ Committed(c)[c.id] = IF c.op = "remove" THEN NoRecord ELSE c.value
      BY <1>2, <1>4, <2>1, CallFields DEF Committed, Plain
    <2>3. Enforced /\ ~(c.op = "replace" /\ Duplicates(Committed(c))) => Kept(Committed(c))
      BY <1>2, <1>3, WorkKeepsRecords
    <2>4. c.op \in {"remove", "sweep"} => \A i \in Ids : Committed(c)[i] \in {docs[i], NoRecord}
      BY <1>2, <1>4, CallFields DEF Committed
    <2>5. QED
      BY <1>1, <1>3, <1>4, <2>1, <2>2, <2>3, <2>4
      DEF LandingOK, Up, Enforced, Checked, Kept, Duplicates, Conforming, Plain, indexed, production
  <1>7. /\ TailOK' /\ RecordsOK' /\ SettlingOK' /\ IndexOK' /\ TextOK' /\ PromiseOK' /\ DownOK'
    BY <1>1
    DEF TailOK, RecordsOK, Kept, SettlingOK, IndexOK, TextOK, PromiseOK, DownOK, Enforced, Up,
        indexed, production
  <1>8. QED
    BY <1>5, <1>6, <1>7

\* A call whose records the log has.
LEMMA LandKeeps ==
  ASSUME Typed, KeptPromises, Land PROVE KeptPromises'
  <1> USE DEF KeptPromises
  <1> DEFINE c == landing.call
  <1>1. /\ Up /\ settling = NoCall /\ landing # NoCall /\ landing' = NoCall
        /\ docs' = landing.records /\ settling' = c
        /\ tail = Clean => tail' = Clean
        /\ UNCHANGED <<queue, indexed, production, mode>>
        /\ disturbed' = {} => disturbed = {} /\ ~(c.op = "replace" /\ Duplicates(docs'))
        /\ "overlapped" \in disturbed => "overlapped" \in disturbed'
    BY DEF Land, Disturb
  <1>2. c \in Calls /\ c # NoCall /\ docs' \in [Ids -> Stored]
    BY <1>1, LandingFields, CallFields DEF Typed
  <1>3. Enforced' => Enforced
    BY <1>1 DEF Enforced, Up
  <1>4. /\ Plain(c) => /\ \A i \in Ids : i # c.id => docs'[i] = docs[i]
                       /\ docs'[c.id] = IF c.op = "remove" THEN NoRecord ELSE c.value
        /\ Enforced' => Checked(c) /\ Kept(docs')
    BY <1>1, <1>3 DEF LandingOK, Enforced
  <1> HIDE DEF c
  <1>5. QueueOK' /\ LandingOK' /\ TailOK' /\ DownOK'
    BY <1>1, <1>3 DEF QueueOK, LandingOK, TailOK, DownOK, Checked, Up, indexed, production
  <1>6. RecordsOK'
    BY <1>1, <1>3, <1>4 DEF RecordsOK, Kept, Duplicates, Conforming, indexed, production
  <1>7. SettlingOK'
    BY <1>1, <1>4 DEF SettlingOK, Up, Plain
  <1>8. IndexOK'
    <2> SUFFICES ASSUME Enforced', definition' # "none" PROVE IndexOK'
      BY DEF IndexOK
    <2>1. \A i \in Ids : docs[i] # NoRecord => <<docs[i], i>> \in index
      BY <1>1, <1>3 DEF IndexOK, indexed
    <2>2. \A i \in Ids :
            /\ docs'[i] # NoRecord
            /\ settling' = NoCall \/ (Plain(settling') /\ settling'.id # i)
            => <<docs'[i], i>> \in index'
      BY <1>1, <1>2, <1>4, <2>1 DEF indexed
    <2>3. ~(definition' = "unique" /\ settling' # NoCall /\ Plain(settling')
              /\ settling'.op # "remove")
      BY <1>1, <1>2, <1>4, CallFields DEF Checked, Writing, Plain, indexed
    <2>4. QED
      BY <2>2, <2>3 DEF IndexOK, Plain
  <1>9. TextOK'
    BY <1>1, <1>2 DEF TextOK
  <1>10. PromiseOK'
    BY <1>1 DEF PromiseOK, Up, indexed
  <1>11. QED
    BY <1>5, <1>6, <1>7, <1>8, <1>9, <1>10

LEMMA LandFailsKeeps ==
  ASSUME Typed, KeptPromises, LandFails PROVE KeptPromises'
  <1> USE DEF KeptPromises
  <1>1. /\ Up /\ landing' = NoCall
        /\ UNCHANGED <<docs, queue, settling, indexed, production, mode>>
        /\ disturbed' = {} => disturbed = {} /\ tail' = tail
        /\ "overlapped" \in disturbed => "overlapped" \in disturbed'
    BY DEF LandFails
  <1>2. Enforced' => Enforced
    BY <1>1 DEF Enforced, Up
  <1>3. QueueOK' /\ LandingOK' /\ TailOK' /\ RecordsOK' /\ SettlingOK'
    BY <1>1, <1>2
    DEF QueueOK, LandingOK, TailOK, RecordsOK, Kept, SettlingOK, Checked, Up, indexed, production
  <1>4. IndexOK' /\ TextOK' /\ PromiseOK' /\ DownOK'
    BY <1>1, <1>2 DEF IndexOK, TextOK, PromiseOK, DownOK, Up, indexed, production
  <1>5. QED
    BY <1>3, <1>4

\* A rebuilt index has the records it was built from.
LEMMA Rebuilt ==
  ASSUME NEW kind, NEW records, Rebuild(kind, records)
  PROVE  /\ kind = "unique" /\ Duplicates(records) => ~built'
         /\ ~(kind = "unique" /\ Duplicates(records)) => built' = TRUE
         /\ built' /\ kind # "none" => index' = Pairs(records)
  BY DEF Rebuild

\* The continuation of a committed call.
LEMMA SettleKeeps ==
  ASSUME Typed, KeptPromises, Settle PROVE KeptPromises'
  <1> USE DEF KeptPromises
  <1> DEFINE c == settling
  <1>1. /\ Up /\ c # NoCall /\ c \in Calls /\ settling' = NoCall
        /\ UNCHANGED <<docs, queue, landing, tail, definition, saves, catalog, promised, failed,
                       metadata, unsaved, file, mode, disturbed>>
    BY DEF Settle, Typed
  <1>2. Enforced' <=> Enforced
    BY <1>1 DEF Enforced, Up
  <1>3. Enforced' => /\ built' /\ text' = docs
                     /\ definition # "none" => Pairs(docs) \subseteq index'
    <2> SUFFICES ASSUME Enforced
                 PROVE  /\ built' /\ text' = docs
                        /\ definition # "none" => Pairs(docs) \subseteq index'
      BY <1>2
    <2>1. built /\ (definition = "unique" => ~Duplicates(docs))
      BY DEF RecordsOK, Kept
    <2>2. CASE ~Plain(c)
      <3>1. Rebuild(definition, docs) /\ text' = IF built' THEN docs ELSE text
        BY <1>1, <2>2 DEF Settle
      <3>2. built' /\ (definition # "none" => index' = Pairs(docs))
        BY <2>1, <3>1, Rebuilt
      <3>3. QED
        BY <3>1, <3>2
    <2>3. CASE Plain(c)
      <3>1. docs[c.id] = IF c.op = "remove" THEN NoRecord ELSE c.value
        BY <1>1, <2>3 DEF SettlingOK
      <3>2. ~Refused(c)
        <4> SUFFICES ASSUME Refused(c) PROVE FALSE
          OBVIOUS
        <4>1. definition = "unique" /\ c.op # "remove"
          BY DEF Refused
        <4>2. index = Pairs(docs) /\ docs[c.id] = c.value
          BY <1>1, <2>3, <3>1, <4>1 DEF IndexOK
        <4> DEFINE others == {p \in index \ {<<c.before, c.id>>} : p[1] = c.value}
        <4>3. ASSUME NEW p \in others PROVE p = <<c.value, c.id>>
          <5>1. PICK i \in Ids : p = <<docs[i], i>> /\ docs[i] # NoRecord
            BY <4>2 DEF Pairs
          <5>2. docs[i] = c.value /\ c.id \in Ids
            BY <2>3, <5>1, <1>1, CallFields DEF Plain
          <5>3. i = c.id
            BY <2>1, <4>1, <4>2, <5>1, <5>2 DEF Duplicates
          <5>4. QED
            BY <5>1, <5>2, <5>3
        <4>4. others \in {{}, {<<c.value, c.id>>}}
          <5> HIDE DEF others
          <5>1. QED
            BY <4>3
        <4>5. QED
          BY <4>4 DEF Refused
      <3>3. built' = built /\ text' = docs
        BY <1>1, <2>3, <3>2 DEF Settle
      <3>4. ASSUME definition # "none" PROVE Pairs(docs) \subseteq index'
        <4>1. index' = Patched(c)
          BY <2>1, <2>3, <3>2, <3>4 DEF Settle
        <4>2. \A i \in Ids : docs[i] # NoRecord /\ c.id # i => <<docs[i], i>> \in index
          BY <1>1, <2>3, <3>4 DEF IndexOK
        <4> SUFFICES ASSUME NEW i \in Ids, docs[i] # NoRecord PROVE <<docs[i], i>> \in Patched(c)
          BY <4>1 DEF Pairs
        <4>3. CASE i = c.id
          BY <3>1, <4>3 DEF Patched
        <4>4. CASE i # c.id
          BY <4>2, <4>4 DEF Patched
        <4>5. QED
          BY <4>3, <4>4
      <3>5. QED
        BY <2>1, <3>3, <3>4
    <2>4. QED
      BY <2>2, <2>3
  <1>4. QueueOK' /\ LandingOK' /\ TailOK' /\ PromiseOK' /\ DownOK' /\ SettlingOK'
    BY <1>1, <1>2 DEF QueueOK, LandingOK, TailOK, PromiseOK, DownOK, SettlingOK, Checked, Kept, Up
  <1>5. RecordsOK'
    BY <1>1, <1>2, <1>3 DEF RecordsOK, Kept
  <1>6. IndexOK'
    BY <1>1, <1>3 DEF IndexOK, Pairs
  <1>7. TextOK'
    BY <1>1, <1>3 DEF TextOK
  <1>8. QED
    BY <1>4, <1>5, <1>6, <1>7

LEMMA RemovalKeeps ==
  ASSUME NEW r, NEW d, \A i \in Ids : r[i] \in {d[i], NoRecord}
  PROVE  /\ ~Duplicates(d) => ~Duplicates(r)
         /\ (\A i \in Ids : Conforming(d[i])) => \A i \in Ids : Conforming(r[i])
  BY DEF Duplicates, Conforming

\* A new definition finds nothing about to land that it should have checked.
LEMMA LandingConstrained ==
  ASSUME Typed, LandingOK, UNCHANGED <<docs, landing, mode>>, Enforced' => Enforced /\ Kept(docs)',
         Enforced' /\ landing # NoCall /\ landing.call.op \notin {"remove", "sweep"} =>
           /\ definition' = "unique" => definition = "unique"
           /\ "schema" \in metadata' => "schema" \in metadata
  PROVE  LandingOK'
  <1> SUFFICES ASSUME landing # NoCall PROVE LandingOK'
    BY DEF LandingOK
  <1> DEFINE c == landing.call
             r == landing.records
  <1>1. c \in Calls
    BY LandingFields DEF Typed
  <1>2. Enforced' => Checked(c)' /\ (~(c.op = "replace" /\ Duplicates(r)) => Kept(r)')
    <2> SUFFICES ASSUME Enforced'
                 PROVE  Checked(c)' /\ (~(c.op = "replace" /\ Duplicates(r)) => Kept(r)')
      OBVIOUS
    <2>1. CASE c.op \in {"remove", "sweep"}
      <3>1. \A i \in Ids : r[i] \in {docs[i], NoRecord}
        BY <2>1 DEF LandingOK
      <3>2. Kept(docs)' /\ docs' = docs /\ landing' = landing
        OBVIOUS
      <3>3. Kept(r)'
        BY <3>1, <3>2, RemovalKeeps DEF Kept, Duplicates, Conforming
      <3>4. Checked(c)'
        BY <2>1 DEF Checked, Writing
      <3>5. QED
        BY <3>3, <3>4
    <2>2. CASE c.op \notin {"remove", "sweep"}
      BY <2>2 DEF LandingOK, Checked, Writing, Kept, Duplicates, Conforming
    <2>3. QED
      BY <2>1, <2>2
  <1>3. QED
    BY <1>2 DEF LandingOK, Up, Plain, Duplicates

\* A definition waits to be saved behind the others.
LEMMA PushKeeps ==
  ASSUME Typed, PromiseOK, Up, NEW kind \in Definitions,
         saves' = Append(saves, [kind |-> kind, previous |-> definition, alone |-> saves = << >>]),
         definition' = kind, UNCHANGED <<catalog, promised, failed, mode>>,
         "overlapped" \in disturbed => "overlapped" \in disturbed'
  PROVE  PromiseOK'
  <1> DEFINE s == [kind |-> kind, previous |-> definition, alone |-> saves = << >>]
  <1>1. (saves = << >>) \in BOOLEAN
    OBVIOUS
  <1>2. /\ s \in Saves /\ s.kind = kind /\ s.previous = definition /\ (s.alone <=> saves = << >>)
        /\ saves' = Append(saves, s)
    BY <1>1 DEF Saves, Typed, TypeOK, Definitions
  <1> HIDE DEF s
  <1> DEFINE l == Len(saves)
  <1>3. /\ saves' # << >> /\ l \in Nat /\ Len(saves') = l + 1
        /\ \A n \in 1..l : saves'[n] = saves[n]
        /\ saves'[l + 1] = s /\ (saves = << >> <=> l = 0)
    BY <1>2, Appended DEF Typed
  <1> HIDE DEF l
  <1>4. \A n \in 2..(l + 1) : ~saves'[n].alone
    <2> SUFFICES ASSUME NEW n \in 2..(l + 1) PROVE ~saves'[n].alone
      OBVIOUS
    <2>1. CASE n = l + 1
      BY <1>2, <1>3, <2>1
    <2>2. CASE n \in 2..l
      <3>1. ~saves[n].alone /\ saves'[n] = saves[n]
        BY <1>3, <2>2 DEF PromiseOK, l
      <3>2. QED
        BY <3>1
    <2>3. QED
      BY <1>3, <2>1, <2>2
  <1>5. saves'[Len(saves')].kind = definition'
    BY <1>2, <1>3
  <1>6. ASSUME "overlapped" \notin disturbed', saves'[1].alone
        PROVE  (catalog' = promised' \/ failed') /\ saves'[1].previous = promised'
    <2>1. CASE saves = << >>
      BY <1>2, <1>3, <1>6, <2>1 DEF PromiseOK
    <2>2. CASE saves # << >>
      <3>1. saves'[1] = saves[1]
        BY <1>3, <2>2
      <3>2. QED
        BY <1>6, <2>2, <3>1 DEF PromiseOK
    <2>3. QED
      BY <2>1, <2>2
  <1>7. QED
    BY <1>3, <1>4, <1>5, <1>6 DEF PromiseOK, Up

LEMMA DefineKeeps ==
  ASSUME Typed, KeptPromises, NEW kind \in {"plain", "unique"}, DefineIndex(kind)
  PROVE  KeptPromises'
  <1> USE DEF KeptPromises
  <1>1. /\ Up /\ (kind = "unique" => ~Duplicates(docs)) /\ definition' = kind
        /\ index' = Pairs(docs) /\ built' = TRUE
        /\ UNCHANGED <<docs, queue, landing, tail, settling, catalog, promised, failed, metadata, text,
                       unsaved, file, mode>>
        /\ disturbed \subseteq disturbed'
        /\ disturbed' = {} => ~(kind = "unique" /\ Overtaken(kind))
    BY DEF DefineIndex, Counted, Disturb, wrapped, production
  <1>2. Enforced' => Enforced
    BY <1>1 DEF Enforced, Up
  <1>3. QueueOK'
    <2> SUFFICES ASSUME Enforced', NEW n \in DOMAIN queue PROVE Checked(queue[n])'
      BY <1>1 DEF QueueOK
    <2>1. kind = "unique" /\ Writing(queue[n]) => queue[n].checked
      BY <1>1 DEF Overtaken, Writing, Enforced
    <2>2. Checked(queue[n])
      BY <1>2 DEF QueueOK
    <2>3. QED
      BY <1>1, <2>1, <2>2 DEF Checked, Writing
  <1>4. RecordsOK'
    BY <1>1, <1>2 DEF RecordsOK, Kept, Duplicates, Conforming
  <1>5. IndexOK'
    BY <1>1 DEF IndexOK, Pairs
  <1>6. SettlingOK' /\ TextOK' /\ TailOK' /\ DownOK'
    BY <1>1, <1>2 DEF SettlingOK, TextOK, TailOK, DownOK, Up
  <1>7. PromiseOK'
    BY <1>1, PushKeeps DEF DefineIndex, Definitions
  <1>8. LandingOK'
    <2>1. Enforced' /\ landing # NoCall /\ landing.call.op \notin {"remove", "sweep"} =>
            (definition' = "unique" => definition = "unique")
      BY <1>1 DEF Overtaken, Enforced
    <2>2. Enforced' => Enforced /\ Kept(docs)'
      BY <1>2, <1>4 DEF RecordsOK
    <2>3. QED
      BY <1>1, <2>1, <2>2, LandingConstrained
  <1>9. QED
    BY <1>3, <1>4, <1>5, <1>6, <1>7, <1>8

LEMMA DropKeeps ==
  ASSUME Typed, KeptPromises, DropIndex PROVE KeptPromises'
  <1> USE DEF KeptPromises
  <1>1. /\ Up /\ definition' = "none" /\ built' = TRUE
        /\ UNCHANGED <<docs, queue, landing, tail, settling, catalog, promised, failed, metadata, text,
                       unsaved, file, mode, disturbed>>
    BY DEF DropIndex, Rebuild, Counted, wrapped, production
  <1>2. Enforced' <=> Enforced
    BY <1>1 DEF Enforced, Up
  <1>3. QueueOK' /\ RecordsOK' /\ IndexOK' /\ SettlingOK' /\ TextOK' /\ TailOK' /\ DownOK'
    BY <1>1, <1>2
    DEF QueueOK, Checked, RecordsOK, Kept, Duplicates, Conforming, IndexOK, SettlingOK, TextOK, TailOK,
        DownOK, Up
  <1>4. PromiseOK'
    BY <1>1, PushKeeps DEF DropIndex, Definitions
  <1>5. LandingOK'
    BY <1>1, <1>2, <1>3, LandingConstrained DEF RecordsOK
  <1>6. QED
    BY <1>3, <1>4, <1>5

LEMMA SaveKeeps ==
  ASSUME Typed, KeptPromises, SaveCatalog PROVE KeptPromises'
  <1> USE DEF KeptPromises
  <1>1. /\ Up /\ saves # << >> /\ saves' = Tail(saves) /\ catalog' = definition /\ failed' = FALSE
        /\ promised' = IF saves' = << >> THEN Head(saves).kind ELSE promised
        /\ UNCHANGED <<docs, queue, landing, tail, settling, definition, index, built, metadata, text,
                       unsaved, file, mode, disturbed>>
    BY DEF SaveCatalog, wrapped, production
  <1>2. Enforced' <=> Enforced
    BY <1>1 DEF Enforced, Up
  <1>3. /\ QueueOK' /\ LandingOK' /\ TailOK' /\ RecordsOK'
        /\ IndexOK' /\ SettlingOK' /\ TextOK' /\ DownOK'
    BY <1>1, <1>2
    DEF QueueOK, LandingOK, TailOK, Checked, RecordsOK, Kept, IndexOK, SettlingOK, TextOK, DownOK, Up
  <1> DEFINE l == Len(saves)
  <1>4. /\ Head(saves) = saves[1] /\ l \in Nat /\ l >= 1 /\ Len(saves') = l - 1
        /\ \A n \in 1..(l - 1) : saves'[n] = saves[n + 1]
        /\ (saves' = << >> <=> l = 1)
    BY <1>1, HeadTail DEF Typed
  <1>5. \A n \in 2..l : ~saves[n].alone
    BY DEF PromiseOK
  <1>6. "overlapped" \notin disturbed => saves[l].kind = definition
    BY <1>1 DEF PromiseOK
  <1> HIDE DEF l
  <1>7. \A n \in 1..(l - 1) : ~saves'[n].alone
    BY <1>4, <1>5
  <1>8. saves' # << >> => saves'[Len(saves')] = saves[l] /\ ~saves'[1].alone
    BY <1>4, <1>7
  <1>9. PromiseOK'
    BY <1>1, <1>4, <1>6, <1>7, <1>8 DEF PromiseOK, Up
  <1>10. QED
    BY <1>3, <1>9

\* What a failed save puts back is either what was promised or disturbed.
LEMMA SaveFailsKeeps ==
  ASSUME Typed, KeptPromises, SaveCatalogFails PROVE KeptPromises'
  <1> USE DEF KeptPromises
  <1>1. /\ Up /\ saves # << >> /\ saves' = Tail(saves) /\ definition' = Head(saves).previous
        /\ Rebuild(definition', docs)
        /\ failed' = TRUE
        /\ UNCHANGED <<docs, queue, landing, tail, settling, promised, metadata, text, unsaved, file,
                       mode>>
        /\ disturbed \subseteq disturbed'
        /\ "overlapped" \notin disturbed' => saves' = << >> /\ Head(saves).alone
        /\ disturbed' = {} => built' /\ ~(definition' = "unique" /\ Overtaken("unique"))
    BY DEF SaveCatalogFails, wrapped, production
  <1>2. Enforced' => Enforced
    BY <1>1 DEF Enforced, Up
  <1>3. QueueOK'
    <2> SUFFICES ASSUME Enforced', NEW n \in DOMAIN queue PROVE Checked(queue[n])'
      BY <1>1 DEF QueueOK
    <2>1. definition' = "unique" /\ Writing(queue[n]) => queue[n].checked
      BY <1>1 DEF Overtaken, Writing, Enforced
    <2>2. Checked(queue[n])
      BY <1>2 DEF QueueOK
    <2>3. QED
      BY <1>1, <2>1, <2>2 DEF Checked, Writing
  <1>4. Enforced' => /\ built' /\ (definition' = "unique" => ~Duplicates(docs))
                     /\ definition' # "none" => index' = Pairs(docs)
    BY <1>1, Rebuilt DEF Enforced
  <1>5. RecordsOK'
    BY <1>1, <1>2, <1>4 DEF RecordsOK, Kept, Duplicates, Conforming
  <1>6. IndexOK'
    BY <1>1, <1>4 DEF IndexOK, Pairs
  <1>7. SettlingOK' /\ TextOK' /\ TailOK' /\ DownOK'
    BY <1>1, <1>2 DEF SettlingOK, TextOK, TailOK, DownOK, Up
  <1>10. LandingOK'
    <2>1. Enforced' /\ landing # NoCall /\ landing.call.op \notin {"remove", "sweep"} =>
            definition' # "unique"
      BY <1>1 DEF Overtaken, Enforced
    <2>2. Enforced' => Enforced /\ Kept(docs)'
      BY <1>2, <1>5 DEF RecordsOK
    <2>3. QED
      BY <1>1, <2>1, <2>2, LandingConstrained
  <1>8. PromiseOK'
    <2> DEFINE l == Len(saves)
    <2>1. /\ Head(saves) = saves[1] /\ l \in Nat /\ l >= 1 /\ Len(saves') = l - 1
          /\ \A n \in 1..(l - 1) : saves'[n] = saves[n + 1]
      BY <1>1, HeadTail DEF Typed
    <2>2. \A n \in 2..l : ~saves[n].alone
      BY DEF PromiseOK
    <2> HIDE DEF l
    <2>3. \A n \in 2..(l - 1) : ~saves'[n].alone
      BY <2>1, <2>2
    <2>4. "overlapped" \notin disturbed' => definition' = promised
      BY <1>1, <2>1 DEF PromiseOK
    <2>5. QED
      BY <1>1, <2>1, <2>3, <2>4 DEF PromiseOK, Up
  <1>9. QED
    BY <1>3, <1>5, <1>6, <1>7, <1>8, <1>10

LEMMA MetadataKeeps ==
  ASSUME Typed, KeptPromises, NEW kind \in Kinds, DefineMetadata(kind) \/ DropMetadata(kind)
  PROVE  KeptPromises'
  <1> USE DEF KeptPromises
  <1>1. /\ Up /\ UNCHANGED <<docs, queue, landing, tail, settling, definition, index, built, saves,
                             catalog, promised, failed, file, mode>>
        /\ disturbed \subseteq disturbed'
        /\ "overlapped" \in disturbed' => "overlapped" \in disturbed
        /\ text' = docs \/ text' = text
    BY DEF DefineMetadata, DropMetadata, Counted, Disturb, wrapped, indexed
  <1>2. Enforced' => Enforced
    BY <1>1 DEF Enforced, Up
  <1>3. Enforced' /\ "schema" \in metadata' /\ "schema" \notin metadata =>
          ~Overtaken("schema") /\ \A i \in Ids : docs[i] # NoRecord => Conforms(docs[i])
    BY DEF DefineMetadata, DropMetadata, Disturb, Enforced
  <1>4. QueueOK'
    <2> SUFFICES ASSUME Enforced', NEW n \in DOMAIN queue PROVE Checked(queue[n])'
      BY <1>1 DEF QueueOK
    <2>1. Checked(queue[n])
      BY <1>2 DEF QueueOK
    <2>2. CASE "schema" \in metadata' /\ "schema" \notin metadata
      BY <1>1, <1>3, <2>1, <2>2 DEF Overtaken, Checked, Writing
    <2>3. CASE ~("schema" \in metadata' /\ "schema" \notin metadata)
      BY <1>1, <2>1, <2>3 DEF Checked, Writing
    <2>4. QED
      BY <2>2, <2>3
  <1>5. RecordsOK'
    BY <1>1, <1>2, <1>3 DEF RecordsOK, Kept, Duplicates, Conforming, Conforms
  <1>6. IndexOK' /\ SettlingOK' /\ TextOK' /\ TailOK' /\ DownOK' /\ PromiseOK'
    BY <1>1, <1>2 DEF IndexOK, SettlingOK, TextOK, TailOK, DownOK, PromiseOK, Up
  <1>7. LandingOK'
    <2>1. Enforced' /\ landing # NoCall /\ landing.call.op \notin {"remove", "sweep"} =>
            ("schema" \in metadata' => "schema" \in metadata)
      BY <1>3 DEF Overtaken
    <2>2. Enforced' => Enforced /\ Kept(docs)'
      BY <1>2, <1>5 DEF RecordsOK
    <2>3. QED
      BY <1>1, <2>1, <2>2, LandingConstrained
  <1>8. QED
    BY <1>4, <1>5, <1>6, <1>7

LEMMA SaveMetadataKeeps ==
  ASSUME Typed, KeptPromises, SaveMetadata \/ SaveMetadataFails PROVE KeptPromises'
  <1>1. /\ Up /\ UNCHANGED <<docs, queue, landing, tail, settling, definition, index, built, saves,
                             catalog, promised, failed, metadata, text, mode, disturbed>>
    BY DEF SaveMetadata, SaveMetadataFails, wrapped, indexed
  <1>2. QED
    BY <1>1
    DEF KeptPromises, QueueOK, LandingOK, TailOK, Checked, RecordsOK, Kept, SettlingOK, IndexOK, TextOK,
        PromiseOK, DownOK, Enforced, Up

\* What a crash leaves undisturbed is saved.
LEMMA CrashKeeps ==
  ASSUME Typed, KeptPromises, Crash PROVE KeptPromises'
  <1> USE DEF KeptPromises
  <1>1. /\ Up /\ ~Up' /\ mode' = "down" /\ queue' = << >> /\ settling' = NoCall /\ saves' = << >>
        /\ landing' = NoCall /\ failed' = FALSE
        /\ UNCHANGED <<catalog, file>>
        /\ promised' = IF saves = << >> /\ ~failed THEN promised ELSE catalog
        /\ docs' = docs \/ (landing # NoCall /\ docs' = landing.records)
        /\ disturbed \subseteq disturbed'
        /\ disturbed' = {} =>
             /\ catalog = definition /\ metadata = file /\ tail' = tail
             /\ ~(landing # NoCall /\ landing.call.op = "replace" /\ Duplicates(docs'))
        /\ "overlapped" \in disturbed => "overlapped" \in disturbed'
    BY DEF Crash, Up
  <1>2. /\ QueueOK' /\ LandingOK' /\ RecordsOK' /\ SettlingOK' /\ IndexOK' /\ TextOK' /\ TailOK'
    BY <1>1 DEF QueueOK, LandingOK, TailOK, RecordsOK, SettlingOK, IndexOK, TextOK, Enforced
  <1>3. PromiseOK'
    BY <1>1 DEF PromiseOK
  <1>4. DownOK'
    <2>1. disturbed' = {} => definition = catalog /\ metadata = file /\ Kept(docs')
      BY <1>1 DEF Enforced, RecordsOK, LandingOK
    <2>2. QED
      BY <1>1, <2>1 DEF DownOK, Kept, Duplicates, Conforming
  <1>5. QED
    BY <1>2, <1>3, <1>4

LEMMA OpenKeeps ==
  ASSUME Typed, KeptPromises, Open PROVE KeptPromises'
  <1> USE DEF KeptPromises
  <1>1. /\ mode = "down" /\ ~Up /\ definition' = catalog /\ Rebuild(catalog, docs')
        /\ metadata' = file /\ text' = docs' /\ failed' = FALSE
        /\ mode' = IF built' /\ tail # Unreadable THEN "up" ELSE "broken"
        /\ UNCHANGED <<queue, landing, settling, saves, catalog, promised, file, disturbed>>
        /\ queue = << >> /\ landing = NoCall /\ settling = NoCall /\ saves = << >>
    BY DEF Open, Up, DownOK
  <1>2. disturbed = {} => tail = Clean /\ tail' = Clean /\ docs' = docs
    BY TailFields DEF Open, TailOK, Typed
  <1>3. disturbed = {} => /\ built' = TRUE /\ tail # Unreadable
                          /\ catalog # "none" => index' = Pairs(docs')
    BY <1>1, <1>2, Rebuilt, TailFields DEF DownOK, Typed
  <1>4. QueueOK' /\ LandingOK' /\ TailOK' /\ SettlingOK' /\ TextOK'
    BY <1>1, <1>2 DEF QueueOK, LandingOK, TailOK, SettlingOK, TextOK
  <1>5. RecordsOK'
    BY <1>1, <1>2, <1>3 DEF RecordsOK, Kept, DownOK, Enforced, Duplicates, Conforming
  <1>6. IndexOK'
    BY <1>1, <1>3 DEF IndexOK, Enforced, Pairs
  <1>7. PromiseOK'
    BY <1>1 DEF PromiseOK
  <1>8. DownOK'
    BY <1>1, <1>3 DEF DownOK, Up
  <1>9. QED
    BY <1>4, <1>5, <1>6, <1>7, <1>8

LEMMA NextPromises == Typed /\ KeptPromises /\ [Next]_vars => KeptPromises'
  <1> SUFFICES ASSUME Typed, KeptPromises, [Next]_vars PROVE KeptPromises'
    OBVIOUS
  <1>1. CASE UNCHANGED vars
    BY <1>1
    DEF vars, wrapped, indexed, production, KeptPromises, QueueOK, LandingOK, TailOK, Checked, RecordsOK,
        Kept, SettlingOK, IndexOK, TextOK, PromiseOK, DownOK, Enforced, Up
  <1>2. QED
    BY <1>1, WritesKeep, OthersKeep, WorkKeeps, LandKeeps, LandFailsKeeps, SettleKeeps,
       DefineKeeps, DropKeeps, SaveKeeps,
       SaveFailsKeeps, MetadataKeeps, SaveMetadataKeeps, CrashKeeps, OpenKeeps DEF Next

-----------------------------------------------------------------------------
(* What the engine's layers promise.                                       *)

\* Queue, records, index, text index, definition file and what is on disk keep
\* what the calls that returned promised, in any order of calls and crashes
\* (indexed.js, production-db.js).
THEOREM PromisesAreKept == Spec => [](Typed /\ KeptPromises)
  <1>1. Init => Typed /\ KeptPromises
    BY InitTyped, InitPromises
  <1>2. Typed /\ KeptPromises /\ [Next]_vars => (Typed /\ KeptPromises)'
    BY NextTyped, NextPromises
  <1>3. QED
    BY <1>1, <1>2, PTL DEF Spec

\* A definition that returned is kept by every later write: unique values, the
\* schema, and the definition itself, in memory and on disk (DefinitionsHold).
THEOREM DefinitionsAreKept == Spec => []DefinitionsHold
  <1>1. Typed /\ KeptPromises => DefinitionsHold
    <2> SUFFICES ASSUME Typed, KeptPromises PROVE DefinitionsHold
      OBVIOUS
    <2>1. TypeOK
      BY DEF Typed
    <2>2. UniqueHolds /\ SchemaHolds
      BY DEF UniqueHolds, SchemaHolds, KeptPromises, RecordsOK, Kept, Enforced, Quiet, Conforming
    <2>3. IndexIsAsPromised
      BY DEF IndexIsAsPromised, KeptPromises, PromiseOK
    <2>4. QED
      BY <2>1, <2>2, <2>3 DEF DefinitionsHold
  <1>2. QED
    BY <1>1, PromisesAreKept, PTL

\* Query by index and text search answer as a scan of the records, however the
\* calls overlapped (AnswersAreCurrent).
THEOREM AnswersAreAScan == Spec => []AnswersAreCurrent
  <1>1. Typed /\ KeptPromises => AnswersAreCurrent
    <2> SUFFICES ASSUME Typed, KeptPromises PROVE AnswersAreCurrent
      OBVIOUS
    <2>1. QueryMatchesScan
      <3> SUFFICES ASSUME Quiet, NEW w \in Scalars, NEW i \in Scan(w), docs[i] = w
                   PROVE  i \in Query(w)
        BY DEF QueryMatchesScan
      <3>1. i \in Ids /\ docs[i] # NoRecord
        BY DEF Scan
      <3>2. definition # "none" => <<w, i>> \in index
        BY <3>1 DEF KeptPromises, IndexOK, Enforced, Quiet
      <3>3. QED
        BY <3>2 DEF Query
    <2>2. SearchIsCurrent
      <3>1. Quiet => text = docs
        BY DEF KeptPromises, TextOK, Enforced, Quiet
      <3>2. QED
        BY <3>1 DEF SearchIsCurrent, Search, Scan
    <2>3. QED
      BY <2>1, <2>2 DEF AnswersAreCurrent
  <1>2. QED
    BY <1>1, PromisesAreKept, PTL

\* The database opens after any crash that left saved what was enforced, for
\* the records on disk satisfy the definitions there (OpensAgain).
THEOREM AlwaysOpensAgain == Spec => []OpensAgain
  <1>1. KeptPromises => OpensAgain
    BY DEF KeptPromises, DownOK, OpensAgain
  <1>2. QED
    BY <1>1, PromisesAreKept, PTL
=============================================================================
