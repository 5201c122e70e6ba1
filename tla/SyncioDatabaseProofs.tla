-------------------------- MODULE SyncioDatabaseProofs --------------------------
(***************************************************************************)
(* Proofs about SyncioDatabase, for any keys, retention, resolvers and     *)
(* number of faults.  Its types; that the engine keeps one history of      *)
(* commits - memory, both checkpoint files and the log are parts of it,    *)
(* whatever fails; and what this gives its users: the history only grows,  *)
(* recovery finds the state the process had, observers hear of nothing     *)
(* that can be lost, and the engine is a store that changes by commits.    *)
(***************************************************************************)
EXTENDS SyncioDatabase, TLAPS, WellFoundedInduction, FiniteSetTheorems

-----------------------------------------------------------------------------
(* What the functions of SyncioState return, for any keys, records, change *)
(* ids and retention.                                                      *)

-----------------------------------------------------------------------------
\* Indices and types.

\* The largest element of a bounded set of numbers.
LEMMA MaxIsIn ==
  ASSUME NEW n \in Nat, NEW S \in SUBSET (0..n), S # {}
  PROVE  Max(S) \in S /\ \A x \in S : x <= Max(S)
  <1> DEFINE T == {y \in 0..n : n - y \in S}
  <1>1. T \subseteq Nat /\ T # {}
    <2>1. PICK x \in S : TRUE
      OBVIOUS
    <2>2. x \in 0..n
      BY <2>1
    <2>3. n - x \in 0..n /\ n - (n - x) = x
      BY <2>2
    <2>4. n - x \in T
      BY <2>1, <2>3
    <2>5. T \subseteq Nat
      OBVIOUS
    <2>6. QED
      BY <2>4, <2>5
  <1>2. PICK m \in T : \A y \in T : ~(<<y, m>> \in OpToRel(<, Nat))
    BY <1>1, NatLessThanWellFounded, WFMin, Zenon
  <1>3. \A y \in T : m <= y
    <2> SUFFICES ASSUME NEW y \in T PROVE ~(y < m)
      BY <1>1
    <2>1. y \in Nat /\ m \in Nat
      BY <1>1
    <2>2. y < m => <<y, m>> \in OpToRel(<, Nat)
      BY <2>1 DEF OpToRel
    <2>3. QED
      BY <1>2, <2>2
  <1>4. n - m \in S
    OBVIOUS
  <1>5. \A y \in S : n - m >= y
    <2> SUFFICES ASSUME NEW y \in S PROVE n - m >= y
      OBVIOUS
    <2>1. n - y \in T
      OBVIOUS
    <2>2. m <= n - y
      BY <1>3, <2>1
    <2>3. QED
      BY <2>2
  <1>6. QED
    BY <1>4, <1>5 DEF Max

LEMMA LatestIsIn ==
  ASSUME NEW n \in Nat, NEW S \in SUBSET (1..n)
  PROVE  /\ Latest(S) \in S \cup {0} /\ Latest(S) \in 0..n
         /\ \A i \in S : i <= Latest(S)
  <1>1. S \cup {0} \in SUBSET (0..n) /\ S \cup {0} # {}
    OBVIOUS
  <1>2. Max(S \cup {0}) \in S \cup {0} /\ \A x \in S \cup {0} : x <= Max(S \cup {0})
    BY <1>1, MaxIsIn
  <1>3. Latest(S) = Max(S \cup {0})
    BY DEF Latest
  <1>4. QED
    BY <1>1, <1>2, <1>3

\* The largest index of a sequence with some property.
LEMMA MaxIndex ==
  ASSUME NEW S, NEW s \in Seq(S), NEW hits \in SUBSET DOMAIN s, hits # {}
  PROVE  Max(hits) \in hits
  <1>1. hits \in SUBSET (0..Len(s)) /\ Len(s) \in Nat
    OBVIOUS
  <1>2. QED
    BY <1>1, MaxIsIn

LEMMA EmptyType == ASSUME NEW S PROVE << >> \in Seq(S)
  OBVIOUS

LEMMA ElementType ==
  ASSUME NEW S, NEW s \in Seq(S)
  PROVE  \A i \in DOMAIN s : s[i] \in S
  OBVIOUS

LEMMA EventFields ==
  ASSUME NEW e \in Events
  PROVE  e.key \in Keys /\ e.record \in Records /\ e.changeId \in ChangeIds /\ e.sequence \in Nat
  BY DEF Events

LEMMA EntryFields ==
  ASSUME NEW e \in Entries
  PROVE  e.baseSequence \in Nat /\ e.resultSequence \in Nat /\ e.events \in Seq(Events)
  BY DEF Entries

LEMMA StateFields ==
  ASSUME NEW s \in States
  PROVE  /\ s.databaseId \in DatabaseIds /\ s.docs \in [Keys -> Records] /\ s.sequence \in Nat
         /\ s.changes \in Seq(Events) /\ s.appliedChangeIds \in [RemoteIds -> Nat]
  BY DEF States

LEMMA FreshType == ASSUME NEW id \in DatabaseIds PROVE Fresh(id) \in States
  BY DEF Fresh, States, Records, Events

LEMMA StampType ==
  ASSUME NEW changes \in Seq(Changes), NEW base \in Nat
  PROVE  Stamp(changes, base) \in Seq(Events) /\ Len(Stamp(changes, base)) = Len(changes)
  <1> DEFINE event(i) == [key |-> changes[i].key, record |-> changes[i].record,
                          changeId |-> changes[i].changeId, sequence |-> base + i]
  <1>1. ASSUME NEW i \in 1..Len(changes) PROVE event(i) \in Events
    <2>1. changes[i] \in Changes /\ base + i \in Nat
      OBVIOUS
    <2>2. QED
      BY <2>1 DEF Changes, Events
  <1> HIDE DEF event
  <1>2. [i \in 1..Len(changes) |-> event(i)] \in Seq(Events)
    BY <1>1
  <1>3. Stamp(changes, base) = [i \in 1..Len(changes) |-> event(i)]
    BY DEF Stamp, event
  <1>4. QED
    BY <1>2, <1>3

LEMMA ApplyEventsType ==
  ASSUME NEW docs \in [Keys -> Records], NEW e \in Seq(Events)
  PROVE  ApplyEvents(docs, e) \in [Keys -> Records]
  <1> SUFFICES ASSUME NEW k \in Keys PROVE ApplyEvents(docs, e)[k] \in Records
    BY DEF ApplyEvents
  <1> DEFINE hits == {i \in DOMAIN e : e[i].key = k}
  <1>1. hits # {} => Max(hits) \in hits
    BY MaxIndex
  <1>2. \A i \in hits : e[i].record \in Records
    BY ElementType, EventFields
  <1>3. QED
    BY <1>1, <1>2 DEF ApplyEvents

LEMMA PruneType ==
  ASSUME NEW s \in States
  PROVE  PruneChangeMetadata(s) \in States /\ PruneChangeMetadata(s).sequence = s.sequence
  <1> DEFINE excess == Len(s.changes) - Retention
             Dropped(r) == \E i \in 1..excess :
                             /\ s.changes[i].changeId = r
                             /\ s.changes[i].sequence = s.appliedChangeIds[r]
             changes == SubSeq(s.changes, excess + 1, Len(s.changes))
             ids == [r \in RemoteIds |-> IF Dropped(r) THEN 0 ELSE s.appliedChangeIds[r]]
  <1>1. CASE excess <= 0
    BY <1>1 DEF PruneChangeMetadata
  <1>2. CASE ~(excess <= 0)
    <2>1. PruneChangeMetadata(s) = [s EXCEPT !.changes = changes, !.appliedChangeIds = ids]
      BY <1>2 DEF PruneChangeMetadata
    <2>2. changes \in Seq(Events)
      BY <1>2, RetentionAssumption DEF States
    <2>3. ids \in [RemoteIds -> Nat]
      BY DEF States
    <2>4. QED
      BY <2>1, <2>2, <2>3 DEF States
  <1>3. QED
    BY <1>1, <1>2

LEMMA RecordEventsType ==
  ASSUME NEW s \in States, NEW e \in Seq(Events)
  PROVE  /\ RecordEvents(s, e) \in States
         /\ RecordEvents(s, e).sequence = s.sequence + Len(e)
  <1> DEFINE hits(r) == {i \in DOMAIN e : e[i].changeId = r}
             ids == [r \in RemoteIds |-> IF hits(r) = {} THEN s.appliedChangeIds[r]
                                         ELSE e[Max(hits(r))].sequence]
             t == [s EXCEPT !.sequence = s.sequence + Len(e), !.changes = s.changes \o e,
                            !.appliedChangeIds = ids]
  <1>1. ids \in [RemoteIds -> Nat]
    <2> SUFFICES ASSUME NEW r \in RemoteIds PROVE ids[r] \in Nat
      OBVIOUS
    <2>1. hits(r) # {} => Max(hits(r)) \in hits(r)
      BY MaxIndex
    <2>2. \A i \in hits(r) : e[i].sequence \in Nat
      BY ElementType, EventFields
    <2>3. QED
      BY <2>1, <2>2 DEF States
  <1>2. t \in States /\ t.sequence = s.sequence + Len(e)
    <2>1. s.sequence + Len(e) \in Nat /\ s.changes \o e \in Seq(Events)
      BY StateFields
    <2> HIDE DEF ids
    <2>2. QED
      BY <1>1, <2>1 DEF States
  <1>3. RecordEvents(s, e) = PruneChangeMetadata(t)
    BY DEF RecordEvents
  <1>4. QED
    BY <1>2, <1>3, PruneType

\* What listAfter returns is a suffix of the log.
LEMMA ListAfterSuffix ==
  ASSUME NEW S, NEW wal \in Seq(S), NEW n \in Nat
  PROVE  /\ ListAfter(wal, n) \in Seq(S)
         /\ \E k \in 0..Len(wal) :
              /\ Len(ListAfter(wal, n)) = Len(wal) - k
              /\ \A i \in 1..(Len(wal) - k) : ListAfter(wal, n)[i] = wal[k + i]
  <1> DEFINE k == Latest({i \in DOMAIN wal : wal[i].resultSequence <= n})
  <1>1. k \in 0..Len(wal)
    BY LatestIsIn
  <1>2. ListAfter(wal, n) = SubSeq(wal, k + 1, Len(wal))
    BY DEF ListAfter
  <1> HIDE DEF k
  <1>3. QED
    BY <1>1, <1>2

\* The events of contiguous entries that hold what they say.
LEMMA EventsOfType ==
  ASSUME NEW wal \in Seq(Entries), Contiguous(wal),
         \A i \in DOMAIN wal :
           wal[i].resultSequence = wal[i].baseSequence + Len(wal[i].events)
  PROVE  EventsOf(wal) \in Seq(Events)
  <1> SUFFICES ASSUME wal # << >> PROVE EventsOf(wal) \in Seq(Events)
    <2>1. wal = << >> => EventsOf(wal) = << >>
      BY Zenon DEF EventsOf
    <2>2. QED
      BY <2>1, EmptyType
  <1> DEFINE base == wal[1].baseSequence
             total == wal[Len(wal)].resultSequence - base
             at(n) == Latest({j \in DOMAIN wal : wal[j].baseSequence < base + n})
             event(n) == wal[at(n)].events[(base + n) - wal[at(n)].baseSequence]
  <1>1. \A i \in DOMAIN wal :
          /\ wal[i].baseSequence \in Nat /\ wal[i].resultSequence \in Nat
          /\ wal[i].events \in Seq(Events)
    BY ElementType, EntryFields
  <1>2. Len(wal) \in Nat \ {0} /\ base \in Nat /\ total \in Int
    BY <1>1
  <1>3. ASSUME NEW n \in 1..total PROVE event(n) \in Events
    <2> DEFINE starts == {j \in DOMAIN wal : wal[j].baseSequence < base + n}
    <2>1. 1 \in starts
      BY <1>2
    <2> DEFINE i == at(n)
    <2>2. i \in starts /\ \A j \in starts : j <= i
      <3>1. starts \in SUBSET (1..Len(wal)) /\ Len(wal) \in Nat /\ i = Latest(starts)
        OBVIOUS
      <3> HIDE DEF starts, i
      <3>2. i \in starts \cup {0} /\ 1 <= i /\ \A j \in starts : j <= i
        BY <2>1, <3>1, LatestIsIn
      <3>3. i # 0
        BY <3>2
      <3>4. i \in starts
        BY <3>2, <3>3
      <3>5. QED
        BY <3>2, <3>4
    <2> HIDE DEF i
    <2>3. i \in 1..Len(wal) /\ wal[i].baseSequence < base + n
      BY <2>2
    <2>4. base + n <= wal[i].resultSequence
      <3>1. CASE i = Len(wal)
        BY <1>1, <1>2, <1>3, <2>3, <3>1
      <3>2. CASE i # Len(wal)
        <4>1. i + 1 \in DOMAIN wal
          BY <2>3, <3>2
        <4>2. ~(i + 1 <= i) /\ i + 1 \notin starts
          <5>1. i \in Nat
            BY <2>3
          <5>2. ~(i + 1 <= i)
            BY <5>1
          <5>3. QED
            BY <2>2, <5>2
        <4>3. wal[i + 1].baseSequence = wal[i].resultSequence
          BY <2>3, <3>2 DEF Contiguous
        <4>4. QED
          BY <1>1, <1>2, <2>3, <4>1, <4>2, <4>3
      <3>3. QED
        BY <3>1, <3>2
    <2> DEFINE x == base + n
               b == wal[i].baseSequence
               l == Len(wal[i].events)
    <2>5. x - b \in 1..l
      <3>1. x \in Int /\ b \in Nat /\ l \in Nat
        BY <1>1, <1>2, <2>3
      <3>2. b < x /\ x <= b + l
        BY <2>3, <2>4
      <3> HIDE DEF x, b, l
      <3>3. QED
        BY <3>1, <3>2
    <2>6. wal[i].events[x - b] \in Events
      <3>1. wal[i].events \in Seq(Events) /\ l = Len(wal[i].events)
        BY <1>1, <2>3
      <3> HIDE DEF x, b, l
      <3>2. QED
        BY <2>5, <3>1
    <2>7. event(n) = wal[i].events[x - b]
      BY DEF i
    <2>8. QED
      BY <2>6, <2>7
  <1>4. EventsOf(wal) = [n \in 1..total |-> event(n)]
    BY DEF EventsOf
  <1> HIDE DEF event
  <1>5. [n \in 1..total |-> event(n)] \in Seq(Events)
    BY <1>2, <1>3
  <1>6. QED
    BY <1>4, <1>5

\* The entries after a checkpoint follow each other, as the whole log does.
LEMMA SuffixContiguous ==
  ASSUME NEW wal \in Seq(Entries), NEW n \in Nat, Contiguous(wal)
  PROVE  Contiguous(ListAfter(wal, n))
  <1>1. PICK k \in 0..Len(wal) :
          /\ Len(ListAfter(wal, n)) = Len(wal) - k
          /\ \A i \in 1..(Len(wal) - k) : ListAfter(wal, n)[i] = wal[k + i]
    BY ListAfterSuffix
  <1> DEFINE after == ListAfter(wal, n)
  <1> SUFFICES ASSUME NEW i \in 1..(Len(after) - 1)
               PROVE  after[i + 1].baseSequence = after[i].resultSequence
    BY DEF Contiguous
  <1>2. Len(wal) \in Nat /\ Len(after) = Len(wal) - k
    BY <1>1
  <1> HIDE DEF after
  <1>3. i \in 1..(Len(wal) - k) /\ i + 1 \in 1..(Len(wal) - k)
    BY <1>2
  <1>4. k + i \in 1..(Len(wal) - 1) /\ k + (i + 1) = (k + i) + 1
    BY <1>2, <1>3
  <1>5. after[i] = wal[k + i] /\ after[i + 1] = wal[(k + i) + 1]
    BY <1>1, <1>3, <1>4 DEF after
  <1>6. wal[(k + i) + 1].baseSequence = wal[k + i].resultSequence
    BY <1>4 DEF Contiguous
  <1>7. QED
    BY <1>5, <1>6

\* A part of a sequence is a sequence.
LEMMA SubSeqType ==
  ASSUME NEW S, NEW s \in Seq(S), NEW m \in Nat \ {0}, NEW n \in 0..Len(s)
  PROVE  SubSeq(s, m, n) \in Seq(S)
  OBVIOUS

\* Every rank up to the size of a set of indices is the rank of one of them.
LEMMA RankIsTaken ==
  ASSUME NEW N \in Nat, NEW picked \in SUBSET (1..N), NEW n \in 1..Cardinality(picked)
  PROVE  \E i \in picked : Cardinality({j \in picked : j <= i}) = n
  <1> DEFINE Upto(i) == {j \in picked : j <= i}
             below == {i \in 0..N : Cardinality(Upto(i)) < n}
             m == Max(below)
  <1>1. IsFiniteSet(picked) /\ \A i \in 0..N : /\ IsFiniteSet(Upto(i))
                                               /\ Cardinality(Upto(i)) \in Nat
    <2>1. IsFiniteSet(1..N)
      BY FS_Interval
    <2>2. IsFiniteSet(picked)
      BY <2>1, FS_Subset
    <2>3. \A i \in 0..N : Upto(i) \subseteq picked
      OBVIOUS
    <2>4. QED
      BY <2>2, <2>3, FS_Subset, FS_CardinalityType
  <1>2. Upto(0) = {} /\ Upto(N) = picked
    <2>1. \A j \in picked : ~(j <= 0) /\ j <= N
      OBVIOUS
    <2>2. QED
      BY <2>1, Zenon
  <1>3. n \in Nat /\ 1 <= n /\ n <= Cardinality(picked) /\ Cardinality(picked) \in Nat
    BY <1>1, FS_CardinalityType
  <1>4. 0 \in below
    BY <1>2, <1>3, FS_EmptySet
  <1>5. m \in below /\ \A i \in below : i <= m
    <2> HIDE DEF below
    <2>1. below \in SUBSET (0..N)
      BY DEF below
    <2>2. QED
      BY <1>4, <2>1, MaxIsIn
  <1> HIDE DEF m
  <1>6. m \in 0..N /\ Cardinality(Upto(m)) < n
    BY <1>5
  <1>7. m # N
    BY <1>2, <1>3, <1>6
  <1>8. m + 1 \in 0..N /\ ~(m + 1 <= m)
    BY <1>6, <1>7
  <1>9. ~(Cardinality(Upto(m + 1)) < n)
    BY <1>5, <1>8
  <1>10. m + 1 \in picked
    <2> SUFFICES ASSUME m + 1 \notin picked PROVE FALSE
      OBVIOUS
    <2>1. Upto(m + 1) = Upto(m)
      <3>1. \A j \in picked : j <= m + 1 <=> j <= m
        BY <1>6
      <3>2. QED
        BY <3>1, Zenon
    <2>2. QED
      BY <1>6, <1>9, <2>1
  <1>11. Cardinality(Upto(m + 1)) = Cardinality(Upto(m)) + 1
    <2>1. Upto(m + 1) = Upto(m) \cup {m + 1} /\ m + 1 \notin Upto(m)
      <3>1. \A j \in picked : j <= m + 1 <=> j <= m \/ j = m + 1
        BY <1>6
      <3>2. QED
        BY <1>8, <1>10, <3>1, Zenon
    <2> HIDE DEF Upto
    <2>2. QED
      BY <1>1, <1>6, <2>1, FS_AddElement
  <1>12. Cardinality(Upto(m + 1)) = n
    <2>1. Cardinality(Upto(m)) \in Nat
      BY <1>1, <1>6
    <2> HIDE DEF Upto
    <2>2. QED
      BY <1>3, <1>6, <1>9, <1>11, <2>1
  <1>13. QED
    BY <1>10, <1>12

LEMMA PickType ==
  ASSUME NEW S, NEW s \in Seq(S), NEW picked \in SUBSET DOMAIN s
  PROVE  /\ Pick(s, picked) \in Seq(S)
         /\ \A n \in DOMAIN Pick(s, picked) : \E i \in picked : Pick(s, picked)[n] = s[i]
  <1> DEFINE at(n) == CHOOSE i \in picked : Cardinality({j \in picked : j <= i}) = n
  <1>1. Len(s) \in Nat /\ picked \in SUBSET (1..Len(s))
    OBVIOUS
  <1>2. \A n \in 1..Cardinality(picked) : at(n) \in picked
    <2> SUFFICES ASSUME NEW n \in 1..Cardinality(picked) PROVE at(n) \in picked
      OBVIOUS
    <2>1. \E i \in picked : Cardinality({j \in picked : j <= i}) = n
      BY <1>1, RankIsTaken
    <2>2. QED
      BY <2>1
  <1>3. Pick(s, picked) = [n \in 1..Cardinality(picked) |-> s[at(n)]]
    BY DEF Pick
  <1>4. IsFiniteSet(picked)
    BY <1>1, FS_Interval, FS_Subset
  <1>5. Cardinality(picked) \in Nat
    BY <1>4, FS_CardinalityType
  <1> HIDE DEF at
  <1>6. QED
    BY SMTT(30), <1>2, <1>3, <1>5

LEMMA ChangesSinceType ==
  ASSUME NEW s \in States, NEW c, NEW scope, NEW limit
  PROVE  LET found == ChangesSince(s, c, scope, limit)
         IN /\ found \in Seq(Events)
            /\ \A n \in DOMAIN found : \E i \in DOMAIN s.changes :
                 found[n] = s.changes[i] /\ s.changes[i].sequence > c
  <1>1. s.changes \in Seq(Events)
    BY StateFields
  <1> DEFINE later == {i \in DOMAIN s.changes : /\ s.changes[i].sequence > c
                                                /\ s.changes[i].key \in scope}
             picked == {i \in later : Cardinality({j \in later : j <= i}) <= limit}
  <1>2. /\ ChangesSince(s, c, scope, limit) = Pick(s.changes, picked)
        /\ picked \in SUBSET DOMAIN s.changes
        /\ \A i \in picked : s.changes[i].sequence > c
    BY DEF ChangesSince
  <1> HIDE DEF picked
  <1>3. /\ Pick(s.changes, picked) \in Seq(Events)
        /\ \A n \in DOMAIN Pick(s.changes, picked) :
             \E i \in picked : Pick(s.changes, picked)[n] = s.changes[i]
    <2> DEFINE all == s.changes
    <2>1. all \in Seq(Events) /\ picked \in SUBSET DOMAIN all
      BY <1>1, <1>2
    <2> HIDE DEF all
    <2>2. /\ Pick(all, picked) \in Seq(Events)
          /\ \A n \in DOMAIN Pick(all, picked) : \E i \in picked : Pick(all, picked)[n] = all[i]
      BY <2>1, PickType
    <2>3. QED
      BY <2>2 DEF all
  <1>4. QED
    BY <1>2, <1>3

-----------------------------------------------------------------------------
\* A state as a function of the history of commits it has seen.

Blank == [k \in Keys |-> NoRecord]

\* The place of the last event of a history with a change id, 0 if none.
LastHit(L, r) == Latest({i \in DOMAIN L : L[i].changeId = r})

\* The newest changes, as many as are retained.
Retained(L) ==
  SubSeq(L, IF Len(L) > Retention THEN Len(L) - Retention + 1 ELSE 1, Len(L))

\* The change ids that are remembered: those of retained changes.
AppliedBy(L) ==
  [r \in RemoteIds |-> IF LastHit(L, r) + Retention > Len(L) THEN LastHit(L, r) ELSE 0]

Remembers(s, L) ==
  s.sequence = Len(L) /\ s.changes = Retained(L) /\ s.appliedChangeIds = AppliedBy(L)

Numbered(L) == \A n \in DOMAIN L : L[n].sequence = n

LEMMA ConcatIs ==
  ASSUME NEW S, NEW a \in Seq(S), NEW b \in Seq(S)
  PROVE  /\ a \o b \in Seq(S) /\ Len(a \o b) = Len(a) + Len(b)
         /\ \A i \in 1..Len(a) : (a \o b)[i] = a[i]
         /\ \A i \in 1..Len(b) : (a \o b)[Len(a) + i] = b[i]
         /\ \A i \in 1..(Len(a) + Len(b)) : i > Len(a) => (a \o b)[i] = b[i - Len(a)]
  OBVIOUS

LEMMA EmptyIs == ASSUME NEW S, NEW s \in Seq(S) PROVE s = << >> <=> Len(s) = 0
  OBVIOUS

LEMMA SubSeqIs ==
  ASSUME NEW S, NEW s \in Seq(S), NEW m \in Nat \ {0}, NEW n \in 0..Len(s)
  PROVE  /\ SubSeq(s, m, n) \in Seq(S)
         /\ Len(SubSeq(s, m, n)) = IF m <= n THEN n - m + 1 ELSE 0
         /\ \A i \in 1..Len(SubSeq(s, m, n)) : SubSeq(s, m, n)[i] = s[m + i - 1]
  OBVIOUS

LEMMA SameSequence ==
  ASSUME NEW S, NEW a \in Seq(S), NEW b \in Seq(S), Len(a) = Len(b),
         \A i \in 1..Len(a) : a[i] = b[i]
  PROVE  a = b
  OBVIOUS

LEMMA RetainedIs ==
  ASSUME NEW L \in Seq(Events)
  PROVE  /\ Retained(L) \in Seq(Events)
         /\ Len(Retained(L)) = IF Len(L) > Retention THEN Retention ELSE Len(L)
         /\ \A i \in 1..Len(Retained(L)) : Retained(L)[i] = L[Len(L) - Len(Retained(L)) + i]
  <1> DEFINE m == IF Len(L) > Retention THEN Len(L) - Retention + 1 ELSE 1
  <1>1. m \in Nat \ {0} /\ Len(L) \in 0..Len(L) /\ Len(L) \in Nat
    BY RetentionAssumption
  <1>2. Retained(L) = SubSeq(L, m, Len(L))
    BY DEF Retained
  <1> HIDE DEF m
  <1>3. /\ Retained(L) \in Seq(Events)
        /\ Len(Retained(L)) = IF m <= Len(L) THEN Len(L) - m + 1 ELSE 0
        /\ \A i \in 1..Len(Retained(L)) : Retained(L)[i] = L[m + i - 1]
    BY <1>1, <1>2, SubSeqIs
  <1> DEFINE n == Len(L)
             q == Len(Retained(L))
  <1>4. n \in Nat /\ q = (IF m <= n THEN n - m + 1 ELSE 0)
        /\ m = (IF n > Retention THEN n - Retention + 1 ELSE 1)
    BY <1>1, <1>3 DEF m
  <1>5. /\ q = IF n > Retention THEN Retention ELSE n
        /\ \A i \in 1..q : m + i - 1 = n - q + i
    <2> HIDE DEF n, q
    <2>1. QED
      BY <1>1, <1>4, RetentionAssumption
  <1>6. QED
    BY <1>3, <1>5

LEMMA LastHitIs ==
  ASSUME NEW L \in Seq(Events), NEW r
  PROVE  /\ LastHit(L, r) \in 0..Len(L)
         /\ LastHit(L, r) # 0 => L[LastHit(L, r)].changeId = r
         /\ \A i \in DOMAIN L : L[i].changeId = r => i <= LastHit(L, r)
  <1> DEFINE hits == {i \in DOMAIN L : L[i].changeId = r}
  <1>1. hits \in SUBSET (1..Len(L)) /\ Len(L) \in Nat
    OBVIOUS
  <1>2. LastHit(L, r) = Latest(hits)
    BY DEF LastHit
  <1> HIDE DEF hits
  <1>3. /\ LastHit(L, r) \in hits \cup {0} /\ LastHit(L, r) \in 0..Len(L)
        /\ \A i \in hits : i <= LastHit(L, r)
    BY <1>1, <1>2, LatestIsIn
  <1>4. QED
    BY <1>3 DEF hits

\* The last event with an id is in the second part of a history if there is one.
LEMMA LastHitOfParts ==
  ASSUME NEW L \in Seq(Events), NEW e \in Seq(Events), NEW r
  PROVE  LET hits == {i \in DOMAIN e : e[i].changeId = r}
         IN LastHit(L \o e, r) = IF hits = {} THEN LastHit(L, r) ELSE Len(L) + Max(hits)
  <1> DEFINE hits == {i \in DOMAIN e : e[i].changeId = r}
             G == L \o e
             a == LastHit(L, r)
             g == LastHit(G, r)
  <1>1. /\ G \in Seq(Events) /\ Len(G) = Len(L) + Len(e) /\ Len(L) \in Nat /\ Len(e) \in Nat
        /\ \A i \in 1..Len(L) : G[i] = L[i]
        /\ \A i \in 1..Len(e) : G[Len(L) + i] = e[i]
        /\ \A i \in 1..Len(G) : i > Len(L) => G[i] = e[i - Len(L)]
    BY ConcatIs
  <1> HIDE DEF G
  <1>2. /\ a \in 0..Len(L) /\ (a # 0 => L[a].changeId = r)
        /\ \A i \in 1..Len(L) : L[i].changeId = r => i <= a
    BY LastHitIs
  <1>3. /\ g \in 0..Len(G) /\ (g # 0 => G[g].changeId = r)
        /\ \A i \in 1..Len(G) : G[i].changeId = r => i <= g
    BY <1>1, LastHitIs
  <1> HIDE DEF a, g
  <1> DEFINE l == Len(L)
  <1>4. CASE hits = {}
    <2>1. \A i \in 1..Len(e) : e[i].changeId # r
      BY <1>4
    <2>2. g <= Len(L)
      <3>1. ASSUME g > Len(L) PROVE FALSE
        <4>1. g \in 1..Len(G) /\ g - Len(L) \in 1..Len(e) /\ g # 0
          BY <1>1, <1>3, <3>1
        <4>2. G[g] = e[g - Len(L)]
          BY <1>1, <3>1, <4>1
        <4>3. QED
          BY <1>3, <2>1, <4>1, <4>2
      <3>2. QED
        BY <1>1, <1>3, <3>1
    <2>3. a <= g
      <3>1. CASE a = 0
        BY <1>1, <1>3, <3>1
      <3>2. CASE a # 0
        <4>1. a \in 1..Len(L) /\ a \in 1..Len(G)
          BY <1>1, <1>2, <3>2
        <4>2. QED
          BY <1>1, <1>2, <1>3, <3>2, <4>1
      <3>3. QED
        BY <3>1, <3>2
    <2>4. g <= a
      <3>1. CASE g = 0
        BY <1>1, <1>2, <3>1
      <3>2. CASE g # 0
        <4>1. g \in 1..Len(L)
          BY <1>1, <1>3, <2>2, <3>2
        <4>2. QED
          BY <1>1, <1>2, <1>3, <3>2, <4>1
      <3>3. QED
        BY <3>1, <3>2
    <2>5. g = a
      BY <1>1, <1>2, <1>3, <2>3, <2>4
    <2>6. QED
      BY <1>4, <2>5 DEF a, g, G
  <1>5. CASE hits # {}
    <2> DEFINE m == Max(hits)
    <2>1. m \in hits /\ \A x \in hits : x <= m
      <3>1. hits \in SUBSET (0..Len(e)) /\ Len(e) \in Nat
        OBVIOUS
      <3> HIDE DEF hits
      <3>2. QED
        BY <1>5, <3>1, MaxIsIn
    <2> HIDE DEF m
    <2>2. m \in 1..Len(e) /\ e[m].changeId = r
      BY <2>1
    <2>3. Len(L) + m \in 1..Len(G) /\ G[Len(L) + m].changeId = r
      BY <1>1, <2>2
    <2>4. Len(L) + m <= g
      BY <1>3, <2>3
    <2>5. g <= Len(L) + m
      <3>1. g > Len(L) /\ g \in 1..Len(G) /\ g # 0 /\ g - Len(L) \in 1..Len(e)
        BY <1>1, <1>3, <2>2, <2>4
      <3>2. e[g - Len(L)].changeId = r
        BY <1>1, <1>3, <3>1
      <3>3. g - Len(L) <= m
        BY <2>1, <3>1, <3>2
      <3>4. QED
        BY <1>1, <1>3, <2>2, <3>1, <3>3
    <2>6. g = Len(L) + m
      <3>1. g \in Int /\ l \in Int /\ m \in Int /\ g <= l + m /\ l + m <= g
        BY <1>1, <1>3, <2>2, <2>4, <2>5
      <3> HIDE DEF l
      <3>2. g = l + m
        BY <3>1
      <3>3. QED
        BY <3>2 DEF l
    <2>7. QED
      BY <1>5, <2>6 DEF g, G, m
  <1>6. QED
    BY <1>4, <1>5

\* Recording events makes of the state of a history the state of the longer one:
\* the newest changes are retained, and an id is known while its last change is.
LEMMA RecordedHistory ==
  ASSUME NEW s \in States, NEW L \in Seq(Events), NEW e \in Seq(Events),
         Numbered(L \o e), Remembers(s, L)
  PROVE  /\ Remembers(RecordEvents(s, e), L \o e)
         /\ RecordEvents(s, e).docs = s.docs
         /\ RecordEvents(s, e).databaseId = s.databaseId
  <1> DEFINE G == L \o e
             A == Retained(L)
             C == A \o e
             n == Len(L)
             k == Len(e)
             a == Len(A)
             excess == Len(C) - Retention
             hits(r) == {i \in DOMAIN e : e[i].changeId = r}
             ids == [r \in RemoteIds |-> IF hits(r) = {} THEN s.appliedChangeIds[r]
                                         ELSE e[Max(hits(r))].sequence]
             t == [s EXCEPT !.sequence = s.sequence + Len(e), !.changes = s.changes \o e,
                            !.appliedChangeIds = ids]
             Dropped(r) == \E i \in 1..excess : C[i].changeId = r /\ C[i].sequence = ids[r]
             last(r) == LastHit(G, r)
  <1>1. /\ G \in Seq(Events) /\ Len(G) = n + k /\ n \in Nat /\ k \in Nat
        /\ \A i \in 1..n : G[i] = L[i]
        /\ \A i \in 1..k : G[n + i] = e[i]
    BY ConcatIs
  <1>2. /\ A \in Seq(Events) /\ a = (IF n > Retention THEN Retention ELSE n)
        /\ \A i \in 1..a : A[i] = L[n - a + i]
    BY RetainedIs
  <1>3. /\ C \in Seq(Events) /\ Len(C) = a + k /\ a \in Nat
        /\ \A i \in 1..a : C[i] = A[i]
        /\ \A i \in 1..(a + k) : i > a => C[i] = e[i - a]
    <2> HIDE DEF A
    <2>1. /\ A \o e \in Seq(Events) /\ Len(A \o e) = Len(A) + Len(e)
          /\ \A i \in 1..Len(A) : (A \o e)[i] = A[i]
          /\ \A i \in 1..Len(e) : (A \o e)[Len(A) + i] = e[i]
          /\ \A i \in 1..(Len(A) + Len(e)) : i > Len(A) => (A \o e)[i] = e[i - Len(A)]
      BY <1>2, ConcatIs, Zenon
    <2>2. Len(A) \in Nat
      BY <1>2
    <2>3. QED
      BY <2>1, <2>2
  <1>4. \A m \in 1..(n + k) : G[m].sequence = m
    BY <1>1 DEF Numbered
  <1>5. /\ Len(Retained(G)) = (IF n + k > Retention THEN Retention ELSE n + k)
        /\ Retained(G) \in Seq(Events)
        /\ \A i \in 1..Len(Retained(G)) : Retained(G)[i] = G[(n + k) - Len(Retained(G)) + i]
    <2> HIDE DEF G, n, k
    <2>1. /\ Retained(G) \in Seq(Events)
          /\ Len(Retained(G)) = IF Len(G) > Retention THEN Retention ELSE Len(G)
          /\ \A i \in 1..Len(Retained(G)) : Retained(G)[i] = G[Len(G) - Len(Retained(G)) + i]
      BY <1>1, RetainedIs, Zenon
    <2>2. QED
      BY <1>1, <2>1
  <1>6. s.sequence = n /\ s.changes = A /\ s.appliedChangeIds = AppliedBy(L)
    BY DEF Remembers
  <1>7. RecordEvents(s, e) = PruneChangeMetadata(t)
    BY DEF RecordEvents
  <1>8. /\ t.sequence = n + k /\ t.changes = C /\ t.appliedChangeIds = ids
        /\ t.docs = s.docs /\ t.databaseId = s.databaseId /\ t \in States
    <2>1. s.sequence + Len(e) = n + k /\ s.changes \o e = C /\ n + k \in Nat
      BY <1>1, <1>6
    <2>2. ids \in [RemoteIds -> Nat]
      <3> SUFFICES ASSUME NEW r \in RemoteIds PROVE ids[r] \in Nat
        OBVIOUS
      <3>1. hits(r) # {} => Max(hits(r)) \in hits(r)
        BY MaxIndex
      <3>2. \A i \in hits(r) : e[i].sequence \in Nat
        BY ElementType, EventFields
      <3>3. QED
        BY <3>1, <3>2 DEF States
    <2>3. t = [s EXCEPT !.sequence = n + k, !.changes = C, !.appliedChangeIds = ids]
      <3> HIDE DEF ids, n, k, C
      <3>1. QED
        BY <2>1
    <2> HIDE DEF C, ids, n, k, t
    <2>4. QED
      <3>1. n + k \in Nat /\ C \in Seq(Events)
        BY <1>3, <2>1
      <3>2. QED
        BY <2>2, <2>3, <3>1, StateFields DEF States
  <1>9. ASSUME NEW r \in RemoteIds
        PROVE  /\ last(r) \in 0..(n + k) /\ (last(r) # 0 => G[last(r)].changeId = r)
               /\ ids[r] = IF last(r) + Retention > n THEN last(r) ELSE 0
    <2>1. last(r) \in 0..(n + k) /\ (last(r) # 0 => G[last(r)].changeId = r)
      <3> HIDE DEF G
      <3>1. QED
        BY <1>1, LastHitIs
    <2>2. last(r) = IF hits(r) = {} THEN LastHit(L, r) ELSE n + Max(hits(r))
      BY ZenonT(30), LastHitOfParts
    <2>3. CASE hits(r) = {}
      <3>1. ids[r] = AppliedBy(L)[r]
        BY <1>6, <2>3
      <3>2. QED
        BY <2>1, <2>2, <2>3, <3>1 DEF AppliedBy
    <2>4. CASE hits(r) # {}
      <3>1. Max(hits(r)) \in hits(r)
        BY <2>4, MaxIndex
      <3> DEFINE m == Max(hits(r))
      <3>2. m \in 1..k
        BY <3>1
      <3>3. ids[r] = e[m].sequence
        BY <2>4
      <3> HIDE DEF m, G, ids
      <3>4. n + m \in 1..(n + k) /\ G[n + m] = e[m]
        BY <1>1, <3>2
      <3>5. ids[r] = n + m
        BY <1>4, <3>3, <3>4
      <3>6. last(r) = n + m
        BY <2>2, <2>4 DEF m
      <3>7. QED
        BY <1>1, <2>1, <3>2, <3>5, <3>6, RetentionAssumption
    <2>5. QED
      BY <2>1, <2>3, <2>4
  <1> HIDE DEF G, A, C, ids, t, n, k, a
  <1>10. \A i \in 1..(a + k) : C[i] = G[(n - a) + i]
    <2> SUFFICES ASSUME NEW i \in 1..(a + k) PROVE C[i] = G[(n - a) + i]
      OBVIOUS
    <2>1. CASE i <= a
      <3>1. i \in 1..a /\ (n - a) + i \in 1..n
        BY <1>1, <1>2, <1>3, <2>1, RetentionAssumption
      <3>2. QED
        BY <1>1, <1>2, <1>3, <3>1
    <2>2. CASE ~(i <= a)
      <3>1. i - a \in 1..k /\ n + (i - a) = (n - a) + i /\ i > a
        BY <1>1, <1>3, <2>2
      <3>2. QED
        BY <1>1, <1>3, <3>1
    <2>3. QED
      BY <2>1, <2>2
  <1>11. \A r \in RemoteIds : AppliedBy(G)[r] = IF last(r) + Retention > n + k THEN last(r) ELSE 0
    BY <1>1 DEF AppliedBy
  <1>12. AppliedBy(G) = [r \in RemoteIds |-> AppliedBy(G)[r]] /\ ids = [r \in RemoteIds |-> ids[r]]
    BY DEF AppliedBy, ids
  <1>13. CASE excess <= 0
    <2>1. RecordEvents(s, e) = t
      BY <1>7, <1>8, <1>13 DEF PruneChangeMetadata
    <2>2. C = Retained(G)
      <3> DEFINE q == Len(Retained(G))
      <3>1. Len(C) = q /\ n - a = (n + k) - q
        <4> HIDE DEF q
        <4>1. q = (IF n + k > Retention THEN Retention ELSE n + k)
          BY <1>5 DEF q
        <4>2. QED
          BY <1>1, <1>2, <1>3, <1>13, <4>1, RetentionAssumption
      <3>2. \A i \in 1..Len(C) : C[i] = Retained(G)[i]
        BY <1>3, <1>5, <1>10, <3>1
      <3>3. QED
        BY <1>3, <1>5, <3>1, <3>2, SameSequence
    <2>3. \A r \in RemoteIds : ids[r] = AppliedBy(G)[r]
      <3> SUFFICES ASSUME NEW r \in RemoteIds PROVE ids[r] = AppliedBy(G)[r]
        OBVIOUS
      <3> DEFINE h == last(r)
      <3>1. h \in Nat /\ ids[r] = (IF h + Retention > n THEN h ELSE 0)
            /\ AppliedBy(G)[r] = (IF h + Retention > n + k THEN h ELSE 0)
        BY <1>1, <1>9, <1>11
      <3> HIDE DEF h
      <3>2. QED
        BY <1>1, <1>2, <1>3, <1>13, <3>1, RetentionAssumption
    <2>4. ids = AppliedBy(G)
      BY <1>12, <2>3, Zenon
    <2>5. QED
      BY <1>1, <1>8, <2>1, <2>2, <2>4 DEF Remembers, G
  <1>14. CASE ~(excess <= 0)
    <2> DEFINE D == SubSeq(C, excess + 1, Len(C))
               kept == [r \in RemoteIds |-> IF Dropped(r) THEN 0 ELSE ids[r]]
    <2>1. PruneChangeMetadata(t) = [t EXCEPT !.changes = D, !.appliedChangeIds = kept]
      BY <1>8, <1>14 DEF PruneChangeMetadata
    <2>2. /\ RecordEvents(s, e).sequence = n + k /\ RecordEvents(s, e).changes = D
          /\ RecordEvents(s, e).appliedChangeIds = kept
          /\ RecordEvents(s, e).docs = s.docs /\ RecordEvents(s, e).databaseId = s.databaseId
      <3> HIDE DEF D, kept
      <3>1. QED
        BY <1>7, <1>8, <2>1
    <2>3. D = Retained(G)
      <3>1. excess \in Nat \ {0} /\ excess + 1 \in Nat \ {0} /\ Len(C) \in 0..Len(C)
        BY <1>1, <1>3, <1>14, RetentionAssumption
      <3>2. /\ D \in Seq(Events) /\ Len(D) = (IF excess + 1 <= Len(C) THEN Len(C) - (excess + 1) + 1 ELSE 0)
            /\ \A i \in 1..Len(D) : D[i] = C[(excess + 1) + i - 1]
        BY SMTT(30), <1>3, <3>1, SubSeqIs
      <3> HIDE DEF D
      <3>3. Len(D) = Retention /\ Len(Retained(G)) = Retention
        BY <1>1, <1>2, <1>3, <1>5, <1>14, <3>2, RetentionAssumption
      <3>4. ASSUME NEW i \in 1..Len(D) PROVE D[i] = Retained(G)[i]
        <4>1. /\ (excess + 1) + i - 1 = excess + i /\ excess + i \in 1..(a + k)
              /\ (n - a) + (excess + i) = (n + k) - Len(Retained(G)) + i
          BY <1>1, <1>3, <1>14, <3>3, RetentionAssumption
        <4>2. D[i] = C[excess + i] /\ C[excess + i] = G[(n - a) + (excess + i)]
          BY <1>10, <3>2, <4>1
        <4>3. QED
          BY <1>5, <3>3, <4>1, <4>2
      <3>5. QED
        BY <1>5, <3>2, <3>3, <3>4, SameSequence
    <2>4. ASSUME NEW r \in RemoteIds PROVE kept[r] = AppliedBy(G)[r]
      <3> DEFINE h == last(r)
      <3>1. h \in 0..(n + k) /\ (h # 0 => G[h].changeId = r)
            /\ ids[r] = (IF h + Retention > n THEN h ELSE 0)
            /\ AppliedBy(G)[r] = (IF h + Retention > n + k THEN h ELSE 0)
        BY <1>1, <1>9, <1>11
      <3> HIDE DEF h
      <3>2. kept[r] = IF Dropped(r) THEN 0 ELSE ids[r]
        OBVIOUS
      <3>3. CASE ids[r] = 0
        BY <1>1, <3>1, <3>2, <3>3, RetentionAssumption
      <3>4. CASE ids[r] # 0
        <4>1. ids[r] = h /\ h + Retention > n /\ h # 0 /\ h \in Nat
          BY <1>1, <3>1, <3>4
        <4>2. h - (n - a) \in Int /\ h - (n - a) >= 1
          BY <1>1, <1>2, <1>3, <4>1, RetentionAssumption
        <4>3. \A i \in 1..excess : i \in 1..(a + k) /\ (n - a) + i \in 1..(n + k)
          BY SMTT(40), <1>1, <1>2, <1>3, RetentionAssumption
        <4>4. \A i \in 1..excess : C[i].sequence = (n - a) + i
          BY <1>4, <1>10, <4>3
        <4>5. CASE h + Retention > n + k
          <5>1. ASSUME NEW i \in 1..excess PROVE (n - a) + i # h
            BY SMTT(30), <1>1, <1>3, <4>1, <4>5, RetentionAssumption
          <5>2. ~Dropped(r)
            BY <4>1, <4>4, <5>1
          <5>3. QED
            BY <3>1, <3>2, <4>1, <4>5, <5>2
        <4>6. CASE ~(h + Retention > n + k)
          <5> DEFINE i == h - (n - a)
          <5>1. i \in 1..excess /\ (n - a) + i = h /\ i \in 1..(a + k)
            BY <1>1, <1>3, <3>1, <4>2, <4>6, RetentionAssumption
          <5> HIDE DEF i
          <5>2. C[i].changeId = r /\ C[i].sequence = ids[r]
            BY <1>10, <3>1, <4>1, <4>4, <5>1
          <5>3. Dropped(r)
            BY <5>1, <5>2
          <5>4. QED
            BY <3>1, <3>2, <4>6, <5>3
        <4>7. QED
          BY <4>5, <4>6
      <3>5. QED
        BY <3>3, <3>4
    <2>5. kept = AppliedBy(G)
      <3>1. kept = [r \in RemoteIds |-> kept[r]]
        OBVIOUS
      <3> HIDE DEF kept
      <3>2. QED
        BY <1>12, <2>4, <3>1, Zenon
    <2> HIDE DEF D, kept
    <2>6. QED
      BY <1>1, <2>2, <2>3, <2>5 DEF Remembers, G
  <1>15. QED
    BY <1>13, <1>14

\* Applying events in two goes is applying them all: the last event of a key decides.
LEMMA ApplyParts ==
  ASSUME NEW docs \in [Keys -> Records], NEW L \in Seq(Events), NEW e \in Seq(Events)
  PROVE  ApplyEvents(ApplyEvents(docs, L), e) = ApplyEvents(docs, L \o e)
  <1> DEFINE G == L \o e
             n == Len(L)
  <1>1. /\ G \in Seq(Events) /\ Len(G) = n + Len(e) /\ n \in Nat /\ Len(e) \in Nat
        /\ \A i \in 1..n : G[i] = L[i]
        /\ \A i \in 1..Len(e) : G[n + i] = e[i]
        /\ \A i \in 1..(n + Len(e)) : i > n => G[i] = e[i - n]
    BY ConcatIs
  <1> HIDE DEF G
  <1> SUFFICES ASSUME NEW k \in Keys
               PROVE  ApplyEvents(ApplyEvents(docs, L), e)[k] = ApplyEvents(docs, G)[k]
    <2>1. ApplyEvents(ApplyEvents(docs, L), e) = [k \in Keys |-> ApplyEvents(ApplyEvents(docs, L), e)[k]]
      BY DEF ApplyEvents
    <2>2. ApplyEvents(docs, G) = [k \in Keys |-> ApplyEvents(docs, G)[k]]
      BY DEF ApplyEvents
    <2>3. \A k \in Keys : ApplyEvents(ApplyEvents(docs, L), e)[k] = ApplyEvents(docs, G)[k]
      OBVIOUS
    <2>4. QED
      BY <2>1, <2>2, <2>3, Zenon DEF G
  <1> DEFINE inL == {i \in DOMAIN L : L[i].key = k}
             inE == {i \in DOMAIN e : e[i].key = k}
             inG == {i \in DOMAIN G : G[i].key = k}
  <1>2. /\ ApplyEvents(docs, L)[k] = IF inL = {} THEN docs[k] ELSE L[Max(inL)].record
        /\ ApplyEvents(ApplyEvents(docs, L), e)[k] =
             IF inE = {} THEN ApplyEvents(docs, L)[k] ELSE e[Max(inE)].record
        /\ ApplyEvents(docs, G)[k] = IF inG = {} THEN docs[k] ELSE G[Max(inG)].record
    BY DEF ApplyEvents
  <1>3. inL \in SUBSET (1..n) /\ inE \in SUBSET (1..Len(e)) /\ inG \in SUBSET (1..(n + Len(e)))
    BY <1>1
  <1>4. /\ \A i \in 1..n : i \in inL <=> i \in inG
        /\ \A i \in 1..Len(e) : i \in inE <=> n + i \in inG
        /\ \A i \in inG : i > n => i - n \in inE
        /\ \A i \in inG : i <= n => i \in inL
    <2>1. \A i \in 1..n : i \in 1..(n + Len(e))
      BY <1>1
    <2>2. \A i \in 1..Len(e) : n + i \in 1..(n + Len(e))
      BY <1>1
    <2>3. DOMAIN G = 1..(n + Len(e)) /\ DOMAIN L = 1..n /\ DOMAIN e = 1..Len(e)
      BY <1>1
    <2>4. \A i \in inG : i > n => i - n \in 1..Len(e)
      BY <1>1, <2>3
    <2>5. \A i \in 1..n : i \in inL <=> i \in inG
      BY <1>1, <2>1, <2>3
    <2>6. \A i \in 1..Len(e) : i \in inE <=> n + i \in inG
      BY <1>1, <2>2, <2>3
    <2>7. ASSUME NEW i \in inG, i > n PROVE i - n \in inE
      <3>1. i \in 1..(n + Len(e)) /\ i - n \in 1..Len(e)
        BY <2>3, <2>4, <2>7
      <3>2. G[i] = e[i - n]
        BY <1>1, <2>7, <3>1
      <3>3. QED
        BY <2>3, <3>1, <3>2
    <2>8. ASSUME NEW i \in inG, i <= n PROVE i \in inL
      <3>1. i \in 1..n
        BY <1>1, <2>3, <2>8
      <3>2. QED
        BY <1>1, <2>3, <3>1
    <2>9. QED
      BY <2>5, <2>6, <2>7, <2>8
  <1>5. inL # {} => Max(inL) \in inL /\ \A x \in inL : x <= Max(inL)
    <2>1. inL \in SUBSET (0..n) /\ n \in Nat
      BY <1>1, <1>3
    <2> HIDE DEF inL, n
    <2>2. QED
      BY <2>1, MaxIsIn
  <1>6. inE # {} => Max(inE) \in inE /\ \A x \in inE : x <= Max(inE)
    <2>1. inE \in SUBSET (0..Len(e)) /\ Len(e) \in Nat
      BY <1>1, <1>3
    <2> HIDE DEF inE
    <2>2. QED
      BY <2>1, MaxIsIn
  <1>7. inG # {} => Max(inG) \in inG /\ \A x \in inG : x <= Max(inG)
    <2> DEFINE N == n + Len(e)
    <2>1. inG \in SUBSET (0..N) /\ N \in Nat
      BY <1>1, <1>3
    <2> HIDE DEF inG, N
    <2>2. QED
      BY <2>1, MaxIsIn
  <1> DEFINE g == Max(inG)
             l == Max(inL)
             m == Max(inE)
  <1> HIDE DEF inL, inE, inG, n, g, l, m
  <1>8. CASE inE # {}
    <2>1. m \in 1..Len(e) /\ n + m \in inG /\ inG # {}
      BY <1>3, <1>4, <1>6, <1>8 DEF m
    <2>2. g \in inG /\ n + m <= g /\ g \in 1..(n + Len(e))
      BY <1>3, <1>7, <2>1 DEF g
    <2>3. g - n \in inE /\ g - n <= m
      <3>1. g > n
        BY <1>1, <2>1, <2>2
      <3>2. QED
        BY <1>4, <1>6, <1>8, <2>2, <3>1 DEF m
    <2>4. g = n + m
      BY <1>1, <2>1, <2>2, <2>3
    <2>5. G[g] = e[m]
      BY <1>1, <2>1, <2>4
    <2>6. QED
      BY <1>2, <1>8, <2>1, <2>5 DEF g, m
  <1>9. CASE inE = {}
    <2>1. \A i \in inG : i <= n
      BY <1>1, <1>3, <1>4, <1>9
    <2>2. inG = inL
      BY <1>3, <1>4, <2>1
    <2>3. inL # {} => l \in 1..n /\ G[l] = L[l]
      BY <1>1, <1>3, <1>5 DEF l
    <2>4. QED
      BY <1>2, <1>9, <2>2, <2>3 DEF l
  <1>10. QED
    BY <1>8, <1>9

\* Events that carry the records of some documents, and one for every key that
\* differs, make those documents.
LEMMA ApplyTarget ==
  ASSUME NEW docs \in [Keys -> Records], NEW target \in [Keys -> Records], NEW e \in Seq(Events),
         \A i \in DOMAIN e : e[i].record = target[e[i].key],
         \A k \in Keys : target[k] # docs[k] => \E i \in DOMAIN e : e[i].key = k
  PROVE  ApplyEvents(docs, e) = target
  <1> SUFFICES ASSUME NEW k \in Keys PROVE ApplyEvents(docs, e)[k] = target[k]
    <2>1. ApplyEvents(docs, e) = [k \in Keys |-> ApplyEvents(docs, e)[k]]
      BY DEF ApplyEvents
    <2>2. target = [k \in Keys |-> target[k]]
      OBVIOUS
    <2>3. \A k \in Keys : ApplyEvents(docs, e)[k] = target[k]
      OBVIOUS
    <2>4. QED
      BY <2>1, <2>2, <2>3, Zenon
  <1> DEFINE hits == {i \in DOMAIN e : e[i].key = k}
  <1>1. ApplyEvents(docs, e)[k] = IF hits = {} THEN docs[k] ELSE e[Max(hits)].record
    BY DEF ApplyEvents
  <1>2. hits # {} => Max(hits) \in hits
    BY MaxIndex
  <1>3. QED
    BY <1>1, <1>2

-----------------------------------------------------------------------------
\* A log of entries that are slices of one history.

Slice(entry, L) ==
  /\ entry.baseSequence < entry.resultSequence /\ entry.resultSequence <= Len(L)
  /\ entry.resultSequence = entry.baseSequence + Len(entry.events)
  /\ \A j \in DOMAIN entry.events : entry.events[j] = L[entry.baseSequence + j]

\* The entries of database id follow each other up to the end of history L.
WalOf(wal, id, L) ==
  /\ \A i \in DOMAIN wal : Slice(wal[i], L) /\ wal[i].databaseId = id
  /\ \A i, j \in DOMAIN wal : i < j => wal[i].resultSequence <= wal[j].baseSequence
  /\ wal # << >> => wal[Len(wal)].resultSequence = Len(L)

\* A sequence number at which a checkpoint meets the log.
Boundary(n, wal, L) ==
  IF wal = << >> THEN n = Len(L)
  ELSE n = wal[1].baseSequence \/ \E i \in DOMAIN wal : n = wal[i].resultSequence

LEMMA SliceIs ==
  ASSUME NEW wal \in Seq(Entries), NEW id, NEW L \in Seq(Events), WalOf(wal, id, L),
         NEW i \in 1..Len(wal)
  PROVE  /\ wal[i].baseSequence \in Nat /\ wal[i].resultSequence \in Nat
         /\ wal[i].events \in Seq(Events)
         /\ wal[i].baseSequence < wal[i].resultSequence /\ wal[i].resultSequence <= Len(L)
         /\ wal[i].resultSequence = wal[i].baseSequence + Len(wal[i].events)
         /\ \A j \in 1..Len(wal[i].events) : wal[i].events[j] = L[wal[i].baseSequence + j]
         /\ wal[i].databaseId = id
  <1>1. wal[i] \in Entries
    OBVIOUS
  <1>2. Slice(wal[i], L) /\ wal[i].databaseId = id
    BY DEF WalOf
  <1>3. wal[i].events \in Seq(Events)
    BY <1>1, EntryFields
  <1>4. DOMAIN wal[i].events = 1..Len(wal[i].events)
    BY <1>3
  <1>5. QED
    BY <1>1, <1>2, <1>3, <1>4, EntryFields DEF Slice

LEMMA EventsOfSlices ==
  ASSUME NEW wal \in Seq(Entries), NEW id, NEW L \in Seq(Events),
         Contiguous(wal), WalOf(wal, id, L), wal # << >>
  PROVE  EventsOf(wal) = SubSeq(L, wal[1].baseSequence + 1, Len(L))
  <1> DEFINE base == wal[1].baseSequence
             last == wal[Len(wal)].resultSequence
             total == last - base
             at(n) == Latest({j \in DOMAIN wal : wal[j].baseSequence < base + n})
             event(n) == wal[at(n)].events[(base + n) - wal[at(n)].baseSequence]
             part == SubSeq(L, base + 1, Len(L))
  <1>1. Len(wal) \in Nat \ {0} /\ 1 \in 1..Len(wal) /\ Len(wal) \in 1..Len(wal)
    OBVIOUS
  <1>2. base \in Nat /\ last = Len(L) /\ Len(L) \in Nat /\ base < Len(L)
    <2>1. base \in Nat /\ base < wal[1].resultSequence /\ wal[1].resultSequence <= Len(L)
          /\ wal[1].resultSequence \in Nat
      BY <1>1, SliceIs
    <2>2. last = Len(L)
      BY DEF WalOf
    <2>3. QED
      BY <2>1, <2>2
  <1>3. /\ part \in Seq(Events) /\ Len(part) = Len(L) - base
        /\ \A n \in 1..(Len(L) - base) : part[n] = L[base + n]
    <2>1. base + 1 \in Nat \ {0} /\ Len(L) \in 0..Len(L) /\ base + 1 <= Len(L)
      BY <1>2
    <2> DEFINE m == base + 1
    <2>2. /\ SubSeq(L, m, Len(L)) \in Seq(Events)
          /\ Len(SubSeq(L, m, Len(L))) = IF m <= Len(L) THEN Len(L) - m + 1 ELSE 0
          /\ \A i \in 1..Len(SubSeq(L, m, Len(L))) : SubSeq(L, m, Len(L))[i] = L[m + i - 1]
      <3> HIDE DEF m
      <3>1. m \in Nat \ {0}
        BY <2>1 DEF m
      <3>2. QED
        BY <2>1, <3>1, SubSeqIs
    <2>3. Len(part) = Len(L) - base
      <3> HIDE DEF part, base
      <3>1. QED
        BY <1>2, <2>1, <2>2 DEF part
    <2>4. \A i \in 1..(Len(L) - base) : m + i - 1 = base + i
      BY SMTT(30), <1>2
    <2>5. QED
      BY <2>2, <2>3, <2>4
  <1>4. ASSUME NEW n \in 1..total PROVE event(n) = L[base + n]
    <2> DEFINE starts == {j \in DOMAIN wal : wal[j].baseSequence < base + n}
               i == at(n)
    <2>1. 1 \in starts
      BY <1>1, <1>2
    <2>2. i \in starts /\ \A j \in starts : j <= i
      <3>1. starts \in SUBSET (1..Len(wal)) /\ Len(wal) \in Nat /\ i = Latest(starts)
        OBVIOUS
      <3> HIDE DEF starts, i
      <3>2. i \in starts \cup {0} /\ 1 <= i /\ \A j \in starts : j <= i
        BY <2>1, <3>1, LatestIsIn
      <3>3. i # 0
        BY <3>2
      <3>4. i \in starts
        BY <3>2, <3>3
      <3>5. QED
        BY <3>2, <3>4
    <2> DEFINE x == base + n
               b == wal[i].baseSequence
               r == wal[i].resultSequence
    <2> HIDE DEF i
    <2>3. i \in 1..Len(wal) /\ b < x /\ n \in Nat /\ n <= Len(L) - base
      BY <1>2, <2>2
    <2>4. /\ b \in Nat /\ r \in Nat /\ wal[i].events \in Seq(Events) /\ r = b + Len(wal[i].events)
          /\ \A j \in 1..Len(wal[i].events) : wal[i].events[j] = L[b + j]
      BY <2>3, SliceIs
    <2>5. x <= r
      <3>1. CASE i = Len(wal)
        BY <1>2, <2>3, <3>1
      <3>2. CASE i # Len(wal)
        <4>1. i + 1 \in 1..Len(wal) /\ i \in 1..(Len(wal) - 1) /\ ~(i + 1 <= i)
          BY <1>1, <2>3, <3>2
        <4>2. i + 1 \notin starts
          BY <2>2, <4>1
        <4>3. wal[i + 1].baseSequence = r
          BY <4>1 DEF Contiguous
        <4>4. QED
          BY <1>2, <2>3, <2>4, <4>1, <4>2, <4>3
      <3>3. QED
        BY <3>1, <3>2
    <2>6. x - b \in 1..Len(wal[i].events) /\ b + (x - b) = x
      <3>1. x \in Nat
        BY <1>2, <2>3
      <3> DEFINE q == Len(wal[i].events)
      <3>2. q \in Nat /\ r = b + q
        BY <2>4
      <3> HIDE DEF x, b, r, q
      <3>3. QED
        BY <2>3, <2>4, <2>5, <3>1, <3>2 DEF q
    <2>7. wal[i].events[x - b] = L[x]
      <3> HIDE DEF x, b
      <3>1. QED
        BY <2>4, <2>6
    <2>8. event(n) = wal[i].events[x - b]
      BY DEF i
    <2>9. QED
      BY <2>7, <2>8
  <1>5. EventsOf(wal) = [n \in 1..total |-> event(n)]
    BY DEF EventsOf
  <1> HIDE DEF event, part
  <1>6. part = [n \in 1..(Len(L) - base) |-> part[n]]
    BY <1>3
  <1>7. total = Len(L) - base
    BY <1>2
  <1> HIDE DEF total, base
  <1>8. [n \in 1..total |-> event(n)] = [n \in 1..(Len(L) - base) |-> part[n]]
    BY <1>3, <1>4, <1>7
  <1>9. QED
    BY <1>5, <1>6, <1>8 DEF part, base

\* From a boundary on, the log is a log of the same history that starts there.
LEMMA ListAfterSlices ==
  ASSUME NEW wal \in Seq(Entries), NEW id, NEW L \in Seq(Events),
         Contiguous(wal), WalOf(wal, id, L), NEW n \in Nat, Boundary(n, wal, L)
  PROVE  LET after == ListAfter(wal, n)
         IN /\ after \in Seq(Entries) /\ Contiguous(after) /\ WalOf(after, id, L)
            /\ after # << >> => after[1].baseSequence = n
            /\ after = << >> => n = Len(L)
  <1> DEFINE after == ListAfter(wal, n)
             ended == {i \in DOMAIN wal : wal[i].resultSequence <= n}
             k == Latest(ended)
             N == Len(wal)
  <1>1. N \in Nat /\ ended \in SUBSET (1..N) /\ DOMAIN wal = 1..N
    OBVIOUS
  <1>2. k \in ended \cup {0} /\ k \in 0..N /\ \A i \in ended : i <= k
    <2> HIDE DEF ended, N
    <2>1. QED
      BY <1>1, LatestIsIn
  <1>3. after = SubSeq(wal, k + 1, N)
    BY DEF ListAfter
  <1>4. /\ after \in Seq(Entries) /\ Len(after) = N - k
        /\ \A i \in 1..(N - k) : after[i] = wal[k + i]
    <2> HIDE DEF k, after
    <2>1. QED
      BY <1>2, <1>3
  <1> HIDE DEF after, ended, k
  <1>5. Contiguous(after)
    BY SuffixContiguous DEF after
  <1>6. \A i \in 1..(N - k) : k + i \in 1..N
    BY <1>1, <1>2
  <1>7. \A i \in 1..N : /\ wal[i].baseSequence \in Nat /\ wal[i].resultSequence \in Nat
                        /\ wal[i].baseSequence < wal[i].resultSequence
    BY SliceIs
  <1>8. \A i, j \in 1..N : i < j => wal[i].resultSequence <= wal[j].baseSequence
    BY <1>1 DEF WalOf
  <1>9. WalOf(after, id, L)
    <2>1. DOMAIN after = 1..(N - k)
      BY <1>4
    <2>2. \A i \in DOMAIN after : Slice(after[i], L) /\ after[i].databaseId = id
      BY <1>1, <1>4, <1>6, <2>1 DEF WalOf
    <2>3. ASSUME NEW i \in DOMAIN after, NEW j \in DOMAIN after, i < j
          PROVE  after[i].resultSequence <= after[j].baseSequence
      <3>1. k + i \in 1..N /\ k + j \in 1..N /\ k + i < k + j
        BY <1>2, <1>6, <2>1, <2>3
      <3>2. QED
        BY <1>4, <1>8, <2>1, <3>1
    <2>4. after # << >> => after[Len(after)].resultSequence = Len(L)
      <3> SUFFICES ASSUME after # << >> PROVE after[Len(after)].resultSequence = Len(L)
        OBVIOUS
      <3>1. Len(after) # 0 /\ Len(after) = N - k /\ k \in 0..N /\ N \in Nat
        BY <1>1, <1>2, <1>4, EmptyIs, Zenon
      <3> HIDE DEF N
      <3>2. N - k \in 1..(N - k) /\ k + (N - k) = N /\ N # 0
        BY <3>1
      <3> USE DEF N
      <3>3. QED
        BY <1>4, <3>1, <3>2 DEF WalOf
    <2>5. QED
      BY <2>2, <2>3, <2>4 DEF WalOf
  <1>10. /\ k < N => wal[k + 1].baseSequence = n
         /\ k = N => n = Len(L)
    <2>1. CASE wal = << >>
      BY <1>1, <1>2, <2>1 DEF Boundary
    <2>2. CASE wal # << >> /\ n = wal[1].baseSequence
      <3>1. 1 \in 1..N
        BY <2>2
      <3>2. \A i \in 1..N : ~(wal[i].resultSequence <= n)
        <4> SUFFICES ASSUME NEW i \in 1..N PROVE ~(wal[i].resultSequence <= n)
          OBVIOUS
        <4>1. CASE i = 1
          BY <1>7, <2>2, <3>1, <4>1
        <4>2. CASE i # 1
          <5>1. 1 < i
            BY <4>2
          <5>2. wal[1].resultSequence <= wal[i].baseSequence
            BY <1>8, <3>1, <5>1
          <5> QED
            BY <1>7, <2>2, <3>1, <5>2
        <4>3. QED
          BY <4>1, <4>2
      <3>3. k = 0
        BY <1>1, <1>2, <3>2 DEF ended
      <3>4. QED
        BY <1>1, <2>2, <3>1, <3>3
    <2>3. ASSUME wal # << >>, NEW j \in 1..N, n = wal[j].resultSequence
          PROVE  /\ k < N => wal[k + 1].baseSequence = n
                 /\ k = N => n = Len(L)
      <3>1. j \in ended
        BY <1>1, <1>7, <2>3 DEF ended
      <3>2. j <= k /\ k \in 1..N
        BY <1>1, <1>2, <3>1
      <3>3. k = j
        <4> SUFFICES ASSUME j < k PROVE FALSE
          BY <3>2
        <4>1. wal[j].resultSequence <= wal[k].baseSequence
          BY <1>8, <3>2
        <4>2. k \in ended
          BY <1>2, <3>2
        <4>3. wal[k].resultSequence <= n
          BY <4>2 DEF ended
        <4>4. QED
          BY <1>7, <2>3, <3>2, <4>1, <4>3
      <3>4. k < N => k \in 1..(N - 1)
        BY <1>1, <3>2
      <3>5. k < N => wal[k + 1].baseSequence = wal[k].resultSequence
        BY <3>4 DEF Contiguous
      <3>6. k = N => wal[k].resultSequence = Len(L)
        BY <2>3 DEF WalOf
      <3>7. QED
        BY <2>3, <3>3, <3>5, <3>6
    <2>4. QED
      BY <1>1, <2>1, <2>2, <2>3 DEF Boundary
  <1>11. after # << >> => after[1].baseSequence = n
    <2> SUFFICES ASSUME after # << >> PROVE after[1].baseSequence = n
      OBVIOUS
    <2>1. k < N /\ 1 \in 1..(N - k)
      BY <1>1, <1>2, <1>4
    <2>2. QED
      BY <1>4, <1>10, <2>1
  <1>12. after = << >> => n = Len(L)
    <2> SUFFICES ASSUME after = << >> PROVE n = Len(L)
      OBVIOUS
    <2>1. N - k = 0 /\ k \in 0..N /\ N \in Nat
      BY <1>1, <1>2, <1>4, EmptyIs, Zenon
    <2> HIDE DEF N
    <2>2. k = N
      BY <2>1
    <2>3. QED
      BY <1>10, <2>2
  <1>13. QED
    BY <1>4, <1>5, <1>9, <1>11, <1>12 DEF after

LEMMA PartsOf ==
  ASSUME NEW S, NEW L \in Seq(S), NEW n \in 0..Len(L)
  PROVE  /\ SubSeq(L, 1, n) \in Seq(S) /\ SubSeq(L, n + 1, Len(L)) \in Seq(S)
         /\ Len(SubSeq(L, 1, n)) = n /\ Len(SubSeq(L, n + 1, Len(L))) = Len(L) - n
         /\ \A i \in 1..n : SubSeq(L, 1, n)[i] = L[i]
         /\ \A i \in 1..(Len(L) - n) : SubSeq(L, n + 1, Len(L))[i] = L[n + i]
         /\ SubSeq(L, 1, n) \o SubSeq(L, n + 1, Len(L)) = L
  <1> DEFINE a == SubSeq(L, 1, n)
             b == SubSeq(L, n + 1, Len(L))
  <1>1. a \in Seq(S) /\ Len(a) = n /\ \A i \in 1..n : a[i] = L[i]
    OBVIOUS
  <1>2. b \in Seq(S) /\ Len(b) = Len(L) - n /\ \A i \in 1..(Len(L) - n) : b[i] = L[n + i]
    OBVIOUS
  <1> HIDE DEF a, b
  <1>3. /\ a \o b \in Seq(S) /\ Len(a \o b) = Len(L)
        /\ \A i \in 1..n : (a \o b)[i] = a[i]
        /\ \A i \in 1..Len(L) : i > n => (a \o b)[i] = b[i - n]
    BY <1>1, <1>2
  <1>4. ASSUME NEW i \in 1..Len(L) PROVE (a \o b)[i] = L[i]
    <2>1. CASE i <= n
      BY <1>1, <1>3, <2>1
    <2>2. CASE ~(i <= n)
      <3>1. i - n \in 1..(Len(L) - n) /\ n + (i - n) = i /\ i > n
        BY <2>2
      <3>2. QED
        BY <1>2, <1>3, <3>1
    <2>3. QED
      BY <2>1, <2>2
  <1>5. a \o b = L
    BY <1>3, <1>4, SameSequence
  <1>6. QED
    BY <1>1, <1>2, <1>5 DEF a, b

\* Replaying a log of a history over the state of a part of it gives the state of
\* all of it: the documents, the retained changes and the known ids alike.
LEMMA ReplayHistory ==
  ASSUME NEW s \in States, NEW wal \in Seq(Entries), NEW L \in Seq(Events), Numbered(L),
         Contiguous(wal), WalOf(wal, s.databaseId, L), Boundary(s.sequence, wal, L),
         s.sequence <= Len(L), Remembers(s, SubSeq(L, 1, s.sequence))
  PROVE  LET after == ListAfter(wal, s.sequence)
             t == ReplayWal(s, after)
         IN /\ CanReplay(s, after)
            /\ EventsOf(after) = SubSeq(L, s.sequence + 1, Len(L))
            /\ Remembers(t, L) /\ t.databaseId = s.databaseId
            /\ t.docs = ApplyEvents(s.docs, SubSeq(L, s.sequence + 1, Len(L)))
  <1> DEFINE after == ListAfter(wal, s.sequence)
             n == s.sequence
             a == SubSeq(L, 1, n)
             b == SubSeq(L, n + 1, Len(L))
             id == s.databaseId
             docs == ApplyEvents(s.docs, b)
             moved == [s EXCEPT !.docs = docs]
  <1>1. n \in Nat /\ n \in 0..Len(L) /\ s.docs \in [Keys -> Records]
    BY StateFields
  <1>2. /\ after \in Seq(Entries) /\ Contiguous(after) /\ WalOf(after, id, L)
        /\ after # << >> => after[1].baseSequence = n
        /\ after = << >> => n = Len(L)
    <2> HIDE DEF n, id
    <2>1. WalOf(wal, id, L) /\ Boundary(n, wal, L)
      BY DEF n, id
    <2>2. QED
      BY <1>1, <2>1, ListAfterSlices DEF n
  <1>3. /\ a \in Seq(Events) /\ b \in Seq(Events) /\ Len(a) = n /\ Len(b) = Len(L) - n /\ a \o b = L
    <2> HIDE DEF n
    <2>1. QED
      BY <1>1, PartsOf
  <1> HIDE DEF after
  <1>4. EventsOf(after) = b
    <2>1. CASE after = << >>
      <3>1. Len(b) = 0
        BY <1>1, <1>2, <1>3, <2>1
      <3> HIDE DEF b
      <3>2. b = << >>
        BY <1>3, <3>1
      <3>3. EventsOf(after) = << >>
        BY <2>1, Zenon DEF EventsOf
      <3>4. QED
        BY <3>2, <3>3
    <2>2. CASE after # << >>
      <3>1. EventsOf(after) = SubSeq(L, after[1].baseSequence + 1, Len(L))
        BY <1>2, <2>2, EventsOfSlices, Zenon
      <3>2. QED
        BY <1>2, <2>2, <3>1
    <2>3. QED
      BY <2>1, <2>2
  <1>5. CanReplay(s, after)
    <2>1. ASSUME NEW i \in DOMAIN after
          PROVE  /\ after[i].databaseId = s.databaseId
                 /\ after[i].resultSequence = after[i].baseSequence + Len(after[i].events)
                 /\ \A j \in DOMAIN after[i].events :
                      after[i].events[j].sequence = after[i].baseSequence + j
      <3> DEFINE q == Len(after[i].events)
                 base == after[i].baseSequence
      <3>1. /\ base \in Nat /\ after[i].events \in Seq(Events)
            /\ after[i].resultSequence = base + q /\ base + q <= Len(L)
            /\ \A j \in 1..q : after[i].events[j] = L[base + j]
            /\ after[i].databaseId = id
        <4> HIDE DEF id
        <4>1. i \in 1..Len(after)
          BY <1>2
        <4>2. /\ base \in Nat /\ after[i].events \in Seq(Events)
              /\ after[i].resultSequence = base + q /\ after[i].resultSequence <= Len(L)
              /\ \A j \in 1..q : after[i].events[j] = L[base + j]
              /\ after[i].databaseId = id
          BY SMTT(30), <1>2, <4>1, SliceIs
        <4>3. QED
          BY <4>2
      <3> HIDE DEF base
      <3>2. DOMAIN after[i].events = 1..q /\ q \in Nat
        BY <3>1
      <3> HIDE DEF q
      <3>3. \A j \in 1..q : base + j \in DOMAIN L
        BY <3>1, <3>2
      <3>4. \A j \in 1..q : L[base + j].sequence = base + j
        BY <3>3 DEF Numbered
      <3>5. QED
        BY <3>1, <3>2, <3>4 DEF base, q
    <2>2. QED
      BY <1>2, <2>1 DEF CanReplay
  <1>6. docs \in [Keys -> Records]
    BY <1>1, <1>3, ApplyEventsType
  <1> HIDE DEF docs
  <1>7. /\ moved \in States /\ moved.sequence = s.sequence /\ moved.changes = s.changes
        /\ moved.appliedChangeIds = s.appliedChangeIds /\ moved.docs = docs
        /\ moved.databaseId = s.databaseId
    BY <1>6 DEF States
  <1> HIDE DEF moved
  <1>8. Remembers(moved, a)
    BY <1>7 DEF Remembers
  <1>9. ReplayWal(s, after) = RecordEvents(moved, b)
    BY <1>4 DEF ReplayWal, ReplayEvents, moved, docs
  <1> HIDE DEF a, b
  <1>10. /\ Remembers(RecordEvents(moved, b), a \o b)
         /\ RecordEvents(moved, b).docs = moved.docs
         /\ RecordEvents(moved, b).databaseId = moved.databaseId
    <2>1. Numbered(a \o b)
      BY <1>3
    <2>2. QED
      BY <1>3, <1>7, <1>8, <2>1, RecordedHistory
  <1>11. QED
    BY <1>3, <1>4, <1>5, <1>7, <1>9, <1>10 DEF after, b, docs

-----------------------------------------------------------------------------
\* Picking elements of a sequence, by listing their indices in order.

Lists(f, n, S) ==
  /\ n \in Nat /\ f \in [1..n -> S]
  /\ \A i, j \in 1..n : i < j => f[i] < f[j]
  /\ \A x \in S : \E i \in 1..n : f[i] = x

LEMMA CountedBy ==
  ASSUME NEW k \in Nat, NEW T, NEW g \in [1..k -> T],
         \A i, j \in 1..k : g[i] = g[j] => i = j, \A x \in T : \E i \in 1..k : g[i] = x
  PROVE  IsFiniteSet(T) /\ Cardinality(T) = k
  <1>1. g \in Bijection(1..k, T)
    BY DEF Bijection, Injection, Surjection, IsInjective
  <1>2. ExistsBijection(1..k, T)
    BY <1>1 DEF ExistsBijection
  <1>3. IsFiniteSet(1..k) /\ Cardinality(1..k) = k
    <2>1. 1 \in Int /\ k \in Int /\ k = (IF 1 > k THEN 0 ELSE k - 1 + 1)
      OBVIOUS
    <2>2. IsFiniteSet(1..k) /\ Cardinality(1..k) = IF 1 > k THEN 0 ELSE k - 1 + 1
      BY <2>1, FS_Interval
    <2>3. QED
      BY <2>1, <2>2
  <1>4. QED
    BY <1>2, <1>3, FS_Bijection

\* The rank of the k-th listed element is k.
LEMMA ListedRank ==
  ASSUME NEW S \in SUBSET Nat, NEW f, NEW n, Lists(f, n, S)
  PROVE  /\ Cardinality(S) = n
         /\ \A k \in 1..n : Cardinality({j \in S : j <= f[k]}) = k
  <1>1. /\ n \in Nat /\ f \in [1..n -> S] /\ \A x \in S : \E i \in 1..n : f[i] = x
        /\ \A i, j \in 1..n : i < j => f[i] < f[j]
    BY DEF Lists
  <1>2. \A i \in 1..n : f[i] \in S /\ f[i] \in Nat
    BY <1>1
  <1>3. \A i, j \in 1..n : f[i] = f[j] => i = j
    <2> SUFFICES ASSUME NEW i \in 1..n, NEW j \in 1..n, f[i] = f[j], i # j PROVE FALSE
      OBVIOUS
    <2>1. i < j \/ j < i
      BY <1>1
    <2>2. QED
      BY <1>1, <1>2, <2>1
  <1>4. Cardinality(S) = n
    BY <1>1, <1>3, CountedBy
  <1>5. ASSUME NEW k \in 1..n PROVE Cardinality({j \in S : j <= f[k]}) = k
    <2> DEFINE T == {j \in S : j <= f[k]}
               g == [i \in 1..k |-> f[i]]
    <2>1. k \in Nat /\ \A i \in 1..k : i \in 1..n
      BY <1>1
    <2>2. ASSUME NEW i \in 1..k PROVE f[i] \in T
      <3>1. i \in 1..n /\ (i < k \/ i = k)
        BY <2>1
      <3>2. f[i] <= f[k]
        BY <1>1, <1>2, <3>1
      <3>3. QED
        BY <1>2, <3>1, <3>2
    <2>3. ASSUME NEW x \in T PROVE \E i \in 1..k : g[i] = x
      <3>1. PICK i \in 1..n : f[i] = x
        BY <1>1
      <3>2. ~(k < i)
        BY <1>1, <1>2, <3>1
      <3>3. i \in 1..k
        BY <2>1, <3>1, <3>2
      <3>4. QED
        BY <3>1, <3>3
    <2>4. g \in [1..k -> T] /\ \A i, j \in 1..k : g[i] = g[j] => i = j
      BY <1>3, <2>1, <2>2
    <2> HIDE DEF g, T
    <2>5. Cardinality(T) = k
      BY <2>1, <2>3, <2>4, CountedBy
    <2>6. QED
      BY <2>5 DEF T
  <1>6. QED
    BY <1>4, <1>5

LEMMA PickIs ==
  ASSUME NEW s, NEW S \in SUBSET Nat, NEW f, NEW n, Lists(f, n, S)
  PROVE  Pick(s, S) = [k \in 1..n |-> s[f[k]]]
  <1> DEFINE rank(i) == Cardinality({j \in S : j <= i})
  <1>1. /\ Cardinality(S) = n /\ \A k \in 1..n : rank(f[k]) = k
        /\ f \in [1..n -> S] /\ \A x \in S : \E i \in 1..n : f[i] = x
    BY ListedRank, SMTT(30) DEF Lists
  <1>2. Pick(s, S) = [k \in 1..n |-> s[CHOOSE i \in S : rank(i) = k]]
    BY <1>1 DEF Pick
  <1> HIDE DEF rank
  <1>3. ASSUME NEW k \in 1..n PROVE (CHOOSE i \in S : rank(i) = k) = f[k]
    <2>1. f[k] \in S /\ rank(f[k]) = k
      BY <1>1
    <2>2. \A i \in S : rank(i) = k => i = f[k]
      BY <1>1
    <2>3. QED
      BY <2>1, <2>2
  <1>4. QED
    BY <1>2, <1>3

LEMMA Listed ==
  ASSUME NEW N \in Nat, NEW S \in SUBSET (1..N)
  PROVE  \E f, n : Lists(f, n, S)
  <1> DEFINE rank(i) == Cardinality({j \in S : j <= i})
             n == Cardinality(S)
             f == [k \in 1..n |-> CHOOSE i \in S : rank(i) = k]
  <1>1. IsFiniteSet(S) /\ n \in Nat
    <2>1. IsFiniteSet(1..N)
      BY FS_Interval
    <2>2. IsFiniteSet(S)
      BY <2>1, FS_Subset
    <2>3. QED
      BY <2>2, FS_CardinalityType
  <1>2. \A i \in S : /\ i \in Nat /\ IsFiniteSet({j \in S : j <= i}) /\ rank(i) \in Nat
                     /\ rank(i) <= n
    <2> SUFFICES ASSUME NEW i \in S
                 PROVE  i \in Nat /\ IsFiniteSet({j \in S : j <= i}) /\ rank(i) \in Nat /\ rank(i) <= n
      OBVIOUS
    <2>1. {j \in S : j <= i} \in SUBSET S
      OBVIOUS
    <2>2. IsFiniteSet({j \in S : j <= i}) /\ rank(i) <= n
      BY <1>1, <2>1, FS_Subset
    <2>3. QED
      BY <2>2, FS_CardinalityType
  <1>3. ASSUME NEW x \in S, NEW y \in S, x < y PROVE rank(x) < rank(y)
    <2> DEFINE A == {j \in S : j <= x}
               B == {j \in S : j <= y}
    <2>1. x \in Nat /\ y \in Nat /\ \A j \in S : j \in Nat
      BY <1>2
    <2>2. A \in SUBSET B /\ y \in B /\ y \notin A
      <3>1. \A j \in S : j <= x => j <= y
        BY <1>3, <2>1
      <3>2. y <= y /\ ~(y <= x)
        BY <1>3, <2>1
      <3>3. QED
        BY <3>1, <3>2
    <2>3. IsFiniteSet(B) /\ Cardinality(A) \in Nat /\ Cardinality(B) \in Nat
      BY <1>2
    <2> HIDE DEF A, B
    <2>4. Cardinality(A) <= Cardinality(B) /\ Cardinality(A) # Cardinality(B)
      BY <2>2, <2>3, FS_Subset
    <2>5. QED
      BY <2>3, <2>4 DEF A, B
  <1>4. \A k \in 1..n : \E i \in S : rank(i) = k
    BY RankIsTaken
  <1>5. ASSUME NEW x \in S PROVE rank(x) # 0
    <2> DEFINE A == {j \in S : j <= x}
    <2>1. x \in A /\ IsFiniteSet(A)
      BY <1>2
    <2> HIDE DEF A
    <2>2. Cardinality(A) # 0
      BY <2>1, FS_EmptySet
    <2>3. QED
      BY <2>2 DEF A
  <1> HIDE DEF n, rank
  <1>6. \A k \in 1..n : f[k] \in S /\ rank(f[k]) = k
    BY <1>4
  <1>7. f \in [1..n -> S]
    BY <1>6
  <1>8. ASSUME NEW x \in S, NEW y \in S, rank(x) = rank(y) PROVE x = y
    <2>1. x \in Nat /\ y \in Nat /\ rank(x) \in Nat
      BY <1>2
    <2>2. x < y \/ y < x \/ x = y
      BY <2>1
    <2>3. QED
      BY <1>3, <1>8, <2>1, <2>2
  <1> HIDE DEF f
  <1>9. \A i, j \in 1..n : i < j => f[i] < f[j]
    <2> SUFFICES ASSUME NEW i \in 1..n, NEW j \in 1..n, i < j PROVE f[i] < f[j]
      OBVIOUS
    <2>1. /\ f[i] \in S /\ f[j] \in S /\ f[i] \in Nat /\ f[j] \in Nat
          /\ rank(f[i]) = i /\ rank(f[j]) = j
      BY <1>2, <1>6
    <2>2. ~(f[j] < f[i])
      <3> SUFFICES ASSUME f[j] < f[i] PROVE FALSE
        OBVIOUS
      <3>1. j < i
        BY <1>3, <2>1
      <3>2. QED
        BY <1>1, <3>1
    <2>3. f[i] # f[j]
      BY <2>1
    <2>4. QED
      BY <2>1, <2>2, <2>3
  <1>10. ASSUME NEW x \in S PROVE \E i \in 1..n : f[i] = x
    <2>1. rank(x) \in 1..n
      <3>1. rank(x) \in Nat /\ rank(x) <= n
        BY <1>2
      <3>2. rank(x) # 0 /\ n \in Nat
        BY <1>1, <1>5
      <3>3. QED
        BY <3>1, <3>2
    <2>2. QED
      BY <1>6, <1>8, <2>1
  <1>11. Lists(f, n, S)
    BY <1>1, <1>7, <1>9, <1>10 DEF Lists
  <1>12. QED
    BY <1>11

LEMMA PickNone == ASSUME NEW s PROVE Pick(s, {}) = << >>
  BY FS_EmptySet DEF Pick

LEMMA PickOne == ASSUME NEW s, NEW m \in Nat PROVE Pick(s, {m}) = <<s[m]>>
  <1> DEFINE f == [i \in 1..1 |-> m]
  <1>1. Lists(f, 1, {m})
    BY DEF Lists
  <1>2. f[1] = m
    OBVIOUS
  <1> HIDE DEF f
  <1>3. Pick(s, {m}) = [k \in 1..1 |-> s[f[k]]]
    BY <1>1, PickIs
  <1>4. Pick(s, {m}) = [k \in 1..1 |-> s[m]]
    BY <1>2, <1>3
  <1> DEFINE x == s[m]
  <1>5. [k \in 1..1 |-> x] = <<x>>
    OBVIOUS
  <1>6. QED
    BY <1>4, <1>5

\* F, up to N, is where t holds what s holds d further on, at G.
Shifted(t, F, N, s, G, d) ==
  /\ N \in Nat /\ d \in Int /\ F \in SUBSET (1..N) /\ G \in SUBSET Nat
  /\ \A i \in F : i + d \in G /\ t[i] = s[i + d]
  /\ \A j \in G : j - d \in F

LEMMA PickMoved ==
  ASSUME NEW s, NEW t, NEW N, NEW d, NEW F, NEW G, Shifted(t, F, N, s, G, d)
  PROVE  Pick(t, F) = Pick(s, G)
  <1> USE DEF Shifted
  <1>1. PICK f, n : Lists(f, n, F)
    BY Listed
  <1>2. /\ n \in Nat /\ f \in [1..n -> F] /\ \A x \in F : \E i \in 1..n : f[i] = x
        /\ \A i, j \in 1..n : i < j => f[i] < f[j]
    BY <1>1 DEF Lists
  <1> DEFINE g == [k \in 1..n |-> f[k] + d]
  <1>3. \A k \in 1..n : f[k] \in F /\ f[k] \in Nat /\ g[k] = f[k] + d
    <2>1. \A i \in F : i \in Nat
      OBVIOUS
    <2>2. QED
      BY <1>2, <2>1
  <1>4. g \in [1..n -> G]
    BY <1>3
  <1> HIDE DEF g
  <1>5. \A i, j \in 1..n : i < j => g[i] < g[j]
    BY <1>2, <1>3
  <1>6. ASSUME NEW y \in G PROVE \E i \in 1..n : g[i] = y
    <2>1. PICK i \in 1..n : f[i] = y - d
      BY <1>2
    <2>2. y \in Nat
      OBVIOUS
    <2>3. (y - d) + d = y
      BY <2>2
    <2>4. QED
      BY <1>3, <2>1, <2>3
  <1>7. Lists(g, n, G)
    BY <1>2, <1>4, <1>5, <1>6 DEF Lists
  <1>8. /\ Pick(t, F) = [k \in 1..n |-> t[f[k]]] /\ Pick(s, G) = [k \in 1..n |-> s[g[k]]]
    <2>1. F \in SUBSET Nat
      OBVIOUS
    <2>2. QED
      BY <1>1, <1>7, <2>1, PickIs
  <1>9. \A k \in 1..n : t[f[k]] = s[g[k]]
    BY <1>3
  <1>10. QED
    BY <1>8, <1>9

\* What is picked further on follows what is picked before.
LEMMA PickJoin ==
  ASSUME NEW X, NEW s \in Seq(X), NEW A \in SUBSET DOMAIN s, NEW B \in SUBSET DOMAIN s,
         \A x \in A, y \in B : x < y
  PROVE  Pick(s, A \cup B) = Pick(s, A) \o Pick(s, B)
  <1>1. Len(s) \in Nat /\ DOMAIN s = 1..Len(s)
    OBVIOUS
  <1>2. PICK f, n : Lists(f, n, A)
    BY <1>1, Listed
  <1>3. PICK g, m : Lists(g, m, B)
    BY <1>1, Listed
  <1>4. /\ n \in Nat /\ f \in [1..n -> A] /\ \A x \in A : \E i \in 1..n : f[i] = x
        /\ \A i, j \in 1..n : i < j => f[i] < f[j]
    BY <1>2 DEF Lists
  <1>5. /\ m \in Nat /\ g \in [1..m -> B] /\ \A x \in B : \E i \in 1..m : g[i] = x
        /\ \A i, j \in 1..m : i < j => g[i] < g[j]
    BY <1>3 DEF Lists
  <1> DEFINE h == [k \in 1..(n + m) |-> IF k <= n THEN f[k] ELSE g[k - n]]
  <1>6. \A k \in 1..n : k \in 1..(n + m) /\ h[k] = f[k] /\ f[k] \in A
    BY <1>4, <1>5
  <1>7. \A k \in 1..m : n + k \in 1..(n + m) /\ h[n + k] = g[k] /\ g[k] \in B
    <2> SUFFICES ASSUME NEW k \in 1..m
                 PROVE  n + k \in 1..(n + m) /\ h[n + k] = g[k] /\ g[k] \in B
      OBVIOUS
    <2>1. n + k \in 1..(n + m) /\ ~(n + k <= n) /\ (n + k) - n = k
      BY <1>4, <1>5
    <2>2. QED
      BY <1>5, <2>1
  <1>8. \A k \in 1..(n + m) : k \in 1..n \/ \E j \in 1..m : k = n + j
    <2> SUFFICES ASSUME NEW k \in 1..(n + m), k \notin 1..n PROVE \E j \in 1..m : k = n + j
      OBVIOUS
    <2>1. k - n \in 1..m /\ k = n + (k - n)
      BY <1>4, <1>5
    <2>2. QED
      BY <2>1
  <1>9. h \in [1..(n + m) -> A \cup B]
    <2>1. \A k \in 1..(n + m) : h[k] \in A \cup B
      BY <1>6, <1>7, <1>8
    <2>2. QED
      BY <2>1
  <1> HIDE DEF h
  <1>10. \A x \in A \cup B : x \in Nat
    BY <1>1
  <1>11. ASSUME NEW i \in 1..(n + m), NEW j \in 1..(n + m), i < j PROVE h[i] < h[j]
    <2>1. CASE i \in 1..n /\ j \in 1..n
      BY <1>4, <1>6, <1>11, <2>1
    <2>2. CASE i \in 1..n /\ j \notin 1..n
      <3>1. PICK q \in 1..m : j = n + q
        BY <1>8, <2>2
      <3>2. QED
        BY <1>6, <1>7, <2>2, <3>1
    <2>3. CASE i \notin 1..n
      <3>1. PICK p \in 1..m : i = n + p
        BY <1>8, <2>3
      <3>2. j \notin 1..n
        BY <1>4, <1>11, <3>1
      <3>3. PICK q \in 1..m : j = n + q
        BY <1>8, <3>2
      <3>4. p < q
        BY <1>4, <1>11, <3>1, <3>3
      <3>5. g[p] < g[q]
        BY <1>5, <3>4
      <3>6. QED
        BY <1>7, <3>1, <3>3, <3>5
    <2>4. QED
      BY <2>1, <2>2, <2>3
  <1>12. \A x \in A \cup B : \E i \in 1..(n + m) : h[i] = x
    BY <1>4, <1>5, <1>6, <1>7
  <1>13. n + m \in Nat
    BY <1>4, <1>5
  <1>14. Lists(h, n + m, A \cup B)
    BY <1>9, <1>11, <1>12, <1>13 DEF Lists
  <1> DEFINE a == [k \in 1..n |-> s[f[k]]]
             b == [k \in 1..m |-> s[g[k]]]
             c == [k \in 1..(n + m) |-> s[h[k]]]
             C == A \cup B
  <1>15. Pick(s, A) = a /\ Pick(s, B) = b /\ Pick(s, C) = c
    <2>1. A \in SUBSET Nat /\ B \in SUBSET Nat /\ C \in SUBSET Nat
      BY <1>10
    <2>2. Pick(s, A) = a
      BY <1>2, <2>1, PickIs
    <2>3. Pick(s, B) = b
      BY <1>3, <2>1, PickIs
    <2>4. Lists(h, n + m, C)
      BY <1>14
    <2> HIDE DEF C
    <2>5. Pick(s, C) = c
      BY <2>1, <2>4, PickIs
    <2>6. QED
      BY <2>2, <2>3, <2>5
  <1>16. Len(a) = n /\ Len(b) = m /\ Len(c) = n + m
    BY <1>4, <1>5, <1>13
  <1>18. /\ \A k \in 1..n : c[k] = a[k]
         /\ \A k \in 1..m : c[n + k] = b[k]
    BY <1>6, <1>7
  <1> HIDE DEF a, b, c
  <1>17. a \in Seq(X) /\ b \in Seq(X) /\ c \in Seq(X)
    <2>1. C \in SUBSET DOMAIN s
      OBVIOUS
    <2> HIDE DEF C
    <2>2. QED
      BY <1>15, <2>1, PickType
  <1>19. /\ a \o b \in Seq(X) /\ Len(a \o b) = n + m
         /\ \A k \in 1..n : (a \o b)[k] = a[k]
         /\ \A k \in 1..(n + m) : k > n => (a \o b)[k] = b[k - n]
    <2>1. /\ a \o b \in Seq(X) /\ Len(a \o b) = Len(a) + Len(b)
          /\ \A k \in 1..Len(a) : (a \o b)[k] = a[k]
          /\ \A k \in 1..(Len(a) + Len(b)) : k > Len(a) => (a \o b)[k] = b[k - Len(a)]
      BY <1>17, ConcatIs
    <2>2. QED
      BY <1>16, <2>1
  <1>20. ASSUME NEW k \in 1..(n + m) PROVE c[k] = (a \o b)[k]
    <2>1. CASE k \in 1..n
      BY <1>18, <1>19, <2>1
    <2>2. CASE k \notin 1..n
      <3>1. PICK j \in 1..m : k = n + j
        BY <1>8, <2>2
      <3>2. k > n /\ k - n = j
        BY <1>4, <1>5, <3>1
      <3>3. QED
        BY <1>18, <1>19, <3>1, <3>2
    <2>3. QED
      BY <2>1, <2>2
  <1>21. c = a \o b
    BY <1>16, <1>17, <1>19, <1>20, SameSequence
  <1>22. QED
    BY <1>15, <1>21

\* A sequence is picked from by what it holds at the places picked.
LEMMA PickSame ==
  ASSUME NEW s, NEW t, NEW N \in Nat, NEW F \in SUBSET (1..N), \A i \in F : t[i] = s[i]
  PROVE  Pick(t, F) = Pick(s, F)
  <1>1. PICK f, n : Lists(f, n, F)
    BY Listed
  <1>2. F \in SUBSET Nat
    OBVIOUS
  <1>3. Pick(t, F) = [k \in 1..n |-> t[f[k]]] /\ Pick(s, F) = [k \in 1..n |-> s[f[k]]]
    BY <1>1, <1>2, PickIs
  <1>4. \A k \in 1..n : f[k] \in F
    BY <1>1 DEF Lists
  <1>5. QED
    BY <1>3, <1>4

\* What is picked ends with the last of the places picked.
LEMMA PickLast ==
  ASSUME NEW X, NEW s \in Seq(X), NEW S \in SUBSET DOMAIN s, S # {}
  PROVE  /\ Pick(s, S) # << >>
         /\ \E m \in S : (\A x \in S : x <= m) /\ Last(Pick(s, S)) = s[m]
  <1>1. Len(s) \in Nat /\ DOMAIN s = 1..Len(s)
    OBVIOUS
  <1>2. PICK f, n : Lists(f, n, S)
    BY <1>1, Listed
  <1>3. /\ n \in Nat /\ f \in [1..n -> S] /\ \A x \in S : \E i \in 1..n : f[i] = x
        /\ \A i, j \in 1..n : i < j => f[i] < f[j]
    BY <1>2 DEF Lists
  <1>4. S \in SUBSET Nat
    BY <1>1
  <1>5. Pick(s, S) = [k \in 1..n |-> s[f[k]]]
    BY <1>2, <1>4, PickIs
  <1>6. PICK x \in S : TRUE
    OBVIOUS
  <1>7. n \in 1..n
    BY <1>3, <1>6
  <1> DEFINE p == [k \in 1..n |-> s[f[k]]]
  <1>8. p[n] = s[f[n]] /\ Len(p) = n
    BY <1>3, <1>7
  <1>9. p \in Seq(X)
    BY <1>5, PickType, ZenonT(40)
  <1> HIDE DEF p
  <1>10. p # << >> /\ Last(p) = s[f[n]]
    BY <1>7, <1>8, <1>9 DEF Last
  <1>11. ASSUME NEW y \in S PROVE y <= f[n]
    <2>1. PICK i \in 1..n : f[i] = y
      BY <1>3
    <2>2. f[i] \in Nat /\ f[n] \in Nat /\ (i < n \/ i = n)
      BY <1>3, <1>4, <1>7
    <2>3. QED
      BY <1>3, <1>7, <2>1, <2>2
  <1>12. QED
    BY <1>3, <1>5, <1>7, <1>10, <1>11 DEF p

-----------------------------------------------------------------------------
\* Recovery keeps types.

LEMMA ReadableType ==
  ASSUME NEW wal \in Seq(Entries \cup {BadLine}), ReadableWal(wal)
  PROVE  wal \in Seq(Entries) /\ Contiguous(wal)
  <1>1. \A i \in 1..Len(wal) : wal[i] \in Entries
    <2> SUFFICES ASSUME NEW i \in 1..Len(wal) PROVE wal[i] \in Entries
      OBVIOUS
    <2>1. wal[i] \in Entries \cup {BadLine}
      OBVIOUS
    <2>2. wal[i] # BadLine
      BY DEF ReadableWal, ToSet
    <2>3. QED
      BY <2>1, <2>2
  <1>2. QED
    BY <1>1 DEF ReadableWal

\* Recovery over a log it accepts yields a state, a log and a history.
LEMMA RecoveredType ==
  ASSUME NEW s \in States, NEW wal \in Seq(Entries \cup {BadLine}), Recoverable(s, wal)
  PROVE  /\ Recovered(s, wal) \in States
         /\ wal \in Seq(Entries)
         /\ ListAfter(wal, s.sequence) \in Seq(Entries)
         /\ EventsOf(ListAfter(wal, s.sequence)) \in Seq(Events)
  <1> DEFINE after == ListAfter(wal, s.sequence)
  <1>1. wal \in Seq(Entries) /\ Contiguous(wal) /\ s.sequence \in Nat
    BY ReadableType, StateFields DEF Recoverable
  <1>2. after \in Seq(Entries) /\ Contiguous(after)
    BY <1>1, ListAfterSuffix, SuffixContiguous
  <1>3. \A i \in DOMAIN after :
          after[i].resultSequence = after[i].baseSequence + Len(after[i].events)
    BY DEF Recoverable, CanReplay
  <1> HIDE DEF after
  <1>4. EventsOf(after) \in Seq(Events)
    BY <1>2, <1>3, EventsOfType
  <1>5. ReplayWal(s, after) \in States
    <2> DEFINE t == [s EXCEPT !.docs = ApplyEvents(s.docs, EventsOf(after))]
    <2>1. ApplyEvents(s.docs, EventsOf(after)) \in [Keys -> Records]
      BY <1>4, ApplyEventsType, StateFields
    <2>2. t \in States
      BY <2>1 DEF States
    <2>3. ReplayWal(s, after) = RecordEvents(t, EventsOf(after))
      BY DEF ReplayWal, ReplayEvents
    <2> HIDE DEF t
    <2>4. QED
      BY <1>4, <2>2, <2>3, RecordEventsType
  <1>6. QED
    BY <1>1, <1>2, <1>4, <1>5 DEF Recovered, after

LEMMA ExtendedType ==
  ASSUME NEW s \in States, lines \in Seq(Entries \cup {BadLine}), log \in Seq(Events),
         Recoverable(s, lines)
  PROVE  Extended(s) \in Seq(Events)
  <1> DEFINE found == s.changes \o EventsOf(ListAfter(lines, s.sequence))
             new == Recovered(s, lines).sequence - Len(log)
             kept == IF new > Len(found) THEN 0 ELSE Len(found) - new
  <1>1. found \in Seq(Events)
    BY RecoveredType, StateFields
  <1>2. new \in Int /\ Len(log) + new \in Nat /\ Len(log) \in Nat /\ Len(found) \in Nat
    <2>1. Recovered(s, lines).sequence \in Nat /\ Len(log) \in Nat
      BY RecoveredType, StateFields
    <2> HIDE DEF found
    <2>2. Len(found) \in Nat
      BY <1>1
    <2>3. QED
      BY <2>1, <2>2
  <1>3. Extended(s) = IF new < 0 THEN SubSeq(log, 1, Len(log) + new)
                      ELSE log \o SubSeq(found, kept + 1, Len(found))
    BY DEF Extended
  <1> HIDE DEF found, new
  <1>4. CASE new < 0
    BY <1>2, <1>3, <1>4, SubSeqType
  <1>5. CASE ~(new < 0)
    <2>1. kept + 1 \in Nat \ {0}
      BY <1>2, <1>5
    <2>2. SubSeq(found, kept + 1, Len(found)) \in Seq(Events)
      <3> HIDE DEF kept
      <3>1. QED
        BY <1>1, <1>2, <2>1, SubSeqType
    <2> HIDE DEF kept
    <2>3. QED
      BY <1>3, <1>5, <2>2
  <1>6. QED
    BY <1>4, <1>5

-----------------------------------------------------------------------------
\* Every action keeps the types.

\* Open reads the backup of an unreadable checkpoint: there has to be one.
Typed == TypeOK /\ (primary = Unreadable => backup \in States)

LEMMA FaultType ==
  ASSUME faults \in 0..MaxFaults, NEW kind, Fault(kind)
  PROVE  faults' \in 0..MaxFaults
  BY EngineAssumption DEF Fault

LEMMA FrontType ==
  ASSUME NEW S, NEW s \in Seq(S)
  PROVE  Front(s) \in Seq(S)
  <1>1. CASE s = << >>
    BY <1>1 DEF Front
  <1>2. CASE s # << >>
    <2>1. Len(s) - 1 \in 0..Len(s)
      BY <1>2
    <2>2. QED
      BY <2>1, SubSeqType DEF Front
  <1>3. QED
    BY <1>1, <1>2

LEMMA UnsyncedType ==
  ASSUME TypeOK, NEW kept \in BOOLEAN, Unsynced(kept)
  PROVE  lines' \in Seq(Entries \cup {BadLine}) /\ torn' \in BOOLEAN
  <1>1. lines \in Seq(Entries \cup {BadLine})
    BY DEF TypeOK
  <1>2. QED
    BY <1>1, FrontType DEF Unsynced

LEMMA EntryType == ASSUME TypeOK PROVE Entry \in Entries
  <1>1. mem.databaseId \in DatabaseIds /\ mem.sequence \in Nat /\ draft.sequence \in Nat
    BY StateFields DEF TypeOK
  <1>2. QED
    BY <1>1 DEF Entry, Entries, TypeOK

LEMMA ProposeType ==
  ASSUME Typed, NEW docs \in [Keys -> Records], NEW changes \in Seq(Changes),
         Propose(docs, changes)
  PROVE  Typed'
  <1>1. mem \in States /\ mem.sequence \in Nat
    BY StateFields DEF Typed, TypeOK
  <1>2. events' \in Seq(Events)
    BY <1>1, StampType DEF Propose
  <1>3. [mem EXCEPT !.docs = docs] \in States
    BY <1>1 DEF States
  <1>4. draft' \in States
    BY <1>2, <1>3, RecordEventsType DEF Propose
  <1>5. QED
    BY <1>2, <1>4 DEF Typed, TypeOK, Propose, Phases, memory, checkpoints, disk, streams

LEMMA LocalChangeType ==
  ASSUME NEW k \in Keys, NEW record \in Records
  PROVE  LocalChange(k, record) \in Changes
  BY DEF LocalChange, Changes, ChangeIds

LEMMA LoadType ==
  ASSUME TypeOK, NEW s \in States, Load(s)
  PROVE  /\ phase' \in Phases /\ mem' \in States /\ draft' \in States
         /\ entries' \in Seq(Entries) /\ commits' \in Nat /\ log' \in Seq(Events)
  <1>1. lines \in Seq(Entries \cup {BadLine}) /\ log \in Seq(Events)
    BY DEF TypeOK
  <1>2. CASE Recoverable(s, lines)
    <2>1. /\ Recovered(s, lines) \in States /\ lines \in Seq(Entries)
          /\ ListAfter(lines, s.sequence) \in Seq(Entries)
      BY <1>1, <1>2, RecoveredType
    <2>2. Extended(s) \in Seq(Events)
      BY <1>1, <1>2, ExtendedType
    <2>3. Len(ListAfter(lines, s.sequence)) \in Nat
      BY <2>1
    <2>4. QED
      BY <1>2, <2>1, <2>2, <2>3 DEF Load, Phases
  <1>3. CASE ~Recoverable(s, lines)
    BY <1>3 DEF Load, TypeOK, Phases
  <1>4. QED
    BY <1>2, <1>3

LEMMA StopType ==
  ASSUME Typed, StopProcess, lines' \in Seq(Entries \cup {BadLine}), torn' \in BOOLEAN,
         faults' \in 0..MaxFaults
  PROVE  Typed'
  <1>1. Fresh(Self) \in States
    BY EngineAssumption, FreshType
  <1>2. /\ step' \in [Writers -> Steps] /\ image' \in [Writers -> States]
        /\ attached' \in [Watchers -> BOOLEAN] /\ pending' \in [Watchers -> Seq(Events)]
    BY <1>1 DEF StopProcess, Steps
  <1>3. /\ phase' \in Phases /\ mem' \in States /\ draft' \in States
        /\ entries' \in Seq(Entries) /\ events' \in Seq(Events)
        /\ commits' \in Nat /\ degraded' \in BOOLEAN /\ closing' \in BOOLEAN
    BY <1>1, EmptyType DEF StopProcess, Phases
  <1>4. QED
    BY <1>2, <1>3 DEF Typed, TypeOK, StopProcess

LEMMA RemainingType ==
  ASSUME TypeOK, NEW a \in Writers
  PROVE  /\ Remaining(a) \in Seq(Entries) /\ Remaining(a) \in Seq(Entries \cup {BadLine})
         /\ Len(Remaining(a)) \in Nat
  <1>1. entries \in Seq(Entries) /\ image[a].sequence \in Nat
    BY StateFields DEF TypeOK
  <1>2. << >> \in Seq(Entries) /\ ListAfter(entries, image[a].sequence) \in Seq(Entries)
    BY <1>1, EmptyType, ListAfterSuffix
  <1>3. Remaining(a) \in Seq(Entries)
    BY <1>2, Zenon DEF Remaining
  <1>4. QED
    BY <1>3

LEMMA FinishType ==
  ASSUME TypeOK, NEW a \in Writers, Finish(a)
  PROVE  step' \in [Writers -> Steps] /\ phase' \in Phases
  BY DEF TypeOK, Finish, Phases, Steps

LEMMA StartImageType ==
  ASSUME TypeOK, NEW s \in States, StartImage(s)
  PROVE  step' \in [Writers -> Steps] /\ image' \in [Writers -> States]
  BY DEF TypeOK, StartImage, Steps, Writers

LEMMA ReceiveType ==
  ASSUME TypeOK, NEW w \in Watchers, NEW e \in Seq(Events), Receive(w, e)
  PROVE  received' \in [Watchers -> Seq(Events)] /\ cursor' \in [Watchers -> Nat]
  <1>1. received[w] \o e \in Seq(Events)
    BY DEF TypeOK
  <1>2. e # << >> => Last(e).sequence \in Nat
    <2> SUFFICES ASSUME e # << >> PROVE Last(e).sequence \in Nat
      OBVIOUS
    <2>1. Len(e) \in DOMAIN e
      OBVIOUS
    <2>2. QED
      BY <2>1, ElementType, EventFields DEF Last
  <1>3. QED
    BY <1>1, <1>2 DEF TypeOK, Receive

LEMMA InitTyped == Init => Typed
  <1> SUFFICES ASSUME Init PROVE Typed
    OBVIOUS
  <1>1. Fresh(Self) \in States
    BY EngineAssumption, FreshType
  <1>2. /\ step \in [Writers -> Steps] /\ image \in [Writers -> States]
        /\ attached \in [Watchers -> BOOLEAN] /\ pending \in [Watchers -> Seq(Events)]
        /\ received \in [Watchers -> Seq(Events)]
        /\ cursor \in [Watchers -> Nat] /\ origin \in [Watchers -> Nat]
    BY <1>1 DEF Init, Steps
  <1>3. /\ phase \in Phases /\ faults \in 0..MaxFaults
        /\ primary # Unreadable
    BY EngineAssumption DEF Init, Phases
  <1>4. QED
    BY <1>1, <1>2, <1>3, EmptyType DEF Init, Typed, TypeOK

LEMMA RequestTyped == ASSUME Typed, Request PROVE Typed'
  <1> USE DEF Ready
  <1>1. ASSUME NEW k \in Keys, NEW record \in Records, Mutate(k, record) PROVE Typed'
    <2>1. [mem.docs EXCEPT ![k] = record] \in [Keys -> Records]
      BY StateFields DEF Typed, TypeOK
    <2>2. <<LocalChange(k, record)>> \in Seq(Changes)
      BY LocalChangeType
    <2>3. QED
      BY <1>1, <2>1, <2>2, ProposeType DEF Mutate
  <1>2. ASSUME NEW docs \in [Keys -> Records], Transaction(docs) PROVE Typed'
    <2> DEFINE changed == {k \in Keys : docs[k] # mem.docs[k]}
               n == Cardinality(changed)
    <2>1. n \in Nat
      BY EngineAssumption, FS_Subset, FS_CardinalityType
    <2>2. PICK order \in [1..n -> changed] :
            Propose(docs, [i \in 1..n |-> LocalChange(order[i], docs[order[i]])])
      BY <1>2 DEF Transaction
    <2> HIDE DEF n
    <2>3. \A i \in 1..n : LocalChange(order[i], docs[order[i]]) \in Changes
      BY LocalChangeType
    <2>4. [i \in 1..n |-> LocalChange(order[i], docs[order[i]])] \in Seq(Changes)
      BY <2>1, <2>3
    <2>5. QED
      BY <2>2, <2>4, ProposeType
  <1>3. ASSUME NEW change \in RemoteChanges, ApplyReplicationChange(change) PROVE Typed'
    <2>1. change \in Changes /\ change.key \in Keys /\ change.record \in Records
      BY EngineAssumption DEF Changes, ChangeIds
    <2>2. PICK record \in Resolved(mem.docs[change.key], change.record) :
            Propose([mem.docs EXCEPT ![change.key] = record], <<change>>)
      BY <1>3 DEF ApplyReplicationChange
    <2>3. mem.docs \in [Keys -> Records]
      BY StateFields DEF Typed, TypeOK
    <2>4. record \in Records
      <3>1. mem.docs[change.key] \in Records
        BY <2>1, <2>3
      <3>2. QED
        BY <2>1, <2>2, <3>1 DEF Resolved
    <2>5. [mem.docs EXCEPT ![change.key] = record] \in [Keys -> Records]
      BY <2>3, <2>4
    <2>6. <<change>> \in Seq(Changes)
      BY <2>1
    <2>7. QED
      BY <2>2, <2>5, <2>6, ProposeType
  <1>4. ASSUME NEW s \in Replacements, ReplaceState(s) PROVE Typed'
    <2>1. s \in States
      BY EngineAssumption
    <2>2. step' \in [Writers -> Steps] /\ image' \in [Writers -> States]
      BY <1>4, <2>1, StartImageType DEF Typed, ReplaceState
    <2>3. QED
      BY <1>4, <2>2 DEF Typed, TypeOK, ReplaceState, Phases, memory, write, disk, streams
  <1>5. ASSUME Checkpoint PROVE Typed'
    <2>1. step' \in [Writers -> Steps] /\ image' \in [Writers -> States]
      BY <1>5, StartImageType DEF Typed, TypeOK, Checkpoint
    <2>2. QED
      BY <1>5, <2>1 DEF Typed, TypeOK, Checkpoint, Phases, memory, write, disk, streams
  <1>6. ASSUME Close PROVE Typed'
    <2>1. step' \in [Writers -> Steps] /\ image' \in [Writers -> States]
      BY <1>6 DEF Typed, TypeOK, Close, checkpoints, Steps, Writers
    <2>2. QED
      BY <1>6, <2>1 DEF Typed, TypeOK, Close, memory, write, disk, streams
  <1>7. QED
    BY <1>1, <1>2, <1>3, <1>4, <1>5, <1>6 DEF Request

LEMMA ContinueTyped == ASSUME Typed, Continue PROVE Typed'
  <1>1. ASSUME WriteLine PROVE Typed'
    <2>1. lines' \in Seq(Entries \cup {BadLine})
      <3>1. (IF torn THEN BadLine ELSE Entry) \in Entries \cup {BadLine}
        BY EntryType DEF Typed
      <3>2. QED
        BY <1>1, <3>1 DEF Typed, TypeOK, WriteLine
    <2>2. QED
      BY <1>1, <2>1 DEF Typed, TypeOK, WriteLine, Phases, memory, write, checkpoints, streams
  <1>2. ASSUME SyncCommit PROVE Typed'
    <2>1. Entry \in Entries /\ draft \in States
      BY EntryType DEF Typed, TypeOK
    <2>2. entries' \in Seq(Entries) /\ log' \in Seq(Events) /\ commits' \in Nat
      BY <1>2, <2>1 DEF Typed, TypeOK, SyncCommit
    <2>3. /\ step' \in [Writers -> Steps] /\ image' \in [Writers -> States]
          /\ phase' \in Phases
      BY <1>2, <2>1, StartImageType DEF Typed, TypeOK, SyncCommit, checkpoints, Phases
    <2>4. QED
      BY <1>2, <2>2, <2>3 DEF Typed, TypeOK, SyncCommit, write, disk, streams
  <1>3. ASSUME Publish PROVE Typed'
    <2>1. pending' \in [Watchers -> Seq(Events)]
      BY <1>3 DEF Typed, TypeOK, Publish
    <2>2. QED
      BY <1>3, <2>1 DEF Typed, TypeOK, Publish, Phases, memory, checkpoints, disk
  <1>4. ASSUME NEW a \in Writers, WritePrimary(a) PROVE Typed'
    <2>1. image[a] \in States /\ image[a] # Unreadable
      BY EngineAssumption DEF Typed, TypeOK
    <2>2. step' \in [Writers -> Steps]
      BY <1>4 DEF Typed, TypeOK, WritePrimary, Steps
    <2>3. QED
      BY <1>4, <2>1, <2>2 DEF Typed, TypeOK, WritePrimary, memory, write, streams
  <1>5. ASSUME NEW a \in Writers, WriteBackup(a) PROVE Typed'
    <2>1. image[a] \in States /\ image[a].changes \in Seq(Events)
      BY StateFields DEF Typed, TypeOK
    <2>2. step' \in [Writers -> Steps]
      BY <1>5 DEF Typed, TypeOK, WriteBackup, Steps
    <2>3. mem' \in States /\ draft' \in States /\ log' \in Seq(Events)
      BY <1>5, <2>1 DEF Typed, TypeOK, WriteBackup
    <2>4. QED
      BY <1>5, <2>1, <2>2, <2>3 DEF Typed, TypeOK, WriteBackup, streams
  <1>6. ASSUME NEW a \in Writers, Compact(a) PROVE Typed'
    <2>1. step' \in [Writers -> Steps] /\ phase' \in Phases
      BY <1>6, FinishType DEF Typed, Compact
    <2>2. /\ Remaining(a) \in Seq(Entries) /\ Remaining(a) \in Seq(Entries \cup {BadLine})
          /\ Len(Remaining(a)) \in Nat
      BY RemainingType DEF Typed
    <2>3. QED
      BY <1>6, <2>1, <2>2 DEF Typed, TypeOK, Compact, write, streams
  <1>7. ASSUME CreateBackup PROVE Typed'
    <2>1. "writer" \in Writers /\ image["writer"] \in States
      BY DEF Typed, TypeOK, Writers
    <2>2. /\ phase' \in Phases /\ mem' \in States /\ draft' \in States
          /\ entries' \in Seq(Entries) /\ commits' \in Nat /\ log' \in Seq(Events)
      BY <1>7, <2>1, LoadType DEF Typed, CreateBackup
    <2>3. step' \in [Writers -> Steps]
      BY <1>7 DEF Typed, TypeOK, CreateBackup, Steps
    <2>4. QED
      BY <1>7, <2>1, <2>2, <2>3 DEF Typed, TypeOK, CreateBackup, streams
  <1>8. QED
    BY <1>1, <1>2, <1>3, <1>4, <1>5, <1>6, <1>7 DEF Continue

LEMMA FailTyped == ASSUME Typed, Fail PROVE Typed'
  <1>1. faults \in 0..MaxFaults /\ lines \in Seq(Entries \cup {BadLine})
    BY DEF Typed, TypeOK
  <1>2. << >> \in Seq(Events)
    OBVIOUS
  <1>3. ASSUME AppendFails PROVE Typed'
    <2>1. faults' \in 0..MaxFaults
      BY <1>1, <1>3, FaultType DEF AppendFails
    <2>2. QED
      BY <1>2, <1>3, <2>1
      DEF Typed, TypeOK, AppendFails, Reject, Phases, memory, checkpoints, disk, streams
  <1>4. ASSUME WriteTears PROVE Typed'
    <2>1. faults' \in 0..MaxFaults
      BY <1>1, <1>4, FaultType DEF WriteTears
    <2>2. QED
      BY <1>2, <1>4, <2>1
      DEF Typed, TypeOK, WriteTears, Reject, Phases, memory, checkpoints, streams
  <1>5. ASSUME SyncFails PROVE Typed'
    <2>1. faults' \in 0..MaxFaults
      BY <1>1, <1>5, FaultType DEF SyncFails
    <2>2. lines' \in Seq(Entries \cup {BadLine}) /\ torn' \in BOOLEAN
      BY <1>5, UnsyncedType DEF SyncFails, Typed
    <2>3. QED
      BY <1>2, <1>5, <2>1, <2>2
      DEF Typed, TypeOK, SyncFails, Reject, Phases, memory, checkpoints, streams
  <1>6. ASSUME CreateFails PROVE Typed'
    <2>1. faults' \in 0..MaxFaults
      BY <1>1, <1>6, FaultType DEF CreateFails
    <2>2. QED
      BY <1>6, <2>1, StopType DEF Typed, TypeOK, CreateFails
  <1>7. ASSUME NEW a \in Writers, CheckpointFails(a) PROVE Typed'
    <2>1. faults' \in 0..MaxFaults
      BY <1>1, <1>7, FaultType DEF CheckpointFails
    <2>2. step' \in [Writers -> Steps] /\ phase' \in Phases
      BY <1>7, FinishType DEF Typed, CheckpointFails
    <2>3. lines' \in Seq(Entries \cup {BadLine}) /\ torn' \in BOOLEAN
      BY <1>7, RemainingType DEF Typed, TypeOK, CheckpointFails
    <2>4. degraded' \in BOOLEAN
      BY <1>7 DEF Typed, TypeOK, CheckpointFails
    <2>5. QED
      BY <1>7, <2>1, <2>2, <2>3, <2>4 DEF Typed, TypeOK, CheckpointFails, write, streams
  <1>8. ASSUME Crash PROVE Typed'
    <2>1. faults' \in 0..MaxFaults
      BY <1>1, <1>8, FaultType DEF Crash
    <2>2. lines' \in Seq(Entries \cup {BadLine}) /\ torn' \in BOOLEAN
      <3>1. CASE phase = "sync"
        BY <1>1, <1>8, <3>1, UnsyncedType, FrontType DEF Crash, Typed
      <3>2. CASE phase # "sync"
        BY <1>8, <3>2 DEF Crash, Typed, TypeOK
      <3>3. QED
        BY <3>1, <3>2
    <2>3. QED
      BY <1>8, <2>1, <2>2, StopType DEF Crash
  <1>9. ASSUME CorruptPrimary PROVE Typed'
    <2>1. faults' \in 0..MaxFaults
      BY <1>1, <1>9, FaultType DEF CorruptPrimary
    <2>2. QED
      BY <1>9, <2>1 DEF Typed, TypeOK, CorruptPrimary, memory, write, checkpoints, streams
  <1>10. QED
    BY <1>3, <1>4, <1>5, <1>6, <1>7, <1>8, <1>9 DEF Fail

LEMMA WatchTyped == ASSUME Typed, Watch PROVE Typed'
  <1>1. PICK w \in Watchers : Subscribe(w) \/ Reseed(w) \/ Deliver(w) \/ Unsubscribe(w)
    BY DEF Watch
  <1>2. mem \in States /\ mem.sequence \in Nat /\ pending[w] \in Seq(Events)
    BY StateFields DEF Typed, TypeOK
  <1>3. CASE Subscribe(w)
    <2>1. ChangesSince(mem, cursor[w], Scope[w], ReplayLimit) \in Seq(Events)
      BY <1>2, ChangesSinceType
    <2>2. received' \in [Watchers -> Seq(Events)] /\ cursor' \in [Watchers -> Nat]
      BY <1>3, <2>1, ReceiveType DEF Typed, Subscribe
    <2>3. QED
      BY <1>3, <2>2 DEF Typed, TypeOK, Subscribe, memory, write, checkpoints, disk
  <1>4. CASE Reseed(w)
    <2>1. received' \in [Watchers -> Seq(Events)]
      BY <1>4, EmptyType DEF Typed, TypeOK, Reseed
    <2>2. QED
      BY <1>2, <1>4, <2>1 DEF Typed, TypeOK, Reseed, memory, write, checkpoints, disk
  <1>5. CASE Deliver(w)
    <2>1. pending[w][1] \in Events /\ Tail(pending[w]) \in Seq(Events)
      BY <1>2, <1>5 DEF Deliver
    <2>2. received' \in [Watchers -> Seq(Events)] /\ cursor' \in [Watchers -> Nat]
      <3>1. <<pending[w][1]>> \in Seq(Events)
        BY <2>1
      <3>2. \/ Receive(w, <<pending[w][1]>>)
            \/ UNCHANGED <<cursor, received>>
        BY <1>5 DEF Deliver
      <3>3. QED
        BY <3>1, <3>2, ReceiveType DEF Typed, TypeOK
    <2>3. pending' \in [Watchers -> Seq(Events)]
      BY <1>5, <2>1 DEF Typed, TypeOK, Deliver
    <2>4. QED
      BY <1>5, <2>2, <2>3 DEF Typed, TypeOK, Deliver, memory, write, checkpoints, disk
  <1>6. CASE Unsubscribe(w)
    <2>1. pending' \in [Watchers -> Seq(Events)]
      BY <1>6, EmptyType DEF Typed, TypeOK, Unsubscribe
    <2>2. QED
      BY <1>6, <2>1 DEF Typed, TypeOK, Unsubscribe, memory, write, checkpoints, disk
  <1>7. QED
    BY <1>1, <1>3, <1>4, <1>5, <1>6

LEMMA StartAndStopTyped == ASSUME Typed, Open \/ CreateFile \/ Exit PROVE Typed'
  <1>1. CASE Open
    <2> DEFINE source == IF primary = Unreadable THEN backup ELSE primary
    <2>1. source \in States /\ Load(source)
      BY <1>1 DEF Typed, TypeOK, Open
    <2> HIDE DEF source
    <2>2. /\ phase' \in Phases /\ mem' \in States /\ draft' \in States
          /\ entries' \in Seq(Entries) /\ commits' \in Nat /\ log' \in Seq(Events)
      BY <2>1, LoadType DEF Typed
    <2>3. QED
      BY <1>1, <2>2 DEF Typed, TypeOK, Open, checkpoints, disk, streams
  <1>2. CASE CreateFile
    <2>1. Fresh(Self) \in States
      BY EngineAssumption, FreshType
    <2>2. step' \in [Writers -> Steps] /\ image' \in [Writers -> States]
      BY <1>2, <2>1, StartImageType DEF Typed, CreateFile
    <2>3. QED
      BY <1>2, <2>2 DEF Typed, TypeOK, CreateFile, Phases, memory, write, disk, streams
  <1>3. CASE Exit
    BY <1>3, StopType DEF Exit, Typed, TypeOK
  <1>4. QED
    BY <1>1, <1>2, <1>3

LEMMA StutterTyped == ASSUME Typed, UNCHANGED vars PROVE Typed'
  BY DEF Typed, TypeOK, vars, memory, write, checkpoints, disk, streams

-----------------------------------------------------------------------------
\* The state, the log, both checkpoint files and every subscriber keep their
\* types, whatever fails and wherever the process stops: recovery only ever
\* builds a state from a log whose entries all parsed and follow each other.
THEOREM TypeCorrect == Spec => []TypeOK
  <1>1. Init => Typed
    BY InitTyped
  <1>2. Typed /\ [Next]_vars => Typed'
    BY RequestTyped, ContinueTyped, FailTyped, WatchTyped, StartAndStopTyped, StutterTyped
    DEF Next
  <1>3. Typed => TypeOK
    BY DEF Typed
  <1>4. QED
    BY <1>1, <1>2, <1>3, PTL DEF Spec

-----------------------------------------------------------------------------
\* What the parts of the engine say of one history.

\* Two changes with one remote id are further apart than the retention.
Spaced(L) ==
  \A i, j \in DOMAIN L :
    i < j /\ L[i].changeId = L[j].changeId /\ L[i].changeId \in RemoteIds => j - i > Retention

History(L) == L \in Seq(Events) /\ Numbered(L) /\ Spaced(L)

\* A resolver that returns the current record makes documents no event describes.
Reflects(s, L) ==
  /\ Remembers(s, L)
  /\ "current" \notin Resolvers => s.docs = ApplyEvents(Blank, L)

\* The events of the last line that no caller has heard of: those beyond L.
Unheard(wal, L) ==
  IF wal # << >> /\ wal[Len(wal)].resultSequence > Len(L) THEN wal[Len(wal)].events
                                                           ELSE << >>
IdOf(b) == IF b \in States THEN b.databaseId ELSE Self

\* Checkpoint s is the state of a part of history L that ends where the log goes on.
ImageOf(s, id, wal, L) ==
  s \in States =>
    /\ s.databaseId = id /\ s.sequence <= Len(L)
    /\ Reflects(s, SubSeq(L, 1, s.sequence)) /\ Boundary(s.sequence, wal, L)

\* No checkpoint is ahead of the commits that callers have heard of.
Behind(s, L) == s \in States => s.sequence <= Len(L)

\* A log that can be read holds the end of history L and maybe the events of a
\* commit that was cut off; checkpoints p and b hold the rest.
Holds(wal, L, p, b) ==
  ReadableWal(wal) =>
    LET G == L \o Unheard(wal, L)
    IN /\ History(G) /\ WalOf(wal, IdOf(b), G)
       /\ ImageOf(p, IdOf(b), wal, G) /\ ImageOf(b, IdOf(b), wal, G)
       /\ Behind(p, L) /\ Behind(b, L)

LEMMA AppendIs ==
  ASSUME NEW S, NEW s \in Seq(S), NEW x \in S
  PROVE  /\ Append(s, x) \in Seq(S) /\ Len(Append(s, x)) = Len(s) + 1
         /\ \A i \in 1..Len(s) : Append(s, x)[i] = s[i]
         /\ Append(s, x)[Len(s) + 1] = x
  OBVIOUS

LEMMA ConcatEmpty == ASSUME NEW S, NEW s \in Seq(S) PROVE s \o << >> = s
  OBVIOUS

LEMMA AppendReadable ==
  ASSUME NEW wal \in Seq(Entries \cup {BadLine}), NEW x \in Entries \cup {BadLine},
         ReadableWal(Append(wal, x))
  PROVE  /\ wal \in Seq(Entries) /\ x \in Entries /\ ReadableWal(wal)
         /\ wal # << >> => wal[Len(wal)].resultSequence = x.baseSequence
  <1> DEFINE W == Append(wal, x)
             n == Len(wal)
  <1>1. /\ W \in Seq(Entries \cup {BadLine}) /\ Len(W) = n + 1 /\ n \in Nat
        /\ \A i \in 1..n : W[i] = wal[i]
        /\ W[n + 1] = x
    BY AppendIs
  <1> HIDE DEF W
  <1>2. W \in Seq(Entries) /\ Contiguous(W)
    BY <1>1, ReadableType DEF W
  <1>3. x \in Entries /\ \A i \in 1..n : wal[i] \in Entries
    BY <1>1, <1>2
  <1>4. wal \in Seq(Entries)
    BY <1>3
  <1>5. \A i \in 1..n : W[i + 1].baseSequence = W[i].resultSequence
    BY <1>1, <1>2 DEF Contiguous
  <1>6. Contiguous(wal)
    <2> SUFFICES ASSUME NEW i \in 1..(n - 1)
                 PROVE  wal[i + 1].baseSequence = wal[i].resultSequence
      BY DEF Contiguous
    <2>1. i \in 1..n /\ i + 1 \in 1..n
      BY <1>1
    <2>2. QED
      BY <1>1, <1>5, <2>1
  <1>7. BadLine \notin ToSet(wal)
    BY <1>4, EngineAssumption DEF ToSet
  <1>8. wal # << >> => wal[n].resultSequence = x.baseSequence
    <2> SUFFICES ASSUME wal # << >> PROVE wal[n].resultSequence = x.baseSequence
      OBVIOUS
    <2>1. n \in 1..n
      OBVIOUS
    <2>2. QED
      BY <1>1, <1>5, <2>1
  <1>9. QED
    BY <1>3, <1>4, <1>6, <1>7, <1>8 DEF ReadableWal

LEMMA PrefixOfParts ==
  ASSUME NEW L \in Seq(Events), NEW e \in Seq(Events), NEW n \in 0..Len(L)
  PROVE  SubSeq(L \o e, 1, n) = SubSeq(L, 1, n)
  <1> DEFINE G == L \o e
  <1>1. /\ G \in Seq(Events) /\ Len(G) = Len(L) + Len(e) /\ Len(L) \in Nat /\ Len(e) \in Nat
        /\ \A i \in 1..Len(L) : G[i] = L[i]
    BY ConcatIs
  <1> HIDE DEF G
  <1>2. n \in 0..Len(G)
    BY <1>1
  <1>3. /\ SubSeq(G, 1, n) \in Seq(Events) /\ Len(SubSeq(G, 1, n)) = n
        /\ \A i \in 1..n : SubSeq(G, 1, n)[i] = G[i]
    BY <1>1, <1>2, PartsOf
  <1>4. /\ SubSeq(L, 1, n) \in Seq(Events) /\ Len(SubSeq(L, 1, n)) = n
        /\ \A i \in 1..n : SubSeq(L, 1, n)[i] = L[i]
    BY PartsOf
  <1>5. \A i \in 1..n : i \in 1..Len(L)
    BY <1>1
  <1>6. \A i \in 1..n : SubSeq(G, 1, n)[i] = SubSeq(L, 1, n)[i]
    BY <1>1, <1>3, <1>4, <1>5
  <1>7. SubSeq(G, 1, n) = SubSeq(L, 1, n)
    BY <1>3, <1>4, <1>6, SameSequence
  <1>8. QED
    BY <1>7 DEF G

LEMMA WholePrefix == ASSUME NEW L \in Seq(Events) PROVE SubSeq(L, 1, Len(L)) = L
  OBVIOUS

\* A line for the next commit extends the log of a history, heard of or not.
LEMMA HoldsAppend ==
  ASSUME NEW wal \in Seq(Entries \cup {BadLine}), NEW L \in Seq(Events), NEW p, NEW b,
         Holds(wal, L, p, b), NEW e \in Seq(Events), e # << >>, History(L \o e),
         NEW x \in Entries, x.databaseId = IdOf(b), x.baseSequence = Len(L),
         x.resultSequence = Len(L) + Len(e), x.events = e
  PROVE  Holds(Append(wal, x), L, p, b) /\ Holds(Append(wal, x), L \o e, p, b)
  <1> SUFFICES ASSUME ReadableWal(Append(wal, x))
               PROVE  Holds(Append(wal, x), L, p, b) /\ Holds(Append(wal, x), L \o e, p, b)
    BY DEF Holds
  <1> DEFINE G == L \o e
             W == Append(wal, x)
             n == Len(L)
             k == Len(e)
             m == Len(wal)
             id == IdOf(b)
  <1>1. /\ G \in Seq(Events) /\ Len(G) = n + k /\ n \in Nat /\ k \in Nat /\ k # 0
        /\ \A i \in 1..n : G[i] = L[i]
        /\ \A i \in 1..k : G[n + i] = e[i]
    BY ConcatIs
  <1>2. /\ wal \in Seq(Entries) /\ ReadableWal(wal)
        /\ wal # << >> => wal[m].resultSequence = x.baseSequence
    BY AppendReadable, Zenon
  <1>3. Unheard(wal, L) = << >>
    BY <1>1, <1>2 DEF Unheard
  <1>4. /\ WalOf(wal, id, L) /\ ImageOf(p, id, wal, L) /\ ImageOf(b, id, wal, L)
        /\ Behind(p, L) /\ Behind(b, L)
    BY <1>2, <1>3, ConcatEmpty DEF Holds
  <1>5. /\ W \in Seq(Entries) /\ Len(W) = m + 1 /\ m \in Nat
        /\ \A i \in 1..m : W[i] = wal[i]
        /\ W[m + 1] = x
    BY <1>2, AppendIs
  <1> HIDE DEF G, W, n, k, m, id
  <1>6. W # << >> /\ W[Len(W)] = x /\ x.resultSequence = n + k
    BY <1>5 DEF n, k
  <1>7. Unheard(W, L) = e /\ Unheard(W, G) = << >>
    <2>1. n + k > n /\ ~(n + k > Len(G))
      BY <1>1
    <2>2. Len(L) = n
      BY DEF n
    <2>3. QED
      BY <1>6, <2>1, <2>2 DEF Unheard
  <1>8. WalOf(W, id, G)
    <2>1. DOMAIN W = 1..(m + 1) /\ DOMAIN wal = 1..m
      BY <1>2, <1>5 DEF m
    <2>2. ASSUME NEW i \in 1..m
          PROVE  /\ Slice(W[i], G) /\ W[i].databaseId = id
                 /\ W[i].resultSequence \in Nat /\ W[i].resultSequence <= n
      <3> DEFINE q == Len(wal[i].events)
                 base == wal[i].baseSequence
                 last == wal[i].resultSequence
                 ev == wal[i].events
      <3>1. /\ base \in Nat /\ last \in Nat /\ ev \in Seq(Events) /\ base < last /\ last <= Len(L)
            /\ last = base + q /\ wal[i].databaseId = id
            /\ \A j \in 1..q : ev[j] = L[base + j]
        BY <1>2, <1>4, SliceIs DEF m
      <3>2. DOMAIN ev = 1..q /\ q \in Nat
        BY <3>1
      <3>3. Len(L) = n
        BY DEF n
      <3> HIDE DEF q, base, last, ev
      <3>4. \A j \in 1..q : base + j \in 1..n
        BY SMTT(30), <1>1, <3>1, <3>2, <3>3
      <3>5. \A j \in 1..q : ev[j] = G[base + j]
        BY <1>1, <3>1, <3>4
      <3>6. last <= Len(G)
        BY <1>1, <3>1, <3>3
      <3>7. Slice(wal[i], G)
        BY <3>1, <3>2, <3>5, <3>6 DEF Slice, base, last, q, ev
      <3>8. QED
        BY <1>5, <3>1, <3>3, <3>7 DEF last
    <2>3. Slice(x, G) /\ x.databaseId = id
      <3>1. DOMAIN e = 1..k
        BY DEF k
      <3>2. \A j \in 1..k : e[j] = G[n + j]
        BY <1>1
      <3>3. x.baseSequence = n /\ x.resultSequence = n + k /\ x.events = e /\ Len(e) = k
        BY DEF n, k
      <3>4. n < n + k /\ n + k <= Len(G)
        BY <1>1
      <3>5. QED
        BY <3>1, <3>2, <3>3, <3>4 DEF Slice, id
    <2>4. \A i \in 1..(m + 1) : i \in 1..m \/ i = m + 1
      BY <1>5
    <2>5. \A i \in DOMAIN W : Slice(W[i], G) /\ W[i].databaseId = id
      BY <1>5, <2>1, <2>2, <2>3, <2>4
    <2>6. ASSUME NEW i \in DOMAIN W, NEW j \in DOMAIN W, i < j
          PROVE  W[i].resultSequence <= W[j].baseSequence
      <3>1. i \in 1..m /\ (j \in 1..m \/ j = m + 1)
        BY <1>5, <2>1, <2>6
      <3>2. CASE j = m + 1
        BY <1>5, <2>2, <3>1, <3>2 DEF n
      <3>3. CASE j \in 1..m
        <4>1. wal[i].resultSequence <= wal[j].baseSequence
          BY <1>4, <2>1, <2>6, <3>1, <3>3 DEF WalOf
        <4>2. QED
          BY <1>5, <3>1, <3>3, <4>1
      <3>4. QED
        BY <3>1, <3>2, <3>3
    <2>7. W[Len(W)].resultSequence = Len(G)
      BY <1>1, <1>6
    <2>8. QED
      BY <2>5, <2>6, <2>7 DEF WalOf
  <1>9. ASSUME NEW s, ImageOf(s, id, wal, L) PROVE ImageOf(s, id, W, G)
    <2> SUFFICES ASSUME s \in States
                 PROVE  /\ s.databaseId = id /\ s.sequence <= Len(G)
                        /\ Reflects(s, SubSeq(G, 1, s.sequence)) /\ Boundary(s.sequence, W, G)
      BY DEF ImageOf
    <2>1. /\ s.databaseId = id /\ s.sequence <= n /\ s.sequence \in Nat
          /\ Reflects(s, SubSeq(L, 1, s.sequence)) /\ Boundary(s.sequence, wal, L)
      BY <1>9, StateFields DEF ImageOf, n
    <2>2. SubSeq(G, 1, s.sequence) = SubSeq(L, 1, s.sequence)
      <3>1. s.sequence \in 0..Len(L)
        BY <1>1, <2>1 DEF n
      <3>2. QED
        BY <3>1, PrefixOfParts DEF G
    <2>3. s.sequence <= Len(G)
      BY <1>1, <2>1
    <2>4. Boundary(s.sequence, W, G)
      <3>1. CASE wal = << >>
        <4>1. m = 0 /\ s.sequence = n
          BY <2>1, <3>1 DEF Boundary, m, n
        <4>2. W[1] = x
          BY <1>5, <4>1
        <4>3. QED
          BY <1>6, <4>1, <4>2 DEF Boundary, n
      <3>2. CASE wal # << >>
        <4>1. DOMAIN wal = 1..m /\ DOMAIN W = 1..(m + 1) /\ m # 0
          BY <1>2, <1>5, <3>2 DEF m
        <4>2. 1 \in 1..m /\ \A i \in 1..m : i \in 1..(m + 1)
          BY <1>5, <4>1
        <4>3. s.sequence = wal[1].baseSequence \/ \E i \in 1..m : s.sequence = wal[i].resultSequence
          BY <2>1, <3>2, <4>1 DEF Boundary
        <4>4. s.sequence = W[1].baseSequence \/ \E i \in 1..(m + 1) : s.sequence = W[i].resultSequence
          BY <1>5, <4>2, <4>3
        <4>5. QED
          BY <1>6, <4>1, <4>4 DEF Boundary
      <3>3. QED
        BY <3>1, <3>2
    <2>5. QED
      BY <2>1, <2>2, <2>3, <2>4
  <1>10. G \o << >> = G
    BY <1>1, ConcatEmpty
  <1>11. History(G) /\ ImageOf(p, id, W, G) /\ ImageOf(b, id, W, G)
    BY <1>4, <1>9 DEF G
  <1>12. Behind(p, G) /\ Behind(b, G)
    <2>1. \A s \in States : s.sequence <= n => s.sequence <= Len(G)
      BY <1>1, StateFields
    <2>2. QED
      BY <1>4, <2>1 DEF Behind, n
  <1>13. Holds(W, L, p, b)
    BY <1>4, <1>7, <1>8, <1>11 DEF Holds, G, id
  <1>14. Holds(W, G, p, b)
    BY <1>7, <1>8, <1>10, <1>11, <1>12 DEF Holds, id
  <1>15. QED
    BY <1>13, <1>14 DEF W, G

\* The state of the whole history is a checkpoint of it.
LEMMA HoldsImage ==
  ASSUME NEW wal \in Seq(Entries \cup {BadLine}), NEW L \in Seq(Events), NEW p, NEW b,
         Holds(wal, L, p, b), NEW s \in States, Reflects(s, L), s.databaseId = IdOf(b)
  PROVE  Holds(wal, L, s, b) /\ Holds(wal, L, p, s)
  <1> SUFFICES ASSUME ReadableWal(wal) PROVE Holds(wal, L, s, b) /\ Holds(wal, L, p, s)
    BY DEF Holds
  <1> DEFINE u == Unheard(wal, L)
             G == L \o u
             n == Len(L)
             m == Len(wal)
             id == IdOf(b)
  <1>1. /\ History(G) /\ WalOf(wal, id, G) /\ ImageOf(p, id, wal, G) /\ ImageOf(b, id, wal, G)
        /\ Behind(p, L) /\ Behind(b, L)
    BY DEF Holds
  <1>2. wal \in Seq(Entries) /\ Contiguous(wal) /\ m \in Nat
    BY ReadableType
  <1>3. u \in Seq(Events)
    <2>1. CASE wal = << >>
      BY <2>1 DEF Unheard
    <2>2. CASE wal # << >>
      <3>1. wal[m] \in Entries
        BY <1>2, <2>2
      <3>2. QED
        BY <3>1, EntryFields, EmptyType DEF Unheard
    <2>3. QED
      BY <2>1, <2>2
  <1> HIDE DEF u
  <1>4. /\ G \in Seq(Events) /\ Len(G) = n + Len(u) /\ n \in Nat /\ Len(u) \in Nat
    BY <1>3, ConcatIs
  <1>5. SubSeq(G, 1, n) = L
    <2>1. n \in 0..Len(L)
      OBVIOUS
    <2>2. SubSeq(G, 1, n) = SubSeq(L, 1, n)
      BY <1>3, <2>1, PrefixOfParts
    <2>3. QED
      BY <2>2, WholePrefix
  <1>6. s.sequence = n
    BY DEF Reflects, Remembers
  <1> HIDE DEF G, n, m, id
  <1>7. Boundary(n, wal, G)
    <2>1. CASE wal = << >>
      <3>1. u = << >>
        BY <2>1 DEF u, Unheard
      <3>2. G = L
        BY <3>1, ConcatEmpty DEF G
      <3>3. QED
        BY <2>1, <3>2 DEF Boundary, n
    <2>2. CASE wal # << >>
      <3>1. m \in 1..m /\ DOMAIN wal = 1..m
        BY <1>2, <2>2 DEF m
      <3>2. /\ wal[m].baseSequence \in Nat /\ wal[m].resultSequence \in Nat
            /\ wal[m].events \in Seq(Events)
            /\ wal[m].resultSequence = wal[m].baseSequence + Len(wal[m].events)
        BY <1>1, <1>2, <1>4, <3>1, SliceIs DEF m
      <3>3. wal[m].resultSequence = Len(G)
        BY <1>1, <2>2 DEF WalOf, m
      <3>4. CASE wal[m].resultSequence > n
        <4>1. u = wal[m].events
          BY <2>2, <3>4 DEF u, Unheard, n, m
        <4>2. wal[m].baseSequence = n
          BY <1>4, <3>2, <3>3, <4>1
        <4>3. CASE m = 1
          BY <2>2, <4>2, <4>3 DEF Boundary
        <4>4. CASE m # 1
          <5>1. m - 1 \in 1..(m - 1) /\ m - 1 \in 1..m /\ (m - 1) + 1 = m
            BY <1>2, <3>1, <4>4 DEF m
          <5>2. wal[(m - 1) + 1].baseSequence = wal[m - 1].resultSequence
            BY <1>2, <5>1 DEF Contiguous, m
          <5>3. wal[m - 1].resultSequence = n
            BY <4>2, <5>1, <5>2
          <5>4. QED
            BY <2>2, <3>1, <5>1, <5>3 DEF Boundary
        <4>5. QED
          BY <4>3, <4>4
      <3>5. CASE ~(wal[m].resultSequence > n)
        <4>1. n = wal[m].resultSequence
          BY <1>4, <3>3, <3>5
        <4>2. QED
          BY <2>2, <3>1, <4>1 DEF Boundary
      <3>6. QED
        BY <3>4, <3>5
    <2>3. QED
      BY <2>1, <2>2
  <1>8. ImageOf(s, id, wal, G)
    <2>1. n <= Len(G)
      BY <1>4
    <2>2. QED
      BY <1>5, <1>6, <1>7, <2>1 DEF ImageOf, id
  <1>9. IdOf(s) = id
    BY DEF IdOf, id
  <1>10. Behind(s, L)
    BY <1>4, <1>6 DEF Behind, n
  <1>11. QED
    BY <1>1, <1>8, <1>9, <1>10 DEF Holds, id, G, u

LEMMA EmptyReadable == ReadableWal(<< >>) /\ Unheard(<< >>, << >>) = << >>
  <1>1. BadLine \notin ToSet(<< >>)
    BY DEF ToSet
  <1>2. QED
    BY <1>1 DEF ReadableWal, Contiguous, Unheard

\* Two checkpoints of the whole history need no log.
LEMMA HoldsChecked ==
  ASSUME NEW L, History(L), NEW s \in States, Reflects(s, L)
  PROVE  Holds(<< >>, L, s, s)
  <1>1. L \in Seq(Events) /\ Unheard(<< >>, L) = << >>
    BY DEF History, Unheard
  <1>2. L \o << >> = L /\ SubSeq(L, 1, Len(L)) = L /\ Len(L) <= Len(L)
    BY <1>1, ConcatEmpty, WholePrefix
  <1>3. s.sequence = Len(L)
    BY DEF Reflects, Remembers
  <1>4. WalOf(<< >>, IdOf(s), L)
    BY DEF WalOf
  <1>5. ImageOf(s, IdOf(s), << >>, L)
    BY <1>2, <1>3 DEF ImageOf, IdOf, Boundary
  <1>6. Behind(s, L)
    BY <1>2, <1>3 DEF Behind
  <1>7. QED
    BY <1>1, <1>2, <1>4, <1>5, <1>6 DEF Holds

\* The events of the last line beyond a history are those of one commit.
LEMMA UnheardType ==
  ASSUME NEW wal \in Seq(Entries), NEW L
  PROVE  Unheard(wal, L) \in Seq(Events)
  <1>1. CASE wal = << >>
    BY <1>1 DEF Unheard
  <1>2. CASE wal # << >>
    <2>1. wal[Len(wal)] \in Entries
      BY <1>2
    <2>2. QED
      BY <2>1, EntryFields, EmptyType DEF Unheard
  <1>3. QED
    BY <1>1, <1>2

\* Recovery of either checkpoint over a log that can be read succeeds and gives
\* the state of the whole history.
LEMMA RecoveredHistory ==
  ASSUME NEW wal \in Seq(Entries \cup {BadLine}), NEW L \in Seq(Events), NEW p, NEW b,
         Holds(wal, L, p, b), ReadableWal(wal), NEW s \in States, s = p \/ s = b
  PROVE  LET G == L \o Unheard(wal, L)
         IN /\ Recoverable(s, wal) /\ Reflects(Recovered(s, wal), G)
            /\ Recovered(s, wal).databaseId = IdOf(b)
            /\ EventsOf(ListAfter(wal, s.sequence)) = SubSeq(G, s.sequence + 1, Len(G))
  <1> DEFINE u == Unheard(wal, L)
             G == L \o u
             n == s.sequence
             id == IdOf(b)
             after == ListAfter(wal, n)
             a == SubSeq(G, 1, n)
             c == SubSeq(G, n + 1, Len(G))
             t == ReplayWal(s, after)
  <1>1. /\ History(G) /\ WalOf(wal, id, G) /\ s.databaseId = id /\ n <= Len(G)
        /\ Reflects(s, a) /\ Boundary(n, wal, G)
    BY DEF Holds, ImageOf
  <1>2. wal \in Seq(Entries) /\ Contiguous(wal) /\ n \in Nat /\ s.docs \in [Keys -> Records]
    BY ReadableType, StateFields
  <1>3. G \in Seq(Events) /\ Numbered(G)
    BY <1>1 DEF History
  <1> HIDE DEF G
  <1>4. /\ CanReplay(s, after) /\ EventsOf(after) = c /\ Remembers(t, G)
        /\ t.databaseId = s.databaseId /\ t.docs = ApplyEvents(s.docs, c)
    <2> HIDE DEF id
    <2>1. WalOf(wal, s.databaseId, G) /\ Remembers(s, a)
      BY <1>1 DEF Reflects
    <2>2. QED
      BY <1>1, <1>2, <1>3, <2>1, ReplayHistory
  <1>5. n \in 0..Len(G)
    BY <1>1, <1>2, <1>3
  <1>6. a \in Seq(Events) /\ c \in Seq(Events) /\ a \o c = G
    <2> HIDE DEF n
    <2>1. QED
      BY <1>3, <1>5, PartsOf
  <1> HIDE DEF a, c, t
  <1>7. "current" \notin Resolvers => t.docs = ApplyEvents(Blank, G)
    <2> SUFFICES ASSUME "current" \notin Resolvers PROVE t.docs = ApplyEvents(Blank, G)
      OBVIOUS
    <2>1. s.docs = ApplyEvents(Blank, a)
      BY <1>1 DEF Reflects
    <2>2. Blank \in [Keys -> Records]
      BY DEF Blank, Records
    <2>3. ApplyEvents(ApplyEvents(Blank, a), c) = ApplyEvents(Blank, a \o c)
      BY <1>6, <2>2, ApplyParts
    <2>4. QED
      BY <1>4, <1>6, <2>1, <2>3
  <1>8. Recoverable(s, wal) /\ Recovered(s, wal) = t
    BY <1>4 DEF Recoverable, Recovered, t
  <1>9. QED
    BY <1>1, <1>4, <1>7, <1>8 DEF Reflects, G, c

\* What recovery adds to the history is what nobody had heard of.
LEMMA ExtendedHistory ==
  ASSUME lines \in Seq(Entries \cup {BadLine}), log \in Seq(Events), NEW p, NEW b,
         Holds(lines, log, p, b), ReadableWal(lines), NEW s \in States, s = p \/ s = b
  PROVE  Extended(s) = log \o Unheard(lines, log)
  <1> DEFINE u == Unheard(lines, log)
             G == log \o u
             n == s.sequence
             N == Len(log)
             k == Len(u)
             c == SubSeq(G, n + 1, Len(G))
             found == s.changes \o c
             q == Len(s.changes)
             new == Recovered(s, lines).sequence - Len(log)
             kept == IF new > Len(found) THEN 0 ELSE Len(found) - new
             part == SubSeq(found, kept + 1, Len(found))
  <1>1. EventsOf(ListAfter(lines, n)) = c /\ Recovered(s, lines).sequence = Len(G)
    BY RecoveredHistory DEF Reflects, Remembers
  <1>2. lines \in Seq(Entries) /\ u \in Seq(Events) /\ n \in Nat /\ s.changes \in Seq(Events)
    BY ReadableType, UnheardType, StateFields
  <1>3. n <= N
    BY DEF Holds, Behind
  <1> HIDE DEF u
  <1>4. /\ G \in Seq(Events) /\ Len(G) = N + k /\ N \in Nat /\ k \in Nat
        /\ \A i \in 1..k : G[N + i] = u[i]
    BY <1>2, ConcatIs
  <1>5. Extended(s) = IF new < 0 THEN SubSeq(log, 1, Len(log) + new)
                      ELSE log \o SubSeq(found, kept + 1, Len(found))
    BY <1>1 DEF Extended
  <1> HIDE DEF G
  <1>6. new = k
    BY <1>1, <1>4
  <1>7. /\ c \in Seq(Events) /\ Len(c) = N + k - n
        /\ \A i \in 1..(N + k - n) : c[i] = G[n + i]
    <2>1. n \in 0..Len(G)
      BY <1>2, <1>3, <1>4
    <2> HIDE DEF n
    <2>2. /\ SubSeq(G, n + 1, Len(G)) \in Seq(Events)
          /\ Len(SubSeq(G, n + 1, Len(G))) = Len(G) - n
          /\ \A i \in 1..(Len(G) - n) : SubSeq(G, n + 1, Len(G))[i] = G[n + i]
      BY <1>4, <2>1, PartsOf
    <2>3. Len(G) - n = N + k - n
      BY <1>2, <1>4 DEF n
    <2> HIDE DEF c, N, k
    <2>4. QED
      BY <2>2, <2>3, Zenon DEF c
  <1> HIDE DEF c
  <1>8. /\ found \in Seq(Events) /\ Len(found) = q + (N + k - n) /\ q \in Nat
        /\ \A i \in 1..(N + k - n) : found[q + i] = c[i]
    <2>1. /\ found \in Seq(Events) /\ Len(found) = q + Len(c)
          /\ \A i \in 1..Len(c) : found[q + i] = c[i]
      <3> DEFINE h == s.changes
      <3>1. h \in Seq(Events) /\ c \in Seq(Events)
        BY <1>2, <1>7
      <3> HIDE DEF h
      <3>2. /\ h \o c \in Seq(Events) /\ Len(h \o c) = Len(h) + Len(c)
            /\ \A i \in 1..Len(c) : (h \o c)[Len(h) + i] = c[i]
        BY <3>1, ConcatIs
      <3>3. QED
        BY <3>2 DEF h
    <2>2. q \in Nat
      BY <1>2
    <2>3. QED
      BY <1>7, <2>1, <2>2
  <1> HIDE DEF found, new, n, N, k, q
  <1>9. kept = q + (N - n) /\ kept \in Nat /\ Len(found) = kept + k
    BY <1>2, <1>3, <1>4, <1>6, <1>8
  <1> HIDE DEF kept
  <1>10. /\ part \in Seq(Events) /\ Len(part) = k
         /\ \A i \in 1..k : part[i] = found[kept + i]
    <2>1. kept \in 0..Len(found)
      BY <1>4, <1>9
    <2>2. /\ SubSeq(found, kept + 1, Len(found)) \in Seq(Events)
          /\ Len(SubSeq(found, kept + 1, Len(found))) = Len(found) - kept
          /\ \A i \in 1..(Len(found) - kept) :
               SubSeq(found, kept + 1, Len(found))[i] = found[kept + i]
      BY <1>8, <2>1, PartsOf
    <2>3. Len(found) - kept = k
      BY <1>4, <1>9
    <2>4. QED
      BY <2>2, <2>3
  <1> HIDE DEF part
  <1>11. ASSUME NEW i \in 1..k PROVE part[i] = u[i]
    <2>1. kept + i = q + ((N - n) + i) /\ (N - n) + i \in 1..(N + k - n) /\ n + ((N - n) + i) = N + i
      BY <1>2, <1>3, <1>4, <1>8, <1>9
    <2>2. found[kept + i] = G[N + i]
      BY <1>7, <1>8, <2>1
    <2>3. QED
      BY <1>4, <1>10, <2>2
  <1>12. part = u
    BY <1>2, <1>10, <1>11, SameSequence DEF k
  <1>13. ~(new < 0)
    BY <1>4, <1>6
  <1>14. QED
    BY <1>5, <1>12, <1>13 DEF part, u

\* After recovery nothing on disk is unheard of.
LEMMA HoldsHeard ==
  ASSUME NEW wal \in Seq(Entries \cup {BadLine}), NEW L \in Seq(Events), NEW p, NEW b,
         Holds(wal, L, p, b), ReadableWal(wal)
  PROVE  LET G == L \o Unheard(wal, L)
         IN /\ History(G) /\ Len(L) <= Len(G)
            /\ Holds(wal, G, p, b)
            /\ \A i \in DOMAIN wal : wal[i].resultSequence <= Len(G)
  <1> DEFINE u == Unheard(wal, L)
             G == L \o u
             id == IdOf(b)
  <1>1. /\ History(G) /\ WalOf(wal, id, G) /\ ImageOf(p, id, wal, G) /\ ImageOf(b, id, wal, G)
        /\ Behind(p, L) /\ Behind(b, L)
    BY DEF Holds
  <1>2. wal \in Seq(Entries) /\ u \in Seq(Events) /\ Len(L) \in Nat
    BY ReadableType, UnheardType
  <1> HIDE DEF u
  <1>3. G \in Seq(Events) /\ Len(G) = Len(L) + Len(u) /\ Len(u) \in Nat
    BY <1>2, ConcatIs
  <1>4. Len(L) <= Len(G) /\ Len(G) \in Nat
    BY <1>2, <1>3
  <1> HIDE DEF G
  <1>5. DOMAIN wal = 1..Len(wal) /\ \A i \in 1..Len(wal) : wal[i].resultSequence <= Len(G)
    BY <1>1, <1>2, <1>3, SliceIs
  <1>6. wal # << >> => wal[Len(wal)].resultSequence = Len(G)
    BY <1>1 DEF WalOf
  <1>7. Unheard(wal, G) = << >> /\ G \o << >> = G
    <2>1. ~(Len(G) > Len(G))
      BY <1>4
    <2>2. QED
      BY <1>3, <1>6, <2>1, ConcatEmpty DEF Unheard
  <1>8. Behind(p, G) /\ Behind(b, G)
    <2>1. \A s \in States : s.sequence <= Len(L) => s.sequence <= Len(G)
      BY <1>2, <1>4, StateFields
    <2>2. QED
      BY <1>1, <2>1 DEF Behind
  <1>9. QED
    BY <1>1, <1>4, <1>5, <1>7, <1>8 DEF Holds, G, u, id

-----------------------------------------------------------------------------
\* The inductive invariant: everything the engine holds is a part of one history.

\* No write follows close(), replaceState is not cut off, and it is called with
\* states an engine made, their whole history retained.
Settings ==
  /\ ~WritesAfterClose /\ "restore" \notin Faults
  /\ \A s \in Replacements : Reflects(s, s.changes) /\ History(s.changes)

ControlOK ==
  /\ closing => phase = "idle"
  /\ step["closer"] # "none" => closing
  /\ step["writer"] # "none" => phase \in {"checkpoint", "replace", "create"}

\* Before the first checkpoint is complete there is nothing.
FreshOK ==
  /\ primary = Absent => backup = Absent /\ log = << >> /\ lines = << >> /\ ~Up
  /\ phase = "create" =>
       /\ backup = Absent /\ log = << >> /\ lines = << >> /\ image["writer"] = Fresh(Self)
       /\ step["writer"] \in {"primary", "backup"}
       /\ step["writer"] = "backup" => primary = Fresh(Self)

\* Memory is the state of the history, and of the database on disk.
MemoryOK == Up => mem.databaseId = IdOf(backup) /\ Reflects(mem, log)

\* A draft is the state of the history its commit makes.
DraftOK ==
  phase \in {"append", "sync"} =>
    /\ events # << >> /\ History(log \o events) /\ Reflects(draft, log \o events)
    /\ draft.databaseId = mem.databaseId

\* A checkpoint is of the state in memory: no write comes in between.
CheckpointOK ==
  phase \notin {"create", "replace"} =>
    \A a \in Writers : step[a] # "none" =>
      /\ image[a] = mem
      /\ step[a] \in {"backup", "compact"} => primary = mem
      /\ step[a] = "compact" => backup = mem

EntriesOK ==
  Up /\ phase # "replace" => \A i \in DOMAIN entries : entries[i].resultSequence <= Len(log)

ReplaceOK ==
  phase = "replace" =>
    /\ step["writer"] # "none" /\ image["writer"] \in Replacements
    /\ step["writer"] \in {"backup", "compact"} => primary = image["writer"]
    /\ step["writer"] = "compact" =>
         /\ backup = image["writer"] /\ mem = image["writer"]
         /\ log = image["writer"].changes

\* The disk holds the history; in "sync" its last line is the draft's, or joined
\* a fragment.
DiskOK ==
  /\ phase # "replace" => Holds(SyncedLines, log, primary, backup)
  /\ phase = "sync" => lines # << >> /\ lines[Len(lines)] \in {BadLine, Entry}

OneHistory ==
  /\ History(log) /\ ControlOK /\ FreshOK /\ MemoryOK /\ DraftOK /\ CheckpointOK
  /\ EntriesOK /\ ReplaceOK /\ DiskOK

LEMMA FrontLast ==
  ASSUME NEW S, NEW s \in Seq(S), s # << >>
  PROVE  /\ Front(s) \in Seq(S) /\ s[Len(s)] \in S
         /\ s = Append(Front(s), s[Len(s)])
  <1>1. Len(s) - 1 \in 0..Len(s) /\ Len(s) \in 1..Len(s)
    OBVIOUS
  <1>2. Front(s) = SubSeq(s, 1, Len(s) - 1)
    BY DEF Front
  <1>3. QED
    BY <1>1, <1>2

LEMMA FrontAppend ==
  ASSUME NEW S, NEW s \in Seq(S), NEW x \in S
  PROVE  Front(Append(s, x)) = s /\ Append(s, x) # << >> /\ Append(s, x)[Len(Append(s, x))] = x
  <1> DEFINE t == Append(s, x)
             n == Len(s)
  <1>1. /\ t \in Seq(S) /\ Len(t) = n + 1 /\ t[n + 1] = x /\ n \in Nat
        /\ \A i \in 1..n : t[i] = s[i]
    OBVIOUS
  <1> HIDE DEF t
  <1>2. Front(t) = SubSeq(t, 1, n)
    BY <1>1 DEF Front
  <1>3. /\ SubSeq(t, 1, n) \in Seq(S) /\ Len(SubSeq(t, 1, n)) = n
        /\ \A i \in 1..n : SubSeq(t, 1, n)[i] = t[i]
    BY <1>1
  <1>4. SubSeq(t, 1, n) = s
    BY <1>1, <1>3, SameSequence
  <1>5. QED
    BY <1>1, <1>2, <1>4 DEF t

\* The line of the running write extends the log.
LEMMA HoldsKept ==
  ASSUME Typed, OneHistory, phase = "sync"
  PROVE  /\ Holds(Front(lines), log, primary, backup)
         /\ Holds(lines, log, primary, backup)
         /\ Holds(lines, log \o events, primary, backup)
  <1> DEFINE wal == Front(lines)
             x == lines[Len(lines)]
  <1>1. lines \in Seq(Entries \cup {BadLine}) /\ lines # << >> /\ x \in {BadLine, Entry}
    BY DEF Typed, TypeOK, OneHistory, DiskOK
  <1>2. wal \in Seq(Entries \cup {BadLine}) /\ lines = Append(wal, x)
    BY <1>1, FrontLast
  <1>3. Holds(wal, log, primary, backup)
    BY DEF OneHistory, DiskOK, SyncedLines
  <1>4. /\ events # << >> /\ History(log \o events) /\ Reflects(draft, log \o events)
        /\ mem.databaseId = IdOf(backup) /\ Reflects(mem, log) /\ History(log)
    BY DEF OneHistory, DraftOK, MemoryOK, Up
  <1>5. log \in Seq(Events) /\ events \in Seq(Events) /\ Entry \in Entries
    BY EntryType DEF Typed, TypeOK
  <1> HIDE DEF wal, x
  <1>6. CASE x = BadLine
    <2>1. BadLine \in ToSet(lines)
      BY <1>1, <1>6 DEF ToSet, x
    <2>2. QED
      BY <1>3, <2>1 DEF Holds, ReadableWal, wal
  <1>7. CASE x = Entry
    <2>1. /\ Entry.databaseId = IdOf(backup) /\ Entry.baseSequence = Len(log)
          /\ Entry.resultSequence = Len(log) + Len(events) /\ Entry.events = events
      <3>1. mem.sequence = Len(log) /\ draft.sequence = Len(log \o events)
        BY <1>4 DEF Reflects, Remembers
      <3>2. Len(log \o events) = Len(log) + Len(events)
        BY <1>5
      <3>3. QED
        BY <1>4, <3>1, <3>2 DEF Entry
    <2>2. Holds(Append(wal, x), log, primary, backup) /\ Holds(Append(wal, x), log \o events, primary, backup)
      BY <1>2, <1>3, <1>4, <1>5, <1>7, <2>1, HoldsAppend
    <2>3. QED
      BY <1>2, <1>3, <2>2 DEF wal
  <1>8. QED
    BY <1>1, <1>6, <1>7

LEMMA FrameHistory ==
  ASSUME OneHistory,
         UNCHANGED <<phase, mem, entries, draft, events, step, image, closing, primary,
                     backup, lines, log>>
  PROVE  OneHistory'
  BY DEF OneHistory, ControlOK, FreshOK, MemoryOK, DraftOK, CheckpointOK, EntriesOK,
         ReplaceOK, DiskOK, Up, SyncedLines, Entry

-----------------------------------------------------------------------------
\* Writes.

\* The events of a write continue the history: they carry the next numbers, and a
\* remote id among them is new or forgotten.
LEMMA StampHistory ==
  ASSUME NEW L, History(L), NEW s, Remembers(s, L), NEW changes \in Seq(Changes),
         \/ \A i \in DOMAIN changes : changes[i].changeId = LocalId
         \/ /\ Len(changes) = 1 /\ changes[1].changeId \in RemoteIds
            /\ s.appliedChangeIds[changes[1].changeId] = 0
  PROVE  History(L \o Stamp(changes, Len(L)))
  <1> DEFINE e == Stamp(changes, Len(L))
             G == L \o e
             n == Len(L)
             k == Len(changes)
  <1>1. L \in Seq(Events) /\ n \in Nat /\ k \in Nat /\ e \in Seq(Events) /\ Len(e) = k
    BY StampType DEF History
  <1>2. DOMAIN changes = 1..k
    OBVIOUS
  <1>3. \A i \in 1..k : e[i].sequence = n + i /\ e[i].changeId = changes[i].changeId
    BY <1>2 DEF Stamp
  <1> HIDE DEF e
  <1>4. /\ G \in Seq(Events) /\ Len(G) = n + k
        /\ \A i \in 1..n : G[i] = L[i]
        /\ \A i \in 1..k : G[n + i] = e[i]
    <2>1. L \in Seq(Events) /\ e \in Seq(Events)
      BY <1>1
    <2>2. /\ L \o e \in Seq(Events) /\ Len(L \o e) = Len(L) + Len(e)
          /\ \A i \in 1..Len(L) : (L \o e)[i] = L[i]
          /\ \A i \in 1..Len(e) : (L \o e)[Len(L) + i] = e[i]
      BY <2>1, ConcatIs
    <2>3. QED
      BY <1>1, <2>2
  <1> HIDE DEF G
  <1>5. DOMAIN L = 1..n /\ DOMAIN G = 1..(n + k)
    BY <1>1, <1>4
  <1>6. \A i \in 1..n : L[i].sequence = i
    BY <1>5 DEF History, Numbered
  <1> HIDE DEF n, k
  <1>7. ASSUME NEW i \in 1..(n + k)
        PROVE  i \in 1..n \/ (i > n /\ i - n \in 1..k /\ n + (i - n) = i)
    BY <1>1
  <1>8. Numbered(G)
    <2> SUFFICES ASSUME NEW i \in 1..(n + k) PROVE G[i].sequence = i
      BY <1>5 DEF Numbered
    <2>1. CASE i \in 1..n
      BY <1>4, <1>6, <2>1
    <2>2. CASE i > n
      <3> DEFINE j == i - n
      <3>1. j \in 1..k /\ n + j = i
        BY <1>1, <1>7, <2>2
      <3> HIDE DEF j
      <3>2. G[n + j] = e[j] /\ e[j].sequence = n + j
        BY <1>3, <1>4, <3>1
      <3>3. QED
        BY <3>1, <3>2
    <2>3. QED
      BY <1>7, <2>1, <2>2
  <1>9. Spaced(G)
    <2> SUFFICES ASSUME NEW i \in 1..(n + k), NEW j \in 1..(n + k), i < j,
                        G[i].changeId = G[j].changeId, G[i].changeId \in RemoteIds
                 PROVE  j - i > Retention
      BY <1>5 DEF Spaced
    <2>1. CASE j \in 1..n
      <3>1. i \in 1..n
        BY <1>1, <2>1
      <3>2. L[i].changeId = L[j].changeId /\ L[i].changeId \in RemoteIds
        BY <1>4, <2>1, <3>1
      <3>3. QED
        BY <1>5, <2>1, <3>1, <3>2 DEF History, Spaced
    <2>2. CASE j \notin 1..n
      <3> DEFINE m == j - n
      <3>1. j > n /\ j - n \in 1..k /\ G[j].changeId = changes[j - n].changeId
        <4>1. j > n /\ m \in 1..k /\ n + m = j
          BY <1>7, <2>2
        <4> HIDE DEF m
        <4>2. G[n + m] = e[m] /\ e[m].changeId = changes[m].changeId
          BY <1>3, <1>4, <4>1
        <4>3. QED
          BY <4>1, <4>2 DEF m
      <3>2. /\ k = 1 /\ s.appliedChangeIds[changes[1].changeId] = 0
            /\ changes[1].changeId \in RemoteIds
        BY <1>2, <3>1, LocalIdAssumption DEF k
      <3>3. j = n + 1 /\ i \in 1..n
        BY <1>1, <3>1, <3>2
      <3> DEFINE r == changes[1].changeId
                 h == LastHit(L, r)
      <3>4. L[i].changeId = r /\ i \in DOMAIN L
        BY <1>4, <1>5, <3>1, <3>2, <3>3
      <3>5. h \in 0..Len(L) /\ i <= h
        BY <1>1, <3>4, LastHitIs
      <3>6. ~(h + Retention > Len(L))
        <4>1. AppliedBy(L)[r] = 0
          BY <3>2 DEF Remembers
        <4>2. AppliedBy(L)[r] = IF h + Retention > Len(L) THEN h ELSE 0
          BY <3>2 DEF AppliedBy
        <4>3. h # 0
          BY <3>3, <3>5
        <4> HIDE DEF h, r
        <4>4. QED
          BY <4>1, <4>2, <4>3
      <3> HIDE DEF h, r
      <3>7. QED
        BY <1>1, <3>3, <3>5, <3>6, RetentionAssumption DEF n
    <2>3. QED
      BY <2>1, <2>2
  <1>10. QED
    BY <1>4, <1>8, <1>9 DEF History, G, e, n

LEMMA ProposeHistory ==
  ASSUME Typed, OneHistory, Settings, Ready, NEW docs \in [Keys -> Records],
         NEW changes \in Seq(Changes), changes # << >>, Propose(docs, changes),
         \/ \A i \in DOMAIN changes : changes[i].changeId = LocalId
         \/ /\ Len(changes) = 1 /\ changes[1].changeId \in RemoteIds
            /\ mem.appliedChangeIds[changes[1].changeId] = 0,
         "current" \notin Resolvers =>
           /\ \A i \in DOMAIN changes : changes[i].record = docs[changes[i].key]
           /\ \A k \in Keys : docs[k] # mem.docs[k] => \E i \in DOMAIN changes : changes[i].key = k
  PROVE  OneHistory'
  <1> DEFINE e == Stamp(changes, mem.sequence)
             moved == [mem EXCEPT !.docs = docs]
  <1>1. /\ mem \in States /\ Reflects(mem, log) /\ History(log) /\ log \in Seq(Events)
        /\ mem.sequence = Len(log) /\ mem.databaseId = IdOf(backup)
    BY DEF OneHistory, MemoryOK, Ready, Up, Reflects, Remembers, History, Typed, TypeOK
  <1>2. e \in Seq(Events) /\ Len(e) = Len(changes) /\ e # << >>
    <2>1. e \in Seq(Events) /\ Len(e) = Len(changes) /\ Len(changes) # 0
      BY <1>1, StampType, StateFields
    <2> HIDE DEF e
    <2>2. QED
      BY <2>1
  <1>3. History(log \o e)
    BY <1>1, StampHistory DEF Reflects
  <1>4. /\ moved \in States /\ moved.sequence = mem.sequence /\ moved.changes = mem.changes
        /\ moved.appliedChangeIds = mem.appliedChangeIds /\ moved.docs = docs
        /\ moved.databaseId = mem.databaseId
    BY <1>1 DEF States
  <1>5. \A i \in DOMAIN e : i \in DOMAIN changes /\ e[i].record = changes[i].record /\ e[i].key = changes[i].key
    BY DEF Stamp
  <1>6. \A i \in DOMAIN changes : i \in DOMAIN e
    BY DEF Stamp
  <1> HIDE DEF e, moved
  <1>7. "current" \notin Resolvers => docs = ApplyEvents(Blank, log \o e)
    <2> SUFFICES ASSUME "current" \notin Resolvers PROVE docs = ApplyEvents(Blank, log \o e)
      OBVIOUS
    <2>1. mem.docs \in [Keys -> Records] /\ Blank \in [Keys -> Records]
      BY <1>1, StateFields DEF Blank, Records
    <2>2. /\ \A i \in DOMAIN e : e[i].record = docs[e[i].key]
          /\ \A k \in Keys : docs[k] # mem.docs[k] => \E i \in DOMAIN e : e[i].key = k
      BY <1>5, <1>6
    <2>5. ApplyEvents(mem.docs, e) = docs
      BY ZenonT(30), <1>2, <2>1, <2>2, ApplyTarget
    <2>3. mem.docs = ApplyEvents(Blank, log)
      BY <1>1 DEF Reflects
    <2>4. QED
      BY <1>1, <1>2, <2>1, <2>3, <2>5, ApplyParts
  <1>8. events' = e /\ draft' = RecordEvents(moved, e) /\ phase' = "append"
    BY DEF Propose, e, moved
  <1>9. Reflects(draft', log \o e) /\ draft'.databaseId = mem.databaseId
    <2>1. Remembers(moved, log)
      BY <1>1, <1>4 DEF Remembers, Reflects
    <2>2. /\ Remembers(RecordEvents(moved, e), log \o e)
          /\ RecordEvents(moved, e).docs = moved.docs
          /\ RecordEvents(moved, e).databaseId = moved.databaseId
      BY <1>1, <1>2, <1>3, <1>4, <2>1, RecordedHistory DEF History
    <2>3. QED
      BY <1>4, <1>7, <1>8, <2>2 DEF Reflects
  <1>10. /\ phase = "idle" /\ ~closing
         /\ UNCHANGED <<mem, entries, step, image, closing, primary, backup, lines, log>>
    BY DEF Propose, Ready, Settings, memory, checkpoints, disk
  <1>11. History(log)' /\ ControlOK' /\ CheckpointOK'
    BY <1>8, <1>10 DEF OneHistory, ControlOK, CheckpointOK
  <1>12. FreshOK' /\ MemoryOK' /\ EntriesOK' /\ ReplaceOK'
    BY <1>8, <1>10 DEF OneHistory, FreshOK, MemoryOK, EntriesOK, ReplaceOK, Up
  <1>13. DraftOK'
    BY <1>2, <1>3, <1>8, <1>9, <1>10 DEF DraftOK
  <1>14. DiskOK'
    BY <1>8, <1>10 DEF OneHistory, DiskOK, SyncedLines
  <1>15. QED
    BY <1>11, <1>12, <1>13, <1>14 DEF OneHistory
-----------------------------------------------------------------------------
\* Starting and stopping.

\* A new database has no history.
LEMMA FreshHistory ==
  /\ Fresh(Self) \in States /\ History(<< >>) /\ Reflects(Fresh(Self), << >>)
  /\ Holds(<< >>, << >>, Absent, Absent)
  <1> DEFINE L == << >>
  <1>1. L \in Seq(Events) /\ Len(L) = 0 /\ DOMAIN L = {}
    OBVIOUS
  <1>2. Fresh(Self) \in States
    BY EngineAssumption, FreshType
  <1>3. Unheard(L, L) = << >> /\ L \o << >> = << >>
    BY EmptyReadable
  <1> HIDE DEF L
  <1>4. History(L)
    BY <1>1 DEF History, Numbered, Spaced
  <1>5. Retained(L) = << >>
    <2>1. Retained(L) \in Seq(Events) /\ Len(Retained(L)) = 0
      <3>1. L \in Seq(Events)
        BY <1>1
      <3>2. /\ Retained(L) \in Seq(Events)
            /\ Len(Retained(L)) = IF Len(L) > Retention THEN Retention ELSE Len(L)
        BY <3>1, RetainedIs
      <3>3. QED
        BY <1>1, <3>2, RetentionAssumption
    <2>2. QED
      BY <2>1, EmptyIs
  <1>6. AppliedBy(L) = [r \in RemoteIds |-> 0]
    <2>1. \A r \in RemoteIds : LastHit(L, r) = 0
      <3> SUFFICES ASSUME NEW r \in RemoteIds PROVE LastHit(L, r) = 0
        OBVIOUS
      <3>1. LastHit(L, r) \in 0..Len(L)
        BY <1>1, LastHitIs
      <3>2. QED
        BY <1>1, <3>1
    <2>2. QED
      BY <2>1 DEF AppliedBy
  <1>7. ApplyEvents(Blank, L) = [k \in Keys |-> NoRecord]
    BY <1>1 DEF ApplyEvents, Blank
  <1>8. Reflects(Fresh(Self), L)
    BY <1>1, <1>5, <1>6, <1>7 DEF Reflects, Remembers, Fresh
  <1>9. Holds(L, L, Absent, Absent)
    <2>1. WalOf(L, IdOf(Absent), L)
      BY <1>1 DEF WalOf, L
    <2>2. L \o Unheard(L, L) = L
      BY <1>3 DEF L
    <2>3. QED
      BY <1>4, <2>1, <2>2, EngineAssumption DEF Holds, ImageOf, Behind
  <1>10. QED
    BY <1>2, <1>4, <1>8, <1>9 DEF L

LEMMA InitHistory == Init => OneHistory
  <1> SUFFICES ASSUME Init PROVE OneHistory
    OBVIOUS
  <1>1. phase = "down" /\ primary = Absent /\ backup = Absent /\ lines = << >> /\ log = << >>
    BY DEF Init
  <1>2. ControlOK /\ CheckpointOK
    BY DEF Init, ControlOK, CheckpointOK, Writers
  <1>3. FreshOK /\ MemoryOK /\ DraftOK /\ EntriesOK /\ ReplaceOK
    BY <1>1 DEF FreshOK, MemoryOK, DraftOK, EntriesOK, ReplaceOK, Up
  <1>4. DiskOK
    BY <1>1, FreshHistory DEF DiskOK, SyncedLines
  <1>5. QED
    BY <1>1, <1>2, <1>3, <1>4, FreshHistory DEF OneHistory

\* Wherever the process stops, the disk it leaves holds the history.
LEMMA StopHistory ==
  ASSUME Typed, OneHistory, StopProcess, Holds(lines', log, primary, backup),
         primary = Absent => lines' = << >>
  PROVE  OneHistory'
  <1>1. /\ phase' = "down" /\ closing' = FALSE /\ step' = [a \in Writers |-> "none"]
        /\ UNCHANGED <<primary, backup, log>>
    BY DEF StopProcess
  <1>2. History(log)' /\ ControlOK' /\ CheckpointOK'
    BY <1>1 DEF OneHistory, ControlOK, CheckpointOK, Writers
  <1>3. FreshOK'
    BY <1>1 DEF OneHistory, FreshOK, Up
  <1>4. MemoryOK' /\ DraftOK' /\ EntriesOK' /\ ReplaceOK'
    BY <1>1 DEF MemoryOK, DraftOK, EntriesOK, ReplaceOK, Up
  <1>5. DiskOK'
    BY <1>1 DEF DiskOK, SyncedLines
  <1>6. QED
    BY <1>2, <1>3, <1>4, <1>5 DEF OneHistory

LEMMA ExitHistory == ASSUME Typed, OneHistory, Exit PROVE OneHistory'
  <1>1. Holds(lines, log, primary, backup) /\ lines' = lines /\ StopProcess
    BY DEF Exit, OneHistory, DiskOK, SyncedLines
  <1>2. primary = Absent => lines = << >>
    BY DEF OneHistory, FreshOK
  <1>3. QED
    BY <1>1, <1>2, StopHistory

LEMMA CreateFailsHistory == ASSUME Typed, OneHistory, CreateFails PROVE OneHistory'
  <1>1. Holds(lines, log, primary, backup) /\ lines' = lines /\ StopProcess
    BY DEF CreateFails, OneHistory, DiskOK, SyncedLines
  <1>2. primary = Absent => lines = << >>
    BY DEF OneHistory, FreshOK
  <1>3. QED
    BY <1>1, <1>2, StopHistory

\* A line that was not synced is there after the crash or is not: either way the
\* log holds the history, with or without the commit that was cut off.
LEMMA CrashHistory == ASSUME Typed, OneHistory, Settings, Crash PROVE OneHistory'
  <1>1. StopProcess /\ phase # "replace"
    BY DEF Crash, Settings, RestoreMayFail
  <1>2. CASE phase = "sync"
    <2>1. primary # Absent
      BY <1>2 DEF OneHistory, FreshOK, Up
    <2>2. lines' = lines \/ lines' = Front(lines)
      BY <1>2 DEF Crash, Unsynced
    <2>3. Holds(lines', log, primary, backup)
      BY <1>2, <2>2, HoldsKept
    <2>4. QED
      BY <1>1, <2>1, <2>3, StopHistory
  <1>3. CASE phase # "sync"
    <2>1. lines' = lines /\ Holds(lines, log, primary, backup)
      BY <1>1, <1>3 DEF Crash, OneHistory, DiskOK, SyncedLines
    <2>2. primary = Absent => lines = << >>
      BY DEF OneHistory, FreshOK
    <2>3. QED
      BY <1>1, <2>1, <2>2, StopHistory
  <1>4. QED
    BY <1>2, <1>3

LEMMA CorruptPrimaryHistory == ASSUME Typed, OneHistory, CorruptPrimary PROVE OneHistory'
  <1>1. /\ phase = "down" /\ backup \in States /\ primary' = Unreadable
        /\ UNCHANGED <<phase, mem, entries, draft, events, step, image, closing, backup,
                       lines, log>>
    BY DEF CorruptPrimary, memory, write, checkpoints
  <1>2. Holds(lines, log, Unreadable, backup)
    <2>1. Holds(lines, log, primary, backup)
      BY <1>1 DEF OneHistory, DiskOK, SyncedLines
    <2>2. QED
      BY <2>1, EngineAssumption DEF Holds, ImageOf, Behind
  <1>3. ControlOK' /\ History(log)'
    BY <1>1 DEF OneHistory, ControlOK
  <1>4. FreshOK' /\ MemoryOK' /\ DraftOK' /\ EntriesOK' /\ ReplaceOK'
    BY <1>1, EngineAssumption DEF FreshOK, MemoryOK, DraftOK, EntriesOK, ReplaceOK, Up
  <1>5. CheckpointOK'
    <2>1. \A a \in Writers : step[a] = "none"
      BY <1>1 DEF OneHistory, ControlOK, Writers
    <2>2. QED
      BY <1>1, <2>1 DEF CheckpointOK
  <1>6. DiskOK'
    BY <1>1, <1>2 DEF DiskOK, SyncedLines
  <1>7. QED
    BY <1>3, <1>4, <1>5, <1>6 DEF OneHistory

\* Opening builds the state of the whole history from either checkpoint file,
\* the commit that was cut off included.
LEMMA LoadHistory ==
  ASSUME Typed, OneHistory, NEW s \in States, Load(s), s = primary \/ s = backup',
         Holds(lines, log, primary, backup'), UNCHANGED <<primary, lines, closing>>,
         primary # Absent, ~closing, \A a \in Writers : step'[a] = "none"
  PROVE  OneHistory'
  <1> DEFINE G == log \o Unheard(lines, log)
  <1>1. lines \in Seq(Entries \cup {BadLine}) /\ log \in Seq(Events) /\ History(log)
    BY DEF Typed, TypeOK, OneHistory
  <1>2. CASE Recoverable(s, lines)
    <2>1. /\ phase' = "idle" /\ mem' = Recovered(s, lines) /\ entries' = lines
          /\ log' = Extended(s) /\ ReadableWal(lines)
      BY <1>2 DEF Load, Recoverable
    <2>2. Extended(s) = G
      BY <1>1, <2>1, ExtendedHistory
    <2>3. Reflects(Recovered(s, lines), G) /\ Recovered(s, lines).databaseId = IdOf(backup')
      BY <1>1, <2>1, RecoveredHistory
    <2>4. /\ History(G) /\ Holds(lines, G, primary, backup')
          /\ \A i \in DOMAIN lines : lines[i].resultSequence <= Len(G)
      BY <1>1, <2>1, HoldsHeard
    <2> HIDE DEF G
    <2>5. History(log)' /\ ControlOK' /\ CheckpointOK'
      BY <2>1, <2>2, <2>4 DEF ControlOK, CheckpointOK, Writers
    <2>6. FreshOK' /\ DraftOK' /\ ReplaceOK'
      BY <2>1 DEF FreshOK, DraftOK, ReplaceOK
    <2>7. MemoryOK' /\ EntriesOK'
      BY <2>1, <2>2, <2>3, <2>4 DEF MemoryOK, EntriesOK
    <2>8. DiskOK'
      BY <2>1, <2>2, <2>4 DEF DiskOK, SyncedLines
    <2>9. QED
      BY <2>5, <2>6, <2>7, <2>8 DEF OneHistory
  <1>3. CASE ~Recoverable(s, lines)
    <2>1. phase' = "refused" /\ log' = log
      BY <1>3 DEF Load
    <2>2. History(log)' /\ ControlOK' /\ CheckpointOK'
      BY <1>1, <2>1 DEF ControlOK, CheckpointOK, Writers
    <2>3. FreshOK' /\ DraftOK' /\ ReplaceOK' /\ MemoryOK' /\ EntriesOK'
      BY <2>1 DEF FreshOK, DraftOK, ReplaceOK, MemoryOK, EntriesOK, Up
    <2>4. DiskOK'
      BY <2>1 DEF DiskOK, SyncedLines
    <2>5. QED
      BY <2>2, <2>3, <2>4 DEF OneHistory
  <1>4. QED
    BY <1>2, <1>3

LEMMA OpenHistory == ASSUME Typed, OneHistory, Open PROVE OneHistory'
  <1> DEFINE source == IF primary = Unreadable THEN backup ELSE primary
  <1>1. /\ phase \in {"down", "refused"} /\ primary # Absent /\ Load(source)
        /\ UNCHANGED <<primary, backup, lines, closing, step>>
    BY DEF Open, disk, checkpoints
  <1>2. source \in States /\ (source = primary \/ source = backup')
    BY <1>1 DEF Typed, TypeOK
  <1> HIDE DEF source
  <1>3. ~closing /\ \A a \in Writers : step'[a] = "none"
    BY <1>1 DEF OneHistory, ControlOK, Writers
  <1>4. Holds(lines, log, primary, backup')
    BY <1>1 DEF OneHistory, DiskOK, SyncedLines
  <1>5. QED
    BY <1>1, <1>2, <1>3, <1>4, LoadHistory

LEMMA CreateFileHistory == ASSUME Typed, OneHistory, CreateFile PROVE OneHistory'
  <1>1. /\ phase = "down" /\ primary = Absent /\ phase' = "create"
        /\ step' = [step EXCEPT !["writer"] = "primary"]
        /\ image' = [image EXCEPT !["writer"] = Fresh(Self)]
        /\ UNCHANGED <<closing, primary, backup, lines, log>>
    BY DEF CreateFile, StartImage, disk
  <1>2. /\ step \in [Writers -> Steps] /\ image \in [Writers -> States]
        /\ step' \in [Writers -> Steps] /\ step'["writer"] = "primary"
        /\ step'["closer"] = step["closer"] /\ image'["writer"] = Fresh(Self)
    BY <1>1 DEF Typed, TypeOK, Writers, Steps
  <1>3. History(log)' /\ ControlOK' /\ CheckpointOK'
    BY <1>1, <1>2 DEF OneHistory, ControlOK, CheckpointOK
  <1>4. FreshOK' /\ MemoryOK' /\ DraftOK' /\ EntriesOK' /\ ReplaceOK'
    BY <1>1, <1>2 DEF OneHistory, FreshOK, MemoryOK, DraftOK, EntriesOK, ReplaceOK, Up
  <1>5. DiskOK'
    BY <1>1 DEF OneHistory, DiskOK, SyncedLines
  <1>6. QED
    BY <1>3, <1>4, <1>5 DEF OneHistory

LEMMA CreateBackupHistory == ASSUME Typed, OneHistory, CreateBackup PROVE OneHistory'
  <1> DEFINE s == Fresh(Self)
  <1>1. /\ phase = "create" /\ step["writer"] = "backup" /\ backup = Absent /\ primary = s
        /\ log = << >> /\ lines = << >> /\ image["writer"] = s /\ ~closing
        /\ step["closer"] = "none"
    BY DEF CreateBackup, OneHistory, FreshOK, ControlOK
  <1>2. /\ backup' = s /\ Load(s) /\ UNCHANGED <<primary, lines, closing>>
        /\ step' = [step EXCEPT !["writer"] = "none"]
    BY <1>1 DEF CreateBackup
  <1>3. \A a \in Writers : step'[a] = "none"
    BY <1>1, <1>2 DEF Typed, TypeOK, Writers
  <1>4. s \in States /\ Reflects(s, log) /\ History(log)
    BY <1>1, FreshHistory
  <1>5. Holds(lines, log, primary, backup')
    BY <1>1, <1>2, <1>4, HoldsChecked
  <1>6. primary # Absent
    BY <1>1, <1>4, EngineAssumption
  <1> HIDE DEF s
  <1>7. QED
    BY <1>1, <1>2, <1>3, <1>4, <1>5, <1>6, LoadHistory
-----------------------------------------------------------------------------
\* Requests.

LEMMA LocalChangesHistory ==
  ASSUME Typed, OneHistory, Settings, Ready, NEW docs \in [Keys -> Records],
         NEW changes \in Seq(Changes), changes # << >>, Propose(docs, changes),
         \A i \in DOMAIN changes :
           changes[i].changeId = LocalId /\ changes[i].record = docs[changes[i].key],
         \A k \in Keys : docs[k] # mem.docs[k] => \E i \in DOMAIN changes : changes[i].key = k
  PROVE  OneHistory'
  BY ProposeHistory

LEMMA MutateHistory ==
  ASSUME Typed, OneHistory, Settings, NEW k \in Keys, NEW record \in Records, Mutate(k, record)
  PROVE  OneHistory'
  <1> DEFINE docs == [mem.docs EXCEPT ![k] = record]
             changes == <<LocalChange(k, record)>>
  <1>1. Ready /\ Propose(docs, changes)
    BY DEF Mutate
  <1>2. mem.docs \in [Keys -> Records] /\ LocalChange(k, record) \in Changes
    BY StateFields, LocalChangeType DEF Typed, TypeOK
  <1>3. /\ docs \in [Keys -> Records] /\ docs[k] = record
        /\ \A j \in Keys : j # k => docs[j] = mem.docs[j]
    BY <1>2
  <1>4. /\ changes \in Seq(Changes) /\ changes # << >> /\ DOMAIN changes = {1}
        /\ changes[1] = LocalChange(k, record)
    BY <1>2
  <1> HIDE DEF docs, changes
  <1>5. \A i \in DOMAIN changes :
          changes[i].changeId = LocalId /\ changes[i].record = docs[changes[i].key]
    BY <1>3, <1>4 DEF LocalChange
  <1>6. \A j \in Keys : docs[j] # mem.docs[j] => \E i \in DOMAIN changes : changes[i].key = j
    BY <1>3, <1>4 DEF LocalChange
  <1>7. QED
    BY <1>1, <1>3, <1>4, <1>5, <1>6, LocalChangesHistory

LEMMA TransactionHistory ==
  ASSUME Typed, OneHistory, Settings, NEW docs \in [Keys -> Records], Transaction(docs)
  PROVE  OneHistory'
  <1> DEFINE changed == {k \in Keys : docs[k] # mem.docs[k]}
             n == Cardinality(changed)
  <1>1. PICK order \in [1..n -> changed] :
          /\ \A i, j \in 1..n : order[i] = order[j] => i = j
          /\ Propose(docs, [i \in 1..n |-> LocalChange(order[i], docs[order[i]])])
    BY DEF Transaction
  <1> DEFINE changes == [i \in 1..n |-> LocalChange(order[i], docs[order[i]])]
  <1>2. Ready /\ n > 0 /\ IsFiniteSet(changed) /\ n \in Nat
    <2>1. IsFiniteSet(changed)
      BY EngineAssumption, FS_Subset
    <2>2. QED
      BY <2>1, FS_CardinalityType DEF Transaction
  <1>3. \A i \in 1..n : order[i] \in Keys /\ docs[order[i]] \in Records
    OBVIOUS
  <1>4. \A k \in changed : \E i \in 1..n : order[i] = k
    <2>1. IsFiniteSet(1..n) /\ Cardinality(1..n) = n
      BY <1>2, FS_Interval
    <2>2. order \in Injection(1..n, changed)
      BY <1>1 DEF Injection, IsInjective
    <2>3. order \in Surjection(1..n, changed)
      <3>1. Cardinality(1..n) = Cardinality(changed)
        BY <2>1
      <3>2. QED
        BY <1>2, <2>2, <3>1, FS_Injection, Zenon
    <2>4. QED
      BY <2>3 DEF Surjection
  <1> HIDE DEF n
  <1>5. changes \in Seq(Changes) /\ DOMAIN changes = 1..n /\ changes # << >>
    <2>1. \A i \in 1..n : LocalChange(order[i], docs[order[i]]) \in Changes
      BY <1>3, LocalChangeType
    <2>2. changes \in [1..n -> Changes]
      BY <2>1
    <2>3. changes \in Seq(Changes) /\ Len(changes) = n
      BY <1>2, <2>2
    <2> HIDE DEF changes
    <2>4. QED
      BY <1>2, <2>2, <2>3, EmptyIs
  <1>6. \A i \in DOMAIN changes :
          changes[i].changeId = LocalId /\ changes[i].record = docs[changes[i].key]
    BY <1>5 DEF LocalChange
  <1>7. \A k \in Keys : docs[k] # mem.docs[k] => \E i \in DOMAIN changes : changes[i].key = k
    <2>1. \A i \in DOMAIN changes : changes[i].key = order[i]
      BY <1>5 DEF LocalChange
    <2> HIDE DEF changes
    <2>2. QED
      BY <1>4, <1>5, <2>1
  <1> HIDE DEF changes
  <1>8. Propose(docs, changes)
    BY <1>1 DEF changes
  <1>9. QED
    BY <1>2, <1>5, <1>6, <1>7, <1>8, LocalChangesHistory

LEMMA ApplyHistory ==
  ASSUME Typed, OneHistory, Settings, NEW change \in RemoteChanges,
         ApplyReplicationChange(change)
  PROVE  OneHistory'
  <1>1. /\ change \in Changes /\ change.key \in Keys /\ change.record \in Records
        /\ change.changeId \in RemoteIds /\ Ready /\ mem.appliedChangeIds[change.changeId] = 0
    BY EngineAssumption DEF ApplyReplicationChange, Changes, ChangeIds
  <1>2. PICK record \in Resolved(mem.docs[change.key], change.record) :
          Propose([mem.docs EXCEPT ![change.key] = record], <<change>>)
    BY DEF ApplyReplicationChange
  <1> DEFINE docs == [mem.docs EXCEPT ![change.key] = record]
             changes == <<change>>
  <1>3. mem.docs \in [Keys -> Records]
    BY StateFields DEF Typed, TypeOK
  <1>4. record \in Records
    <2>1. mem.docs[change.key] \in Records /\ NoRecord \in Records
      BY <1>1, <1>3 DEF Records
    <2>2. QED
      BY <1>1, <2>1 DEF Resolved
  <1>5. "current" \notin Resolvers => record = change.record
    BY DEF Resolved
  <1>6. /\ docs \in [Keys -> Records] /\ docs[change.key] = record
        /\ \A j \in Keys : j # change.key => docs[j] = mem.docs[j]
    BY <1>1, <1>3, <1>4
  <1>7. /\ changes \in Seq(Changes) /\ changes # << >> /\ DOMAIN changes = {1}
        /\ changes[1] = change /\ Len(changes) = 1
    BY <1>1
  <1>8. Propose(docs, changes)
    BY <1>2
  <1> HIDE DEF docs, changes
  <1>9. "current" \notin Resolvers =>
          /\ \A i \in DOMAIN changes : changes[i].record = docs[changes[i].key]
          /\ \A k \in Keys : docs[k] # mem.docs[k] => \E i \in DOMAIN changes : changes[i].key = k
    BY <1>5, <1>6, <1>7
  <1>10. QED
    BY <1>1, <1>6, <1>7, <1>8, <1>9, ProposeHistory

LEMMA CheckpointHistory == ASSUME Typed, OneHistory, Settings, Checkpoint PROVE OneHistory'
  <1>1. /\ phase = "idle" /\ ~closing /\ phase' = "checkpoint"
        /\ step' = [step EXCEPT !["writer"] = "primary"]
        /\ image' = [image EXCEPT !["writer"] = mem]
        /\ UNCHANGED <<mem, entries, draft, events, closing, primary, backup, lines, log>>
    BY DEF Checkpoint, Ready, Settings, StartImage, memory, write, disk
  <1>2. /\ step' \in [Writers -> Steps] /\ step'["writer"] = "primary"
        /\ step'["closer"] = "none" /\ image'["writer"] = mem
    BY <1>1 DEF Typed, TypeOK, Writers, Steps, OneHistory, ControlOK
  <1>3. History(log)' /\ ControlOK' /\ CheckpointOK'
    BY <1>1, <1>2 DEF OneHistory, ControlOK, CheckpointOK, Writers
  <1>4. FreshOK' /\ MemoryOK' /\ DraftOK' /\ EntriesOK' /\ ReplaceOK'
    BY <1>1, <1>2 DEF OneHistory, FreshOK, MemoryOK, DraftOK, EntriesOK, ReplaceOK, Up
  <1>5. DiskOK'
    BY <1>1 DEF OneHistory, DiskOK, SyncedLines
  <1>6. QED
    BY <1>3, <1>4, <1>5 DEF OneHistory

LEMMA ReplaceStateHistory ==
  ASSUME Typed, OneHistory, Settings, NEW s \in Replacements, ReplaceState(s)
  PROVE  OneHistory'
  <1>1. /\ phase = "idle" /\ ~closing /\ phase' = "replace"
        /\ step' = [step EXCEPT !["writer"] = "primary"]
        /\ image' = [image EXCEPT !["writer"] = s]
        /\ UNCHANGED <<mem, entries, draft, events, closing, primary, backup, lines, log>>
    BY DEF ReplaceState, Ready, Settings, StartImage, memory, write, disk
  <1>2. /\ step' \in [Writers -> Steps] /\ step'["writer"] = "primary"
        /\ step'["closer"] = "none" /\ image'["writer"] = s
    BY <1>1 DEF Typed, TypeOK, Writers, Steps, OneHistory, ControlOK
  <1>3. History(log)' /\ ControlOK' /\ CheckpointOK'
    BY <1>1, <1>2 DEF OneHistory, ControlOK, CheckpointOK, Writers
  <1>4. FreshOK' /\ MemoryOK' /\ DraftOK' /\ EntriesOK' /\ ReplaceOK'
    BY <1>1, <1>2 DEF OneHistory, FreshOK, MemoryOK, DraftOK, EntriesOK, ReplaceOK, Up
  <1>5. DiskOK'
    BY <1>1 DEF DiskOK, SyncedLines
  <1>6. QED
    BY <1>3, <1>4, <1>5 DEF OneHistory

LEMMA CloseHistory == ASSUME Typed, OneHistory, Close PROVE OneHistory'
  <1>1. /\ phase = "idle" /\ ~closing /\ closing'
        /\ UNCHANGED <<phase, mem, entries, draft, events, primary, backup, lines, log>>
    BY DEF Close, memory, write, disk
  <1>2. \A a \in Writers : step[a] = "none"
    BY <1>1 DEF OneHistory, ControlOK, Writers
  <1>3. CheckpointOK' /\ step'["writer"] = "none"
    <2>1. CASE commits > 0
      <3>1. /\ step' = [step EXCEPT !["closer"] = "primary"]
            /\ image' = [image EXCEPT !["closer"] = mem]
        BY <2>1 DEF Close
      <3>2. /\ step'["writer"] = "none" /\ step'["closer"] = "primary"
            /\ image'["closer"] = mem
        BY <1>2, <3>1 DEF Typed, TypeOK, Writers
      <3>3. QED
        BY <1>1, <3>2 DEF CheckpointOK, Writers
    <2>2. CASE ~(commits > 0)
      <3>1. step' = step
        BY <2>2 DEF Close, checkpoints
      <3>2. QED
        BY <1>2, <3>1 DEF CheckpointOK, Writers
    <2>3. QED
      BY <2>1, <2>2
  <1>4. History(log)' /\ ControlOK'
    BY <1>1, <1>3 DEF OneHistory, ControlOK
  <1>5. FreshOK' /\ MemoryOK' /\ DraftOK' /\ EntriesOK' /\ ReplaceOK'
    BY <1>1 DEF OneHistory, FreshOK, MemoryOK, DraftOK, EntriesOK, ReplaceOK, Up
  <1>6. DiskOK'
    BY <1>1 DEF OneHistory, DiskOK, SyncedLines
  <1>7. QED
    BY <1>3, <1>4, <1>5, <1>6 DEF OneHistory
-----------------------------------------------------------------------------
\* The write-ahead log.

\* A write that is rejected leaves memory and the history as they were.
LEMMA RejectHistory ==
  ASSUME Typed, OneHistory, phase \in {"append", "sync"}, Reject,
         Holds(lines', log, primary, backup),
         UNCHANGED <<mem, entries, step, image, closing, primary, backup, log>>
  PROVE  OneHistory'
  <1>1. phase' = "idle"
    BY DEF Reject
  <1>2. step["writer"] = "none" /\ ~closing /\ step["closer"] = "none"
    BY DEF OneHistory, ControlOK
  <1>3. History(log)' /\ ControlOK' /\ CheckpointOK'
    BY <1>1, <1>2 DEF OneHistory, ControlOK, CheckpointOK, Writers
  <1>4. FreshOK' /\ MemoryOK' /\ DraftOK' /\ EntriesOK' /\ ReplaceOK'
    BY <1>1 DEF OneHistory, FreshOK, MemoryOK, DraftOK, EntriesOK, ReplaceOK, Up
  <1>5. DiskOK'
    BY <1>1 DEF DiskOK, SyncedLines
  <1>6. QED
    BY <1>3, <1>4, <1>5 DEF OneHistory

LEMMA AppendFailsHistory ==
  ASSUME Typed, OneHistory, AppendFails \/ WriteTears
  PROVE  OneHistory'
  <1>1. /\ phase = "append" /\ Reject
        /\ UNCHANGED <<mem, entries, step, image, closing, primary, backup, lines, log>>
    BY DEF AppendFails, WriteTears, memory, checkpoints, disk
  <1>2. Holds(lines', log, primary, backup)
    BY <1>1 DEF OneHistory, DiskOK, SyncedLines
  <1>3. QED
    BY <1>1, <1>2, RejectHistory

LEMMA SyncFailsHistory == ASSUME Typed, OneHistory, SyncFails PROVE OneHistory'
  <1>1. /\ phase = "sync" /\ Reject /\ (lines' = lines \/ lines' = Front(lines))
        /\ UNCHANGED <<mem, entries, step, image, closing, primary, backup, log>>
    BY DEF SyncFails, Unsynced, memory, checkpoints
  <1>2. Holds(lines', log, primary, backup)
    BY <1>1, HoldsKept
  <1>3. QED
    BY <1>1, <1>2, RejectHistory

LEMMA WriteLineHistory == ASSUME Typed, OneHistory, WriteLine PROVE OneHistory'
  <1> DEFINE x == IF torn THEN BadLine ELSE Entry
  <1>1. /\ phase = "append" /\ phase' = "sync" /\ lines' = Append(lines, x)
        /\ UNCHANGED <<mem, entries, draft, events, step, image, closing, primary, backup, log>>
    BY DEF WriteLine, memory, write, checkpoints
  <1>2. lines \in Seq(Entries \cup {BadLine}) /\ x \in Entries \cup {BadLine}
    BY EntryType DEF Typed, TypeOK
  <1>3. x \in {BadLine, Entry} /\ Entry' = Entry
    BY <1>1 DEF Entry
  <1> HIDE DEF x
  <1>4. Front(lines') = lines /\ lines' # << >> /\ lines'[Len(lines')] = x
    BY <1>1, <1>2, FrontAppend
  <1>5. DiskOK'
    BY <1>1, <1>3, <1>4 DEF OneHistory, DiskOK, SyncedLines
  <1>6. History(log)' /\ ControlOK' /\ CheckpointOK'
    BY <1>1 DEF OneHistory, ControlOK, CheckpointOK
  <1>7. FreshOK' /\ MemoryOK' /\ DraftOK' /\ EntriesOK' /\ ReplaceOK'
    BY <1>1 DEF OneHistory, FreshOK, MemoryOK, DraftOK, EntriesOK, ReplaceOK, Up
  <1>8. QED
    BY <1>5, <1>6, <1>7 DEF OneHistory

LEMMA SyncCommitHistory == ASSUME Typed, OneHistory, SyncCommit PROVE OneHistory'
  <1>1. /\ phase = "sync" /\ mem' = draft /\ log' = log \o events
        /\ entries' = Append(entries, Entry)
        /\ UNCHANGED <<draft, events, closing, primary, backup, lines>>
        /\ \/ /\ phase' = "checkpoint" /\ step' = [step EXCEPT !["writer"] = "primary"]
              /\ image' = [image EXCEPT !["writer"] = draft]
           \/ phase' = "publish" /\ step' = step
    BY DEF SyncCommit, write, disk, StartImage, checkpoints
  <1>2. /\ History(log \o events) /\ Reflects(draft, log \o events)
        /\ draft.databaseId = mem.databaseId /\ mem.databaseId = IdOf(backup)
        /\ step["writer"] = "none" /\ step["closer"] = "none" /\ ~closing
        /\ primary # Absent
    BY <1>1 DEF OneHistory, DraftOK, MemoryOK, FreshOK, ControlOK, Up
  <1>3. /\ step \in [Writers -> Steps] /\ image \in [Writers -> States]
        /\ log \in Seq(Events) /\ events \in Seq(Events) /\ entries \in Seq(Entries)
        /\ Entry \in Entries
    BY EntryType DEF Typed, TypeOK
  <1>4. step'["closer"] = "none" /\ (step'["writer"] # "none" =>
          phase' = "checkpoint" /\ step'["writer"] = "primary" /\ image'["writer"] = mem')
    BY <1>1, <1>2, <1>3 DEF Writers
  <1>5. History(log)' /\ ControlOK' /\ CheckpointOK'
    BY <1>1, <1>2, <1>4 DEF ControlOK, CheckpointOK, Writers
  <1>6. FreshOK' /\ MemoryOK' /\ DraftOK' /\ ReplaceOK'
    BY <1>1, <1>2 DEF OneHistory, FreshOK, MemoryOK, DraftOK, ReplaceOK, Up
  <1>7. EntriesOK'
    <2>1. Len(log') = Len(log) + Len(events) /\ Len(log) \in Nat /\ Len(events) \in Nat
      BY <1>1, <1>3
    <2>2. Entry.resultSequence = Len(log')
      BY <1>1, <1>2 DEF Entry, Reflects, Remembers
    <2>3. \A i \in DOMAIN entries : entries[i].resultSequence <= Len(log)
      BY <1>1 DEF OneHistory, EntriesOK, Up
    <2>4. DOMAIN entries = 1..Len(entries) /\ Len(entries) \in Nat
      BY <1>3
    <2>5. /\ entries' \in Seq(Entries) /\ Len(entries') = Len(entries) + 1
          /\ \A i \in 1..Len(entries) : entries'[i] = entries[i]
          /\ entries'[Len(entries) + 1] = Entry
      BY <1>1, <1>3, AppendIs
    <2> SUFFICES ASSUME NEW i \in 1..(Len(entries) + 1)
                 PROVE  entries'[i].resultSequence <= Len(log')
      BY <2>5 DEF EntriesOK
    <2>6. CASE i \in 1..Len(entries)
      <3>1. entries'[i] \in Entries /\ entries'[i].resultSequence <= Len(log)
        BY <2>3, <2>4, <2>5, <2>6
      <3>2. entries'[i].resultSequence \in Nat
        BY <3>1, EntryFields
      <3>3. QED
        BY <2>1, <3>1, <3>2
    <2>7. CASE i = Len(entries) + 1
      BY <2>1, <2>2, <2>5, <2>7
    <2>8. QED
      BY <2>4, <2>6, <2>7
  <1>8. DiskOK'
    <2>1. Holds(lines, log \o events, primary, backup)
      BY <1>1, HoldsKept
    <2>2. QED
      BY <1>1, <2>1 DEF DiskOK, SyncedLines
  <1>9. QED
    BY <1>5, <1>6, <1>7, <1>8 DEF OneHistory

LEMMA PublishHistory == ASSUME Typed, OneHistory, Publish PROVE OneHistory'
  <1>1. /\ phase = "publish" /\ phase' = "idle"
        /\ UNCHANGED <<mem, entries, draft, step, image, closing, primary, backup, lines, log>>
    BY DEF Publish, memory, checkpoints, disk
  <1>2. History(log)' /\ ControlOK' /\ CheckpointOK'
    BY <1>1 DEF OneHistory, ControlOK, CheckpointOK
  <1>3. FreshOK' /\ MemoryOK' /\ DraftOK' /\ EntriesOK' /\ ReplaceOK'
    BY <1>1 DEF OneHistory, FreshOK, MemoryOK, DraftOK, EntriesOK, ReplaceOK, Up
  <1>4. DiskOK'
    BY <1>1 DEF OneHistory, DiskOK, SyncedLines
  <1>5. QED
    BY <1>2, <1>3, <1>4 DEF OneHistory

-----------------------------------------------------------------------------
\* Checkpoints.

\* Where a checkpoint can be: the closer's while nothing is written, the
\* writer's in a checkpoint, a replacement or a first file; never both.
LEMMA CheckpointPlace ==
  ASSUME Typed, OneHistory, NEW a \in Writers, step[a] # "none"
  PROVE  /\ phase \in {"idle", "checkpoint", "replace", "create"}
         /\ phase = "idle" <=> a = "closer"
         /\ \A b \in Writers : b # a => step[b] = "none"
         /\ a = "writer" => ~closing
  BY DEF OneHistory, ControlOK, Writers

LEMMA WritePrimaryHistory ==
  ASSUME Typed, OneHistory, Settings, NEW a \in Writers, WritePrimary(a)
  PROVE  OneHistory'
  <1>1. /\ step[a] = "primary" /\ primary' = image[a]
        /\ step' = [step EXCEPT ![a] = "backup"]
        /\ UNCHANGED <<phase, mem, entries, draft, events, image, closing, backup, lines, log>>
    BY DEF WritePrimary, memory, write
  <1>2. /\ phase \in {"idle", "checkpoint", "replace", "create"} /\ (phase = "idle" <=> a = "closer")
        /\ \A b \in Writers : b # a => step[b] = "none"
    BY <1>1, CheckpointPlace
  <1>3. /\ step \in [Writers -> Steps] /\ step'[a] = "backup"
        /\ \A b \in Writers : b # a => step'[b] = "none"
        /\ image[a] \in States /\ image[a] # Absent
    BY <1>1, <1>2, EngineAssumption DEF Typed, TypeOK
  <1>4. History(log)' /\ ControlOK'
    BY <1>1, <1>2, <1>3 DEF OneHistory, ControlOK, Writers
  <1>5. FreshOK'
    <2>1. phase = "create" => a = "writer" /\ image[a] = Fresh(Self) /\ step'["writer"] = "backup"
      BY <1>2, <1>3 DEF OneHistory, FreshOK, Writers
    <2>2. QED
      BY <1>1, <1>3, <2>1 DEF OneHistory, FreshOK
  <1>6. MemoryOK' /\ DraftOK' /\ EntriesOK'
    BY <1>1 DEF OneHistory, MemoryOK, DraftOK, EntriesOK, Up
  <1>7. CheckpointOK'
    BY <1>1, <1>3 DEF OneHistory, CheckpointOK
  <1>8. ReplaceOK'
    <2>1. phase = "replace" => a = "writer"
      BY <1>2 DEF Writers
    <2>2. QED
      BY <1>1, <1>3, <2>1 DEF OneHistory, ReplaceOK
  <1>9. DiskOK'
    <2>1. CASE phase = "replace"
      BY <1>1, <2>1 DEF DiskOK
    <2>2. CASE phase # "replace"
      <3>1. Holds(lines, log, primary, backup)
        BY <1>2, <2>2 DEF OneHistory, DiskOK, SyncedLines
      <3>2. Reflects(image[a], log) /\ image[a].databaseId = IdOf(backup)
        <4>1. CASE phase = "create"
          <5>1. image[a] = Fresh(Self) /\ log = << >> /\ backup = Absent
            BY <1>2, <4>1 DEF OneHistory, FreshOK, Writers
          <5>2. QED
            BY <5>1, FreshHistory, EngineAssumption DEF IdOf, Fresh
        <4>2. CASE phase # "create"
          <5>1. image[a] = mem /\ Up
            BY <1>1, <1>2, <2>2, <4>2 DEF OneHistory, CheckpointOK, Up
          <5>2. QED
            BY <5>1 DEF OneHistory, MemoryOK
        <4>3. QED
          BY <4>1, <4>2
      <3>3. lines \in Seq(Entries \cup {BadLine}) /\ log \in Seq(Events)
        BY DEF Typed, TypeOK
      <3>4. Holds(lines, log, image[a], backup)
        BY <1>3, <3>1, <3>2, <3>3, HoldsImage
      <3>5. QED
        BY <1>1, <1>2, <3>4 DEF DiskOK, SyncedLines
    <2>3. QED
      BY <2>1, <2>2
  <1>10. QED
    BY <1>4, <1>5, <1>6, <1>7, <1>8, <1>9 DEF OneHistory

LEMMA WriteBackupHistory ==
  ASSUME Typed, OneHistory, Settings, NEW a \in Writers, WriteBackup(a)
  PROVE  OneHistory'
  <1>1. /\ step[a] = "backup" /\ backup' = image[a] /\ phase # "create"
        /\ step' = [step EXCEPT ![a] = "compact"]
        /\ UNCHANGED <<phase, entries, events, image, closing, primary, lines>>
    BY DEF WriteBackup
  <1>2. /\ phase \in {"idle", "checkpoint", "replace"} /\ (phase = "idle" <=> a = "closer")
        /\ \A b \in Writers : b # a => step[b] = "none"
    BY <1>1, CheckpointPlace
  <1>3. /\ step \in [Writers -> Steps] /\ step'[a] = "compact"
        /\ \A b \in Writers : b # a => step'[b] = "none"
        /\ image[a] \in States
    BY <1>1, <1>2 DEF Typed, TypeOK
  <1>4. ControlOK' /\ FreshOK' /\ DraftOK'
    <2>1. primary # Absent
      BY <1>2 DEF OneHistory, FreshOK, Up
    <2>2. QED
      BY <1>1, <1>2, <1>3, <2>1 DEF OneHistory, ControlOK, FreshOK, DraftOK, Writers
  <1>5. CASE phase = "replace"
    <2>1. /\ a = "writer" /\ mem' = image[a] /\ log' = image[a].changes
          /\ image[a] \in Replacements /\ primary = image[a]
      BY <1>1, <1>2, <1>5 DEF WriteBackup, Writers, OneHistory, ReplaceOK
    <2>2. Reflects(image[a], log') /\ History(log')
      BY <2>1 DEF Settings
    <2>3. MemoryOK' /\ CheckpointOK' /\ EntriesOK' /\ DiskOK' /\ History(log)'
      BY <1>1, <1>3, <1>5, <2>1, <2>2
      DEF MemoryOK, CheckpointOK, EntriesOK, DiskOK, IdOf
    <2>4. ReplaceOK'
      BY <1>1, <1>3, <2>1 DEF ReplaceOK
    <2>5. QED
      BY <1>4, <2>3, <2>4 DEF OneHistory
  <1>6. CASE phase # "replace"
    <2>1. mem' = mem /\ log' = log
      BY <1>6 DEF WriteBackup
    <2>2. image[a] = mem /\ primary = mem /\ Up /\ Reflects(mem, log)
          /\ mem.databaseId = IdOf(backup)
      BY <1>1, <1>2, <1>6 DEF OneHistory, CheckpointOK, MemoryOK, Up
    <2>3. Holds(lines, log, primary, mem)
      <3>1. Holds(lines, log, primary, backup)
        BY <1>2, <1>6 DEF OneHistory, DiskOK, SyncedLines
      <3>2. lines \in Seq(Entries \cup {BadLine}) /\ log \in Seq(Events) /\ mem \in States
        BY DEF Typed, TypeOK
      <3>3. QED
        BY <2>2, <3>1, <3>2, HoldsImage
    <2>4. DiskOK'
      BY <1>1, <1>2, <2>1, <2>2, <2>3 DEF DiskOK, SyncedLines
    <2>5. MemoryOK' /\ EntriesOK' /\ History(log)'
      BY <1>1, <1>3, <2>1, <2>2 DEF OneHistory, MemoryOK, EntriesOK, Up, IdOf
    <2>6. CheckpointOK' /\ ReplaceOK'
      BY <1>1, <1>3, <1>6, <2>1, <2>2 DEF CheckpointOK, ReplaceOK
    <2>7. QED
      BY <1>4, <2>4, <2>5, <2>6 DEF OneHistory
  <1>7. QED
    BY <1>5, <1>6

\* No entry of the log is newer than a checkpoint of the whole history.
LEMMA NothingRemains ==
  ASSUME NEW wal \in Seq(Entries), NEW n \in Nat,
         \A i \in DOMAIN wal : wal[i].resultSequence <= n
  PROVE  ListAfter(wal, n) = << >>
  <1> DEFINE ended == {i \in DOMAIN wal : wal[i].resultSequence <= n}
  <1>1. Len(wal) \in Nat /\ ended = 1..Len(wal)
    OBVIOUS
  <1>2. Latest(ended) \in 0..Len(wal) /\ \A i \in ended : i <= Latest(ended)
    BY <1>1, LatestIsIn
  <1>3. Latest(ended) = Len(wal)
    <2> DEFINE k == Latest(ended)
               m == Len(wal)
    <2>1. m \in Nat /\ k \in 0..m /\ \A i \in 1..m : i <= k
      BY <1>1, <1>2
    <2> HIDE DEF k, m
    <2>2. k = m
      <3>1. CASE m = 0
        BY <2>1, <3>1
      <3>2. CASE m # 0
        <4>1. m \in 1..m
          BY <2>1, <3>2
        <4>2. QED
          BY <2>1, <4>1
      <3>3. QED
        BY <3>1, <3>2
    <2>3. QED
      BY <2>2 DEF k, m
  <1>4. ListAfter(wal, n) = SubSeq(wal, Len(wal) + 1, Len(wal))
    BY <1>3 DEF ListAfter
  <1>5. QED
    BY <1>4

\* The log is compacted when both files hold the state in memory: all of it goes.
LEMMA CompactsAll ==
  ASSUME Typed, OneHistory, NEW a \in Writers, step[a] = "compact"
  PROVE  /\ phase \in {"idle", "checkpoint", "replace"} /\ (phase = "idle" <=> a = "closer")
         /\ \A b \in Writers : b # a => step[b] = "none"
         /\ primary = mem /\ backup = mem /\ Reflects(mem, log) /\ History(log)
         /\ Remaining(a) = << >>
  <1>1. /\ phase \in {"idle", "checkpoint", "replace"} /\ (phase = "idle" <=> a = "closer")
        /\ \A b \in Writers : b # a => step[b] = "none"
    <2>1. phase # "create" \/ step["writer"] # "compact"
      BY DEF OneHistory, FreshOK
    <2>2. QED
      BY <2>1, CheckpointPlace DEF Writers
  <1>2. primary = mem /\ backup = mem /\ Reflects(mem, log) /\ History(log)
    <2>1. Up /\ Reflects(mem, log) /\ History(log)
      BY <1>1 DEF OneHistory, MemoryOK, Up
    <2>2. CASE phase = "replace"
      BY <1>1, <2>1, <2>2 DEF OneHistory, ReplaceOK, Writers
    <2>3. CASE phase # "replace"
      BY <1>1, <2>1, <2>3 DEF OneHistory, CheckpointOK
    <2>4. QED
      BY <2>2, <2>3
  <1>3. Remaining(a) = << >>
    <2>1. CASE phase = "replace"
      BY <1>1, <2>1 DEF Remaining, Writers
    <2>2. CASE phase # "replace"
      <3>1. image[a] = mem /\ Remaining(a) = ListAfter(entries, mem.sequence)
        BY <1>1, <2>2 DEF OneHistory, CheckpointOK, Remaining
      <3>2. /\ entries \in Seq(Entries) /\ mem.sequence = Len(log) /\ mem.sequence \in Nat
            /\ \A i \in DOMAIN entries : entries[i].resultSequence <= mem.sequence
        BY <1>1, <1>2, <2>2, StateFields
        DEF Typed, TypeOK, OneHistory, EntriesOK, Up, Reflects, Remembers
      <3>3. QED
        BY <3>1, <3>2, NothingRemains
    <2>3. QED
      BY <2>1, <2>2
  <1>4. QED
    BY <1>1, <1>2, <1>3

LEMMA CompactHistory ==
  ASSUME Typed, OneHistory, Settings, NEW a \in Writers, Compact(a)
  PROVE  OneHistory'
  <1>1. /\ step[a] = "compact" /\ lines' = Remaining(a) /\ entries' = Remaining(a)
        /\ step' = [step EXCEPT ![a] = "none"]
        /\ a = "closer" => phase' = phase
        /\ a = "writer" => phase' \in {"idle", "publish"}
        /\ UNCHANGED <<mem, draft, events, image, closing, primary, backup, log>>
    BY DEF Compact, Finish, write, Writers
  <1>2. /\ phase \in {"idle", "checkpoint", "replace"} /\ (phase = "idle" <=> a = "closer")
        /\ \A b \in Writers : b # a => step[b] = "none"
    BY <1>1, CompactsAll
  <1>3. /\ \A b \in Writers : step'[b] = "none"
        /\ phase' \in {"idle", "publish"} /\ mem \in States
    BY <1>1, <1>2 DEF Typed, TypeOK, Writers
  <1>4. primary = mem /\ backup = mem /\ Reflects(mem, log) /\ History(log)
    BY <1>1, CompactsAll
  <1>5. Remaining(a) = << >>
    BY <1>1, CompactsAll
  <1>6. Holds(<< >>, log, primary, backup)
    BY <1>3, <1>4, HoldsChecked
  <1>7. History(log)' /\ ControlOK' /\ CheckpointOK'
    BY <1>1, <1>2, <1>3, <1>4 DEF OneHistory, ControlOK, CheckpointOK, Writers
  <1>8. FreshOK' /\ DraftOK' /\ ReplaceOK'
    BY <1>1, <1>3, <1>4, EngineAssumption DEF FreshOK, DraftOK, ReplaceOK
  <1>9. MemoryOK' /\ EntriesOK'
    BY <1>1, <1>2, <1>4, <1>5 DEF OneHistory, MemoryOK, EntriesOK, Up
  <1>10. DiskOK'
    BY <1>1, <1>3, <1>5, <1>6 DEF DiskOK, SyncedLines
  <1>11. QED
    BY <1>7, <1>8, <1>9, <1>10 DEF OneHistory

\* Whatever a checkpoint had done when it failed, the log was kept until both
\* files were written.
LEMMA CheckpointFailsHistory ==
  ASSUME Typed, OneHistory, Settings, NEW a \in Writers, CheckpointFails(a)
  PROVE  OneHistory'
  <1>1. /\ step[a] # "none" /\ phase # "create" /\ phase # "replace"
        /\ \/ lines' = lines
           \/ step[a] = "compact" /\ lines' = Remaining(a)
        /\ step' = [step EXCEPT ![a] = "none"]
        /\ a = "closer" => phase' = phase
        /\ a = "writer" => phase' \in {"idle", "publish"}
        /\ UNCHANGED <<mem, entries, draft, events, image, closing, primary, backup, log>>
    BY DEF CheckpointFails, Finish, write, Writers, Settings, RestoreMayFail
  <1>2. /\ phase \in {"idle", "checkpoint"} /\ (phase = "idle" <=> a = "closer")
        /\ \A b \in Writers : b # a => step[b] = "none"
    BY <1>1, CheckpointPlace
  <1>3. \A b \in Writers : step'[b] = "none"
    BY <1>1, <1>2 DEF Typed, TypeOK, Writers
  <1>4. phase' \in {"idle", "publish"} /\ Up /\ primary # Absent
    BY <1>1, <1>2 DEF OneHistory, FreshOK, Up, Writers
  <1>5. Holds(lines', log, primary, backup)
    <2>1. Holds(lines, log, primary, backup)
      BY <1>2 DEF OneHistory, DiskOK, SyncedLines
    <2>2. CASE step[a] = "compact" /\ lines' = Remaining(a)
      <3>1. /\ primary = mem /\ backup = mem /\ Reflects(mem, log) /\ History(log)
            /\ Remaining(a) = << >>
        BY <2>2, CompactsAll
      <3>2. mem \in States
        BY DEF Typed, TypeOK
      <3>3. QED
        BY <2>2, <3>1, <3>2, HoldsChecked
    <2>3. QED
      BY <1>1, <2>1, <2>2
  <1>6. History(log)' /\ ControlOK' /\ CheckpointOK'
    BY <1>1, <1>2, <1>3 DEF OneHistory, ControlOK, CheckpointOK, Writers
  <1>7. FreshOK' /\ DraftOK' /\ ReplaceOK'
    BY <1>1, <1>4 DEF FreshOK, DraftOK, ReplaceOK
  <1>8. MemoryOK' /\ EntriesOK'
    BY <1>1, <1>4 DEF OneHistory, MemoryOK, EntriesOK
  <1>9. DiskOK'
    BY <1>1, <1>4, <1>5 DEF DiskOK, SyncedLines
  <1>10. QED
    BY <1>6, <1>7, <1>8, <1>9 DEF OneHistory
-----------------------------------------------------------------------------
LEMMA WatchHistory == ASSUME OneHistory, Watch PROVE OneHistory'
  <1>1. UNCHANGED <<phase, mem, entries, draft, events, step, image, closing, primary,
                    backup, lines, log>>
    <2>1. PICK w \in Watchers : Subscribe(w) \/ Reseed(w) \/ Deliver(w) \/ Unsubscribe(w)
      BY DEF Watch
    <2>2. QED
      BY <2>1 DEF Subscribe, Reseed, Deliver, Unsubscribe, memory, write, checkpoints, disk
  <1>2. QED
    BY <1>1, FrameHistory

LEMMA StutterHistory == ASSUME OneHistory, UNCHANGED vars PROVE OneHistory'
  BY FrameHistory DEF vars, memory, write, checkpoints, disk

LEMMA NextHistory == ASSUME Typed, OneHistory, Settings, [Next]_vars PROVE OneHistory'
  <1>1. CASE Request
    BY <1>1, MutateHistory, TransactionHistory, ApplyHistory, ReplaceStateHistory,
       CheckpointHistory, CloseHistory DEF Request
  <1>2. CASE Continue
    BY <1>2, WriteLineHistory, SyncCommitHistory, PublishHistory, WritePrimaryHistory,
       WriteBackupHistory, CompactHistory, CreateBackupHistory DEF Continue
  <1>3. CASE Fail
    BY <1>3, AppendFailsHistory, SyncFailsHistory, CreateFailsHistory, CheckpointFailsHistory,
       CrashHistory, CorruptPrimaryHistory DEF Fail
  <1>4. CASE Watch \/ Open \/ CreateFile \/ Exit
    BY <1>4, WatchHistory, OpenHistory, CreateFileHistory, ExitHistory
  <1>5. CASE UNCHANGED vars
    BY <1>5, StutterHistory
  <1>6. QED
    BY <1>1, <1>2, <1>3, <1>4, <1>5 DEF Next

LEMMA NextTyped == ASSUME Typed, [Next]_vars PROVE Typed'
  BY RequestTyped, ContinueTyped, FailTyped, WatchTyped, StartAndStopTyped, StutterTyped
  DEF Next

THEOREM EngineKeepsOneHistory == ASSUME Settings PROVE Spec => [](Typed /\ OneHistory)
  <1>1. Init => Typed /\ OneHistory
    BY InitTyped, InitHistory
  <1>2. (Typed /\ OneHistory) /\ [Next]_vars => (Typed /\ OneHistory)'
    BY NextTyped, NextHistory
  <1>3. QED
    BY <1>1, <1>2, PTL DEF Spec

\* Memory is the history of commits whatever crashed or failed: its sequence, its
\* retained changes and its documents (#commitDraft, replayWal).
THEOREM MemoryIsTheHistory ==
  ASSUME Settings, "current" \notin Resolvers PROVE Spec => []HistoryIsExact
  <1>1. Typed /\ OneHistory => HistoryIsExact
    <2> SUFFICES ASSUME Typed, OneHistory, Up
                 PROVE  HistoryIsExact
      BY DEF HistoryIsExact, HistoryMatches, DocumentsMatch
    <2>1. Reflects(mem, log) /\ History(log)
      BY DEF OneHistory, MemoryOK
    <2>2. HistoryMatches
      BY <2>1 DEF HistoryMatches, Reflects, Remembers, Retained, History, Numbered
    <2>3. DocumentsMatch
      BY <2>1 DEF DocumentsMatch, Reflects, Blank
    <2>4. QED
      BY <2>2, <2>3 DEF HistoryIsExact
  <1>2. QED
    BY <1>1, EngineKeepsOneHistory, PTL

\* A replication change is committed again only after retention dropped it
\* (applyReplicationChange, pruneChangeMetadata), across any crash and recovery.
THEOREM DuplicatesAreFarApart == ASSUME Settings PROVE Spec => []DedupWindow
  <1>1. Typed /\ OneHistory => DedupWindow
    BY DEF OneHistory, History, Spaced, DedupWindow
  <1>2. QED
    BY <1>1, EngineKeepsOneHistory, PTL

-----------------------------------------------------------------------------
\* The history grows by commits and by what recovery finds.

\* The events that a step adds to the history.
Grows(e) == e \in Seq(Events) /\ log' = log \o e

LEMMA NoReplacement ==
  ASSUME OneHistory, Replacements = {} PROVE phase # "replace"
  BY DEF OneHistory, ReplaceOK

LEMMA LogSteps ==
  ASSUME Typed, OneHistory, Replacements = {}, [Next]_vars
  PROVE  log' = log \/ SyncCommit \/ Open \/ CreateBackup
  <1>1. CASE Request
    BY <1>1 DEF Request, Mutate, Transaction, ApplyReplicationChange, Propose, ReplaceState,
       Checkpoint, Close
  <1>2. CASE Continue
    BY <1>2, NoReplacement DEF Continue, WriteLine, Publish, WritePrimary, WriteBackup, Compact
  <1>3. CASE Fail
    BY <1>3 DEF Fail, AppendFails, WriteTears, SyncFails, CreateFails, CheckpointFails, Crash,
       CorruptPrimary, StopProcess
  <1>4. CASE Watch
    BY <1>4 DEF Watch, Subscribe, Reseed, Deliver, Unsubscribe
  <1>5. CASE CreateFile \/ Exit \/ UNCHANGED vars
    BY <1>5 DEF CreateFile, Exit, StopProcess, vars
  <1>6. QED
    BY <1>1, <1>2, <1>3, <1>4, <1>5 DEF Next

\* Recovery adds to the history what it finds on disk beyond it.
LEMMA LoadGrows ==
  ASSUME Typed, OneHistory, NEW s \in States, Load(s), s = primary \/ s = backup',
         Holds(lines, log, primary, backup')
  PROVE  \/ phase' = "refused" /\ log' = log /\ ~ReadableWal(lines)
         \/ phase' = "idle" /\ ReadableWal(lines) /\ log' = log \o Unheard(lines, log)
  <1>1. lines \in Seq(Entries \cup {BadLine}) /\ log \in Seq(Events)
    BY DEF Typed, TypeOK
  <1>2. CASE Recoverable(s, lines)
    <2>1. ReadableWal(lines) /\ phase' = "idle" /\ log' = Extended(s)
      BY <1>2 DEF Load, Recoverable
    <2>2. QED
      BY <1>1, <2>1, ExtendedHistory
  <1>3. CASE ~Recoverable(s, lines)
    <2>1. phase' = "refused" /\ log' = log
      BY <1>3 DEF Load
    <2>2. ~ReadableWal(lines)
      BY <1>1, <1>3, RecoveredHistory
    <2>3. QED
      BY <2>1, <2>2
  <1>4. QED
    BY <1>2, <1>3

LEMMA OpenGrows ==
  ASSUME Typed, OneHistory, Open
  PROVE  /\ lines' = lines /\ primary' = primary /\ backup' = backup /\ ~Up
         /\ \/ phase' = "refused" /\ log' = log /\ ~ReadableWal(lines)
            \/ phase' = "idle" /\ ReadableWal(lines) /\ log' = log \o Unheard(lines, log)
  <1> DEFINE source == IF primary = Unreadable THEN backup ELSE primary
  <1>1. /\ phase \in {"down", "refused"} /\ primary # Absent /\ Load(source)
        /\ UNCHANGED <<primary, backup, lines>>
    BY DEF Open, disk
  <1>2. source \in States /\ (source = primary \/ source = backup')
    BY <1>1 DEF Typed, TypeOK
  <1> HIDE DEF source
  <1>3. Holds(lines, log, primary, backup')
    BY <1>1 DEF OneHistory, DiskOK, SyncedLines
  <1>4. QED
    BY <1>1, <1>2, <1>3, LoadGrows DEF Up

LEMMA CreateGrows ==
  ASSUME Typed, OneHistory, CreateBackup
  PROVE  /\ lines = << >> /\ log = << >> /\ lines' = lines /\ phase' = "idle" /\ log' = << >>
         /\ primary = Fresh(Self) /\ primary' = primary /\ phase = "create"
  <1> DEFINE s == Fresh(Self)
  <1>1. /\ phase = "create" /\ backup = Absent /\ primary = s
        /\ log = << >> /\ lines = << >> /\ image["writer"] = s
    BY DEF CreateBackup, OneHistory, FreshOK
  <1>2. backup' = s /\ Load(s) /\ UNCHANGED <<primary, lines>>
    BY <1>1 DEF CreateBackup
  <1>3. s \in States /\ Reflects(s, log) /\ History(log)
    BY <1>1, FreshHistory
  <1>4. Holds(lines, log, primary, backup')
    BY <1>1, <1>2, <1>3, HoldsChecked
  <1>5. ReadableWal(lines) /\ Unheard(lines, log) = << >> /\ log \o << >> = << >>
    BY <1>1, EmptyReadable
  <1> HIDE DEF s
  <1>6. phase' = "idle" /\ log' = log \o Unheard(lines, log)
    BY <1>1, <1>2, <1>3, <1>4, <1>5, LoadGrows
  <1>7. QED
    BY <1>1, <1>2, <1>5, <1>6 DEF s

LEMMA NextGrows ==
  ASSUME Typed, OneHistory, Replacements = {}, [Next]_vars
  PROVE  \E e : Grows(e)
  <1>1. log \in Seq(Events) /\ events \in Seq(Events) /\ << >> \in Seq(Events)
    BY DEF Typed, TypeOK
  <1>2. log \o << >> = log
    BY <1>1, ConcatEmpty
  <1>3. CASE log' = log
    BY <1>1, <1>2, <1>3 DEF Grows
  <1>4. CASE SyncCommit
    BY <1>1, <1>4 DEF SyncCommit, Grows
  <1>5. CASE Open
    <2>1. CASE ReadableWal(lines) /\ log' = log \o Unheard(lines, log)
      <3>1. lines \in Seq(Entries)
        BY <2>1, ReadableType DEF Typed, TypeOK
      <3>2. QED
        BY <2>1, <3>1, UnheardType DEF Grows
    <2>2. QED
      BY <1>3, <1>5, <2>1, OpenGrows
  <1>6. CASE CreateBackup
    BY <1>3, <1>6, CreateGrows
  <1>7. QED
    BY <1>3, <1>4, <1>5, <1>6, LogSteps

\* A commit adds to the history and no step takes from it or changes it: no
\* crash, no failed write or checkpoint, no recovery (open, replayWal).
THEOREM HistoryNeverShrinks ==
  ASSUME Settings, Replacements = {} PROVE Spec => HistoryOnlyGrows
  <1>1. Typed /\ OneHistory /\ [Next]_vars =>
          [Len(log) <= Len(log') /\ \A n \in DOMAIN log : log'[n] = log[n]]_log
    <2> SUFFICES ASSUME Typed, OneHistory, [Next]_vars
                 PROVE  Len(log) <= Len(log') /\ \A n \in DOMAIN log : log'[n] = log[n]
      OBVIOUS
    <2>1. PICK e : Grows(e)
      BY NextGrows
    <2>2. log \in Seq(Events) /\ e \in Seq(Events) /\ log' = log \o e
      BY <2>1 DEF Grows, Typed, TypeOK
    <2>3. /\ Len(log \o e) = Len(log) + Len(e)
          /\ \A i \in 1..Len(log) : (log \o e)[i] = log[i]
      BY <2>2, ConcatIs
    <2>4. DOMAIN log = 1..Len(log) /\ Len(log) \in Nat /\ Len(e) \in Nat
      BY <2>2
    <2>5. QED
      BY <2>2, <2>3, <2>4
  <1>2. QED
    BY <1>1, EngineKeepsOneHistory, PTL DEF Spec, HistoryOnlyGrows
-----------------------------------------------------------------------------
\* Recovery.  While the log has no fragments and no append fails after its line
\* was written, the log can always be read and says what memory says.

CleanSettings == Settings /\ Faults \subseteq {"crash", "append", "checkpoint", "corrupt"}

CleanOK ==
  /\ ~torn /\ phase # "refused"
  /\ phase # "replace" =>
       ReadableWal(SyncedLines) /\ (Up => Unheard(SyncedLines, log) = << >>)
  /\ phase = "sync" => lines[Len(lines)] = Entry

LEMMA AppendIsReadable ==
  ASSUME NEW wal \in Seq(Entries), ReadableWal(wal), NEW x \in Entries,
         wal # << >> => wal[Len(wal)].resultSequence = x.baseSequence
  PROVE  ReadableWal(Append(wal, x))
  <1> DEFINE W == Append(wal, x)
             n == Len(wal)
  <1>1. /\ W \in Seq(Entries) /\ Len(W) = n + 1 /\ n \in Nat
        /\ \A i \in 1..n : W[i] = wal[i]
        /\ W[n + 1] = x
    BY AppendIs
  <1> HIDE DEF W
  <1>2. BadLine \notin ToSet(W)
    BY <1>1, EngineAssumption DEF ToSet
  <1>3. \A i \in 1..(n - 1) : wal[i + 1].baseSequence = wal[i].resultSequence
    BY DEF ReadableWal, Contiguous
  <1>4. ASSUME NEW i \in 1..n PROVE W[i + 1].baseSequence = W[i].resultSequence
    <2>1. CASE i = n
      <3>1. wal # << >>
        BY <1>1, <2>1
      <3>2. QED
        BY <1>1, <2>1, <3>1
    <2>2. CASE i # n
      <3>1. i \in 1..(n - 1) /\ i + 1 \in 1..n
        BY <1>1, <2>2
      <3>2. QED
        BY <1>1, <1>3, <3>1
    <2>3. QED
      BY <2>1, <2>2
  <1>5. Len(W) - 1 = n
    BY <1>1
  <1>6. Contiguous(W)
    BY <1>4, <1>5 DEF Contiguous
  <1>7. QED
    BY <1>2, <1>6 DEF ReadableWal, W

\* What the line of the running write says: the commit about to happen.
LEMMA EntryIs ==
  ASSUME Typed, OneHistory, phase = "sync"
  PROVE  /\ Entry \in Entries /\ Entry.baseSequence = Len(log)
         /\ Entry.resultSequence = Len(log) + Len(events) /\ Entry.events = events
         /\ events # << >> /\ Len(events) \in Nat \ {0} /\ Len(log) \in Nat
         /\ Len(log \o events) = Len(log) + Len(events)
  <1>1. log \in Seq(Events) /\ events \in Seq(Events) /\ Entry \in Entries
    BY EntryType DEF Typed, TypeOK
  <1>2. /\ events # << >> /\ Reflects(draft, log \o events) /\ Reflects(mem, log)
    BY DEF OneHistory, DraftOK, MemoryOK, Up
  <1>3. Len(log \o events) = Len(log) + Len(events)
    BY <1>1
  <1>4. mem.sequence = Len(log) /\ draft.sequence = Len(log) + Len(events)
    BY <1>2, <1>3 DEF Reflects, Remembers
  <1>5. Len(events) \in Nat \ {0} /\ Len(log) \in Nat
    BY <1>1, <1>2, EmptyIs
  <1>6. QED
    BY <1>1, <1>2, <1>3, <1>4, <1>5 DEF Entry

LEMMA SyncLines ==
  ASSUME Typed, OneHistory, phase = "sync"
  PROVE  /\ lines # << >> /\ Front(lines) \in Seq(Entries \cup {BadLine})
         /\ lines = Append(Front(lines), lines[Len(lines)])
         /\ lines[Len(lines)] \in {BadLine, Entry}
  <1>1. lines \in Seq(Entries \cup {BadLine}) /\ lines # << >>
        /\ lines[Len(lines)] \in {BadLine, Entry}
    BY DEF Typed, TypeOK, OneHistory, DiskOK
  <1>2. QED
    BY <1>1, FrontLast

LEMMA KeptReadable ==
  ASSUME Typed, OneHistory, CleanOK, phase = "sync"
  PROVE  /\ ReadableWal(lines) /\ Unheard(lines, log) = events
         /\ Unheard(lines, log \o events) = << >>
  <1> DEFINE wal == Front(lines)
  <1>1. /\ lines # << >> /\ lines = Append(wal, Entry) /\ wal \in Seq(Entries \cup {BadLine})
        /\ lines[Len(lines)] = Entry
    BY SyncLines DEF CleanOK
  <1>2. ReadableWal(wal) /\ Unheard(wal, log) = << >> /\ Holds(wal, log, primary, backup)
    BY DEF CleanOK, Up, SyncedLines, OneHistory, DiskOK
  <1> HIDE DEF wal
  <1>3. wal \in Seq(Entries) /\ log \in Seq(Events)
    BY <1>1, <1>2, ReadableType DEF Typed, TypeOK
  <1>4. wal # << >> => wal[Len(wal)].resultSequence = Len(log)
    BY <1>2, <1>3, ConcatEmpty DEF Holds, WalOf
  <1>5. ReadableWal(lines)
    BY <1>1, <1>2, <1>3, <1>4, EntryIs, AppendIsReadable
  <1>6. Unheard(lines, log) = events /\ Unheard(lines, log \o events) = << >>
    <2>1. /\ Entry.resultSequence > Len(log) /\ ~(Entry.resultSequence > Len(log \o events))
          /\ Entry.events = events
      BY EntryIs
    <2>2. QED
      BY <1>1, <2>1 DEF Unheard
  <1>7. QED
    BY <1>5, <1>6

LEMMA CleanFrame ==
  ASSUME CleanOK, UNCHANGED <<phase, mem, draft, events, lines, torn, log>>
  PROVE  CleanOK'
  BY DEF CleanOK, SyncedLines, Up, Entry

LEMMA CleanKept ==
  ASSUME CleanOK, phase # "sync", phase' \notin {"sync", "refused"}, Up' => Up,
         phase' # "replace" => phase # "replace" /\ UNCHANGED log, UNCHANGED <<lines, torn>>
  PROVE  CleanOK'
  BY DEF CleanOK, SyncedLines

LEMMA CleanEmptied ==
  ASSUME lines' = << >>, ~torn', phase' \notin {"sync", "refused"}
  PROVE  CleanOK'
  <1>1. \A L : Unheard(<< >>, L) = << >>
    BY DEF Unheard
  <1>2. QED
    BY <1>1, EmptyReadable DEF CleanOK, SyncedLines

LEMMA RequestClean == ASSUME CleanOK, Request PROVE CleanOK'
  <1>1. ASSUME NEW docs, NEW changes, Propose(docs, changes), phase = "idle" PROVE CleanOK'
    BY <1>1, CleanKept DEF Propose, disk, Up
  <1>2. CASE \/ \E k \in Keys, record \in Records : Mutate(k, record)
             \/ \E docs \in [Keys -> Records] : Transaction(docs)
             \/ \E change \in RemoteChanges : ApplyReplicationChange(change)
    BY <1>1, <1>2 DEF Mutate, Transaction, ApplyReplicationChange, Ready
  <1>3. CASE (\E s \in Replacements : ReplaceState(s)) \/ Checkpoint \/ Close
    BY <1>3, CleanKept DEF ReplaceState, Checkpoint, Close, Ready, disk, Up
  <1>4. QED
    BY <1>2, <1>3 DEF Request

LEMMA ContinueClean ==
  ASSUME Typed, OneHistory, CleanSettings, CleanOK, Continue PROVE CleanOK'
  <1>1. CASE WriteLine
    <2>1. /\ phase = "append" /\ phase' = "sync" /\ lines' = Append(lines, Entry) /\ ~torn'
          /\ Entry' = Entry /\ log' = log
      BY <1>1 DEF WriteLine, CleanOK, memory, write, Entry
    <2>2. lines \in Seq(Entries \cup {BadLine}) /\ Entry \in Entries \cup {BadLine}
      BY EntryType DEF Typed, TypeOK
    <2>3. Front(lines') = lines /\ lines'[Len(lines')] = Entry
      BY <2>1, <2>2, FrontAppend
    <2>4. QED
      BY <2>1, <2>3 DEF CleanOK, SyncedLines, Up
  <1>2. CASE SyncCommit
    <2>1. /\ phase = "sync" /\ phase' \in {"checkpoint", "publish"} /\ log' = log \o events
          /\ UNCHANGED <<lines, torn>>
      BY <1>2 DEF SyncCommit, disk
    <2>2. ReadableWal(lines) /\ Unheard(lines, log \o events) = << >>
      BY <2>1, KeptReadable
    <2>3. QED
      BY <2>1, <2>2 DEF CleanOK, SyncedLines
  <1>3. CASE Publish
    BY <1>3, CleanKept DEF Publish, disk, Up
  <1>4. ASSUME NEW a \in Writers, WritePrimary(a) PROVE CleanOK'
    BY <1>4, CheckpointPlace, CleanKept DEF WritePrimary, CleanOK, Up
  <1>5. ASSUME NEW a \in Writers, WriteBackup(a) PROVE CleanOK'
    <2>1. /\ phase \in {"idle", "checkpoint", "replace"} /\ (phase = "idle" <=> a = "closer")
          /\ UNCHANGED <<phase, lines, torn>>
      BY <1>5, CheckpointPlace DEF WriteBackup
    <2>2. phase # "replace" => log' = log
      BY <1>5 DEF WriteBackup
    <2>3. QED
      BY <2>1, <2>2, CleanKept DEF Up
  <1>6. ASSUME NEW a \in Writers, Compact(a) PROVE CleanOK'
    <2>1. /\ phase \in {"idle", "checkpoint", "replace"} /\ (phase = "idle" <=> a = "closer")
          /\ Remaining(a) = << >>
      BY <1>6, CompactsAll DEF Compact
    <2>2. lines' = << >> /\ ~torn' /\ phase' \in {"idle", "publish"}
      BY <1>6, <2>1 DEF Compact, Finish, Writers
    <2>3. QED
      BY <2>2, CleanEmptied
  <1>7. CASE CreateBackup
    <2>1. lines' = << >> /\ phase' = "idle"
      BY <1>7, CreateGrows
    <2>2. ~torn'
      BY <1>7 DEF CreateBackup, CleanOK
    <2>3. QED
      BY <2>1, <2>2, CleanEmptied
  <1>8. QED
    BY <1>1, <1>2, <1>3, <1>4, <1>5, <1>6, <1>7 DEF Continue

LEMMA FailClean ==
  ASSUME Typed, OneHistory, CleanSettings, CleanOK, Fail PROVE CleanOK'
  <1> USE DEF CleanSettings
  <1>1. CASE AppendFails
    BY <1>1, CleanKept DEF AppendFails, Reject, disk, Up
  <1>2. CASE WriteTears \/ SyncFails
    BY <1>2 DEF WriteTears, SyncFails, Fault
  <1>3. CASE CreateFails
    BY <1>3, CleanKept DEF CreateFails, StopProcess, Up
  <1>4. ASSUME NEW a \in Writers, CheckpointFails(a) PROVE CleanOK'
    <2>1. /\ phase \in {"idle", "checkpoint"} /\ (phase = "idle" <=> a = "closer")
          /\ phase' \in {"idle", "publish"} /\ log' = log
      BY <1>4, CheckpointPlace
      DEF CheckpointFails, Finish, Writers, Settings, RestoreMayFail
    <2>2. CASE UNCHANGED <<lines, torn>>
      BY <2>1, <2>2, CleanKept DEF Up
    <2>3. CASE step[a] = "compact" /\ lines' = Remaining(a) /\ torn' = FALSE
      BY <2>1, <2>3, CompactsAll, CleanEmptied
    <2>4. QED
      BY <1>4, <2>2, <2>3 DEF CheckpointFails
  <1>5. CASE Crash
    <2>1. phase' = "down" /\ log' = log /\ phase # "replace"
      BY <1>5 DEF Crash, StopProcess, Settings, RestoreMayFail
    <2>2. CASE phase = "sync"
      <3>1. PICK kept \in BOOLEAN : Unsynced(kept)
        BY <1>5, <2>2 DEF Crash
      <3>2. ReadableWal(lines) /\ ReadableWal(Front(lines))
        BY <2>2, KeptReadable DEF CleanOK, SyncedLines
      <3>3. ~torn'
        <4>1. Last(lines) = Entry /\ Entry # BadLine
          BY <2>2, EntryIs, EngineAssumption DEF CleanOK, Last
        <4>2. QED
          BY <3>1, <4>1 DEF Unsynced
      <3>4. QED
        BY <2>1, <3>1, <3>2, <3>3 DEF Unsynced, CleanOK, SyncedLines, Up
    <2>3. CASE phase # "sync"
      BY <1>5, <2>1, <2>3, CleanKept DEF Crash, Up
    <2>4. QED
      BY <2>2, <2>3
  <1>6. CASE CorruptPrimary
    BY <1>6, CleanKept DEF CorruptPrimary, Up
  <1>7. QED
    BY <1>1, <1>2, <1>3, <1>4, <1>5, <1>6 DEF Fail

LEMMA OpenClean == ASSUME Typed, OneHistory, CleanOK, Open PROVE CleanOK'
  <1>1. /\ phase \in {"down", "refused"} /\ lines' = lines /\ torn' = torn
        /\ ReadableWal(lines) /\ Holds(lines, log, primary, backup)
    BY DEF Open, disk, CleanOK, OneHistory, DiskOK, SyncedLines
  <1>2. phase' = "idle" /\ log' = log \o Unheard(lines, log)
    BY <1>1, OpenGrows
  <1>3. lines \in Seq(Entries \cup {BadLine}) /\ log \in Seq(Events)
    BY DEF Typed, TypeOK
  <1>4. \A i \in DOMAIN lines : lines[i].resultSequence <= Len(log')
    BY <1>1, <1>2, <1>3, HoldsHeard
  <1>5. lines \in Seq(Entries) /\ log' \in Seq(Events)
    BY <1>1, <1>2, <1>3, ReadableType, UnheardType
  <1>6. Unheard(lines, log') = << >>
    <2> SUFFICES ASSUME lines # << >> PROVE ~(lines[Len(lines)].resultSequence > Len(log'))
      BY DEF Unheard
    <2>1. Len(lines) \in DOMAIN lines /\ lines[Len(lines)] \in Entries /\ Len(log') \in Nat
      BY <1>5
    <2>2. lines[Len(lines)].resultSequence \in Nat
      BY <2>1, EntryFields
    <2>3. QED
      BY <1>4, <2>1, <2>2
  <1>7. QED
    BY <1>1, <1>2, <1>6 DEF CleanOK, SyncedLines

LEMMA NextClean ==
  ASSUME Typed, OneHistory, CleanSettings, CleanOK, [Next]_vars PROVE CleanOK'
  <1>1. CASE Watch
    <2>1. UNCHANGED <<phase, mem, draft, events, lines, torn, log>>
      BY <1>1
      DEF Watch, Subscribe, Reseed, Deliver, Unsubscribe, memory, write, checkpoints, disk
    <2>2. QED
      BY <2>1, CleanFrame
  <1>2. CASE UNCHANGED vars
    BY <1>2, CleanFrame DEF vars, memory, write, disk
  <1>3. CASE CreateFile \/ Exit
    BY <1>3, CleanKept DEF CreateFile, Exit, StopProcess, disk, Up
  <1>4. QED
    BY <1>1, <1>2, <1>3, RequestClean, ContinueClean, FailClean, OpenClean DEF Next

LEMMA InitClean == Init => CleanOK
  BY EmptyReadable DEF Init, CleanOK, SyncedLines, Up

LEMMA CleanAlways == ASSUME CleanSettings PROVE Spec => [](Typed /\ OneHistory /\ CleanOK)
  <1>1. Init => Typed /\ OneHistory /\ CleanOK
    BY InitTyped, InitHistory, InitClean
  <1>2. (Typed /\ OneHistory /\ CleanOK) /\ [Next]_vars => (Typed /\ OneHistory /\ CleanOK)'
    BY NextTyped, NextHistory, NextClean DEF CleanSettings
  <1>3. QED
    BY <1>1, <1>2, PTL DEF Spec

LEMMA SameState ==
  ASSUME NEW s \in States, NEW t \in States, NEW L, "current" \notin Resolvers,
         Reflects(s, L), Reflects(t, L), s.databaseId = t.databaseId
  PROVE  s = t
  BY DEF Reflects, Remembers, States

\* Recovery always works: over either checkpoint file it gives the documents, the
\* sequence, the retained changes and the change ids the process had in memory,
\* at every step of a write, a checkpoint or close() (open, replayWal).
THEOREM RecoveryGivesMemory ==
  ASSUME CleanSettings, "current" \notin Resolvers PROVE Spec => []RecoveryIsExact
  <1>1. Typed /\ OneHistory /\ CleanOK => RecoveryIsExact
    <2> SUFFICES ASSUME Typed, OneHistory, CleanOK PROVE RecoveryIsExact
      OBVIOUS
    <2>1. AlwaysOpens
      BY DEF CleanOK, AlwaysOpens
    <2>2. ASSUME Up, phase # "replace", NEW s \in {primary, backup} \ {Absent, Unreadable}
          PROVE  Recoverable(s, SyncedLines) /\ Recovered(s, SyncedLines) = mem
      <3>1. s \in States /\ (s = primary \/ s = backup)
        BY <2>2 DEF Typed, TypeOK
      <3>2. SyncedLines \in Seq(Entries \cup {BadLine})
        <4>1. lines \in Seq(Entries \cup {BadLine})
          BY DEF Typed, TypeOK
        <4>2. QED
          BY <4>1, FrontType DEF SyncedLines
      <3>3. /\ ReadableWal(SyncedLines) /\ Unheard(SyncedLines, log) = << >>
            /\ Holds(SyncedLines, log, primary, backup)
            /\ mem.databaseId = IdOf(backup) /\ Reflects(mem, log)
        BY <2>2 DEF CleanOK, OneHistory, DiskOK, MemoryOK
      <3>4. log \in Seq(Events) /\ mem \in States /\ log \o << >> = log
        BY ConcatEmpty DEF Typed, TypeOK
      <3> HIDE DEF SyncedLines
      <3>5. /\ Recoverable(s, SyncedLines) /\ Reflects(Recovered(s, SyncedLines), log)
            /\ Recovered(s, SyncedLines).databaseId = IdOf(backup)
        <4>1. /\ Recoverable(s, SyncedLines)
              /\ Reflects(Recovered(s, SyncedLines), log \o Unheard(SyncedLines, log))
              /\ Recovered(s, SyncedLines).databaseId = IdOf(backup)
          <5> DEFINE wal == SyncedLines
          <5>1. /\ wal \in Seq(Entries \cup {BadLine}) /\ log \in Seq(Events)
                /\ Holds(wal, log, primary, backup) /\ ReadableWal(wal) /\ s \in States
                /\ s = primary \/ s = backup
            BY <3>1, <3>2, <3>3, <3>4
          <5> HIDE DEF wal
          <5>2. LET G == log \o Unheard(wal, log)
                IN /\ Recoverable(s, wal) /\ Reflects(Recovered(s, wal), G)
                   /\ Recovered(s, wal).databaseId = IdOf(backup)
            BY <5>1, RecoveredHistory
          <5>3. QED
            BY <5>2 DEF wal
        <4>2. QED
          BY <3>3, <3>4, <4>1
      <3>6. Recovered(s, SyncedLines) \in States
        BY <3>1, <3>2, <3>5, RecoveredType
      <3>7. QED
        BY <3>3, <3>4, <3>5, <3>6, SameState
    <2>3. RecoveryMatchesMemory
      BY <2>2 DEF RecoveryMatchesMemory
    <2>4. QED
      BY <2>1, <2>3 DEF RecoveryIsExact
  <1>2. QED
    BY <1>1, CleanAlways, PTL
-----------------------------------------------------------------------------
\* Observers.  The primary checkpoint or a synced line of the log reaches the end
\* of the history, and nothing beyond that end is queued for an observer.

ReachSettings == Settings /\ Replacements = {} /\ "tear" \notin Faults

Reached(n) ==
  \/ primary.sequence >= n
  \/ \E i \in DOMAIN SyncedLines : SyncedLines[i].resultSequence >= n

ReachOK ==
  /\ ~torn /\ lines \in Seq(Entries)
  /\ primary \in States => Reached(Len(log))
  /\ \E n \in Nat : \A i \in DOMAIN lines : lines[i].resultSequence <= n

Heard(e, n) == \A i \in DOMAIN e : e[i].sequence <= n

HeardOK ==
  /\ \A w \in Watchers : cursor[w] <= Len(log) /\ Heard(pending[w], Len(log))
  /\ phase \notin {"append", "sync"} => Heard(events, Len(log))

\* The line being written reaches the end of the history once it is synced.
LEMMA SyncReach ==
  ASSUME Typed, OneHistory, ReachOK, phase = "sync"
  PROVE  /\ lines[Len(lines)] = Entry /\ Len(lines) \in DOMAIN lines
         /\ Front(lines) \in Seq(Entries) /\ Last(lines) # BadLine
         /\ \A i \in DOMAIN Front(lines) : i \in DOMAIN lines /\ Front(lines)[i] = lines[i]
  <1> DEFINE x == lines[Len(lines)]
             wal == Front(lines)
  <1>1. lines \in Seq(Entries) /\ lines # << >>
    BY SyncLines DEF ReachOK
  <1>2. wal \in Seq(Entries) /\ x \in Entries /\ lines = Append(wal, x)
    BY <1>1, FrontLast
  <1>3. x = Entry /\ Len(lines) \in DOMAIN lines /\ Last(lines) # BadLine
    BY <1>1, <1>2, SyncLines, EngineAssumption DEF Last
  <1> HIDE DEF x, wal
  <1>4. \A i \in DOMAIN wal : i \in DOMAIN lines /\ wal[i] = lines[i]
    BY <1>2, AppendIs
  <1>5. QED
    BY <1>2, <1>3, <1>4 DEF x, wal

LEMMA ReachFrame ==
  ASSUME ReachOK, UNCHANGED <<lines, torn, log>>, primary' \in States => primary' = primary,
         phase' = phase \/ (phase # "sync" /\ phase' # "sync")
  PROVE  ReachOK'
  BY DEF ReachOK, Reached, SyncedLines

\* An emptied log needs a checkpoint of the whole history.
LEMMA ReachEmptied ==
  ASSUME lines' = << >>, ~torn', primary' \in States => primary'.sequence >= Len(log')
  PROVE  ReachOK'
  <1>1. << >> \in Seq(Entries) /\ DOMAIN << >> = {}
    OBVIOUS
  <1>2. QED
    BY <1>1 DEF ReachOK, Reached

LEMMA ReachCut ==
  ASSUME Typed, OneHistory, ReachOK, phase = "sync", phase' # "sync", ~torn',
         lines' = lines \/ lines' = Front(lines), primary' = primary, log' = log
  PROVE  ReachOK'
  <1> DEFINE wal == Front(lines)
  <1>1. /\ wal \in Seq(Entries) /\ lines \in Seq(Entries)
        /\ \A i \in DOMAIN wal : i \in DOMAIN lines /\ wal[i] = lines[i]
    BY SyncReach DEF ReachOK
  <1>2. primary \in States =>
          \/ primary.sequence >= Len(log)
          \/ \E i \in DOMAIN wal : wal[i].resultSequence >= Len(log)
    BY DEF ReachOK, Reached, SyncedLines
  <1> HIDE DEF wal
  <1>3. PICK n \in Nat : \A i \in DOMAIN lines : lines[i].resultSequence <= n
    BY DEF ReachOK
  <1>4. SyncedLines' = lines' /\ lines' \in Seq(Entries)
    BY <1>1 DEF SyncedLines, wal
  <1>5. \A i \in DOMAIN lines' : lines'[i].resultSequence <= n
    BY <1>1, <1>3 DEF wal
  <1>6. primary' \in States => Reached(Len(log))'
    BY <1>1, <1>2, <1>4 DEF Reached, wal
  <1>7. QED
    BY <1>4, <1>5, <1>6 DEF ReachOK

LEMMA WriteLineReach ==
  ASSUME Typed, OneHistory, ReachOK, WriteLine PROVE ReachOK'
  <1>1. /\ phase = "append" /\ phase' = "sync" /\ lines' = Append(lines, Entry) /\ ~torn'
        /\ primary' = primary /\ log' = log
    BY DEF WriteLine, ReachOK
  <1>2. lines \in Seq(Entries) /\ Entry \in Entries /\ Entry.resultSequence \in Nat
    BY EntryType, EntryFields DEF ReachOK, Typed
  <1>3. Front(lines') = lines
    BY <1>1, <1>2, FrontAppend
  <1>4. primary' \in States => Reached(Len(log))'
    BY <1>1, <1>3 DEF ReachOK, Reached, SyncedLines
  <1>5. PICK n \in Nat : \A i \in DOMAIN lines : lines[i].resultSequence <= n
    BY DEF ReachOK
  <1>6. /\ lines' \in Seq(Entries) /\ Len(lines') = Len(lines) + 1 /\ Len(lines) \in Nat
        /\ \A i \in 1..Len(lines) : lines'[i] = lines[i]
        /\ lines'[Len(lines) + 1] = Entry
    BY <1>1, <1>2, AppendIs
  <1>7. \A i \in DOMAIN lines' : lines'[i].resultSequence <= n + Entry.resultSequence
    <2>1. DOMAIN lines = 1..Len(lines) /\ DOMAIN lines' = 1..(Len(lines) + 1)
      BY <1>2, <1>6
    <2>2. ASSUME NEW i \in 1..Len(lines)
          PROVE  lines'[i].resultSequence <= n + Entry.resultSequence
      <3>1. lines[i].resultSequence \in Nat /\ lines[i].resultSequence <= n
        BY <1>2, <1>5, <2>1, ElementType, EntryFields
      <3>2. QED
        BY <1>2, <1>6, <3>1
    <2>3. \A i \in 1..(Len(lines) + 1) : i \in 1..Len(lines) \/ i = Len(lines) + 1
      BY <1>6
    <2>4. lines'[Len(lines) + 1].resultSequence <= n + Entry.resultSequence
      BY <1>2, <1>6
    <2>5. QED
      BY <2>1, <2>2, <2>3, <2>4
  <1>8. n + Entry.resultSequence \in Nat
    BY <1>2
  <1>9. QED
    BY <1>1, <1>4, <1>6, <1>7, <1>8 DEF ReachOK

LEMMA SyncCommitReach ==
  ASSUME Typed, OneHistory, ReachOK, SyncCommit PROVE ReachOK'
  <1>1. /\ phase = "sync" /\ phase' # "sync" /\ log' = log \o events
        /\ UNCHANGED <<lines, torn, primary>>
    BY DEF SyncCommit, disk
  <1>2. /\ Len(lines) \in DOMAIN lines /\ lines[Len(lines)].resultSequence >= Len(log')
        /\ SyncedLines' = lines
    <2>1. Entry.resultSequence = Len(log') /\ Len(log') \in Nat
      BY <1>1, EntryIs
    <2>2. QED
      BY <1>1, <2>1, SyncReach DEF SyncedLines
  <1>3. Reached(Len(log))'
    BY <1>2 DEF Reached
  <1>4. QED
    BY <1>1, <1>3 DEF ReachOK

\* A checkpoint file that is written reaches the end of the history.
LEMMA WritePrimaryReach ==
  ASSUME Typed, OneHistory, Replacements = {}, ReachOK, NEW a \in Writers, WritePrimary(a)
  PROVE  ReachOK'
  <1>1. /\ step[a] = "primary" /\ primary' = image[a] /\ UNCHANGED <<phase, lines, torn, log>>
    BY DEF WritePrimary
  <1>2. /\ phase \in {"idle", "checkpoint", "create"} /\ (phase = "idle" <=> a = "closer")
        /\ Len(log) \in Nat
    BY <1>1, CheckpointPlace, NoReplacement DEF Typed, TypeOK
  <1>3. image[a].sequence >= Len(log)
    <2>1. CASE phase = "create"
      <3>1. image[a] = Fresh(Self) /\ log = << >>
        BY <1>2, <2>1 DEF OneHistory, FreshOK, Writers
      <3>2. QED
        BY <3>1 DEF Fresh
    <2>2. CASE phase # "create"
      <3>1. image[a] = mem /\ mem.sequence = Len(log)
        BY <1>1, <1>2, <2>2 DEF OneHistory, CheckpointOK, MemoryOK, Up, Reflects, Remembers
      <3>2. QED
        BY <1>2, <3>1
    <2>3. QED
      BY <2>1, <2>2
  <1>4. Reached(Len(log))'
    BY <1>1, <1>3 DEF Reached
  <1>5. QED
    BY <1>1, <1>4 DEF ReachOK

LEMMA OpenReach == ASSUME Typed, OneHistory, ReachOK, Open PROVE ReachOK'
  <1>1. /\ phase \in {"down", "refused"} /\ phase' \in {"idle", "refused"}
        /\ UNCHANGED <<lines, torn, primary>>
    BY OpenGrows DEF Open, disk
  <1>2. lines \in Seq(Entries) /\ log \in Seq(Events)
    BY DEF ReachOK, Typed, TypeOK
  <1>3. CASE log' = log
    BY <1>1, <1>3, ReachFrame
  <1>4. CASE log' # log
    <2>1. ReadableWal(lines) /\ log' = log \o Unheard(lines, log) /\ Unheard(lines, log) # << >>
      BY <1>2, <1>4, OpenGrows, ConcatEmpty
    <2>2. lines # << >>
      BY <2>1 DEF Unheard
    <2>3. Holds(lines, log, primary, backup)
      BY <1>1 DEF OneHistory, DiskOK, SyncedLines
    <2>4. lines[Len(lines)].resultSequence = Len(log')
      BY <2>1, <2>2, <2>3 DEF Holds, WalOf
    <2>5. Len(lines) \in DOMAIN lines /\ Len(log') \in Nat
      <3>1. log' \in Seq(Events)
        BY <1>2, <2>1, UnheardType
      <3>2. QED
        BY <1>2, <2>2, <3>1
    <2>6. Reached(Len(log))'
      BY <1>1, <2>4, <2>5 DEF Reached, SyncedLines
    <2>7. QED
      BY <1>1, <2>6 DEF ReachOK
  <1>5. QED
    BY <1>3, <1>4
LEMMA NextReach ==
  ASSUME Typed, OneHistory, ReachSettings, ReachOK, [Next]_vars PROVE ReachOK'
  <1> USE DEF ReachSettings
  <1>1. CASE Request
    <2>1. /\ phase = "idle" /\ phase' # "sync" /\ UNCHANGED <<primary, lines, torn, log>>
      BY <1>1 DEF Request, Mutate, Transaction, ApplyReplicationChange, Propose, ReplaceState,
         Checkpoint, Close, Ready, disk
    <2>2. QED
      BY <2>1, ReachFrame
  <1>2. CASE Publish
    BY <1>2, ReachFrame DEF Publish, disk
  <1>3. ASSUME NEW a \in Writers, WriteBackup(a) PROVE ReachOK'
    BY <1>3, NoReplacement, ReachFrame DEF WriteBackup
  <1>4. ASSUME NEW a \in Writers, Compact(a) PROVE ReachOK'
    <2>1. /\ lines' = Remaining(a) /\ ~torn' /\ step[a] = "compact"
          /\ UNCHANGED <<primary, log>>
      BY <1>4 DEF Compact
    <2>2. Remaining(a) = << >> /\ primary = mem /\ mem.sequence = Len(log)
      BY <2>1, CompactsAll DEF Reflects, Remembers
    <2>3. mem.sequence >= Len(log)
      BY <2>2, StateFields DEF Typed, TypeOK
    <2>4. QED
      BY <2>1, <2>2, <2>3, ReachEmptied
  <1>5. CASE CreateBackup
    <2>1. lines' = << >> /\ log' = << >> /\ primary' = Fresh(Self)
      BY <1>5, CreateGrows
    <2>2. ~torn'
      BY <1>5 DEF CreateBackup, ReachOK
    <2>3. QED
      BY <2>1, <2>2, ReachEmptied DEF Fresh
  <1>6. CASE Continue
    BY <1>2, <1>3, <1>4, <1>5, <1>6, WriteLineReach, SyncCommitReach, WritePrimaryReach
    DEF Continue
  <1>7. CASE AppendFails
    BY <1>7, ReachFrame DEF AppendFails, Reject, disk
  <1>8. CASE WriteTears
    BY <1>8 DEF WriteTears, Fault
  <1>9. CASE SyncFails \/ (Crash /\ phase = "sync")
    <2>1. PICK kept \in BOOLEAN : Unsynced(kept)
      BY <1>9 DEF SyncFails, Crash
    <2>2. /\ phase = "sync" /\ phase' # "sync" /\ UNCHANGED <<primary, log>>
      BY <1>9 DEF SyncFails, Crash, Reject, StopProcess
    <2>3. ~torn' /\ (lines' = lines \/ lines' = Front(lines))
      BY <2>1, <2>2, SyncReach DEF Unsynced
    <2>4. QED
      BY <2>2, <2>3, ReachCut
  <1>10. CASE CreateFails \/ (Crash /\ phase # "sync")
    <2>1. phase # "sync" /\ phase' # "sync" /\ UNCHANGED <<primary, lines, torn, log>>
      BY <1>10 DEF CreateFails, Crash, StopProcess
    <2>2. QED
      BY <2>1, ReachFrame
  <1>11. ASSUME NEW a \in Writers, CheckpointFails(a) PROVE ReachOK'
    <2>1. /\ phase \in {"idle", "checkpoint"} /\ phase' # "sync" /\ UNCHANGED <<primary, log>>
      BY <1>11, CheckpointPlace, NoReplacement DEF CheckpointFails, Finish
    <2>2. CASE UNCHANGED <<lines, torn>>
      BY <2>1, <2>2, ReachFrame
    <2>3. CASE step[a] = "compact" /\ lines' = Remaining(a) /\ torn' = FALSE
      <3>1. Remaining(a) = << >> /\ primary = mem /\ mem.sequence = Len(log)
        BY <2>3, CompactsAll DEF Reflects, Remembers
      <3>2. mem.sequence >= Len(log)
        BY <3>1, StateFields DEF Typed, TypeOK
      <3>3. QED
        BY <2>1, <2>3, <3>1, <3>2, ReachEmptied
    <2>4. QED
      BY <1>11, <2>2, <2>3 DEF CheckpointFails
  <1>12. CASE CorruptPrimary
    <2>1. /\ phase' = phase /\ primary' \notin States /\ UNCHANGED <<lines, torn, log>>
      BY <1>12, EngineAssumption DEF CorruptPrimary
    <2>2. QED
      BY <2>1, ReachFrame
  <1>13. CASE Fail
    BY <1>7, <1>8, <1>9, <1>10, <1>11, <1>12, <1>13 DEF Fail
  <1>14. CASE Watch \/ UNCHANGED vars
    <2>1. UNCHANGED <<phase, primary, lines, torn, log>>
      BY <1>14 DEF Watch, Subscribe, Reseed, Deliver, Unsubscribe, disk, vars
    <2>2. QED
      BY <2>1, ReachFrame
  <1>15. CASE CreateFile \/ Exit
    <2>1. phase # "sync" /\ phase' # "sync" /\ UNCHANGED <<primary, lines, torn, log>>
      BY <1>15 DEF CreateFile, Exit, StopProcess, disk
    <2>2. QED
      BY <2>1, ReachFrame
  <1>16. QED
    BY <1>1, <1>6, <1>13, <1>14, <1>15, OpenReach DEF Next

-----------------------------------------------------------------------------
LEMMA HeardMore ==
  ASSUME NEW e \in Seq(Events), NEW m \in Nat, NEW n \in Nat, m <= n, Heard(e, m)
  PROVE  Heard(e, n)
  <1> SUFFICES ASSUME NEW i \in DOMAIN e PROVE e[i].sequence <= n
    BY DEF Heard
  <1>1. e[i].sequence \in Nat /\ e[i].sequence <= m
    BY ElementType, EventFields DEF Heard
  <1>2. QED
    BY <1>1

LEMMA HeardParts ==
  ASSUME NEW a \in Seq(Events), NEW b \in Seq(Events), NEW n, Heard(a, n), Heard(b, n)
  PROVE  Heard(a \o b, n)
  <1> DEFINE c == a \o b
  <1>1. /\ c \in Seq(Events) /\ Len(c) = Len(a) + Len(b)
        /\ \A i \in 1..Len(a) : c[i] = a[i]
        /\ \A i \in 1..(Len(a) + Len(b)) : i > Len(a) => c[i] = b[i - Len(a)]
    BY ConcatIs
  <1> HIDE DEF c
  <1> SUFFICES ASSUME NEW i \in 1..(Len(a) + Len(b)) PROVE c[i].sequence <= n
    BY <1>1 DEF Heard, c
  <1>2. Len(a) \in Nat /\ Len(b) \in Nat /\ DOMAIN a = 1..Len(a) /\ DOMAIN b = 1..Len(b)
    OBVIOUS
  <1>3. CASE i \in 1..Len(a)
    BY <1>1, <1>2, <1>3 DEF Heard
  <1>4. CASE i > Len(a)
    <2> DEFINE j == i - Len(a)
    <2>1. j \in 1..Len(b) /\ c[i] = b[j]
      BY <1>1, <1>2, <1>4
    <2> HIDE DEF j
    <2>2. QED
      BY <1>2, <2>1 DEF Heard
  <1>5. QED
    BY <1>2, <1>3, <1>4

\* The history only grows: what was heard of stays in it.
LEMMA HeardGrows ==
  ASSUME Typed, Typed', OneHistory, Replacements = {}, HeardOK, [Next]_vars,
         NEW w \in Watchers
  PROVE  /\ Len(log) \in Nat /\ Len(log') \in Nat /\ Len(log) <= Len(log')
         /\ cursor[w] <= Len(log') /\ Heard(pending[w], Len(log'))
  <1>1. PICK e : Grows(e)
    BY NextGrows
  <1>2. log \in Seq(Events) /\ e \in Seq(Events) /\ log' = log \o e
    BY <1>1 DEF Grows, Typed, TypeOK
  <1>3. Len(log) \in Nat /\ Len(log') \in Nat /\ Len(log) <= Len(log')
    <2>1. Len(log \o e) = Len(log) + Len(e) /\ Len(e) \in Nat /\ Len(log) \in Nat
      BY <1>2
    <2>2. QED
      BY <1>2, <2>1
  <1>4. cursor[w] \in Nat /\ pending[w] \in Seq(Events)
    BY DEF Typed, TypeOK
  <1>5. cursor[w] <= Len(log) /\ Heard(pending[w], Len(log))
    BY DEF HeardOK
  <1>6. Heard(pending[w], Len(log'))
    BY <1>3, <1>4, <1>5, HeardMore
  <1>7. QED
    BY <1>3, <1>4, <1>5, <1>6

\* Where a subscriber may get to: a change it watches, further on in the history.
LEMMA WatchReaches ==
  ASSUME Typed, OneHistory, HeardOK, NEW w \in Watchers,
         Subscribe(w) \/ Reseed(w) \/ Deliver(w) \/ Unsubscribe(w)
  PROVE  /\ cursor' = [cursor EXCEPT ![w] = cursor'[w]]
         /\ cursor'[w] = cursor[w] \/ cursor'[w] \in (cursor[w] + 1)..Len(log)
         /\ \A x \in Watchers : Heard(pending'[x], Len(log))
         /\ UNCHANGED <<phase, mem, primary, backup, lines, events, log>>
  <1>1. /\ cursor \in [Watchers -> Nat] /\ pending \in [Watchers -> Seq(Events)]
        /\ log \in Seq(Events) /\ mem \in States /\ Len(log) \in Nat
    BY DEF Typed, TypeOK
  <1>2. UNCHANGED <<phase, mem, primary, backup, lines, events, log>>
    BY DEF Subscribe, Reseed, Deliver, Unsubscribe, memory, write, disk
  <1>3. \A x \in Watchers : cursor[x] <= Len(log) /\ Heard(pending[x], Len(log))
    BY DEF HeardOK
  <1>4. ASSUME NEW e \in Seq(Events), Receive(w, e), Heard(e, Len(log)),
               \A i \in DOMAIN e : e[i].sequence > cursor[w]
        PROVE  /\ cursor' = [cursor EXCEPT ![w] = cursor'[w]]
               /\ cursor'[w] = cursor[w] \/ cursor'[w] \in (cursor[w] + 1)..Len(log)
    <2>1. CASE e = << >>
      BY <1>1, <1>4, <2>1 DEF Receive
    <2>2. CASE e # << >>
      <3>1. Len(e) \in DOMAIN e /\ Last(e) = e[Len(e)]
        BY <2>2 DEF Last
      <3>2. /\ Last(e).sequence > cursor[w] /\ Last(e).sequence <= Len(log)
            /\ Last(e).sequence \in Nat
        BY <1>4, <3>1, ElementType, EventFields DEF Heard
      <3>3. cursor' = [cursor EXCEPT ![w] = Last(e).sequence]
        BY <1>4, <2>2 DEF Receive
      <3>4. QED
        BY <1>1, <3>2, <3>3
    <2>3. QED
      BY <2>1, <2>2
  <1>5. CASE Subscribe(w)
    <2> DEFINE e == ChangesSince(mem, cursor[w], Scope[w], ReplayLimit)
    <2>1. /\ e \in Seq(Events)
          /\ \A n \in DOMAIN e : \E i \in DOMAIN mem.changes :
               e[n] = mem.changes[i] /\ mem.changes[i].sequence > cursor[w]
      BY <1>1, ChangesSinceType
    <2>2. Receive(w, e) /\ pending' = pending /\ Up
      BY <1>5 DEF Subscribe
    <2> HIDE DEF e
    <2>3. \A i \in DOMAIN mem.changes : mem.changes[i].sequence <= Len(log)
      <3>1. mem.changes = Retained(log) /\ History(log)
        BY <2>2 DEF OneHistory, MemoryOK, Reflects, Remembers
      <3> DEFINE r == Retained(log)
                 q == Len(r)
      <3>2. /\ r \in Seq(Events) /\ q = IF Len(log) > Retention THEN Retention ELSE Len(log)
            /\ \A i \in 1..q : r[i] = log[Len(log) - q + i]
        BY <1>1, RetainedIs
      <3>3. DOMAIN r = 1..q /\ q \in 0..Len(log)
        BY <1>1, <3>2, RetentionAssumption
      <3> HIDE DEF r, q
      <3> SUFFICES ASSUME NEW i \in 1..q PROVE r[i].sequence <= Len(log)
        BY <3>1, <3>3 DEF r
      <3>4. Len(log) - q + i \in 1..Len(log) /\ r[i] = log[Len(log) - q + i]
        <4>1. \A N \in Nat : q \in 0..N => N - q + i \in 1..N
          BY <3>3
        <4>2. QED
          BY <1>1, <3>2, <3>3, <4>1
      <3>5. \A j \in 1..Len(log) : log[j].sequence = j
        BY <1>1, <3>1 DEF History, Numbered
      <3>6. QED
        BY <1>1, <3>4, <3>5
    <2>4. Heard(e, Len(log)) /\ \A i \in DOMAIN e : e[i].sequence > cursor[w]
      BY <2>1, <2>3 DEF Heard
    <2>5. QED
      BY <1>2, <1>3, <1>4, <2>1, <2>2, <2>4
  <1>6. CASE Reseed(w)
    <2>1. /\ Up /\ ~Resumable(mem, cursor[w]) /\ pending' = pending
          /\ cursor' = [cursor EXCEPT ![w] = mem.sequence]
      BY <1>6 DEF Reseed
    <2>2. mem.sequence = Len(log)
      BY <2>1 DEF OneHistory, MemoryOK, Reflects, Remembers
    <2>3. cursor'[w] = Len(log) /\ cursor[w] \in 0..Len(log)
      BY <1>1, <1>3, <2>1, <2>2
    <2>4. QED
      BY <1>1, <1>2, <1>3, <2>1, <2>3
  <1>7. CASE Deliver(w)
    <2> DEFINE e == pending[w][1]
    <2>1. /\ pending[w] # << >> /\ pending' = [pending EXCEPT ![w] = Tail(pending[w])]
          /\ \/ e.sequence > cursor[w] /\ Receive(w, <<e>>)
             \/ cursor' = cursor
      BY <1>7 DEF Deliver
    <2>2. pending[w] \in Seq(Events) /\ 1 \in DOMAIN pending[w]
      BY <1>1, <2>1
    <2>3. e \in Events /\ e.sequence <= Len(log)
      BY <1>3, <2>2 DEF Heard
    <2> HIDE DEF e
    <2>4. <<e>> \in Seq(Events) /\ DOMAIN <<e>> = {1} /\ <<e>>[1] = e
      BY <2>3
    <2>5. \A x \in Watchers : Heard(pending'[x], Len(log))
      <3>1. /\ \A i \in DOMAIN Tail(pending[w]) :
                 i + 1 \in DOMAIN pending[w] /\ Tail(pending[w])[i] = pending[w][i + 1]
        BY <2>1, <2>2
      <3>2. Heard(Tail(pending[w]), Len(log))
        BY <1>3, <3>1 DEF Heard
      <3>3. QED
        BY <1>1, <1>3, <2>1, <3>2
    <2>6. CASE cursor' = cursor
      BY <1>1, <1>2, <2>5, <2>6
    <2>7. CASE e.sequence > cursor[w] /\ Receive(w, <<e>>)
      <3>1. Heard(<<e>>, Len(log)) /\ \A i \in DOMAIN <<e>> : <<e>>[i].sequence > cursor[w]
        BY <2>3, <2>4, <2>7 DEF Heard
      <3>2. QED
        BY <1>2, <1>4, <2>4, <2>5, <2>7, <3>1
    <2>8. QED
      BY <2>1, <2>6, <2>7
  <1>8. CASE Unsubscribe(w)
    <2>1. cursor' = cursor /\ pending' = [pending EXCEPT ![w] = << >>]
      BY <1>8 DEF Unsubscribe
    <2>2. Heard(<< >>, Len(log))
      BY DEF Heard
    <2>3. QED
      BY <1>1, <1>2, <1>3, <2>1, <2>2
  <1>9. QED
    BY <1>5, <1>6, <1>7, <1>8
LEMMA ProposeSteps == ASSUME Request PROVE
  /\ UNCHANGED <<cursor, pending, log>>
  /\ phase' = "append" \/ (phase = "idle" /\ events' = events)
  BY DEF Request, Mutate, Transaction, ApplyReplicationChange, Propose, ReplaceState,
     Checkpoint, Close, Ready, write, streams

LEMMA HeardSteps ==
  ASSUME Typed, OneHistory, [Next]_vars
  PROVE  \/ Watch
         \/ Publish
         \/ /\ cursor' = cursor
            /\ pending' = pending \/ pending' = [w \in Watchers |-> << >>]
            /\ \/ phase' \in {"append", "sync"}
               \/ events' = << >>
               \/ phase \notin {"append", "sync"} /\ events' = events
               \/ SyncCommit
  <1>1. CASE Request
    BY <1>1, ProposeSteps
  <1>2. ASSUME NEW a \in Writers, WritePrimary(a) \/ WriteBackup(a) \/ Compact(a)
        PROVE  phase \notin {"append", "sync"} /\ events' = events /\ UNCHANGED <<cursor, pending>>
    <2>1. step[a] # "none"
      BY <1>2 DEF WritePrimary, WriteBackup, Compact
    <2>2. phase \in {"idle", "checkpoint", "replace", "create"}
      BY <2>1, CheckpointPlace
    <2>3. QED
      BY <1>2, <2>2 DEF WritePrimary, WriteBackup, Compact, write, streams
  <1>3. CASE WriteLine \/ SyncCommit \/ CreateBackup
    BY <1>3 DEF WriteLine, SyncCommit, CreateBackup, write, streams
  <1>4. CASE Continue
    BY <1>2, <1>3, <1>4 DEF Continue
  <1>5. ASSUME NEW a \in Writers, CheckpointFails(a)
        PROVE  phase \notin {"append", "sync"} /\ events' = events /\ UNCHANGED <<cursor, pending>>
    <2>1. phase \in {"idle", "checkpoint", "replace", "create"}
      BY <1>5, CheckpointPlace DEF CheckpointFails
    <2>2. QED
      BY <1>5, <2>1 DEF CheckpointFails, write, streams
  <1>6. CASE AppendFails \/ WriteTears \/ SyncFails
    BY <1>6 DEF AppendFails, WriteTears, SyncFails, Reject, streams
  <1>7. CASE CreateFails \/ Crash
    BY <1>7 DEF CreateFails, Crash, StopProcess
  <1>8. CASE CorruptPrimary
    BY <1>8 DEF CorruptPrimary, write, streams
  <1>9. CASE Fail
    BY <1>5, <1>6, <1>7, <1>8, <1>9 DEF Fail
  <1>10. CASE Open \/ CreateFile
    BY <1>10 DEF Open, CreateFile, write, streams
  <1>11. CASE Exit
    BY <1>11 DEF Exit, StopProcess
  <1>12. CASE UNCHANGED vars
    BY <1>12 DEF vars, write, streams
  <1>13. QED
    BY <1>1, <1>4, <1>9, <1>10, <1>11, <1>12 DEF Next

\* The events of a commit are numbered up to the end of the history it makes.
LEMMA CommitHeard ==
  ASSUME Typed, OneHistory, SyncCommit PROVE Heard(events', Len(log'))
  <1>1. /\ events' = events /\ log' = log \o events /\ History(log \o events)
        /\ log \in Seq(Events) /\ events \in Seq(Events)
    BY DEF SyncCommit, write, OneHistory, DraftOK, Typed, TypeOK
  <1> DEFINE G == log \o events
  <1>2. /\ G \in Seq(Events) /\ Len(G) = Len(log) + Len(events)
        /\ \A i \in 1..Len(events) : G[Len(log) + i] = events[i]
    BY <1>1, ConcatIs
  <1>3. \A n \in DOMAIN G : G[n].sequence = n
    BY <1>1 DEF History, Numbered
  <1> HIDE DEF G
  <1>4. DOMAIN events = 1..Len(events) /\ DOMAIN G = 1..Len(G)
        /\ Len(log) \in Nat /\ Len(events) \in Nat
    BY <1>1, <1>2
  <1>5. ASSUME NEW i \in 1..Len(events) PROVE events[i].sequence <= Len(G)
    <2> DEFINE n == Len(log) + i
    <2>1. n \in 1..Len(G) /\ n <= Len(G)
      BY <1>2, <1>4
    <2>2. G[n] = events[i]
      BY <1>2
    <2> HIDE DEF n
    <2>3. QED
      BY <1>3, <1>4, <2>1, <2>2
  <1>6. QED
    BY <1>1, <1>4, <1>5 DEF Heard, G

LEMMA NextHeard ==
  ASSUME Typed, Typed', OneHistory, Replacements = {}, HeardOK, [Next]_vars PROVE HeardOK'
  <1> DEFINE n == Len(log)
  <1>1. CASE Watch
    <2>1. PICK w \in Watchers : Subscribe(w) \/ Reseed(w) \/ Deliver(w) \/ Unsubscribe(w)
      BY <1>1 DEF Watch
    <2>2. /\ cursor' = [cursor EXCEPT ![w] = cursor'[w]]
          /\ cursor'[w] = cursor[w] \/ cursor'[w] \in (cursor[w] + 1)..n
          /\ \A x \in Watchers : Heard(pending'[x], n)
          /\ UNCHANGED <<phase, events, log>>
      BY <2>1, WatchReaches
    <2>3. cursor \in [Watchers -> Nat] /\ n \in Nat
      <3>1. cursor \in [Watchers -> Nat] /\ log \in Seq(Events)
        BY DEF Typed, TypeOK
      <3>2. QED
        BY <3>1
    <2>4. \A x \in Watchers : cursor[x] <= n
      BY DEF HeardOK
    <2>5. \A x \in Watchers : cursor'[x] <= n
      BY <2>2, <2>3, <2>4
    <2>6. QED
      BY <2>2, <2>5 DEF HeardOK
  <1>2. CASE ~Watch
    <2>1. log \in Seq(Events) /\ n \in Nat /\ Len(log') \in Nat /\ n <= Len(log')
      <3>1. PICK e : Grows(e)
        BY NextGrows
      <3>2. log \in Seq(Events) /\ e \in Seq(Events) /\ log' = log \o e
        BY <3>1 DEF Grows, Typed, TypeOK
      <3>3. Len(log \o e) = Len(log) + Len(e) /\ Len(log) \in Nat /\ Len(e) \in Nat
        BY <3>2
      <3>4. QED
        BY <3>2, <3>3
    <2>2. /\ events \in Seq(Events) /\ pending \in [Watchers -> Seq(Events)]
          /\ \A L : Heard(<< >>, L)
      BY DEF Typed, TypeOK, Heard
    <2>3. CASE Publish
      <3>1. /\ log' = log /\ events' = << >> /\ cursor' = cursor /\ phase = "publish"
            /\ pending' = [w \in Watchers |-> IF attached[w] THEN pending[w] \o events ELSE pending[w]]
        BY <2>3 DEF Publish
      <3>2. Heard(events, n) /\ \A w \in Watchers : cursor[w] <= n /\ Heard(pending[w], n)
        BY <3>1 DEF HeardOK
      <3>3. \A w \in Watchers : Heard(pending[w] \o events, n)
        BY <2>2, <3>2, HeardParts
      <3>4. QED
        BY <2>2, <3>1, <3>2, <3>3 DEF HeardOK
    <2>4. CASE ~Publish
      <3>1. \A w \in Watchers : cursor[w] <= Len(log') /\ Heard(pending[w], Len(log'))
        BY HeardGrows
      <3>2. \A w \in Watchers : cursor'[w] <= Len(log') /\ Heard(pending'[w], Len(log'))
        BY <1>2, <2>2, <2>4, <3>1, HeardSteps
      <3>3. phase' \notin {"append", "sync"} => Heard(events', Len(log'))
        <4>1. CASE SyncCommit
          BY <4>1, CommitHeard
        <4>2. CASE events' = << >>
          BY <2>2, <4>2
        <4>3. CASE phase \notin {"append", "sync"} /\ events' = events
          BY <2>1, <2>2, <4>3, HeardMore DEF HeardOK
        <4>4. QED
          BY <1>2, <2>4, <4>1, <4>2, <4>3, HeardSteps
      <3>4. QED
        BY <3>2, <3>3 DEF HeardOK
    <2>5. QED
      BY <2>3, <2>4
  <1>3. QED
    BY <1>1, <1>2

LEMMA InitReach == Init => ReachOK /\ HeardOK
  <1> SUFFICES ASSUME Init PROVE ReachOK /\ HeardOK
    OBVIOUS
  <1>1. /\ primary = Absent /\ lines = << >> /\ log = << >> /\ events = << >> /\ ~torn
        /\ cursor = [w \in Watchers |-> 0] /\ pending = [w \in Watchers |-> << >>]
    BY DEF Init
  <1>2. << >> \in Seq(Entries) /\ DOMAIN << >> = {} /\ Len(<< >>) = 0
    OBVIOUS
  <1>3. ReachOK
    BY <1>1, <1>2, EngineAssumption DEF ReachOK
  <1>4. HeardOK
    BY <1>1, <1>2 DEF HeardOK, Heard
  <1>5. QED
    BY <1>3, <1>4

\* No subscriber hears of an event that a crash could take back: what its cursor
\* has passed is in the primary checkpoint or in a synced line of the log
\* (#commitDraft publishes after the append; watchChanges).
THEOREM ObservedSurvives == ASSUME ReachSettings PROVE Spec => []ObservedIsDurable
  <1> DEFINE Inv == Typed /\ OneHistory /\ ReachOK /\ HeardOK
  <1>1. Init => Inv
    BY InitTyped, InitHistory, InitReach
  <1>2. Inv /\ [Next]_vars => Inv'
    BY NextTyped, NextHistory, NextReach, NextHeard DEF ReachSettings
  <1>3. Inv => ObservedIsDurable
    <2> SUFFICES ASSUME Inv, primary \in States, NEW w \in Watchers
                 PROVE  cursor[w] <= Max({primary.sequence} \cup
                                       {l.resultSequence : l \in ToSet(SyncedLines) \ {BadLine}})
      BY DEF ObservedIsDurable
    <2> DEFINE S == {primary.sequence} \cup
                    {l.resultSequence : l \in ToSet(SyncedLines) \ {BadLine}}
    <2>1. PICK n \in Nat : \A i \in DOMAIN lines : lines[i].resultSequence <= n
      BY DEF ReachOK
    <2>2. /\ SyncedLines \in Seq(Entries)
          /\ \A i \in DOMAIN SyncedLines : i \in DOMAIN lines /\ SyncedLines[i] = lines[i]
      <3>1. CASE phase = "sync"
        BY <3>1, SyncReach DEF SyncedLines
      <3>2. CASE phase # "sync"
        BY <3>2 DEF SyncedLines, ReachOK
      <3>3. QED
        BY <3>1, <3>2
    <2>3. ToSet(SyncedLines) \ {BadLine} = {SyncedLines[i] : i \in DOMAIN SyncedLines}
      BY <2>2, EngineAssumption DEF ToSet
    <2>4. S = {primary.sequence} \cup {SyncedLines[i].resultSequence : i \in DOMAIN SyncedLines}
      BY <2>3
    <2>5. primary.sequence \in Nat /\ Reached(Len(log))
          /\ cursor[w] <= Len(log) /\ cursor[w] \in Nat /\ Len(log) \in Nat
      BY StateFields DEF ReachOK, HeardOK, Typed, TypeOK
    <2>6. \A i \in DOMAIN SyncedLines :
            SyncedLines[i].resultSequence \in Nat /\ SyncedLines[i].resultSequence <= n
      BY <2>1, <2>2, ElementType, EntryFields
    <2> DEFINE N == n + primary.sequence
    <2>7. N \in Nat /\ S \in SUBSET (0..N) /\ S # {} /\ \A y \in S : y \in Nat
      <3>1. N \in Nat /\ primary.sequence \in 0..N
        BY <2>5
      <3>2. \A i \in DOMAIN SyncedLines : SyncedLines[i].resultSequence \in 0..N
        BY <2>5, <2>6
      <3> HIDE DEF N
      <3>3. \A y \in S : y \in 0..N
        BY <2>4, <3>1, <3>2
      <3>4. primary.sequence \in S
        OBVIOUS
      <3> HIDE DEF S
      <3>5. QED
        BY <3>1, <3>3, <3>4
    <2>8. PICK x \in S : x >= Len(log)
      BY <2>4, <2>5 DEF Reached
    <2> HIDE DEF S, N
    <2>9. Max(S) \in S /\ \A y \in S : y <= Max(S)
      BY <2>7, MaxIsIn
    <2>10. Max(S) \in Nat /\ x \in Nat /\ x <= Max(S)
      BY <2>7, <2>8, <2>9
    <2>11. cursor[w] <= Max(S)
      BY <2>5, <2>8, <2>10
    <2>12. QED
      BY <2>11 DEF S
  <1> HIDE DEF Inv
  <1>4. QED
    BY <1>1, <1>2, <1>3, PTL DEF Spec
-----------------------------------------------------------------------------
\* The engine as a store that changes by commits.

StoreSettings ==
  CleanSettings /\ Replacements = {} /\ "current" \notin Resolvers

\* The history that is certain: what recovery would find included.
Whole == IF Up THEN log ELSE log \o Unheard(lines, log)

\* While the engine is down, the store is what open() would recover.
LEMMA VisibleDown ==
  ASSUME Typed, ~Up, NEW s \in States, Recoverable(s, lines),
         s = primary \/ (primary = Unreadable /\ s = backup)
  PROVE  Visible = Recovered(s, lines)
  <1> DEFINE after == ListAfter(lines, s.sequence)
             recovered == [new \in Seq(Events) |-> ReplayEvents(s, new)]
  <1>1. lines \in Seq(Entries \cup {BadLine}) /\ s.sequence \in Nat
    BY StateFields DEF Typed, TypeOK
  <1>2. lines \in Seq(Entries) /\ Contiguous(lines) /\ ReadableWal(lines)
    BY <1>1, ReadableType DEF Recoverable
  <1>3. EventsOf(after) \in Seq(Events)
    <2>1. after \in Seq(Entries) /\ Contiguous(after)
      BY <1>1, <1>2, ListAfterSuffix, SuffixContiguous
    <2>2. \A i \in DOMAIN after :
            after[i].resultSequence = after[i].baseSequence + Len(after[i].events)
      BY DEF Recoverable, CanReplay
    <2> HIDE DEF after
    <2>3. QED
      BY <2>1, <2>2, EventsOfType
  <1>4. Visible = recovered[EventsOf(after)]
    BY EngineAssumption DEF Visible
  <1> HIDE DEF after
  <1>5. recovered[EventsOf(after)] = ReplayEvents(s, EventsOf(after))
    BY <1>3
  <1>6. QED
    BY <1>4, <1>5 DEF Recovered, ReplayWal, after

LEMMA VisibleIs ==
  ASSUME Typed, OneHistory, CleanOK, StoreSettings
  PROVE  /\ Whole \in Seq(Events) /\ Len(log) <= Len(Whole)
         /\ Visible.docs = ApplyEvents(Blank, Whole) /\ Visible.sequence = Len(Whole)
  <1>1. log \in Seq(Events) /\ lines \in Seq(Entries \cup {BadLine}) /\ Len(log) \in Nat
    BY DEF Typed, TypeOK
  <1>2. \A s, L : Reflects(s, L) => s.docs = ApplyEvents(Blank, L) /\ s.sequence = Len(L)
    BY DEF StoreSettings, Reflects, Remembers
  <1>3. CASE Up
    <2>1. Visible = mem /\ Whole = log /\ Reflects(mem, log)
      BY <1>3 DEF Visible, Whole, OneHistory, MemoryOK
    <2>2. QED
      BY <1>1, <1>2, <2>1
  <1>4. CASE ~Up
    <2>1. ReadableWal(lines) /\ Holds(lines, log, primary, backup)
      BY <1>4 DEF Up, CleanOK, OneHistory, DiskOK, SyncedLines
    <2>2. Whole = log \o Unheard(lines, log) /\ Unheard(lines, log) \in Seq(Events)
      BY <1>1, <1>4, <2>1, ReadableType, UnheardType DEF Whole
    <2>3. Whole \in Seq(Events) /\ Len(log) <= Len(Whole)
      <3> DEFINE u == Unheard(lines, log)
      <3>1. u \in Seq(Events)
        BY <2>2
      <3> HIDE DEF u
      <3>2. log \o u \in Seq(Events) /\ Len(log \o u) = Len(log) + Len(u) /\ Len(u) \in Nat
        BY <1>1, <3>1, ConcatIs
      <3>3. QED
        BY <1>1, <2>2, <3>2 DEF u
    <2>4. ASSUME NEW s \in States, s = primary \/ s = backup
          PROVE  Recoverable(s, lines) /\ Reflects(Recovered(s, lines), Whole)
      BY <1>1, <2>1, <2>2, <2>4, RecoveredHistory
    <2>5. CASE primary \in States
      <3>1. Visible = Recovered(primary, lines)
        BY <1>4, <2>5, <2>4, EngineAssumption, VisibleDown
      <3>2. QED
        BY <1>2, <2>3, <2>4, <2>5, <3>1
    <2>6. CASE primary = Unreadable
      <3>1. Visible = Recovered(backup, lines) /\ backup \in States
        BY <1>4, <2>6, <2>4, EngineAssumption, VisibleDown DEF Typed
      <3>2. QED
        BY <1>2, <2>3, <2>4, <3>1
    <2>7. CASE primary = Absent
      <3>1. Visible = Fresh(Self)
        BY <1>4, <2>7, EngineAssumption DEF Visible
      <3>2. log = << >> /\ lines = << >>
        BY <2>7 DEF OneHistory, FreshOK
      <3>3. Whole = << >>
        BY <2>2, <3>2, EmptyReadable
      <3>4. QED
        BY <1>2, <2>3, <3>1, <3>3, FreshHistory
    <2>8. QED
      BY <2>5, <2>6, <2>7 DEF Typed, TypeOK
  <1>5. QED
    BY <1>3, <1>4

LEMMA WholeStays ==
  ASSUME log' = log, (Up /\ Up') \/ (~Up /\ ~Up' /\ lines' = lines)
  PROVE  Whole' = Whole
  BY DEF Whole

\* The process stops: a line that is whole on disk is a commit.
LEMMA StopWhole ==
  ASSUME Typed, OneHistory, CleanOK, phase # "replace", Exit \/ Crash \/ CreateFails
  PROVE  \/ Whole' = Whole
         \/ phase = "sync" /\ Whole' = log \o events
  <1>1. phase' = "down" /\ log' = log /\ ~Up' /\ log \in Seq(Events)
    BY DEF Exit, Crash, CreateFails, StopProcess, Up, Typed, TypeOK
  <1>2. log \o << >> = log /\ Whole' = log \o Unheard(lines', log)
    BY <1>1, ConcatEmpty DEF Whole
  <1>3. CASE phase = "sync"
    <2>1. lines' = lines \/ lines' = Front(lines)
      BY <1>3 DEF Exit, Crash, CreateFails, Unsynced
    <2>2. Unheard(lines, log) = events /\ Unheard(Front(lines), log) = << >>
      BY <1>3, KeptReadable DEF CleanOK, SyncedLines, Up
    <2>3. QED
      BY <1>2, <1>3, <2>1, <2>2 DEF Whole, Up
  <1>4. CASE phase # "sync"
    <2>1. lines' = lines
      BY <1>4 DEF Exit, Crash, CreateFails
    <2>2. Up => Unheard(lines, log) = << >>
      BY <1>4 DEF CleanOK, SyncedLines
    <2>3. QED
      BY <1>2, <2>1, <2>2 DEF Whole
  <1>5. QED
    BY <1>3, <1>4

LEMMA WholeSteps ==
  ASSUME Typed, OneHistory, CleanOK, StoreSettings, [Next]_vars
  PROVE  \/ Whole' = Whole
         \/ phase = "sync" /\ Whole = log /\ Whole' = log \o events /\ cursor' = cursor
  <1>1. phase # "replace"
    BY NoReplacement DEF StoreSettings
  <1>2. CASE Request
    <2>1. Up /\ Up' /\ log' = log
      BY <1>2 DEF Request, Mutate, Transaction, ApplyReplicationChange, Propose, ReplaceState,
         Checkpoint, Close, Ready, Up
    <2>2. QED
      BY <2>1, WholeStays
  <1>3. CASE SyncCommit
    <2>1. Up /\ Up' /\ log' = log \o events /\ phase = "sync" /\ cursor' = cursor
      BY <1>3 DEF SyncCommit, Up, streams
    <2>2. QED
      BY <2>1 DEF Whole
  <1>4. CASE WriteLine \/ Publish \/ AppendFails \/ WriteTears \/ SyncFails
    <2>1. Up /\ Up' /\ log' = log
      BY <1>4 DEF WriteLine, Publish, AppendFails, WriteTears, SyncFails, Reject, Up
    <2>2. QED
      BY <2>1, WholeStays
  <1>5. ASSUME NEW a \in Writers, WritePrimary(a) PROVE Whole' = Whole
    BY <1>5, WholeStays DEF WritePrimary, Up
  <1>6. ASSUME NEW a \in Writers, WriteBackup(a) \/ Compact(a) \/ CheckpointFails(a)
        PROVE  Whole' = Whole
    <2>1. step[a] # "none" /\ log' = log
      BY <1>1, <1>6 DEF WriteBackup, Compact, CheckpointFails
    <2>2. /\ phase \in {"idle", "checkpoint", "create"} /\ (phase = "idle" <=> a = "closer")
          /\ phase # "create"
      <3>1. phase # "create" \/ step["writer"] # "compact"
        BY DEF OneHistory, FreshOK
      <3>2. phase = "create" => a = "writer"
        BY <2>1, CheckpointPlace DEF Writers
      <3>3. QED
        BY <1>1, <1>6, <2>1, <3>1, <3>2, CheckpointPlace
        DEF WriteBackup, Compact, CheckpointFails
    <2>3. phase' = phase \/ phase' \in {"idle", "publish"}
      BY <1>6 DEF WriteBackup, Compact, CheckpointFails, Finish
    <2>4. QED
      BY <2>1, <2>2, <2>3, WholeStays DEF Up
  <1>7. CASE CreateBackup
    <2>1. lines = << >> /\ log = << >> /\ lines' = lines /\ log' = << >>
      BY <1>7, CreateGrows
    <2>2. << >> \o Unheard(<< >>, << >>) = << >>
      BY EmptyReadable
    <2>3. QED
      BY <2>1, <2>2 DEF Whole
  <1>8. CASE Exit \/ Crash \/ CreateFails
    <2>1. cursor' = cursor
      BY <1>8 DEF Exit, Crash, CreateFails, StopProcess
    <2>2. phase = "sync" => Whole = log
      BY DEF Whole, Up
    <2>3. QED
      BY <1>1, <1>8, <2>1, <2>2, StopWhole
  <1>9. CASE CorruptPrimary \/ CreateFile \/ Watch \/ UNCHANGED vars
    <2>1. /\ log' = log /\ lines' = lines
          /\ phase' = phase \/ (phase = "down" /\ phase' = "create")
      BY <1>9 DEF CorruptPrimary, CreateFile, Watch, Subscribe, Reseed, Deliver, Unsubscribe,
         disk, vars
    <2>2. QED
      BY <2>1, WholeStays DEF Up
  <1>10. CASE Open
    <2>1. ReadableWal(lines)
      BY <1>10 DEF Open, CleanOK, SyncedLines
    <2>2. ~Up /\ phase' = "idle" /\ log' = log \o Unheard(lines, log)
      BY <1>10, <2>1, OpenGrows
    <2>3. QED
      BY <2>2 DEF Whole, Up
  <1>11. QED
    BY <1>2, <1>3, <1>4, <1>5, <1>6, <1>7, <1>8, <1>9, <1>10 DEF Next, Continue, Fail

\* A commit changes at most as many keys as it has events.
LEMMA ChangedKeys ==
  ASSUME NEW docs \in [Keys -> Records], NEW e \in Seq(Events)
  PROVE  Cardinality({k \in Keys : ApplyEvents(docs, e)[k] # docs[k]}) <= Len(e)
  <1> DEFINE n == Len(e)
             T == {e[i].key : i \in 1..n}
             D == {k \in Keys : ApplyEvents(docs, e)[k] # docs[k]}
             f == [i \in 1..n |-> e[i].key]
  <1>1. n \in Nat /\ DOMAIN e = 1..n
    OBVIOUS
  <1>2. D \in SUBSET T
    <2> SUFFICES ASSUME NEW k \in D, k \notin T PROVE FALSE
      OBVIOUS
    <2>1. {i \in DOMAIN e : e[i].key = k} = {}
      BY <1>1
    <2>2. ApplyEvents(docs, e)[k] = docs[k]
      BY <2>1 DEF ApplyEvents
    <2>3. QED
      BY <2>2
  <1>3. f \in Surjection(1..n, T)
    BY DEF Surjection
  <1> HIDE DEF T, f, D, n
  <1>4. IsFiniteSet(1..n) /\ Cardinality(1..n) = n
    <2>1. IsFiniteSet(1..n) /\ Cardinality(1..n) = IF 1 > n THEN 0 ELSE n - 1 + 1
      BY <1>1, FS_Interval
    <2>2. QED
      BY <1>1, <2>1
  <1>5. IsFiniteSet(T) /\ Cardinality(T) <= n
    BY <1>3, <1>4, FS_Surjection
  <1>6. Cardinality(D) <= Cardinality(T) /\ IsFiniteSet(D)
    BY <1>2, <1>5, FS_Subset
  <1>7. Cardinality(D) \in Nat /\ Cardinality(T) \in Nat
    BY <1>5, <1>6, FS_CardinalityType
  <1>8. QED
    BY <1>1, <1>5, <1>6, <1>7 DEF D, n

\* A write is asked for when its draft is made, and keeps its draft until it is over.
LEMMA AskedSteps ==
  ASSUME Typed, OneHistory, StoreSettings, [Next]_vars
  PROVE  \/ phase \notin {"append", "sync"} /\ phase' \notin {"append", "sync"}
         \/ phase \in {"append", "sync"} /\ phase' \in {"append", "sync"} /\ draft' = draft
         \/ phase \in {"append", "sync"} /\ phase' \notin {"append", "sync"}
         \/ phase = "idle" /\ phase' = "append" /\ log' = log /\ cursor' = cursor
  <1>1. CASE Request
    BY <1>1 DEF Request, Mutate, Transaction, ApplyReplicationChange, Propose, ReplaceState,
       Checkpoint, Close, Ready, write, streams
  <1>2. ASSUME NEW a \in Writers,
               WritePrimary(a) \/ WriteBackup(a) \/ Compact(a) \/ CheckpointFails(a)
        PROVE  phase \notin {"append", "sync"} /\ phase' \notin {"append", "sync"}
    <2>1. step[a] # "none"
      BY <1>2 DEF WritePrimary, WriteBackup, Compact, CheckpointFails
    <2>2. phase \in {"idle", "checkpoint", "replace", "create"}
      BY <2>1, CheckpointPlace
    <2>3. QED
      BY <1>2, <2>2 DEF WritePrimary, WriteBackup, Compact, CheckpointFails, Finish
  <1>3. CASE WriteLine \/ SyncCommit \/ Publish \/ CreateBackup
    BY <1>3 DEF WriteLine, SyncCommit, Publish, CreateBackup, Load, write
  <1>4. CASE AppendFails \/ WriteTears \/ SyncFails \/ CreateFails \/ Crash \/ Exit
    BY <1>4 DEF AppendFails, WriteTears, SyncFails, Reject, CreateFails, Crash, Exit, StopProcess
  <1>5. CASE CorruptPrimary \/ Open \/ CreateFile
    BY <1>5 DEF CorruptPrimary, Open, Load, CreateFile
  <1>6. CASE Watch
    BY <1>6 DEF Watch, Subscribe, Reseed, Deliver, Unsubscribe, write
  <1>7. CASE UNCHANGED vars
    BY <1>7 DEF vars, write
  <1>8. QED
    BY <1>1, <1>2, <1>3, <1>4, <1>5, <1>6, <1>7 DEF Next, Continue, Fail

\* A write that goes on has not committed.
LEMMA WholeQuiet ==
  ASSUME Typed, OneHistory, StoreSettings, [Next]_vars,
         phase \in {"append", "sync"}, phase' \in {"append", "sync"}
  PROVE  Whole' = Whole
  <1>1. Up /\ Up'
    BY DEF Up
  <1>2. ~SyncCommit /\ ~Open /\ ~CreateBackup
    BY DEF SyncCommit, Open, CreateBackup
  <1>3. log' = log
    BY <1>2, LogSteps DEF StoreSettings
  <1>4. QED
    BY <1>1, <1>3, WholeStays

\* The engine implements DurableStore: a write is asked for and then commits whole
\* or is refused without effect, an observer catches up with what is committed, and
\* every other step - crashes, recovery, checkpoints, compaction - is nothing at all;
\* a crash commits the write whose line it leaves whole in the file.
THEOREM ImplementsStore ==
  ASSUME StoreSettings PROVE Spec => ImplementsDurableStore
  <1> DEFINE Inv == Typed /\ OneHistory /\ CleanOK /\ HeardOK
             See == /\ Whole \in Seq(Events) /\ Len(log) <= Len(Whole)
                    /\ Visible.docs = ApplyEvents(Blank, Whole) /\ Visible.sequence = Len(Whole)
  <1>1. Init => Inv
    BY InitTyped, InitHistory, InitClean, InitReach
  <1>2. Inv /\ [Next]_vars => Inv'
    BY NextTyped, NextHistory, NextClean, NextHeard DEF StoreSettings, CleanSettings
  <1>3. Inv => See
    BY VisibleIs
  <1>4. Inv' => See'
    BY <1>3, PTL
  <1>5. Init => Store!Init
    <2> SUFFICES ASSUME Init PROVE Store!Init
      OBVIOUS
    <2>1. Visible = Fresh(Self) /\ Asked = {}
      BY EngineAssumption DEF Init, Up, Visible, Asked
    <2>2. QED
      BY <2>1 DEF Init, Store!Init, Fresh
  <1>6. Inv /\ Inv' /\ [Next]_vars => [Store!Next]_(Store!vars)
    <2> SUFFICES ASSUME Inv, Inv', [Next]_vars PROVE [Store!Next]_(Store!vars)
      OBVIOUS
    <2>1. See /\ See'
      BY <1>3, <1>4
    <2>2. Typed /\ OneHistory /\ CleanOK /\ HeardOK /\ OneHistory' /\ Typed'
      OBVIOUS
    <2> HIDE DEF Inv
    <2>3. /\ Asked = IF phase \in {"append", "sync"} THEN {Stored(draft)} ELSE {}
          /\ Asked' = IF phase' \in {"append", "sync"} THEN {Stored(draft')} ELSE {}
      <3>1. phase # "replace" /\ phase' # "replace"
        BY <2>2, NoReplacement DEF StoreSettings, OneHistory, ReplaceOK
      <3>2. QED
        BY <3>1 DEF Asked, Stored
    <2>4. cursor \in [Watchers -> Nat] /\ Len(log) \in Nat /\ Len(Whole) \in Nat
      BY <2>1, <2>2 DEF Typed, TypeOK
    <2>5. Whole' = Whole => UNCHANGED <<Visible.docs, Visible.sequence>>
      BY <2>1
    <2>6. ASSUME NEW w \in Watchers, Subscribe(w) \/ Reseed(w) \/ Deliver(w) \/ Unsubscribe(w)
          PROVE  [Store!Next]_(Store!vars)
      <3>1. /\ cursor' = [cursor EXCEPT ![w] = cursor'[w]]
            /\ cursor'[w] = cursor[w] \/ cursor'[w] \in (cursor[w] + 1)..Len(log)
            /\ UNCHANGED <<phase, lines, log>>
        BY <2>2, <2>6, WatchReaches
      <3>2. draft' = draft
        BY <2>6 DEF Subscribe, Reseed, Deliver, Unsubscribe, write
      <3>3. Whole' = Whole /\ Asked' = Asked
        BY <2>3, <3>1, <3>2 DEF Whole, Up
      <3>4. CASE cursor'[w] = cursor[w]
        <4>1. cursor' = cursor
          BY <2>4, <3>1, <3>4
        <4>2. QED
          BY <2>5, <3>3, <4>1 DEF Store!vars
      <3>5. CASE cursor'[w] \in (cursor[w] + 1)..Len(log)
        <4>1. cursor'[w] \in (cursor[w] + 1)..Visible.sequence
          BY <2>1, <2>4, <3>5
        <4>2. Store!Observe(w)
          BY <2>5, <3>1, <3>3, <4>1 DEF Store!Observe
        <4>3. QED
          BY <4>2 DEF Store!Next
      <3>6. QED
        BY <3>1, <3>4, <3>5
    <2>7. CASE ~Watch
      <3>1. cursor' = cursor
        BY <2>2, <2>7, HeardSteps DEF Publish
      <3>2. CASE Whole' = Whole /\ Asked' = Asked
        BY <2>5, <3>1, <3>2 DEF Store!vars
      <3>3. CASE phase = "idle" /\ phase' = "append" /\ log' = log
        <4>1. Whole' = Whole /\ Whole = log
          BY <3>3 DEF Whole, Up
        <4>2. Asked = {} /\ Asked' = {Stored(draft')}
          BY <2>3, <3>3
        <4> DEFINE docs == ApplyEvents(Blank, log)
                   e == events'
        <4>3. Blank \in [Keys -> Records] /\ log \in Seq(Events) /\ e \in Seq(Events)
          BY <2>2 DEF Blank, Records, Typed, TypeOK
        <4>4. /\ e # << >> /\ Len(e) \in Nat \ {0} /\ Len(log \o e) = Len(log) + Len(e)
              /\ draft'.docs = ApplyEvents(Blank, log \o e)
              /\ draft'.sequence = Len(log \o e)
          <5>1. e # << >> /\ Reflects(draft', log \o e)
            BY <2>2, <3>3 DEF OneHistory, DraftOK, Reflects, Remembers
          <5>2. Len(e) \in Nat \ {0} /\ Len(log \o e) = Len(log) + Len(e)
            BY <4>3, <5>1, EmptyIs, ConcatIs
          <5>3. QED
            BY <5>1, <5>2 DEF Reflects, Remembers, StoreSettings
        <4>5. docs \in [Keys -> Records] /\ draft'.docs = ApplyEvents(docs, e)
          BY <4>3, <4>4, ApplyEventsType, ApplyParts
        <4>6. /\ ApplyEvents(docs, e) \in [Keys -> Records]
              /\ Cardinality({k \in Keys : ApplyEvents(docs, e)[k] # docs[k]}) <= Len(e)
          BY <4>3, <4>5, ApplyEventsType, ChangedKeys
        <4>7. Visible.docs = docs /\ Visible.sequence = Len(log)
          BY <2>1, <4>1
        <4> HIDE DEF docs, e
        <4> DEFINE r == Stored(draft')
        <4>8. r.docs = ApplyEvents(docs, e) /\ r.sequence = Len(log) + Len(e)
          BY <4>4, <4>5 DEF Stored
        <4>9. Store!Writes(r)
          <5>1. ASSUME NEW S PROVE Store!Cardinality(S) = Cardinality(S)
            BY DEF Store!Cardinality, Cardinality
          <5>2. r.sequence > Visible.sequence /\ r.sequence - Visible.sequence = Len(e)
            BY <2>4, <4>4, <4>7, <4>8
          <5> HIDE DEF r
          <5>3. Cardinality({k \in Keys : r.docs[k] # Visible.docs[k]})
                  <= r.sequence - Visible.sequence
            BY <4>6, <4>7, <4>8, <5>2
          <5>4. r.docs \in [Keys -> Records]
            BY <4>6, <4>8
          <5>5. QED
            BY <5>1, <5>2, <5>3, <5>4 DEF Store!Writes
        <4>10. Store!Ask
          BY <2>5, <3>1, <4>1, <4>2, <4>9 DEF Store!Ask
        <4>11. QED
          BY <4>10 DEF Store!Next
      <3>4. CASE phase \in {"append", "sync"} /\ phase' \notin {"append", "sync"} /\ Whole' = Whole
        <4>1. Asked = {Stored(draft)} /\ Asked' = {}
          BY <2>3, <3>4
        <4>2. Store!Refuse
          BY <2>5, <3>1, <3>4, <4>1 DEF Store!Refuse
        <4>3. QED
          BY <4>2 DEF Store!Next
      <3>5. CASE /\ phase = "sync" /\ phase' \notin {"append", "sync"}
                 /\ Whole' = log \o events
        <4>1. Asked = {Stored(draft)} /\ Asked' = {}
          BY <2>3, <3>5
        <4>2. /\ draft.docs = ApplyEvents(Blank, log \o events)
              /\ draft.sequence = Len(log \o events)
          BY <2>2, <3>5 DEF OneHistory, DraftOK, Reflects, Remembers, StoreSettings
        <4>3. Stored(draft) = [docs |-> Visible.docs', sequence |-> Visible.sequence']
          BY <2>1, <3>5, <4>2 DEF Stored
        <4>4. Store!Commit
          BY <3>1, <4>1, <4>3 DEF Store!Commit
        <4>5. QED
          BY <4>4 DEF Store!Next
      <3>6. Whole' = Whole \/ (phase = "sync" /\ Whole' = log \o events)
        BY <2>2, WholeSteps
      <3>7. CASE phase \in {"append", "sync"} /\ phase' \in {"append", "sync"} /\ draft' = draft
        <4>1. Asked' = Asked
          BY <2>3, <3>7
        <4>2. Whole' = Whole
          BY <2>2, <3>7, WholeQuiet
        <4>3. QED
          BY <3>2, <4>1, <4>2
      <3>8. CASE phase \notin {"append", "sync"} /\ phase' \notin {"append", "sync"}
        BY <2>3, <3>2, <3>6, <3>8
      <3>9. QED
        BY <2>2, <3>3, <3>4, <3>5, <3>6, <3>7, <3>8, AskedSteps
    <2>8. QED
      BY <2>6, <2>7 DEF Watch
  <1> HIDE DEF Inv
  <1>7. QED
    BY <1>1, <1>2, <1>5, <1>6, PTL DEF Spec, ImplementsDurableStore, Store!Spec

-----------------------------------------------------------------------------
\* Change streams.  What is queued for a subscriber is the end of what has been
\* published, and before that it has been given everything it watches.

StreamSettings == Settings /\ Replacements = {} /\ ReplayLimit >= Retention

\* How much of the history the listeners have been told of.
Published ==
  IF phase \in {"append", "sync"} THEN Len(log) ELSE Len(log) - Len(events)

\* e is the part of L that ends at n.
EndsAt(e, L, n) == Len(e) <= n /\ \A i \in 1..Len(e) : e[i] = L[n - Len(e) + i]

\* A commit is in the history before its events are published; at rest there
\* are none, and nobody listens to a process that is not up.
EventsOK ==
  /\ phase \notin {"append", "sync"} => EndsAt(events, log, Len(log))
  /\ phase = "idle" \/ ~Up => events = << >>
  /\ ~Up => \A w \in Watchers : ~attached[w]

\* The events of L in a scope after o, up to c.
Within(L, o, c, scope) == {n \in (o + 1)..c : L[n].key \in scope}

\* r is what a subscriber from o to c is to be given of L.
Given(r, L, o, c, scope) == o <= c /\ c <= Len(L) /\ r = Pick(L, Within(L, o, c, scope))

\* What comes after c, up to n, is in the queue p, or not in the scope.
Queued(p, L, c, n, scope) ==
  EndsAt(p, L, n) /\ \A m \in (c + 1)..(n - Len(p)) : L[m].key \notin scope

StreamOK ==
  /\ EventsOK
  /\ \A w \in Watchers :
       /\ Given(received[w], log, origin[w], cursor[w], Scope[w])
       /\ IF attached[w] THEN Queued(pending[w], log, cursor[w], Published, Scope[w])
                         ELSE pending[w] = << >>

LEMMA EndsAtGrows ==
  ASSUME NEW L \in Seq(Events), NEW x \in Seq(Events), NEW e \in Seq(Events), NEW n \in 0..Len(L),
         EndsAt(e, L, n)
  PROVE  EndsAt(e, L \o x, n)
  <1> DEFINE G == L \o x
  <1>1. \A i \in 1..Len(L) : G[i] = L[i]
    BY ConcatIs
  <1> HIDE DEF G
  <1>2. Len(e) \in Nat /\ n \in Nat /\ n <= Len(L) /\ Len(e) <= n /\ Len(L) \in Nat
    BY DEF EndsAt
  <1>3. ASSUME NEW i \in 1..Len(e) PROVE e[i] = G[n - Len(e) + i]
    <2>1. n - Len(e) + i \in 1..Len(L)
      BY <1>2
    <2>2. e[i] = L[n - Len(e) + i]
      BY DEF EndsAt
    <2>3. QED
      BY <1>1, <2>1, <2>2
  <1>4. QED
    BY <1>2, <1>3 DEF EndsAt, G

LEMMA EndsAtJoin ==
  ASSUME NEW L, NEW a \in Seq(Events), NEW b \in Seq(Events), NEW n \in Nat,
         EndsAt(a, L, n), EndsAt(b, L, n + Len(b))
  PROVE  EndsAt(a \o b, L, n + Len(b))
  <1> DEFINE c == a \o b
             k == Len(a)
             q == Len(b)
  <1>1. /\ Len(c) = k + q /\ \A i \in 1..k : c[i] = a[i]
        /\ \A i \in 1..(k + q) : i > k => c[i] = b[i - k]
    BY ConcatIs
  <1>2. k \in Nat /\ q \in Nat
    OBVIOUS
  <1> HIDE DEF c, k, q
  <1>3. k <= n /\ (\A i \in 1..k : a[i] = L[n - k + i])
        /\ (\A i \in 1..q : b[i] = L[(n + q) - q + i])
    BY DEF EndsAt, k, q
  <1>4. ASSUME NEW i \in 1..(k + q) PROVE c[i] = L[(n + q) - (k + q) + i]
    <2>0. (n + q) - (k + q) + i = n - k + i
      BY <1>2
    <2>1. CASE i <= k
      <3>1. i \in 1..k
        BY <1>2, <2>1
      <3>2. QED
        BY <1>1, <1>3, <2>0, <3>1
    <2>2. CASE i > k
      <3> DEFINE j == i - k
      <3>1. j \in 1..q /\ (n + q) - q + j = n - k + i
        BY <1>2, <2>2
      <3>2. c[i] = b[j]
        BY <1>1, <2>2
      <3> HIDE DEF j
      <3>3. QED
        BY <1>3, <2>0, <3>1, <3>2
    <2>3. QED
      BY <1>2, <2>1, <2>2
  <1>5. k + q <= n + q
    BY <1>2, <1>3
  <1>6. QED
    BY <1>1, <1>4, <1>5 DEF EndsAt, c, q

LEMMA EndsAtEnd ==
  ASSUME NEW L \in Seq(Events), NEW x \in Seq(Events)
  PROVE  EndsAt(x, L \o x, Len(L \o x)) /\ Len(L \o x) - Len(x) = Len(L)
  <1> DEFINE G == L \o x
  <1>1. Len(G) = Len(L) + Len(x) /\ \A i \in 1..Len(x) : G[Len(L) + i] = x[i]
    BY ConcatIs
  <1>2. Len(L) \in Nat /\ Len(x) \in Nat
    OBVIOUS
  <1> HIDE DEF G
  <1>3. Len(G) - Len(x) = Len(L) /\ Len(x) <= Len(G)
    BY <1>1, <1>2
  <1>4. QED
    BY <1>1, <1>3 DEF EndsAt, G

LEMMA EndsAtNothing == ASSUME NEW L, NEW n \in Nat PROVE EndsAt(<< >>, L, n)
  BY DEF EndsAt

LEMMA EndsAtTail ==
  ASSUME NEW L, NEW a \in Seq(Events), NEW n \in Nat, a # << >>, EndsAt(a, L, n)
  PROVE  /\ EndsAt(Tail(a), L, n) /\ Len(Tail(a)) = Len(a) - 1
         /\ n - Len(a) + 1 \in 1..n /\ a[1] = L[n - Len(a) + 1]
  <1> DEFINE t == Tail(a)
             k == Len(a)
             q == Len(t)
  <1>1. k \in Nat \ {0} /\ q = k - 1 /\ \A i \in 1..q : t[i] = a[i + 1]
    OBVIOUS
  <1> HIDE DEF t, k, q
  <1>2. k <= n /\ \A i \in 1..k : a[i] = L[n - k + i]
    BY DEF EndsAt, k
  <1>3. ASSUME NEW i \in 1..q PROVE t[i] = L[n - q + i]
    <2>1. i + 1 \in 1..k /\ n - k + (i + 1) = n - q + i
      BY <1>1
    <2>2. QED
      BY <1>1, <1>2, <2>1
  <1>4. 1 \in 1..k /\ n - k + 1 \in 1..n /\ q <= n
    BY <1>1, <1>2
  <1>5. QED
    BY <1>1, <1>2, <1>3, <1>4 DEF EndsAt, t, k, q

\* What was given stays what is to be given when the history grows.
LEMMA GivenGrows ==
  ASSUME NEW L \in Seq(Events), NEW x \in Seq(Events), NEW r, NEW o \in Nat, NEW c \in Nat,
         NEW scope, Given(r, L, o, c, scope)
  PROVE  Given(r, L \o x, o, c, scope)
  <1> DEFINE G == L \o x
  <1>1. /\ Len(G) = Len(L) + Len(x) /\ \A i \in 1..Len(L) : G[i] = L[i]
    BY ConcatIs
  <1> HIDE DEF G
  <1>2. Len(L) \in Nat /\ Len(x) \in Nat /\ o <= c /\ c <= Len(L) /\ r = Pick(L, Within(L, o, c, scope))
    BY DEF Given
  <1>3. \A i \in (o + 1)..c : i \in 1..Len(L)
    BY <1>2
  <1> DEFINE W == Within(L, o, c, scope)
  <1>4. Within(G, o, c, scope) = W /\ W \in SUBSET (1..Len(L))
    BY <1>1, <1>3 DEF Within
  <1> HIDE DEF W
  <1>5. Pick(L, W) = Pick(G, W)
    <2>1. \A i \in W : L[i] = G[i]
      BY <1>1, <1>4
    <2>2. QED
      BY <1>2, <1>4, <2>1, PickSame
  <1>6. c <= Len(G)
    BY <1>1, <1>2
  <1>7. QED
    BY <1>2, <1>4, <1>5, <1>6 DEF Given, G, W

\* Being given what the scope has further on.
LEMMA GivenMore ==
  ASSUME NEW L \in Seq(Events), NEW r, NEW o \in Nat, NEW c \in Nat, NEW d \in Nat, NEW scope,
         NEW M, Given(r, L, o, c, scope), c <= d, d <= Len(L), M = Within(L, c, d, scope)
  PROVE  Given(r \o Pick(L, M), L, o, d, scope)
  <1> DEFINE W == Within(L, o, c, scope)
  <1>1. o <= c /\ c <= Len(L) /\ r = Pick(L, W) /\ Len(L) \in Nat /\ DOMAIN L = 1..Len(L)
    BY DEF Given
  <1>2. W \in SUBSET DOMAIN L /\ M \in SUBSET DOMAIN L /\ \A x \in W, y \in M : x < y
    <2>1. \A i \in (o + 1)..c : i \in 1..Len(L)
      BY <1>1
    <2>2. \A i \in (c + 1)..d : i \in 1..Len(L)
      BY <1>1
    <2>3. \A i \in (o + 1)..c, j \in (c + 1)..d : i < j
      OBVIOUS
    <2>4. QED
      BY <1>1, <2>1, <2>2, <2>3 DEF Within
  <1>3. Within(L, o, d, scope) = W \cup M
    <2>1. \A i : i \in (o + 1)..d <=> i \in (o + 1)..c \/ i \in (c + 1)..d
      BY <1>1
    <2>2. QED
      BY <2>1 DEF Within
  <1> HIDE DEF W
  <1>4. Pick(L, W \cup M) = Pick(L, W) \o Pick(L, M)
    BY <1>2, PickJoin
  <1>5. o <= d
    BY <1>1
  <1>6. QED
    BY <1>1, <1>3, <1>4, <1>5 DEF Given

LEMMA QueuedGrows ==
  ASSUME NEW L \in Seq(Events), NEW x \in Seq(Events), NEW p \in Seq(Events), NEW c \in Nat,
         NEW n \in 0..Len(L), NEW scope, Queued(p, L, c, n, scope)
  PROVE  Queued(p, L \o x, c, n, scope)
  <1>1. EndsAt(p, L \o x, n)
    BY EndsAtGrows DEF Queued
  <1> DEFINE G == L \o x
  <1>2. \A i \in 1..Len(L) : G[i] = L[i]
    BY ConcatIs
  <1> HIDE DEF G
  <1>3. Len(p) \in Nat /\ Len(L) \in Nat
    OBVIOUS
  <1>4. \A m \in (c + 1)..(n - Len(p)) : m \in 1..Len(L)
    BY <1>3
  <1>5. QED
    BY <1>1, <1>2, <1>4 DEF Queued, G

LEMMA PublishedIs ==
  ASSUME Typed, EventsOK
  PROVE  /\ Published \in 0..Len(log) /\ log \in Seq(Events) /\ events \in Seq(Events)
         /\ Len(log) \in Nat /\ Len(events) \in Nat
  <1>1. log \in Seq(Events) /\ events \in Seq(Events)
    BY DEF Typed, TypeOK
  <1>2. Len(log) \in Nat /\ Len(events) \in Nat
    BY <1>1
  <1>3. phase \notin {"append", "sync"} => Len(events) <= Len(log)
    BY DEF EventsOK, EndsAt
  <1>4. QED
    BY <1>1, <1>2, <1>3 DEF Published

\* The history grows, and no listener is told of anything.
LEMMA QuietStreams ==
  ASSUME Typed, Typed', StreamOK, EventsOK', NEW e \in Seq(Events), log' = log \o e,
         UNCHANGED <<cursor, received, origin>>,
         \A w \in Watchers :
           IF attached'[w] THEN attached[w] /\ pending'[w] = pending[w] /\ Published' = Published
                           ELSE pending'[w] = << >>
  PROVE  StreamOK'
  <1>1. /\ log \in Seq(Events) /\ Published \in 0..Len(log) /\ EventsOK
    BY PublishedIs DEF StreamOK
  <1> SUFFICES ASSUME NEW w \in Watchers
               PROVE  /\ Given(received[w], log', origin[w], cursor[w], Scope[w])
                      /\ attached'[w] => Queued(pending[w], log', cursor[w], Published, Scope[w])
    BY DEF StreamOK
  <1>2. /\ origin[w] \in Nat /\ cursor[w] \in Nat /\ pending[w] \in Seq(Events)
    BY DEF Typed, TypeOK
  <1>3. Given(received[w], log', origin[w], cursor[w], Scope[w])
    BY <1>1, <1>2, GivenGrows DEF StreamOK
  <1>4. ASSUME attached'[w] PROVE Queued(pending[w], log', cursor[w], Published, Scope[w])
    <2>1. Queued(pending[w], log, cursor[w], Published, Scope[w])
      BY <1>4 DEF StreamOK
    <2>2. QED
      BY <1>1, <1>2, <2>1, QueuedGrows
  <1>5. QED
    BY <1>3, <1>4

LEMMA StreamSteps ==
  ASSUME Typed, OneHistory, Replacements = {}, [Next]_vars
  PROVE  \/ Watch
         \/ Publish
         \/ /\ UNCHANGED <<cursor, received, origin, log>> /\ events' = << >> /\ phase' = "down"
            /\ attached' = [w \in Watchers |-> FALSE] /\ pending' = [w \in Watchers |-> << >>]
         \/ /\ UNCHANGED streams
            /\ \/ ~Up /\ phase' \in {"idle", "refused"} /\ events' = events
               \/ SyncCommit
               \/ phase = "idle" /\ phase' = "append" /\ log' = log
               \/ phase \in {"append", "sync"} /\ phase' = "idle" /\ events' = << >> /\ log' = log
               \/ phase = "append" /\ phase' = "sync" /\ UNCHANGED <<events, log>>
               \/ UNCHANGED <<phase, events, log>>
               \/ /\ phase \notin {"append", "sync"} /\ phase' \notin {"append", "sync"}
                  /\ phase' = "idle" => events = << >>
                  /\ (phase' \in {"down", "refused", "create"}) = ~Up
                  /\ UNCHANGED <<events, log>>
  <1>1. CASE \/ \E k \in Keys, record \in Records : Mutate(k, record)
             \/ \E docs \in [Keys -> Records] : Transaction(docs)
             \/ \E change \in RemoteChanges : ApplyReplicationChange(change)
    <2>1. phase = "idle" /\ phase' = "append" /\ log' = log /\ UNCHANGED streams
      BY <1>1 DEF Mutate, Transaction, ApplyReplicationChange, Propose, Ready
    <2>2. QED
      BY <2>1
  <1>2. CASE Checkpoint
    BY <1>2 DEF Checkpoint, Ready, write, Up
  <1>3. CASE Close
    BY <1>3 DEF Close, write
  <1>4. CASE Request
    BY <1>1, <1>2, <1>3, <1>4 DEF Request
  <1>5. ASSUME NEW a \in Writers, WritePrimary(a) PROVE UNCHANGED <<streams, phase, events, log>>
    BY <1>5 DEF WritePrimary, write
  <1>6. phase # "replace"
    BY NoReplacement
  <1>7. ASSUME NEW a \in Writers, WriteBackup(a) PROVE UNCHANGED <<streams, phase, events, log>>
    BY <1>6, <1>7 DEF WriteBackup
  <1>8. ASSUME NEW a \in Writers, Finish(a), step[a] # "none", phase # "create"
        PROVE  \/ phase' = phase
               \/ /\ phase = "checkpoint" /\ phase' \in {"idle", "publish"}
                  /\ phase' = "idle" => events = << >>
    <2>1. phase \in {"idle", "checkpoint"}
      BY <1>6, <1>8, CheckpointPlace
    <2>2. CASE a = "closer"
      BY <1>8, <2>2 DEF Finish
    <2>3. CASE a # "closer"
      <3>1. a = "writer"
        BY <2>3 DEF Writers
      <3>2. phase = "checkpoint"
        BY <1>6, <1>8, <2>1, <3>1 DEF OneHistory, ControlOK
      <3>3. phase' = IF events = << >> THEN "idle" ELSE "publish"
        BY <1>8, <2>3 DEF Finish
      <3>4. QED
        BY <3>2, <3>3
    <2>4. QED
      BY <2>2, <2>3
  <1>9. ASSUME NEW a \in Writers, Compact(a) \/ CheckpointFails(a)
        PROVE  /\ UNCHANGED <<streams, events, log>> /\ Finish(a) /\ step[a] # "none"
               /\ phase # "create"
    <2>1. CASE Compact(a)
      <3>1. step[a] = "compact"
        BY <2>1 DEF Compact
      <3>2. phase # "create"
        BY <3>1 DEF OneHistory, FreshOK, ControlOK, Writers
      <3>3. QED
        BY <2>1, <3>1, <3>2 DEF Compact, write
    <2>2. CASE CheckpointFails(a)
      BY <2>2 DEF CheckpointFails, write
    <2>3. QED
      BY <1>9, <2>1, <2>2
  <1>10. CASE \E a \in Writers : Compact(a) \/ CheckpointFails(a)
    <2>1. PICK a \in Writers : Compact(a) \/ CheckpointFails(a)
      BY <1>10
    <2>2. UNCHANGED <<streams, events, log>> /\ Finish(a) /\ step[a] # "none" /\ phase # "create"
      BY <1>9, <2>1
    <2>3. \/ phase' = phase
          \/ /\ phase = "checkpoint" /\ phase' \in {"idle", "publish"}
             /\ phase' = "idle" => events = << >>
      BY <1>8, <2>2
    <2>4. QED
      BY <2>2, <2>3 DEF Up
  <1>11. CASE WriteLine
    BY <1>11 DEF WriteLine, write
  <1>12. CASE SyncCommit
    BY <1>12 DEF SyncCommit
  <1>13. CASE Open \/ CreateBackup
    <2>1. ~Up /\ phase' \in {"idle", "refused"} /\ events' = events /\ UNCHANGED streams
      BY <1>13 DEF Open, CreateBackup, Load, Up
    <2>2. QED
      BY <2>1
  <1>14. CASE AppendFails \/ WriteTears \/ SyncFails
    <2>1. /\ phase \in {"append", "sync"} /\ phase' = "idle" /\ events' = << >> /\ log' = log
          /\ UNCHANGED streams
      BY <1>14 DEF AppendFails, WriteTears, SyncFails, Reject
    <2>2. QED
      BY <2>1
  <1>15. CASE CreateFails \/ Crash \/ Exit
    <2>1. StopProcess
      BY <1>15 DEF CreateFails, Crash, Exit
    <2>2. QED
      BY <2>1 DEF StopProcess
  <1>16. CASE CorruptPrimary \/ CreateFile
    <2>1. /\ phase \in {"down"} /\ phase' \in {"down", "create"} /\ UNCHANGED <<streams, events, log>>
      BY <1>16 DEF CorruptPrimary, CreateFile, write
    <2>2. QED
      BY <2>1 DEF Up
  <1>17. CASE UNCHANGED vars
    BY <1>17 DEF vars, write
  <1>18. CASE Continue
    BY <1>5, <1>7, <1>10, <1>11, <1>12, <1>13, <1>18 DEF Continue
  <1>19. CASE Fail
    BY <1>10, <1>14, <1>15, <1>16, <1>19 DEF Fail
  <1>20. QED
    BY <1>4, <1>13, <1>15, <1>16, <1>17, <1>18, <1>19 DEF Next

\* Steps that tell no listener of anything.
LEMMA OtherStreams ==
  ASSUME Typed, Typed', OneHistory, Replacements = {}, StreamOK, [Next]_vars, ~Watch, ~Publish
  PROVE  StreamOK'
  <1>1. /\ log \in Seq(Events) /\ events \in Seq(Events) /\ Published \in 0..Len(log) /\ EventsOK
        /\ Len(log) \in Nat /\ Len(events) \in Nat /\ << >> \in Seq(Events) /\ log \o << >> = log
    BY PublishedIs, EmptyType, ConcatEmpty DEF StreamOK
  <1>2. \A w \in Watchers : ~attached[w] => pending[w] = << >>
    BY DEF StreamOK
  <1>3. \A n \in Nat : EndsAt(<< >>, log, n)
    BY EndsAtNothing
  <1>4. CASE /\ UNCHANGED <<cursor, received, origin, log>> /\ events' = << >> /\ phase' = "down"
             /\ attached' = [w \in Watchers |-> FALSE] /\ pending' = [w \in Watchers |-> << >>]
    <2>1. EventsOK'
      BY <1>1, <1>3, <1>4 DEF EventsOK, Up
    <2>2. QED
      BY <1>1, <1>4, <2>1, QuietStreams
  <1>5. CASE UNCHANGED streams /\ log' = log /\ EventsOK' /\ Published' = Published
    BY <1>1, <1>2, <1>5, QuietStreams DEF streams
  <1>6. CASE UNCHANGED streams /\ ~Up /\ phase' \in {"idle", "refused"} /\ events' = events
    <2>1. PICK e : Grows(e)
      BY NextGrows
    <2>2. e \in Seq(Events) /\ log' = log \o e
      BY <2>1 DEF Grows
    <2>3. events = << >> /\ \A w \in Watchers : ~attached[w]
      BY <1>1, <1>6 DEF EventsOK
    <2>4. Len(log') \in Nat
      BY DEF Typed, TypeOK
    <2>5. EventsOK'
      BY <1>6, <2>3, <2>4, EndsAtNothing DEF EventsOK, streams
    <2>6. QED
      BY <1>2, <1>6, <2>2, <2>3, <2>5, QuietStreams DEF streams
  <1>7. CASE UNCHANGED streams /\ SyncCommit
    <2>1. /\ phase = "sync" /\ phase' \in {"checkpoint", "publish"} /\ events' = events
          /\ log' = log \o events
      BY <1>7 DEF SyncCommit, write
    <2>2. EndsAt(events, log', Len(log')) /\ Len(log') - Len(events) = Len(log)
      BY <1>1, <2>1, EndsAtEnd
    <2>3. EventsOK' /\ Published' = Published
      BY <2>1, <2>2 DEF EventsOK, Published, Up
    <2>4. QED
      BY <1>1, <1>2, <1>7, <2>1, <2>3, QuietStreams DEF streams
  <1>8. CASE UNCHANGED streams /\ phase = "idle" /\ phase' = "append" /\ log' = log
    <2>1. events = << >> /\ Len(log) - 0 = Len(log)
      BY <1>1, <1>8 DEF EventsOK
    <2>2. EventsOK' /\ Published' = Published
      BY <1>8, <2>1 DEF EventsOK, Published, Up
    <2>3. QED
      BY <1>5, <1>8, <2>2
  <1>9. CASE /\ UNCHANGED streams /\ phase \in {"append", "sync"} /\ phase' = "idle"
             /\ events' = << >> /\ log' = log
    <2>1. Len(log) - 0 = Len(log)
      BY <1>1
    <2>2. EventsOK' /\ Published' = Published
      BY <1>1, <1>3, <1>9, <2>1 DEF EventsOK, Published, Up
    <2>3. QED
      BY <1>5, <1>9, <2>2
  <1>10. CASE UNCHANGED streams /\ phase = "append" /\ phase' = "sync" /\ UNCHANGED <<events, log>>
    <2>1. EventsOK' /\ Published' = Published
      BY <1>10 DEF EventsOK, Published, Up
    <2>2. QED
      BY <1>5, <1>10, <2>1
  <1>11. CASE UNCHANGED streams /\ UNCHANGED <<phase, events, log>>
    <2>1. EventsOK' /\ Published' = Published
      BY <1>1, <1>11 DEF EventsOK, Published, Up, streams
    <2>2. QED
      BY <1>5, <1>11, <2>1
  <1>12. CASE /\ UNCHANGED streams
              /\ phase \notin {"append", "sync"} /\ phase' \notin {"append", "sync"}
              /\ phase' = "idle" => events = << >>
              /\ (phase' \in {"down", "refused", "create"}) = ~Up
              /\ UNCHANGED <<events, log>>
    <2>1. EventsOK' /\ Published' = Published
      BY <1>1, <1>12 DEF EventsOK, Published, Up, streams
    <2>2. QED
      BY <1>5, <1>12, <2>1
  <1>13. QED
    BY <1>4, <1>6, <1>7, <1>8, <1>9, <1>10, <1>11, <1>12, StreamSteps

LEMMA PublishStreams == ASSUME Typed, StreamOK, Publish PROVE StreamOK'
  <1>1. /\ log \in Seq(Events) /\ events \in Seq(Events) /\ Published \in 0..Len(log) /\ EventsOK
        /\ Len(log) \in Nat /\ Len(events) \in Nat
    BY PublishedIs DEF StreamOK
  <1>2. /\ phase = "publish" /\ phase' = "idle" /\ events' = << >>
        /\ UNCHANGED <<cursor, attached, received, origin, log>>
        /\ pending' = [w \in Watchers |-> IF attached[w] THEN pending[w] \o events ELSE pending[w]]
    BY DEF Publish
  <1>3. EventsOK'
    BY <1>1, <1>2, EndsAtNothing DEF EventsOK, Up
  <1>4. Published' = Published + Len(events) /\ Published' = Len(log)
    BY <1>1, <1>2 DEF Published
  <1>5. EndsAt(events, log, Len(log))
    BY <1>1, <1>2 DEF EventsOK
  <1>6. ASSUME NEW w \in Watchers, attached[w]
        PROVE  Queued(pending[w] \o events, log, cursor[w], Len(log), Scope[w])
    <2>1. pending[w] \in Seq(Events) /\ cursor[w] \in Nat
      BY DEF Typed, TypeOK
    <2>2. Queued(pending[w], log, cursor[w], Published, Scope[w])
      BY <1>6 DEF StreamOK
    <2>3. EndsAt(pending[w] \o events, log, Len(log))
      BY <1>1, <1>4, <1>5, <2>1, <2>2, EndsAtJoin DEF Queued
    <2>4. Len(pending[w] \o events) = Len(pending[w]) + Len(events) /\ Len(pending[w]) \in Nat
      BY <1>1, <2>1
    <2>5. Len(log) - Len(pending[w] \o events) = Published - Len(pending[w])
      BY <1>1, <1>4, <2>4
    <2>6. QED
      BY <2>2, <2>3, <2>5 DEF Queued
  <1>7. QED
    BY <1>2, <1>3, <1>4, <1>6 DEF StreamOK

\* One subscriber moves, the history does not.
LEMMA OneStream ==
  ASSUME StreamOK, NEW w \in Watchers, UNCHANGED <<phase, events, log>>, attached[w] \/ Up,
         \A x \in Watchers \ {w} : /\ received'[x] = received[x] /\ origin'[x] = origin[x]
                                   /\ cursor'[x] = cursor[x] /\ attached'[x] = attached[x]
                                   /\ pending'[x] = pending[x],
         Given(received'[w], log, origin'[w], cursor'[w], Scope[w]),
         IF attached'[w] THEN Queued(pending'[w], log, cursor'[w], Published, Scope[w])
                         ELSE pending'[w] = << >>
  PROVE  StreamOK'
  <1>1. EventsOK /\ Up
    BY DEF StreamOK, EventsOK
  <1>2. EventsOK' /\ Published' = Published
    BY <1>1 DEF EventsOK, Published, Up
  <1>3. QED
    BY <1>2 DEF StreamOK

\* What watchChanges replays is all the history has after the cursor.
LEMMA ReplayIs ==
  ASSUME Typed, OneHistory, ReplayLimit >= Retention, Up, NEW c \in Nat, NEW scope,
         Resumable(mem, c)
  PROVE  /\ c <= Len(log)
         /\ ChangesSince(mem, c, scope, ReplayLimit) = Pick(log, Within(log, c, Len(log), scope))
  <1> DEFINE n == Len(log)
             r == mem.changes
             q == Len(r)
             d == n - q
             F == {i \in DOMAIN r : r[i].sequence > c /\ r[i].key \in scope}
             G == Within(log, c, n, scope)
  <1>1. /\ log \in Seq(Events) /\ n \in Nat /\ r = Retained(log) /\ History(log)
        /\ mem.sequence = n
    BY DEF OneHistory, MemoryOK, Reflects, Remembers, Typed, TypeOK
  <1>2. /\ r \in Seq(Events) /\ q = (IF n > Retention THEN Retention ELSE n)
        /\ \A i \in 1..q : r[i] = log[n - q + i]
    BY <1>1, RetainedIs
  <1>3. \A i \in 1..n : log[i].sequence = i
    BY <1>1 DEF History, Numbered
  <1>4. DOMAIN r = 1..q /\ (r = << >> <=> q = 0)
    BY <1>2
  <1>5. c >= OldestRetained(mem) - 1 /\ c <= n
    BY <1>1 DEF Resumable
  <1>6. OldestRetained(mem) = IF r = << >> THEN n + 1 ELSE r[1].sequence
    BY <1>1 DEF OldestRetained
  <1> HIDE DEF n, r, q
  <1>7. q \in 0..n /\ q <= Retention /\ d \in Nat /\ d <= n /\ n - q = d
    BY <1>1, <1>2, RetentionAssumption
  <1> HIDE DEF d
  <1>8. \A i \in 1..q : i + d \in 1..n /\ r[i] = log[i + d] /\ r[i].sequence = i + d
    <2> SUFFICES ASSUME NEW i \in 1..q
                 PROVE  i + d \in 1..n /\ r[i] = log[i + d] /\ r[i].sequence = i + d
      OBVIOUS
    <2>1. i + d \in 1..n /\ n - q + i = i + d
      BY <1>1, <1>7 DEF d
    <2>2. QED
      BY <1>2, <1>3, <2>1
  <1>9. c >= d
    <2>1. CASE q = 0
      BY <1>1, <1>4, <1>5, <1>6, <1>7, <2>1 DEF d
    <2>2. CASE q # 0
      <3>1. 1 \in 1..q
        BY <1>7, <2>2
      <3>2. r[1].sequence = 1 + d
        BY <1>8, <3>1
      <3>3. QED
        BY <1>4, <1>5, <1>6, <1>7, <2>2, <3>2
    <2>3. QED
      BY <2>1, <2>2
  <1>10. F \in SUBSET (1..q) /\ G \in SUBSET Nat
    BY <1>4 DEF Within
  <1>11. \A i \in F : i + d \in G /\ r[i] = log[i + d]
    <2> SUFFICES ASSUME NEW i \in 1..q, r[i].sequence > c, r[i].key \in scope
                 PROVE  i + d \in G /\ r[i] = log[i + d]
      BY <1>4
    <2>1. i + d \in 1..n /\ r[i] = log[i + d] /\ i + d > c
      BY <1>8
    <2>2. i + d \in (c + 1)..n
      BY <1>1, <2>1
    <2>3. QED
      BY <2>1, <2>2 DEF Within
  <1>12. \A j \in G : j - d \in F
    <2> SUFFICES ASSUME NEW j \in (c + 1)..n, log[j].key \in scope PROVE j - d \in F
      BY DEF Within
    <2>1. j - d \in 1..q /\ (j - d) + d = j /\ j > c
      BY <1>1, <1>7, <1>9 DEF d
    <2>2. r[j - d] = log[j] /\ r[j - d].sequence = j
      BY <1>8, <2>1
    <2>3. QED
      BY <1>4, <2>1, <2>2
  <1> HIDE DEF F, G
  <1>13. Pick(r, F) = Pick(log, G)
    <2>1. q \in Nat /\ d \in Int /\ F \in SUBSET (1..q) /\ G \in SUBSET Nat
      BY <1>7, <1>10
    <2>2. Shifted(r, F, q, log, G, d)
      BY <1>11, <1>12, <2>1 DEF Shifted
    <2>3. QED
      BY <2>2, PickMoved
  <1>14. \A i \in F : Cardinality({j \in F : j <= i}) <= ReplayLimit
    <2> SUFFICES ASSUME NEW i \in F PROVE Cardinality({j \in F : j <= i}) <= ReplayLimit
      OBVIOUS
    <2>1. IsFiniteSet(1..q) /\ Cardinality(1..q) = q
      <3>1. 1 \in Int /\ q \in Int /\ (IF 1 > q THEN 0 ELSE q - 1 + 1) = q
        BY <1>7
      <3>2. QED
        BY <3>1, FS_Interval
    <2>2. {j \in F : j <= i} \in SUBSET (1..q)
      BY <1>10
    <2>3. /\ IsFiniteSet({j \in F : j <= i}) /\ Cardinality({j \in F : j <= i}) <= q
      BY <2>1, <2>2, FS_Subset
    <2>4. Cardinality({j \in F : j <= i}) \in Nat
      BY <2>3, FS_CardinalityType
    <2>5. QED
      BY <1>7, <2>3, <2>4, RetentionAssumption, EngineAssumption
  <1>15. ChangesSince(mem, c, scope, ReplayLimit)
           = Pick(r, {i \in F : Cardinality({j \in F : j <= i}) <= ReplayLimit})
    BY DEF ChangesSince, F, r
  <1>16. {i \in F : Cardinality({j \in F : j <= i}) <= ReplayLimit} = F
    BY <1>14
  <1>17. QED
    BY <1>5, <1>13, <1>15, <1>16 DEF G, n

LEMMA SubscribeStream ==
  ASSUME Typed, OneHistory, ReplayLimit >= Retention, StreamOK, NEW w \in Watchers, Subscribe(w)
  PROVE  StreamOK'
  <1> DEFINE n == Len(log)
             c == cursor[w]
             G == Within(log, c, n, Scope[w])
             e == Pick(log, G)
             t == cursor'[w]
  <1>1. /\ Up /\ ~attached[w] /\ Resumable(mem, c)
        /\ attached' = [attached EXCEPT ![w] = TRUE]
        /\ Receive(w, ChangesSince(mem, c, Scope[w], ReplayLimit))
        /\ UNCHANGED <<phase, events, pending, origin, log>>
    BY DEF Subscribe, write
  <1>2. /\ log \in Seq(Events) /\ n \in Nat /\ DOMAIN log = 1..n /\ Published \in 0..n
    BY PublishedIs DEF StreamOK
  <1>3. /\ cursor \in [Watchers -> Nat] /\ origin \in [Watchers -> Nat]
        /\ attached \in [Watchers -> BOOLEAN] /\ received \in [Watchers -> Seq(Events)]
    BY DEF Typed, TypeOK
  <1>4. c \in Nat /\ c <= n /\ ChangesSince(mem, c, Scope[w], ReplayLimit) = e
    BY <1>1, <1>3, ReplayIs
  <1>5. /\ received' = [received EXCEPT ![w] = received[w] \o e]
        /\ cursor' = [cursor EXCEPT ![w] = IF e = << >> THEN c ELSE Last(e).sequence]
    BY <1>1, <1>4 DEF Receive
  <1>6. Given(received[w], log, origin[w], c, Scope[w]) /\ pending[w] = << >>
    BY <1>1 DEF StreamOK
  <1>7. G \in SUBSET DOMAIN log
    <2>1. \A i \in (c + 1)..n : i \in 1..n
      BY <1>2, <1>4
    <2>2. QED
      BY <1>2, <2>1 DEF Within
  <1>8. t \in Nat /\ c <= t /\ t <= n /\ \A m \in (t + 1)..n : log[m].key \notin Scope[w]
    <2>1. CASE G = {}
      <3>1. e = << >>
        BY <2>1, PickNone
      <3>2. t = c
        BY <1>3, <1>5, <3>1
      <3>3. \A m \in (c + 1)..n : log[m].key \notin Scope[w]
        BY <2>1 DEF Within
      <3>4. QED
        BY <1>4, <3>2, <3>3
    <2>2. CASE G # {}
      <3>1. e # << >> /\ \E m \in G : (\A x \in G : x <= m) /\ Last(e) = log[m]
        <4> HIDE DEF G
        <4>1. QED
          BY <1>2, <1>7, <2>2, PickLast
      <3>2. PICK m \in G : (\A x \in G : x <= m) /\ Last(e) = log[m]
        BY <3>1
      <3>3. m \in (c + 1)..n /\ m \in 1..n
        BY <1>2, <1>7 DEF Within
      <3>4. log[m].sequence = m
        BY <1>2, <3>3 DEF OneHistory, History, Numbered
      <3>5. t = m
        BY <1>3, <1>5, <3>1, <3>2, <3>4
      <3>6. ASSUME NEW i \in (m + 1)..n PROVE log[i].key \notin Scope[w]
        <4>1. i \in (c + 1)..n /\ ~(i <= m)
          BY <1>2, <1>4, <3>3
        <4>2. i \notin G
          BY <3>2, <4>1
        <4>3. QED
          BY <4>1, <4>2 DEF Within
      <3>7. QED
        BY <1>4, <3>3, <3>5, <3>6
    <2>3. QED
      BY <2>1, <2>2
  <1>9. G = Within(log, c, t, Scope[w])
    <2>1. \A i \in (c + 1)..n : i \in (c + 1)..t \/ i \in (t + 1)..n
      BY <1>2, <1>4, <1>8
    <2>2. \A i \in (c + 1)..t : i \in (c + 1)..n
      BY <1>2, <1>4, <1>8
    <2>3. QED
      BY <1>8, <2>1, <2>2 DEF Within
  <1>10. Given(received'[w], log, origin'[w], t, Scope[w])
    <2>1. received'[w] = received[w] \o e /\ origin'[w] = origin[w] /\ origin[w] \in Nat
      BY <1>1, <1>3, <1>5
    <2> HIDE DEF G, t
    <2>2. Given(received[w] \o Pick(log, G), log, origin[w], t, Scope[w])
      BY <1>2, <1>3, <1>4, <1>6, <1>8, <1>9, GivenMore
    <2>3. QED
      BY <2>1, <2>2
  <1>11. Queued(pending'[w], log, t, Published, Scope[w])
    <2>1. pending'[w] = << >> /\ Len(<< >>) = 0
      BY <1>1, <1>6
    <2>2. EndsAt(<< >>, log, Published)
      BY <1>2, EndsAtNothing
    <2>3. \A m \in (t + 1)..(Published - 0) : m \in (t + 1)..n
      BY <1>2, <1>8
    <2>4. QED
      BY <1>8, <2>1, <2>2, <2>3 DEF Queued
  <1>12. attached'[w] /\ \A x \in Watchers \ {w} :
           /\ received'[x] = received[x] /\ origin'[x] = origin[x] /\ cursor'[x] = cursor[x]
           /\ attached'[x] = attached[x] /\ pending'[x] = pending[x]
    BY <1>1, <1>3, <1>5
  <1> HIDE DEF n, c, G, e
  <1>13. QED
    BY <1>1, <1>10, <1>11, <1>12, OneStream DEF t

LEMMA ReseedStream ==
  ASSUME Typed, OneHistory, StreamOK, NEW w \in Watchers, Reseed(w) PROVE StreamOK'
  <1> DEFINE n == Len(log)
  <1>1. /\ Up /\ ~attached[w]
        /\ cursor' = [cursor EXCEPT ![w] = mem.sequence]
        /\ origin' = [origin EXCEPT ![w] = mem.sequence]
        /\ received' = [received EXCEPT ![w] = << >>]
        /\ UNCHANGED <<phase, events, attached, pending, log>>
    BY DEF Reseed, write
  <1>2. /\ cursor \in [Watchers -> Nat] /\ origin \in [Watchers -> Nat]
        /\ received \in [Watchers -> Seq(Events)] /\ n \in Nat
    BY PublishedIs DEF StreamOK, Typed, TypeOK
  <1>3. mem.sequence = n
    BY <1>1 DEF OneHistory, MemoryOK, Reflects, Remembers
  <1>4. received'[w] = << >> /\ origin'[w] = n /\ cursor'[w] = n
    BY <1>1, <1>2, <1>3
  <1>5. Within(log, n, n, Scope[w]) = {}
    <2>1. (n + 1)..n = {}
      BY <1>2
    <2>2. QED
      BY <2>1 DEF Within
  <1>6. Given(received'[w], log, origin'[w], cursor'[w], Scope[w])
    BY <1>2, <1>4, <1>5, PickNone DEF Given
  <1>7. ~attached'[w] /\ pending'[w] = << >>
    BY <1>1 DEF StreamOK
  <1>8. \A x \in Watchers \ {w} :
           /\ received'[x] = received[x] /\ origin'[x] = origin[x] /\ cursor'[x] = cursor[x]
           /\ attached'[x] = attached[x] /\ pending'[x] = pending[x]
    BY <1>1, <1>2
  <1>9. QED
    BY <1>1, <1>6, <1>7, <1>8, OneStream

LEMMA UnsubscribeStream ==
  ASSUME Typed, StreamOK, NEW w \in Watchers, Unsubscribe(w) PROVE StreamOK'
  <1>1. /\ attached[w] /\ attached' = [attached EXCEPT ![w] = FALSE]
        /\ pending' = [pending EXCEPT ![w] = << >>]
        /\ UNCHANGED <<phase, events, cursor, received, origin, log>>
    BY DEF Unsubscribe, write
  <1>2. attached \in [Watchers -> BOOLEAN] /\ pending \in [Watchers -> Seq(Events)]
    BY DEF Typed, TypeOK
  <1>3. Given(received'[w], log, origin'[w], cursor'[w], Scope[w])
    BY <1>1 DEF StreamOK
  <1>4. QED
    BY <1>1, <1>2, <1>3, OneStream

\* What the microtask takes off the queue is the next event of the history.
LEMMA DeliverStream ==
  ASSUME Typed, OneHistory, StreamOK, NEW w \in Watchers, Deliver(w) PROVE StreamOK'
  <1> DEFINE n == Published
             c == cursor[w]
             p == pending[w]
             S == Scope[w]
             m == n - Len(p) + 1
  <1>1. /\ p # << >> /\ pending' = [pending EXCEPT ![w] = Tail(p)]
        /\ IF p[1].sequence > c /\ p[1].key \in S
           THEN Receive(w, <<p[1]>>) ELSE UNCHANGED <<cursor, received>>
        /\ UNCHANGED <<phase, events, attached, origin, log>>
    BY DEF Deliver, write
  <1>2. /\ log \in Seq(Events) /\ n \in 0..Len(log) /\ Len(log) \in Nat
    BY PublishedIs DEF StreamOK
  <1>3. /\ cursor \in [Watchers -> Nat] /\ origin \in [Watchers -> Nat]
        /\ pending \in [Watchers -> Seq(Events)] /\ received \in [Watchers -> Seq(Events)]
    BY DEF Typed, TypeOK
  <1>4. attached[w] /\ Queued(p, log, c, n, S) /\ Given(received[w], log, origin[w], c, S)
    BY <1>1 DEF StreamOK
  <1>5. p \in Seq(Events) /\ n \in Nat /\ c \in Nat /\ Len(p) \in Nat
    BY <1>2, <1>3
  <1>6. /\ EndsAt(Tail(p), log, n) /\ Len(Tail(p)) = Len(p) - 1
        /\ m \in 1..n /\ p[1] = log[m]
    <2>1. EndsAt(p, log, n) /\ p # << >>
      BY <1>1, <1>4 DEF Queued
    <2> HIDE DEF n, p
    <2>2. QED
      BY <1>5, <2>1, EndsAtTail
  <1>7. log[m].sequence = m
    BY <1>2, <1>6 DEF OneHistory, History, Numbered
  <1>8. \A x \in (c + 1)..(n - Len(p)) : log[x].key \notin S
    BY <1>4 DEF Queued
  <1> HIDE DEF n, c, p, S
  <1>9. n - Len(p) = m - 1 /\ n - (Len(p) - 1) = m
    BY <1>5
  <1> HIDE DEF m
  <1>10. m \in Nat /\ m <= Len(log)
    BY <1>2, <1>6
  <1>11. pending'[w] = Tail(p) /\ attached'[w] /\ origin'[w] = origin[w]
    BY <1>1, <1>3, <1>4
  <1>12. /\ Given(received'[w], log, origin'[w], cursor'[w], S)
         /\ Queued(pending'[w], log, cursor'[w], n, S)
         /\ \A x \in Watchers \ {w} : cursor'[x] = cursor[x] /\ received'[x] = received[x]
    <2>1. CASE m > c /\ log[m].key \in S
      <3>1. /\ received' = [received EXCEPT ![w] = received[w] \o <<log[m]>>]
            /\ cursor' = [cursor EXCEPT ![w] = log[m].sequence]
        <4>1. Last(<<log[m]>>) = log[m] /\ <<log[m]>> # << >>
          BY DEF Last
        <4>2. Receive(w, <<log[m]>>)
          BY <1>1, <1>6, <1>7, <2>1
        <4>3. QED
          BY <4>1, <4>2 DEF Receive
      <3>2. received'[w] = received[w] \o <<log[m]>> /\ cursor'[w] = m
        BY <1>3, <1>7, <3>1
      <3> DEFINE M == {m}
      <3>3. M = Within(log, c, m, S)
        <4>1. \A x \in (c + 1)..m : x = m \/ x \in (c + 1)..(m - 1)
          BY <1>5, <1>10
        <4>2. m \in (c + 1)..m
          BY <1>5, <1>10, <2>1
        <4>3. QED
          BY <1>8, <1>9, <2>1, <4>1, <4>2 DEF Within
      <3>4. Given(received[w] \o Pick(log, M), log, origin[w], m, S)
        <4>1. c <= m /\ origin[w] \in Nat
          BY <1>3, <1>5, <1>10, <2>1
        <4> HIDE DEF M
        <4>2. QED
          BY <1>2, <1>4, <1>5, <1>10, <3>3, <4>1, GivenMore
      <3>5. Pick(log, {m}) = <<log[m]>>
        BY <1>10, PickOne
      <3>6. \A x \in (m + 1)..m : log[x].key \notin S
        BY <1>10
      <3>7. Queued(Tail(p), log, m, n, S)
        BY <1>6, <1>9, <3>6 DEF Queued
      <3>8. QED
        BY <1>3, <1>11, <3>1, <3>2, <3>4, <3>5, <3>7
    <2>2. CASE ~(m > c /\ log[m].key \in S)
      <3>1. UNCHANGED <<cursor, received>>
        BY <1>1, <1>6, <1>7, <2>2
      <3>2. \A x \in (c + 1)..m : log[x].key \notin S
        <4> SUFFICES ASSUME NEW x \in (c + 1)..m PROVE log[x].key \notin S
          OBVIOUS
        <4>1. x \in (c + 1)..(m - 1) \/ (x = m /\ m > c)
          BY <1>5, <1>10
        <4>2. QED
          BY <1>8, <1>9, <2>2, <4>1
      <3>3. Queued(Tail(p), log, c, n, S)
        BY <1>6, <1>9, <3>2 DEF Queued
      <3>4. QED
        BY <1>4, <1>11, <3>1, <3>3 DEF c
    <2>3. QED
      BY <2>1, <2>2
  <1>13. \A x \in Watchers \ {w} :
           /\ received'[x] = received[x] /\ origin'[x] = origin[x] /\ cursor'[x] = cursor[x]
           /\ attached'[x] = attached[x] /\ pending'[x] = pending[x]
    BY <1>1, <1>3, <1>12
  <1>14. QED
    BY <1>1, <1>4, <1>11, <1>12, <1>13, OneStream DEF n, S

LEMMA InitStreams == ASSUME Init PROVE StreamOK
  <1>1. /\ phase = "down" /\ log = << >> /\ events = << >> /\ Len(log) = 0
    BY DEF Init
  <1>2. EventsOK
    BY <1>1, EndsAtNothing DEF Init, EventsOK, Up
  <1>3. ASSUME NEW w \in Watchers
        PROVE  /\ Given(received[w], log, origin[w], cursor[w], Scope[w])
               /\ ~attached[w] /\ pending[w] = << >>
    <2>1. origin[w] = 0 /\ cursor[w] = 0 /\ received[w] = << >> /\ ~attached[w] /\ pending[w] = << >>
      BY DEF Init
    <2>2. (0 + 1)..0 = {}
      OBVIOUS
    <2>3. Within(log, 0, 0, Scope[w]) = {}
      BY <2>2 DEF Within
    <2>4. Pick(log, {}) = << >>
      BY PickNone
    <2>5. Given(<< >>, log, 0, 0, Scope[w])
      <3>1. 0 <= Len(log) /\ 0 <= 0
        BY <1>1
      <3>2. QED
        BY ONLY <2>3, <2>4, <3>1 DEF Given
    <2>6. QED
      BY <2>1, <2>5
  <1>4. QED
    BY <1>2, <1>3 DEF StreamOK

LEMMA NextStreams ==
  ASSUME StreamSettings, Typed, Typed', OneHistory, OneHistory', StreamOK, [Next]_vars
  PROVE  StreamOK'
  <1> USE DEF StreamSettings
  <1>1. CASE Watch
    BY <1>1, SubscribeStream, ReseedStream, DeliverStream, UnsubscribeStream DEF Watch
  <1>2. CASE Publish
    BY <1>2, PublishStreams
  <1>3. CASE ~Watch /\ ~Publish
    BY <1>3, OtherStreams
  <1>4. QED
    BY <1>1, <1>2, <1>3

LEMMA StreamsExact == ASSUME Typed, OneHistory, StreamOK PROVE StreamsAreExact
  <1>1. /\ Published \in 0..Len(log) /\ log \in Seq(Events) /\ events \in Seq(Events)
        /\ Len(log) \in Nat /\ Len(events) \in Nat /\ EventsOK
    BY PublishedIs DEF StreamOK
  <1>2. StreamExact
    BY DEF StreamOK, Given, Within, StreamExact, Watched
  <1>3. ASSUME NEW w \in Watchers, attached[w], NEW i \in (cursor[w] + 1)..Len(log),
               log[i].key \in Scope[w]
        PROVE  log[i] \in ToSet(pending[w]) \cup ToSet(events)
    <2> DEFINE p == pending[w]
               n == Published
    <2>1. Queued(p, log, cursor[w], n, Scope[w])
      BY <1>3 DEF StreamOK
    <2>2. p \in Seq(Events) /\ Len(p) \in Nat /\ cursor[w] \in Nat
      BY DEF Typed, TypeOK
    <2> HIDE DEF p, n
    <2>3. ~(i <= n - Len(p))
      BY <1>1, <1>3, <2>1, <2>2 DEF Queued
    <2>4. CASE i <= n
      <3> DEFINE j == i - (n - Len(p))
      <3>1. j \in 1..Len(p) /\ n - Len(p) + j = i
        BY <1>1, <2>2, <2>3, <2>4 DEF n
      <3> HIDE DEF j
      <3>2. p[j] = log[i]
        BY <2>1, <3>1 DEF Queued, EndsAt
      <3>3. QED
        BY <2>2, <3>1, <3>2 DEF ToSet, p
    <2>5. CASE i > n
      <3>1. phase \notin {"append", "sync"}
        BY <1>1, <2>5 DEF n, Published
      <3>2. n = Len(log) - Len(events) /\ EndsAt(events, log, Len(log))
        BY <1>1, <3>1 DEF n, Published, EventsOK
      <3> DEFINE j == i - (Len(log) - Len(events))
      <3>3. j \in 1..Len(events) /\ Len(log) - Len(events) + j = i
        BY <1>1, <2>5, <3>2
      <3> HIDE DEF j
      <3>4. events[j] = log[i]
        BY <3>2, <3>3 DEF EndsAt
      <3>5. QED
        BY <1>1, <3>3, <3>4 DEF ToSet
    <2>6. QED
      BY <1>1, <2>4, <2>5 DEF n
  <1>4. QED
    BY <1>2, <1>3 DEF StreamsAreExact, NoMissedEvent

\* A subscriber is given the changes of its scope once each and in order, across
\* replay, live delivery, reconnection and restarts, and what it still lacks is
\* queued for it or about to be published (watchChanges, #publish).
THEOREM StreamsMissNothing == ASSUME StreamSettings PROVE Spec => []StreamsAreExact
  <1> DEFINE Inv == Typed /\ OneHistory /\ StreamOK
  <1>1. Init => Inv
    BY InitTyped, InitHistory, InitStreams
  <1>2. Inv /\ [Next]_vars => Inv'
    BY NextTyped, NextHistory, NextStreams DEF StreamSettings
  <1>3. Inv => StreamsAreExact
    BY StreamsExact
  <1>4. QED
    BY <1>1, <1>2, <1>3, PTL DEF Spec
=============================================================================
