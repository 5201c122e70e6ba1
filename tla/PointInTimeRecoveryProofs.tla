----------------------- MODULE PointInTimeRecoveryProofs -----------------------
(***************************************************************************)
(* Proofs about PointInTimeRecovery: what its journal, its manifest and    *)
(* its snapshot files hold, what a restore gives, and when opening is      *)
(* refused, for any script, retention and number of faults.                *)
(***************************************************************************)
EXTENDS PointInTimeRecovery, TLAPS, WellFoundedInduction, FiniteSetTheorems

-----------------------------------------------------------------------------
(* What the functions of SyncioState that are used here return: facts that *)
(* SyncioDatabaseProofs proves beside the variables of the engine.         *)

\* The largest element of a bounded set of numbers.
LEMMA MaxIsIn ==
  ASSUME NEW n \in Nat, NEW S \in SUBSET (0..n), S # {}
  PROVE  Max(S) \in S /\ \A x \in S : x <= Max(S)
  <1> DEFINE T == {y \in 0..n : n - y \in S}
  <1>1. T \subseteq Nat /\ T # {}
    <2>1. PICK x \in S : TRUE
      OBVIOUS
    <2>2. x \in 0..n
      BY <2>1
    <2>3. n - x \in 0..n /\ n - (n - x) = x
      BY <2>2
    <2>4. n - x \in T
      BY <2>1, <2>3
    <2>5. T \subseteq Nat
      OBVIOUS
    <2>6. QED
      BY <2>4, <2>5
  <1>2. PICK m \in T : \A y \in T : ~(<<y, m>> \in OpToRel(<, Nat))
    BY <1>1, NatLessThanWellFounded, WFMin, Zenon
  <1>3. \A y \in T : m <= y
    <2> SUFFICES ASSUME NEW y \in T PROVE ~(y < m)
      BY <1>1
    <2>1. y \in Nat /\ m \in Nat
      BY <1>1
    <2>2. y < m => <<y, m>> \in OpToRel(<, Nat)
      BY <2>1 DEF OpToRel
    <2>3. QED
      BY <1>2, <2>2
  <1>4. n - m \in S
    OBVIOUS
  <1>5. \A y \in S : n - m >= y
    <2> SUFFICES ASSUME NEW y \in S PROVE n - m >= y
      OBVIOUS
    <2>1. n - y \in T
      OBVIOUS
    <2>2. m <= n - y
      BY <1>3, <2>1
    <2>3. QED
      BY <2>2
  <1>6. QED
    BY <1>4, <1>5 DEF Max

LEMMA LatestIsIn ==
  ASSUME NEW n \in Nat, NEW S \in SUBSET (1..n)
  PROVE  /\ Latest(S) \in S \cup {0} /\ Latest(S) \in 0..n
         /\ \A i \in S : i <= Latest(S)
  <1>1. S \cup {0} \in SUBSET (0..n) /\ S \cup {0} # {}
    OBVIOUS
  <1>2. Max(S \cup {0}) \in S \cup {0} /\ \A x \in S \cup {0} : x <= Max(S \cup {0})
    BY <1>1, MaxIsIn
  <1>3. Latest(S) = Max(S \cup {0})
    BY DEF Latest
  <1>4. QED
    BY <1>1, <1>2, <1>3

\* The largest index of a sequence with some property.
LEMMA MaxIndex ==
  ASSUME NEW S, NEW s \in Seq(S), NEW hits \in SUBSET DOMAIN s, hits # {}
  PROVE  Max(hits) \in hits
  <1>1. hits \in SUBSET (0..Len(s)) /\ Len(s) \in Nat
    OBVIOUS
  <1>2. QED
    BY <1>1, MaxIsIn

LEMMA ElementType ==
  ASSUME NEW S, NEW s \in Seq(S)
  PROVE  \A i \in DOMAIN s : s[i] \in S
  OBVIOUS

LEMMA EventFields ==
  ASSUME NEW e \in Events
  PROVE  e.key \in Keys /\ e.record \in Records /\ e.changeId \in ChangeIds /\ e.sequence \in Nat
  BY DEF Events

LEMMA StateFields ==
  ASSUME NEW s \in States
  PROVE  /\ s.databaseId \in DatabaseIds /\ s.docs \in [Keys -> Records] /\ s.sequence \in Nat
         /\ s.changes \in Seq(Events) /\ s.appliedChangeIds \in [RemoteIds -> Nat]
  BY DEF States

LEMMA FreshType == ASSUME NEW id \in DatabaseIds PROVE Fresh(id) \in States
  BY DEF Fresh, States, Records, Events

LEMMA StampType ==
  ASSUME NEW changes \in Seq(Changes), NEW base \in Nat
  PROVE  Stamp(changes, base) \in Seq(Events) /\ Len(Stamp(changes, base)) = Len(changes)
  <1> DEFINE event(i) == [key |-> changes[i].key, record |-> changes[i].record,
                          changeId |-> changes[i].changeId, sequence |-> base + i]
  <1>1. ASSUME NEW i \in 1..Len(changes) PROVE event(i) \in Events
    <2>1. changes[i] \in Changes /\ base + i \in Nat
      OBVIOUS
    <2>2. QED
      BY <2>1 DEF Changes, Events
  <1> HIDE DEF event
  <1>2. [i \in 1..Len(changes) |-> event(i)] \in Seq(Events)
    BY <1>1
  <1>3. Stamp(changes, base) = [i \in 1..Len(changes) |-> event(i)]
    BY DEF Stamp, event
  <1>4. QED
    BY <1>2, <1>3

LEMMA ApplyEventsType ==
  ASSUME NEW docs \in [Keys -> Records], NEW e \in Seq(Events)
  PROVE  ApplyEvents(docs, e) \in [Keys -> Records]
  <1> SUFFICES ASSUME NEW k \in Keys PROVE ApplyEvents(docs, e)[k] \in Records
    BY DEF ApplyEvents
  <1> DEFINE hits == {i \in DOMAIN e : e[i].key = k}
  <1>1. hits # {} => Max(hits) \in hits
    BY MaxIndex
  <1>2. \A i \in hits : e[i].record \in Records
    BY ElementType, EventFields
  <1>3. QED
    BY <1>1, <1>2 DEF ApplyEvents

LEMMA PruneType ==
  ASSUME NEW s \in States
  PROVE  PruneChangeMetadata(s) \in States /\ PruneChangeMetadata(s).sequence = s.sequence
  <1> DEFINE excess == Len(s.changes) - Retention
             Dropped(r) == \E i \in 1..excess :
                             /\ s.changes[i].changeId = r
                             /\ s.changes[i].sequence = s.appliedChangeIds[r]
             changes == SubSeq(s.changes, excess + 1, Len(s.changes))
             ids == [r \in RemoteIds |-> IF Dropped(r) THEN 0 ELSE s.appliedChangeIds[r]]
  <1>1. CASE excess <= 0
    BY <1>1 DEF PruneChangeMetadata
  <1>2. CASE ~(excess <= 0)
    <2>1. PruneChangeMetadata(s) = [s EXCEPT !.changes = changes, !.appliedChangeIds = ids]
      BY <1>2 DEF PruneChangeMetadata
    <2>2. changes \in Seq(Events)
      BY <1>2, RetentionAssumption DEF States
    <2>3. ids \in [RemoteIds -> Nat]
      BY DEF States
    <2>4. QED
      BY <2>1, <2>2, <2>3 DEF States
  <1>3. QED
    BY <1>1, <1>2

LEMMA RecordEventsType ==
  ASSUME NEW s \in States, NEW e \in Seq(Events)
  PROVE  /\ RecordEvents(s, e) \in States
         /\ RecordEvents(s, e).sequence = s.sequence + Len(e)
  <1> DEFINE hits(r) == {i \in DOMAIN e : e[i].changeId = r}
             ids == [r \in RemoteIds |-> IF hits(r) = {} THEN s.appliedChangeIds[r]
                                         ELSE e[Max(hits(r))].sequence]
             t == [s EXCEPT !.sequence = s.sequence + Len(e), !.changes = s.changes \o e,
                            !.appliedChangeIds = ids]
  <1>1. ids \in [RemoteIds -> Nat]
    <2> SUFFICES ASSUME NEW r \in RemoteIds PROVE ids[r] \in Nat
      OBVIOUS
    <2>1. hits(r) # {} => Max(hits(r)) \in hits(r)
      BY MaxIndex
    <2>2. \A i \in hits(r) : e[i].sequence \in Nat
      BY ElementType, EventFields
    <2>3. QED
      BY <2>1, <2>2 DEF States
  <1>2. t \in States /\ t.sequence = s.sequence + Len(e)
    <2>1. s.sequence + Len(e) \in Nat /\ s.changes \o e \in Seq(Events)
      BY StateFields
    <2> HIDE DEF ids
    <2>2. QED
      BY <1>1, <2>1 DEF States
  <1>3. RecordEvents(s, e) = PruneChangeMetadata(t)
    BY DEF RecordEvents
  <1>4. QED
    BY <1>2, <1>3, PruneType

\* Every rank up to the size of a set of indices is the rank of one of them.
LEMMA RankIsTaken ==
  ASSUME NEW N \in Nat, NEW picked \in SUBSET (1..N), NEW n \in 1..Cardinality(picked)
  PROVE  \E i \in picked : Cardinality({j \in picked : j <= i}) = n
  <1> DEFINE Upto(i) == {j \in picked : j <= i}
             below == {i \in 0..N : Cardinality(Upto(i)) < n}
             m == Max(below)
  <1>1. IsFiniteSet(picked) /\ \A i \in 0..N : /\ IsFiniteSet(Upto(i))
                                               /\ Cardinality(Upto(i)) \in Nat
    <2>1. IsFiniteSet(1..N)
      BY FS_Interval
    <2>2. IsFiniteSet(picked)
      BY <2>1, FS_Subset
    <2>3. \A i \in 0..N : Upto(i) \subseteq picked
      OBVIOUS
    <2>4. QED
      BY <2>2, <2>3, FS_Subset, FS_CardinalityType
  <1>2. Upto(0) = {} /\ Upto(N) = picked
    <2>1. \A j \in picked : ~(j <= 0) /\ j <= N
      OBVIOUS
    <2>2. QED
      BY <2>1, Zenon
  <1>3. n \in Nat /\ 1 <= n /\ n <= Cardinality(picked) /\ Cardinality(picked) \in Nat
    BY <1>1, FS_CardinalityType
  <1>4. 0 \in below
    BY <1>2, <1>3, FS_EmptySet
  <1>5. m \in below /\ \A i \in below : i <= m
    <2> HIDE DEF below
    <2>1. below \in SUBSET (0..N)
      BY DEF below
    <2>2. QED
      BY <1>4, <2>1, MaxIsIn
  <1> HIDE DEF m
  <1>6. m \in 0..N /\ Cardinality(Upto(m)) < n
    BY <1>5
  <1>7. m # N
    BY <1>2, <1>3, <1>6
  <1>8. m + 1 \in 0..N /\ ~(m + 1 <= m)
    BY <1>6, <1>7
  <1>9. ~(Cardinality(Upto(m + 1)) < n)
    BY <1>5, <1>8
  <1>10. m + 1 \in picked
    <2> SUFFICES ASSUME m + 1 \notin picked PROVE FALSE
      OBVIOUS
    <2>1. Upto(m + 1) = Upto(m)
      <3>1. \A j \in picked : j <= m + 1 <=> j <= m
        BY <1>6
      <3>2. QED
        BY <3>1, Zenon
    <2>2. QED
      BY <1>6, <1>9, <2>1
  <1>11. Cardinality(Upto(m + 1)) = Cardinality(Upto(m)) + 1
    <2>1. Upto(m + 1) = Upto(m) \cup {m + 1} /\ m + 1 \notin Upto(m)
      <3>1. \A j \in picked : j <= m + 1 <=> j <= m \/ j = m + 1
        BY <1>6
      <3>2. QED
        BY <1>8, <1>10, <3>1, Zenon
    <2> HIDE DEF Upto
    <2>2. QED
      BY <1>1, <1>6, <2>1, FS_AddElement
  <1>12. Cardinality(Upto(m + 1)) = n
    <2>1. Cardinality(Upto(m)) \in Nat
      BY <1>1, <1>6
    <2> HIDE DEF Upto
    <2>2. QED
      BY <1>3, <1>6, <1>9, <1>11, <2>1
  <1>13. QED
    BY <1>10, <1>12

LEMMA PickType ==
  ASSUME NEW S, NEW s \in Seq(S), NEW picked \in SUBSET DOMAIN s
  PROVE  /\ Pick(s, picked) \in Seq(S)
         /\ \A n \in DOMAIN Pick(s, picked) : \E i \in picked : Pick(s, picked)[n] = s[i]
  <1> DEFINE at(n) == CHOOSE i \in picked : Cardinality({j \in picked : j <= i}) = n
  <1>1. Len(s) \in Nat /\ picked \in SUBSET (1..Len(s))
    OBVIOUS
  <1>2. \A n \in 1..Cardinality(picked) : at(n) \in picked
    <2> SUFFICES ASSUME NEW n \in 1..Cardinality(picked) PROVE at(n) \in picked
      OBVIOUS
    <2>1. \E i \in picked : Cardinality({j \in picked : j <= i}) = n
      BY <1>1, RankIsTaken
    <2>2. QED
      BY <2>1
  <1>3. Pick(s, picked) = [n \in 1..Cardinality(picked) |-> s[at(n)]]
    BY DEF Pick
  <1>4. IsFiniteSet(picked)
    BY <1>1, FS_Interval, FS_Subset
  <1>5. Cardinality(picked) \in Nat
    BY <1>4, FS_CardinalityType
  <1> HIDE DEF at
  <1>6. QED
    BY SMTT(30), <1>2, <1>3, <1>5

LEMMA ChangesSinceType ==
  ASSUME NEW s \in States, NEW c, NEW scope, NEW limit
  PROVE  LET found == ChangesSince(s, c, scope, limit)
         IN /\ found \in Seq(Events)
            /\ \A n \in DOMAIN found : \E i \in DOMAIN s.changes :
                 found[n] = s.changes[i] /\ s.changes[i].sequence > c
  <1>1. s.changes \in Seq(Events)
    BY StateFields
  <1> DEFINE later == {i \in DOMAIN s.changes : /\ s.changes[i].sequence > c
                                                /\ s.changes[i].key \in scope}
             picked == {i \in later : Cardinality({j \in later : j <= i}) <= limit}
  <1>2. /\ ChangesSince(s, c, scope, limit) = Pick(s.changes, picked)
        /\ picked \in SUBSET DOMAIN s.changes
        /\ \A i \in picked : s.changes[i].sequence > c
    BY DEF ChangesSince
  <1> HIDE DEF picked
  <1>3. /\ Pick(s.changes, picked) \in Seq(Events)
        /\ \A n \in DOMAIN Pick(s.changes, picked) :
             \E i \in picked : Pick(s.changes, picked)[n] = s.changes[i]
    <2> DEFINE all == s.changes
    <2>1. all \in Seq(Events) /\ picked \in SUBSET DOMAIN all
      BY <1>1, <1>2
    <2> HIDE DEF all
    <2>2. /\ Pick(all, picked) \in Seq(Events)
          /\ \A n \in DOMAIN Pick(all, picked) : \E i \in picked : Pick(all, picked)[n] = all[i]
      BY <2>1, PickType
    <2>3. QED
      BY <2>2 DEF all
  <1>4. QED
    BY <1>2, <1>3

\* A state as a function of the history of commits it has seen.

Blank == [k \in Keys |-> NoRecord]

\* The place of the last event of a history with a change id, 0 if none.
LastHit(L, r) == Latest({i \in DOMAIN L : L[i].changeId = r})

\* The newest changes, as many as are retained.
Retained(L) ==
  SubSeq(L, IF Len(L) > Retention THEN Len(L) - Retention + 1 ELSE 1, Len(L))

\* The change ids that are remembered: those of retained changes.
AppliedBy(L) ==
  [r \in RemoteIds |-> IF LastHit(L, r) + Retention > Len(L) THEN LastHit(L, r) ELSE 0]

Remembers(s, L) ==
  s.sequence = Len(L) /\ s.changes = Retained(L) /\ s.appliedChangeIds = AppliedBy(L)

Numbered(L) == \A n \in DOMAIN L : L[n].sequence = n

LEMMA ConcatIs ==
  ASSUME NEW S, NEW a \in Seq(S), NEW b \in Seq(S)
  PROVE  /\ a \o b \in Seq(S) /\ Len(a \o b) = Len(a) + Len(b)
         /\ \A i \in 1..Len(a) : (a \o b)[i] = a[i]
         /\ \A i \in 1..Len(b) : (a \o b)[Len(a) + i] = b[i]
         /\ \A i \in 1..(Len(a) + Len(b)) : i > Len(a) => (a \o b)[i] = b[i - Len(a)]
  OBVIOUS

LEMMA EmptyIs == ASSUME NEW S, NEW s \in Seq(S) PROVE s = << >> <=> Len(s) = 0
  OBVIOUS

LEMMA SubSeqIs ==
  ASSUME NEW S, NEW s \in Seq(S), NEW m \in Nat \ {0}, NEW n \in 0..Len(s)
  PROVE  /\ SubSeq(s, m, n) \in Seq(S)
         /\ Len(SubSeq(s, m, n)) = IF m <= n THEN n - m + 1 ELSE 0
         /\ \A i \in 1..Len(SubSeq(s, m, n)) : SubSeq(s, m, n)[i] = s[m + i - 1]
  OBVIOUS

LEMMA SameSequence ==
  ASSUME NEW S, NEW a \in Seq(S), NEW b \in Seq(S), Len(a) = Len(b),
         \A i \in 1..Len(a) : a[i] = b[i]
  PROVE  a = b
  OBVIOUS

LEMMA RetainedIs ==
  ASSUME NEW L \in Seq(Events)
  PROVE  /\ Retained(L) \in Seq(Events)
         /\ Len(Retained(L)) = IF Len(L) > Retention THEN Retention ELSE Len(L)
         /\ \A i \in 1..Len(Retained(L)) : Retained(L)[i] = L[Len(L) - Len(Retained(L)) + i]
  <1> DEFINE m == IF Len(L) > Retention THEN Len(L) - Retention + 1 ELSE 1
  <1>1. m \in Nat \ {0} /\ Len(L) \in 0..Len(L) /\ Len(L) \in Nat
    BY RetentionAssumption
  <1>2. Retained(L) = SubSeq(L, m, Len(L))
    BY DEF Retained
  <1> HIDE DEF m
  <1>3. /\ Retained(L) \in Seq(Events)
        /\ Len(Retained(L)) = IF m <= Len(L) THEN Len(L) - m + 1 ELSE 0
        /\ \A i \in 1..Len(Retained(L)) : Retained(L)[i] = L[m + i - 1]
    BY <1>1, <1>2, SubSeqIs
  <1> DEFINE n == Len(L)
             q == Len(Retained(L))
  <1>4. n \in Nat /\ q = (IF m <= n THEN n - m + 1 ELSE 0)
        /\ m = (IF n > Retention THEN n - Retention + 1 ELSE 1)
    BY <1>1, <1>3 DEF m
  <1>5. /\ q = IF n > Retention THEN Retention ELSE n
        /\ \A i \in 1..q : m + i - 1 = n - q + i
    <2> HIDE DEF n, q
    <2>1. QED
      BY <1>1, <1>4, RetentionAssumption
  <1>6. QED
    BY <1>3, <1>5

LEMMA LastHitIs ==
  ASSUME NEW L \in Seq(Events), NEW r
  PROVE  /\ LastHit(L, r) \in 0..Len(L)
         /\ LastHit(L, r) # 0 => L[LastHit(L, r)].changeId = r
         /\ \A i \in DOMAIN L : L[i].changeId = r => i <= LastHit(L, r)
  <1> DEFINE hits == {i \in DOMAIN L : L[i].changeId = r}
  <1>1. hits \in SUBSET (1..Len(L)) /\ Len(L) \in Nat
    OBVIOUS
  <1>2. LastHit(L, r) = Latest(hits)
    BY DEF LastHit
  <1> HIDE DEF hits
  <1>3. /\ LastHit(L, r) \in hits \cup {0} /\ LastHit(L, r) \in 0..Len(L)
        /\ \A i \in hits : i <= LastHit(L, r)
    BY <1>1, <1>2, LatestIsIn
  <1>4. QED
    BY <1>3 DEF hits

\* The last event with an id is in the second part of a history if there is one.
LEMMA LastHitOfParts ==
  ASSUME NEW L \in Seq(Events), NEW e \in Seq(Events), NEW r
  PROVE  LET hits == {i \in DOMAIN e : e[i].changeId = r}
         IN LastHit(L \o e, r) = IF hits = {} THEN LastHit(L, r) ELSE Len(L) + Max(hits)
  <1> DEFINE hits == {i \in DOMAIN e : e[i].changeId = r}
             G == L \o e
             a == LastHit(L, r)
             g == LastHit(G, r)
  <1>1. /\ G \in Seq(Events) /\ Len(G) = Len(L) + Len(e) /\ Len(L) \in Nat /\ Len(e) \in Nat
        /\ \A i \in 1..Len(L) : G[i] = L[i]
        /\ \A i \in 1..Len(e) : G[Len(L) + i] = e[i]
        /\ \A i \in 1..Len(G) : i > Len(L) => G[i] = e[i - Len(L)]
    BY ConcatIs
  <1> HIDE DEF G
  <1>2. /\ a \in 0..Len(L) /\ (a # 0 => L[a].changeId = r)
        /\ \A i \in 1..Len(L) : L[i].changeId = r => i <= a
    BY LastHitIs
  <1>3. /\ g \in 0..Len(G) /\ (g # 0 => G[g].changeId = r)
        /\ \A i \in 1..Len(G) : G[i].changeId = r => i <= g
    BY <1>1, LastHitIs
  <1> HIDE DEF a, g
  <1> DEFINE l == Len(L)
  <1>4. CASE hits = {}
    <2>1. \A i \in 1..Len(e) : e[i].changeId # r
      BY <1>4
    <2>2. g <= Len(L)
      <3>1. ASSUME g > Len(L) PROVE FALSE
        <4>1. g \in 1..Len(G) /\ g - Len(L) \in 1..Len(e) /\ g # 0
          BY <1>1, <1>3, <3>1
        <4>2. G[g] = e[g - Len(L)]
          BY <1>1, <3>1, <4>1
        <4>3. QED
          BY <1>3, <2>1, <4>1, <4>2
      <3>2. QED
        BY <1>1, <1>3, <3>1
    <2>3. a <= g
      <3>1. CASE a = 0
        BY <1>1, <1>3, <3>1
      <3>2. CASE a # 0
        <4>1. a \in 1..Len(L) /\ a \in 1..Len(G)
          BY <1>1, <1>2, <3>2
        <4>2. QED
          BY <1>1, <1>2, <1>3, <3>2, <4>1
      <3>3. QED
        BY <3>1, <3>2
    <2>4. g <= a
      <3>1. CASE g = 0
        BY <1>1, <1>2, <3>1
      <3>2. CASE g # 0
        <4>1. g \in 1..Len(L)
          BY <1>1, <1>3, <2>2, <3>2
        <4>2. QED
          BY <1>1, <1>2, <1>3, <3>2, <4>1
      <3>3. QED
        BY <3>1, <3>2
    <2>5. g = a
      BY <1>1, <1>2, <1>3, <2>3, <2>4
    <2>6. QED
      BY <1>4, <2>5 DEF a, g, G
  <1>5. CASE hits # {}
    <2> DEFINE m == Max(hits)
    <2>1. m \in hits /\ \A x \in hits : x <= m
      <3>1. hits \in SUBSET (0..Len(e)) /\ Len(e) \in Nat
        OBVIOUS
      <3> HIDE DEF hits
      <3>2. QED
        BY <1>5, <3>1, MaxIsIn
    <2> HIDE DEF m
    <2>2. m \in 1..Len(e) /\ e[m].changeId = r
      BY <2>1
    <2>3. Len(L) + m \in 1..Len(G) /\ G[Len(L) + m].changeId = r
      BY <1>1, <2>2
    <2>4. Len(L) + m <= g
      BY <1>3, <2>3
    <2>5. g <= Len(L) + m
      <3>1. g > Len(L) /\ g \in 1..Len(G) /\ g # 0 /\ g - Len(L) \in 1..Len(e)
        BY <1>1, <1>3, <2>2, <2>4
      <3>2. e[g - Len(L)].changeId = r
        BY <1>1, <1>3, <3>1
      <3>3. g - Len(L) <= m
        BY <2>1, <3>1, <3>2
      <3>4. QED
        BY <1>1, <1>3, <2>2, <3>1, <3>3
    <2>6. g = Len(L) + m
      <3>1. g \in Int /\ l \in Int /\ m \in Int /\ g <= l + m /\ l + m <= g
        BY <1>1, <1>3, <2>2, <2>4, <2>5
      <3> HIDE DEF l
      <3>2. g = l + m
        BY <3>1
      <3>3. QED
        BY <3>2 DEF l
    <2>7. QED
      BY <1>5, <2>6 DEF g, G, m
  <1>6. QED
    BY <1>4, <1>5

\* Recording events makes of the state of a history the state of the longer one:
\* the newest changes are retained, and an id is known while its last change is.
LEMMA RecordedHistory ==
  ASSUME NEW s \in States, NEW L \in Seq(Events), NEW e \in Seq(Events),
         Numbered(L \o e), Remembers(s, L)
  PROVE  /\ Remembers(RecordEvents(s, e), L \o e)
         /\ RecordEvents(s, e).docs = s.docs
         /\ RecordEvents(s, e).databaseId = s.databaseId
  <1> DEFINE G == L \o e
             A == Retained(L)
             C == A \o e
             n == Len(L)
             k == Len(e)
             a == Len(A)
             excess == Len(C) - Retention
             hits(r) == {i \in DOMAIN e : e[i].changeId = r}
             ids == [r \in RemoteIds |-> IF hits(r) = {} THEN s.appliedChangeIds[r]
                                         ELSE e[Max(hits(r))].sequence]
             t == [s EXCEPT !.sequence = s.sequence + Len(e), !.changes = s.changes \o e,
                            !.appliedChangeIds = ids]
             Dropped(r) == \E i \in 1..excess : C[i].changeId = r /\ C[i].sequence = ids[r]
             last(r) == LastHit(G, r)
  <1>1. /\ G \in Seq(Events) /\ Len(G) = n + k /\ n \in Nat /\ k \in Nat
        /\ \A i \in 1..n : G[i] = L[i]
        /\ \A i \in 1..k : G[n + i] = e[i]
    BY ConcatIs
  <1>2. /\ A \in Seq(Events) /\ a = (IF n > Retention THEN Retention ELSE n)
        /\ \A i \in 1..a : A[i] = L[n - a + i]
    BY RetainedIs
  <1>3. /\ C \in Seq(Events) /\ Len(C) = a + k /\ a \in Nat
        /\ \A i \in 1..a : C[i] = A[i]
        /\ \A i \in 1..(a + k) : i > a => C[i] = e[i - a]
    <2> HIDE DEF A
    <2>1. /\ A \o e \in Seq(Events) /\ Len(A \o e) = Len(A) + Len(e)
          /\ \A i \in 1..Len(A) : (A \o e)[i] = A[i]
          /\ \A i \in 1..Len(e) : (A \o e)[Len(A) + i] = e[i]
          /\ \A i \in 1..(Len(A) + Len(e)) : i > Len(A) => (A \o e)[i] = e[i - Len(A)]
      BY <1>2, ConcatIs, Zenon
    <2>2. Len(A) \in Nat
      BY <1>2
    <2>3. QED
      BY <2>1, <2>2
  <1>4. \A m \in 1..(n + k) : G[m].sequence = m
    BY <1>1 DEF Numbered
  <1>5. /\ Len(Retained(G)) = (IF n + k > Retention THEN Retention ELSE n + k)
        /\ Retained(G) \in Seq(Events)
        /\ \A i \in 1..Len(Retained(G)) : Retained(G)[i] = G[(n + k) - Len(Retained(G)) + i]
    <2> HIDE DEF G, n, k
    <2>1. /\ Retained(G) \in Seq(Events)
          /\ Len(Retained(G)) = IF Len(G) > Retention THEN Retention ELSE Len(G)
          /\ \A i \in 1..Len(Retained(G)) : Retained(G)[i] = G[Len(G) - Len(Retained(G)) + i]
      BY <1>1, RetainedIs, Zenon
    <2>2. QED
      BY <1>1, <2>1
  <1>6. s.sequence = n /\ s.changes = A /\ s.appliedChangeIds = AppliedBy(L)
    BY DEF Remembers
  <1>7. RecordEvents(s, e) = PruneChangeMetadata(t)
    BY DEF RecordEvents
  <1>8. /\ t.sequence = n + k /\ t.changes = C /\ t.appliedChangeIds = ids
        /\ t.docs = s.docs /\ t.databaseId = s.databaseId /\ t \in States
    <2>1. s.sequence + Len(e) = n + k /\ s.changes \o e = C /\ n + k \in Nat
      BY <1>1, <1>6
    <2>2. ids \in [RemoteIds -> Nat]
      <3> SUFFICES ASSUME NEW r \in RemoteIds PROVE ids[r] \in Nat
        OBVIOUS
      <3>1. hits(r) # {} => Max(hits(r)) \in hits(r)
        BY MaxIndex
      <3>2. \A i \in hits(r) : e[i].sequence \in Nat
        BY ElementType, EventFields
      <3>3. QED
        BY <3>1, <3>2 DEF States
    <2>3. t = [s EXCEPT !.sequence = n + k, !.changes = C, !.appliedChangeIds = ids]
      <3> HIDE DEF ids, n, k, C
      <3>1. QED
        BY <2>1
    <2> HIDE DEF C, ids, n, k, t
    <2>4. QED
      <3>1. n + k \in Nat /\ C \in Seq(Events)
        BY <1>3, <2>1
      <3>2. QED
        BY <2>2, <2>3, <3>1, StateFields DEF States
  <1>9. ASSUME NEW r \in RemoteIds
        PROVE  /\ last(r) \in 0..(n + k) /\ (last(r) # 0 => G[last(r)].changeId = r)
               /\ ids[r] = IF last(r) + Retention > n THEN last(r) ELSE 0
    <2>1. last(r) \in 0..(n + k) /\ (last(r) # 0 => G[last(r)].changeId = r)
      <3> HIDE DEF G
      <3>1. QED
        BY <1>1, LastHitIs
    <2>2. last(r) = IF hits(r) = {} THEN LastHit(L, r) ELSE n + Max(hits(r))
      BY ZenonT(30), LastHitOfParts
    <2>3. CASE hits(r) = {}
      <3>1. ids[r] = AppliedBy(L)[r]
        BY <1>6, <2>3
      <3>2. QED
        BY <2>1, <2>2, <2>3, <3>1 DEF AppliedBy
    <2>4. CASE hits(r) # {}
      <3>1. Max(hits(r)) \in hits(r)
        BY <2>4, MaxIndex
      <3> DEFINE m == Max(hits(r))
      <3>2. m \in 1..k
        BY <3>1
      <3>3. ids[r] = e[m].sequence
        BY <2>4
      <3> HIDE DEF m, G, ids
      <3>4. n + m \in 1..(n + k) /\ G[n + m] = e[m]
        BY <1>1, <3>2
      <3>5. ids[r] = n + m
        BY <1>4, <3>3, <3>4
      <3>6. last(r) = n + m
        BY <2>2, <2>4 DEF m
      <3>7. QED
        BY <1>1, <2>1, <3>2, <3>5, <3>6, RetentionAssumption
    <2>5. QED
      BY <2>1, <2>3, <2>4
  <1> HIDE DEF G, A, C, ids, t, n, k, a
  <1>10. \A i \in 1..(a + k) : C[i] = G[(n - a) + i]
    <2> SUFFICES ASSUME NEW i \in 1..(a + k) PROVE C[i] = G[(n - a) + i]
      OBVIOUS
    <2>1. CASE i <= a
      <3>1. i \in 1..a /\ (n - a) + i \in 1..n
        BY <1>1, <1>2, <1>3, <2>1, RetentionAssumption
      <3>2. QED
        BY <1>1, <1>2, <1>3, <3>1
    <2>2. CASE ~(i <= a)
      <3>1. i - a \in 1..k /\ n + (i - a) = (n - a) + i /\ i > a
        BY <1>1, <1>3, <2>2
      <3>2. QED
        BY <1>1, <1>3, <3>1
    <2>3. QED
      BY <2>1, <2>2
  <1>11. \A r \in RemoteIds : AppliedBy(G)[r] = IF last(r) + Retention > n + k THEN last(r) ELSE 0
    BY <1>1 DEF AppliedBy
  <1>12. AppliedBy(G) = [r \in RemoteIds |-> AppliedBy(G)[r]] /\ ids = [r \in RemoteIds |-> ids[r]]
    BY DEF AppliedBy, ids
  <1>13. CASE excess <= 0
    <2>1. RecordEvents(s, e) = t
      BY <1>7, <1>8, <1>13 DEF PruneChangeMetadata
    <2>2. C = Retained(G)
      <3> DEFINE q == Len(Retained(G))
      <3>1. Len(C) = q /\ n - a = (n + k) - q
        <4> HIDE DEF q
        <4>1. q = (IF n + k > Retention THEN Retention ELSE n + k)
          BY <1>5 DEF q
        <4>2. QED
          BY <1>1, <1>2, <1>3, <1>13, <4>1, RetentionAssumption
      <3>2. \A i \in 1..Len(C) : C[i] = Retained(G)[i]
        BY <1>3, <1>5, <1>10, <3>1
      <3>3. QED
        BY <1>3, <1>5, <3>1, <3>2, SameSequence
    <2>3. \A r \in RemoteIds : ids[r] = AppliedBy(G)[r]
      <3> SUFFICES ASSUME NEW r \in RemoteIds PROVE ids[r] = AppliedBy(G)[r]
        OBVIOUS
      <3> DEFINE h == last(r)
      <3>1. h \in Nat /\ ids[r] = (IF h + Retention > n THEN h ELSE 0)
            /\ AppliedBy(G)[r] = (IF h + Retention > n + k THEN h ELSE 0)
        BY <1>1, <1>9, <1>11
      <3> HIDE DEF h
      <3>2. QED
        BY <1>1, <1>2, <1>3, <1>13, <3>1, RetentionAssumption
    <2>4. ids = AppliedBy(G)
      BY <1>12, <2>3, Zenon
    <2>5. QED
      BY <1>1, <1>8, <2>1, <2>2, <2>4 DEF Remembers, G
  <1>14. CASE ~(excess <= 0)
    <2> DEFINE D == SubSeq(C, excess + 1, Len(C))
               kept == [r \in RemoteIds |-> IF Dropped(r) THEN 0 ELSE ids[r]]
    <2>1. PruneChangeMetadata(t) = [t EXCEPT !.changes = D, !.appliedChangeIds = kept]
      BY <1>8, <1>14 DEF PruneChangeMetadata
    <2>2. /\ RecordEvents(s, e).sequence = n + k /\ RecordEvents(s, e).changes = D
          /\ RecordEvents(s, e).appliedChangeIds = kept
          /\ RecordEvents(s, e).docs = s.docs /\ RecordEvents(s, e).databaseId = s.databaseId
      <3> HIDE DEF D, kept
      <3>1. QED
        BY <1>7, <1>8, <2>1
    <2>3. D = Retained(G)
      <3>1. excess \in Nat \ {0} /\ excess + 1 \in Nat \ {0} /\ Len(C) \in 0..Len(C)
        BY <1>1, <1>3, <1>14, RetentionAssumption
      <3>2. /\ D \in Seq(Events) /\ Len(D) = (IF excess + 1 <= Len(C) THEN Len(C) - (excess + 1) + 1 ELSE 0)
            /\ \A i \in 1..Len(D) : D[i] = C[(excess + 1) + i - 1]
        BY SMTT(30), <1>3, <3>1, SubSeqIs
      <3> HIDE DEF D
      <3>3. Len(D) = Retention /\ Len(Retained(G)) = Retention
        BY <1>1, <1>2, <1>3, <1>5, <1>14, <3>2, RetentionAssumption
      <3>4. ASSUME NEW i \in 1..Len(D) PROVE D[i] = Retained(G)[i]
        <4>1. /\ (excess + 1) + i - 1 = excess + i /\ excess + i \in 1..(a + k)
              /\ (n - a) + (excess + i) = (n + k) - Len(Retained(G)) + i
          BY <1>1, <1>3, <1>14, <3>3, RetentionAssumption
        <4>2. D[i] = C[excess + i] /\ C[excess + i] = G[(n - a) + (excess + i)]
          BY <1>10, <3>2, <4>1
        <4>3. QED
          BY <1>5, <3>3, <4>1, <4>2
      <3>5. QED
        BY <1>5, <3>2, <3>3, <3>4, SameSequence
    <2>4. ASSUME NEW r \in RemoteIds PROVE kept[r] = AppliedBy(G)[r]
      <3> DEFINE h == last(r)
      <3>1. h \in 0..(n + k) /\ (h # 0 => G[h].changeId = r)
            /\ ids[r] = (IF h + Retention > n THEN h ELSE 0)
            /\ AppliedBy(G)[r] = (IF h + Retention > n + k THEN h ELSE 0)
        BY <1>1, <1>9, <1>11
      <3> HIDE DEF h
      <3>2. kept[r] = IF Dropped(r) THEN 0 ELSE ids[r]
        OBVIOUS
      <3>3. CASE ids[r] = 0
        BY <1>1, <3>1, <3>2, <3>3, RetentionAssumption
      <3>4. CASE ids[r] # 0
        <4>1. ids[r] = h /\ h + Retention > n /\ h # 0 /\ h \in Nat
          BY <1>1, <3>1, <3>4
        <4>2. h - (n - a) \in Int /\ h - (n - a) >= 1
          BY <1>1, <1>2, <1>3, <4>1, RetentionAssumption
        <4>3. \A i \in 1..excess : i \in 1..(a + k) /\ (n - a) + i \in 1..(n + k)
          BY SMTT(40), <1>1, <1>2, <1>3, RetentionAssumption
        <4>4. \A i \in 1..excess : C[i].sequence = (n - a) + i
          BY <1>4, <1>10, <4>3
        <4>5. CASE h + Retention > n + k
          <5>1. ASSUME NEW i \in 1..excess PROVE (n - a) + i # h
            BY SMTT(30), <1>1, <1>3, <4>1, <4>5, RetentionAssumption
          <5>2. ~Dropped(r)
            BY <4>1, <4>4, <5>1
          <5>3. QED
            BY <3>1, <3>2, <4>1, <4>5, <5>2
        <4>6. CASE ~(h + Retention > n + k)
          <5> DEFINE i == h - (n - a)
          <5>1. i \in 1..excess /\ (n - a) + i = h /\ i \in 1..(a + k)
            BY <1>1, <1>3, <3>1, <4>2, <4>6, RetentionAssumption
          <5> HIDE DEF i
          <5>2. C[i].changeId = r /\ C[i].sequence = ids[r]
            BY <1>10, <3>1, <4>1, <4>4, <5>1
          <5>3. Dropped(r)
            BY <5>1, <5>2
          <5>4. QED
            BY <3>1, <3>2, <4>6, <5>3
        <4>7. QED
          BY <4>5, <4>6
      <3>5. QED
        BY <3>3, <3>4
    <2>5. kept = AppliedBy(G)
      <3>1. kept = [r \in RemoteIds |-> kept[r]]
        OBVIOUS
      <3> HIDE DEF kept
      <3>2. QED
        BY <1>12, <2>4, <3>1, Zenon
    <2> HIDE DEF D, kept
    <2>6. QED
      BY <1>1, <2>2, <2>3, <2>5 DEF Remembers, G
  <1>15. QED
    BY <1>13, <1>14

\* Applying events in two goes is applying them all: the last event of a key decides.
LEMMA ApplyParts ==
  ASSUME NEW docs \in [Keys -> Records], NEW L \in Seq(Events), NEW e \in Seq(Events)
  PROVE  ApplyEvents(ApplyEvents(docs, L), e) = ApplyEvents(docs, L \o e)
  <1> DEFINE G == L \o e
             n == Len(L)
  <1>1. /\ G \in Seq(Events) /\ Len(G) = n + Len(e) /\ n \in Nat /\ Len(e) \in Nat
        /\ \A i \in 1..n : G[i] = L[i]
        /\ \A i \in 1..Len(e) : G[n + i] = e[i]
        /\ \A i \in 1..(n + Len(e)) : i > n => G[i] = e[i - n]
    BY ConcatIs
  <1> HIDE DEF G
  <1> SUFFICES ASSUME NEW k \in Keys
               PROVE  ApplyEvents(ApplyEvents(docs, L), e)[k] = ApplyEvents(docs, G)[k]
    <2>1. ApplyEvents(ApplyEvents(docs, L), e) = [k \in Keys |-> ApplyEvents(ApplyEvents(docs, L), e)[k]]
      BY DEF ApplyEvents
    <2>2. ApplyEvents(docs, G) = [k \in Keys |-> ApplyEvents(docs, G)[k]]
      BY DEF ApplyEvents
    <2>3. \A k \in Keys : ApplyEvents(ApplyEvents(docs, L), e)[k] = ApplyEvents(docs, G)[k]
      OBVIOUS
    <2>4. QED
      BY <2>1, <2>2, <2>3, Zenon DEF G
  <1> DEFINE inL == {i \in DOMAIN L : L[i].key = k}
             inE == {i \in DOMAIN e : e[i].key = k}
             inG == {i \in DOMAIN G : G[i].key = k}
  <1>2. /\ ApplyEvents(docs, L)[k] = IF inL = {} THEN docs[k] ELSE L[Max(inL)].record
        /\ ApplyEvents(ApplyEvents(docs, L), e)[k] =
             IF inE = {} THEN ApplyEvents(docs, L)[k] ELSE e[Max(inE)].record
        /\ ApplyEvents(docs, G)[k] = IF inG = {} THEN docs[k] ELSE G[Max(inG)].record
    BY DEF ApplyEvents
  <1>3. inL \in SUBSET (1..n) /\ inE \in SUBSET (1..Len(e)) /\ inG \in SUBSET (1..(n + Len(e)))
    BY <1>1
  <1>4. /\ \A i \in 1..n : i \in inL <=> i \in inG
        /\ \A i \in 1..Len(e) : i \in inE <=> n + i \in inG
        /\ \A i \in inG : i > n => i - n \in inE
        /\ \A i \in inG : i <= n => i \in inL
    <2>1. \A i \in 1..n : i \in 1..(n + Len(e))
      BY <1>1
    <2>2. \A i \in 1..Len(e) : n + i \in 1..(n + Len(e))
      BY <1>1
    <2>3. DOMAIN G = 1..(n + Len(e)) /\ DOMAIN L = 1..n /\ DOMAIN e = 1..Len(e)
      BY <1>1
    <2>4. \A i \in inG : i > n => i - n \in 1..Len(e)
      BY <1>1, <2>3
    <2>5. \A i \in 1..n : i \in inL <=> i \in inG
      BY <1>1, <2>1, <2>3
    <2>6. \A i \in 1..Len(e) : i \in inE <=> n + i \in inG
      BY <1>1, <2>2, <2>3
    <2>7. ASSUME NEW i \in inG, i > n PROVE i - n \in inE
      <3>1. i \in 1..(n + Len(e)) /\ i - n \in 1..Len(e)
        BY <2>3, <2>4, <2>7
      <3>2. G[i] = e[i - n]
        BY <1>1, <2>7, <3>1
      <3>3. QED
        BY <2>3, <3>1, <3>2
    <2>8. ASSUME NEW i \in inG, i <= n PROVE i \in inL
      <3>1. i \in 1..n
        BY <1>1, <2>3, <2>8
      <3>2. QED
        BY <1>1, <2>3, <3>1
    <2>9. QED
      BY <2>5, <2>6, <2>7, <2>8
  <1>5. inL # {} => Max(inL) \in inL /\ \A x \in inL : x <= Max(inL)
    <2>1. inL \in SUBSET (0..n) /\ n \in Nat
      BY <1>1, <1>3
    <2> HIDE DEF inL, n
    <2>2. QED
      BY <2>1, MaxIsIn
  <1>6. inE # {} => Max(inE) \in inE /\ \A x \in inE : x <= Max(inE)
    <2>1. inE \in SUBSET (0..Len(e)) /\ Len(e) \in Nat
      BY <1>1, <1>3
    <2> HIDE DEF inE
    <2>2. QED
      BY <2>1, MaxIsIn
  <1>7. inG # {} => Max(inG) \in inG /\ \A x \in inG : x <= Max(inG)
    <2> DEFINE N == n + Len(e)
    <2>1. inG \in SUBSET (0..N) /\ N \in Nat
      BY <1>1, <1>3
    <2> HIDE DEF inG, N
    <2>2. QED
      BY <2>1, MaxIsIn
  <1> DEFINE g == Max(inG)
             l == Max(inL)
             m == Max(inE)
  <1> HIDE DEF inL, inE, inG, n, g, l, m
  <1>8. CASE inE # {}
    <2>1. m \in 1..Len(e) /\ n + m \in inG /\ inG # {}
      BY <1>3, <1>4, <1>6, <1>8 DEF m
    <2>2. g \in inG /\ n + m <= g /\ g \in 1..(n + Len(e))
      BY <1>3, <1>7, <2>1 DEF g
    <2>3. g - n \in inE /\ g - n <= m
      <3>1. g > n
        BY <1>1, <2>1, <2>2
      <3>2. QED
        BY <1>4, <1>6, <1>8, <2>2, <3>1 DEF m
    <2>4. g = n + m
      BY <1>1, <2>1, <2>2, <2>3
    <2>5. G[g] = e[m]
      BY <1>1, <2>1, <2>4
    <2>6. QED
      BY <1>2, <1>8, <2>1, <2>5 DEF g, m
  <1>9. CASE inE = {}
    <2>1. \A i \in inG : i <= n
      BY <1>1, <1>3, <1>4, <1>9
    <2>2. inG = inL
      BY <1>3, <1>4, <2>1
    <2>3. inL # {} => l \in 1..n /\ G[l] = L[l]
      BY <1>1, <1>3, <1>5 DEF l
    <2>4. QED
      BY <1>2, <1>9, <2>2, <2>3 DEF l
  <1>10. QED
    BY <1>8, <1>9

LEMMA PartsOf ==
  ASSUME NEW S, NEW L \in Seq(S), NEW n \in 0..Len(L)
  PROVE  /\ SubSeq(L, 1, n) \in Seq(S) /\ SubSeq(L, n + 1, Len(L)) \in Seq(S)
         /\ Len(SubSeq(L, 1, n)) = n /\ Len(SubSeq(L, n + 1, Len(L))) = Len(L) - n
         /\ \A i \in 1..n : SubSeq(L, 1, n)[i] = L[i]
         /\ \A i \in 1..(Len(L) - n) : SubSeq(L, n + 1, Len(L))[i] = L[n + i]
         /\ SubSeq(L, 1, n) \o SubSeq(L, n + 1, Len(L)) = L
  <1> DEFINE a == SubSeq(L, 1, n)
             b == SubSeq(L, n + 1, Len(L))
  <1>1. a \in Seq(S) /\ Len(a) = n /\ \A i \in 1..n : a[i] = L[i]
    OBVIOUS
  <1>2. b \in Seq(S) /\ Len(b) = Len(L) - n /\ \A i \in 1..(Len(L) - n) : b[i] = L[n + i]
    OBVIOUS
  <1> HIDE DEF a, b
  <1>3. /\ a \o b \in Seq(S) /\ Len(a \o b) = Len(L)
        /\ \A i \in 1..n : (a \o b)[i] = a[i]
        /\ \A i \in 1..Len(L) : i > n => (a \o b)[i] = b[i - n]
    BY <1>1, <1>2
  <1>4. ASSUME NEW i \in 1..Len(L) PROVE (a \o b)[i] = L[i]
    <2>1. CASE i <= n
      BY <1>1, <1>3, <2>1
    <2>2. CASE ~(i <= n)
      <3>1. i - n \in 1..(Len(L) - n) /\ n + (i - n) = i /\ i > n
        BY <2>2
      <3>2. QED
        BY <1>2, <1>3, <3>1
    <2>3. QED
      BY <2>1, <2>2
  <1>5. a \o b = L
    BY <1>3, <1>4, SameSequence
  <1>6. QED
    BY <1>1, <1>2, <1>5 DEF a, b

\* Picking elements of a sequence, by listing their indices in order.

Lists(f, n, S) ==
  /\ n \in Nat /\ f \in [1..n -> S]
  /\ \A i, j \in 1..n : i < j => f[i] < f[j]
  /\ \A x \in S : \E i \in 1..n : f[i] = x

LEMMA CountedBy ==
  ASSUME NEW k \in Nat, NEW T, NEW g \in [1..k -> T],
         \A i, j \in 1..k : g[i] = g[j] => i = j, \A x \in T : \E i \in 1..k : g[i] = x
  PROVE  IsFiniteSet(T) /\ Cardinality(T) = k
  <1>1. g \in Bijection(1..k, T)
    BY DEF Bijection, Injection, Surjection, IsInjective
  <1>2. ExistsBijection(1..k, T)
    BY <1>1 DEF ExistsBijection
  <1>3. IsFiniteSet(1..k) /\ Cardinality(1..k) = k
    <2>1. 1 \in Int /\ k \in Int /\ k = (IF 1 > k THEN 0 ELSE k - 1 + 1)
      OBVIOUS
    <2>2. IsFiniteSet(1..k) /\ Cardinality(1..k) = IF 1 > k THEN 0 ELSE k - 1 + 1
      BY <2>1, FS_Interval
    <2>3. QED
      BY <2>1, <2>2
  <1>4. QED
    BY <1>2, <1>3, FS_Bijection

\* The rank of the k-th listed element is k.
LEMMA ListedRank ==
  ASSUME NEW S \in SUBSET Nat, NEW f, NEW n, Lists(f, n, S)
  PROVE  /\ Cardinality(S) = n
         /\ \A k \in 1..n : Cardinality({j \in S : j <= f[k]}) = k
  <1>1. /\ n \in Nat /\ f \in [1..n -> S] /\ \A x \in S : \E i \in 1..n : f[i] = x
        /\ \A i, j \in 1..n : i < j => f[i] < f[j]
    BY DEF Lists
  <1>2. \A i \in 1..n : f[i] \in S /\ f[i] \in Nat
    BY <1>1
  <1>3. \A i, j \in 1..n : f[i] = f[j] => i = j
    <2> SUFFICES ASSUME NEW i \in 1..n, NEW j \in 1..n, f[i] = f[j], i # j PROVE FALSE
      OBVIOUS
    <2>1. i < j \/ j < i
      BY <1>1
    <2>2. QED
      BY <1>1, <1>2, <2>1
  <1>4. Cardinality(S) = n
    BY <1>1, <1>3, CountedBy
  <1>5. ASSUME NEW k \in 1..n PROVE Cardinality({j \in S : j <= f[k]}) = k
    <2> DEFINE T == {j \in S : j <= f[k]}
               g == [i \in 1..k |-> f[i]]
    <2>1. k \in Nat /\ \A i \in 1..k : i \in 1..n
      BY <1>1
    <2>2. ASSUME NEW i \in 1..k PROVE f[i] \in T
      <3>1. i \in 1..n /\ (i < k \/ i = k)
        BY <2>1
      <3>2. f[i] <= f[k]
        BY <1>1, <1>2, <3>1
      <3>3. QED
        BY <1>2, <3>1, <3>2
    <2>3. ASSUME NEW x \in T PROVE \E i \in 1..k : g[i] = x
      <3>1. PICK i \in 1..n : f[i] = x
        BY <1>1
      <3>2. ~(k < i)
        BY <1>1, <1>2, <3>1
      <3>3. i \in 1..k
        BY <2>1, <3>1, <3>2
      <3>4. QED
        BY <3>1, <3>3
    <2>4. g \in [1..k -> T] /\ \A i, j \in 1..k : g[i] = g[j] => i = j
      BY <1>3, <2>1, <2>2
    <2> HIDE DEF g, T
    <2>5. Cardinality(T) = k
      BY <2>1, <2>3, <2>4, CountedBy
    <2>6. QED
      BY <2>5 DEF T
  <1>6. QED
    BY <1>4, <1>5

LEMMA PickIs ==
  ASSUME NEW s, NEW S \in SUBSET Nat, NEW f, NEW n, Lists(f, n, S)
  PROVE  Pick(s, S) = [k \in 1..n |-> s[f[k]]]
  <1> DEFINE rank(i) == Cardinality({j \in S : j <= i})
  <1>1. /\ Cardinality(S) = n /\ \A k \in 1..n : rank(f[k]) = k
        /\ f \in [1..n -> S] /\ \A x \in S : \E i \in 1..n : f[i] = x
    BY ListedRank, SMTT(30) DEF Lists
  <1>2. Pick(s, S) = [k \in 1..n |-> s[CHOOSE i \in S : rank(i) = k]]
    BY <1>1 DEF Pick
  <1> HIDE DEF rank
  <1>3. ASSUME NEW k \in 1..n PROVE (CHOOSE i \in S : rank(i) = k) = f[k]
    <2>1. f[k] \in S /\ rank(f[k]) = k
      BY <1>1
    <2>2. \A i \in S : rank(i) = k => i = f[k]
      BY <1>1
    <2>3. QED
      BY <2>1, <2>2
  <1>4. QED
    BY <1>2, <1>3

-----------------------------------------------------------------------------
\* The inductive invariant.

\* The state of the engine after history L, and a state it was in before.
StateOf(s, L) ==
  /\ s \in States /\ s.databaseId = Self
  /\ Remembers(s, L) /\ s.docs = ApplyEvents(Blank, L)

Past(L, s) == s.sequence \in 0..Len(L) /\ StateOf(s, SubSeq(L, 1, s.sequence))

\* A change of history L, and a sequence up to which journal J holds all of it.
Copied(L, e) == e.sequence \in 1..Len(L) /\ e = L[e.sequence]
Covered(J) == {J[i].event.sequence : i \in DOMAIN J}
Reached(L, J, n) == n \in 0..Len(L) /\ 1..n \subseteq Covered(J)

\* The engine's history, and what is published of it.
EngineOK ==
  log \in Seq(Events) /\ Numbered(log) /\ StateOf(db, log) /\ emitted \in 0..Len(log)

\* The journal repeats the history without leaving anything out.
JournalOK(L, J) ==
  /\ J \in Seq(Range(J))
  /\ \A i \in DOMAIN J : Copied(L, J[i].event) /\ Reached(L, J, J[i].event.sequence)

\* Snapshots are identified by a number and the sequence they were taken at.
SnapshotIds(L) == [number : Nat, sequence : 0..Len(L)]

\* A manifest, in memory or on disk.
ManifestOK(L, J, m) ==
  /\ m = [snapshots |-> m.snapshots, lastSequence |-> m.lastSequence, lastHash |-> m.lastHash]
  /\ m.snapshots \subseteq SnapshotIds(L) /\ Reached(L, J, m.lastSequence)

\* A snapshot file holds what the engine was at its sequence.
FileOK(L, f) == f.id \in SnapshotIds(L) /\ Past(L, f.state) /\ f.state.sequence = f.id.sequence

\* The file numbers in use are bounded, so that there is a next one.
NumbersOK == \E n \in Nat : \A f \in files : f.id.number <= n

Stages == {"idle", "line", "written", "manifest", "rename", "start", "sync", "file",
           "subscribe", "remove"}
Busily == {"line", "written", "manifest", "rename"}
Kinds == {"none", "open", "initial", "snapshot", "prune", "saved"}

\* The line a writer has made, or has written.
LineOK(L, J, s, l) ==
  /\ s \in {"line", "written"} => Copied(L, l.event) /\ Reached(L, J, l.event.sequence - 1)
  /\ s = "written" => Reached(L, J, l.event.sequence)

\* What the manager and its writers have in hand is of history L and journal J.
Held(L, J) ==
  /\ ManifestOK(L, J, state) /\ ManifestOK(L, J, manifest)
  /\ \A f \in files : FileOK(L, f)
  /\ \A w \in Writers : ManifestOK(L, J, image[w]) /\ LineOK(L, J, stage[w], line[w])
  /\ \A i \in DOMAIN queue : Copied(L, queue[i])
  /\ \A i \in DOMAIN call.todo : Copied(L, call.todo[i])
  /\ Past(L, taken)

Shape ==
  /\ stage \in [Writers -> Stages] /\ stage["watch"] \in Busily \cup {"idle"}
  /\ DOMAIN line = Writers /\ DOMAIN image = Writers
  /\ queue \in Seq(Events)
  /\ call \in [kind : Kinds, cursor : Nat, todo : Seq(Events)]

\* Outside of open, nothing of the manager runs; while it opens, only the call.
ModeOK ==
  /\ mode \in {"closed", "refused", "opening", "open"}
  /\ mode # "open" => queue = << >> /\ stage["watch"] = "idle"
  /\ ~Up => stage["call"] = "idle"
  /\ mode = "open" => stage["call"] # "subscribe" /\ call.kind \notin {"open", "initial"}
  /\ mode = "opening" => /\ call.kind \in {"open", "initial"}
                         /\ stage["call"] \notin {"idle", "remove"}
                         /\ stage["call"] = "file" => call.kind = "initial"
  /\ call.kind = "none" => stage["call"] = "idle"

Sound == EngineOK /\ JournalOK(log, journal) /\ Shape /\ ModeOK /\ Held(log, journal)

\* The newest of the snapshots has its file.
HasNewest(snapshots) ==
  snapshots # {} =>
    \E s \in snapshots : FileOf(s) # {} /\ \A t \in snapshots \ {s} : Before(s, t)

\* Without a failed save and without an overlap the newest snapshot of the
\* manifest keeps its file: what the manifest lists is what the memory does,
\* except between a change of the list and its save.
WindowOK ==
  harmed \subseteq {"crash"} =>
    /\ HasNewest(manifest.snapshots)
    /\ Up => HasNewest(state.snapshots)
    /\ Up /\ stage["call"] \notin {"manifest", "rename", "subscribe"} =>
         state.snapshots = manifest.snapshots
    /\ \A w \in Writers : stage[w] = "rename" => image[w].snapshots = state.snapshots

\* The tail of the journal, as a manifest describes it.
TailIs(m) ==
  IF journal = << >> THEN m.lastSequence = 0 /\ m.lastHash = NoHash
  ELSE m.lastSequence = Last(journal).event.sequence /\ m.lastHash = Hash(Last(journal))

Chained ==
  \A i \in DOMAIN journal :
    /\ journal[i].previous = IF i = 1 THEN NoHash ELSE Hash(journal[i - 1])
    /\ i > 1 => journal[i].event.sequence = journal[i - 1].event.sequence + 1

\* Undisturbed, the writers take turns, and the journal is a chain whose tail
\* the memory describes, and the manifest whenever nobody is about to save it.
ChainOK ==
  harmed = {} =>
    /\ ~torn /\ Chained
    /\ ~ \A w \in Writers : stage[w] \in Busily
    /\ (Up /\ \A w \in Writers : stage[w] # "written") => TailIs(state)
    /\ (\A w \in Writers : stage[w] \notin {"written", "manifest", "rename"}) => TailIs(manifest)
    /\ \A w \in Writers :
         /\ stage[w] = "line" => /\ line[w].event.sequence = state.lastSequence + 1
                                 /\ line[w].previous = state.lastHash
         /\ stage[w] = "written" => journal # << >> /\ Last(journal) = line[w]
         /\ stage[w] = "rename" => /\ image[w].lastSequence = state.lastSequence
                                   /\ image[w].lastHash = state.lastHash

\* Undisturbed, opening copies one change after the other, and is refused only
\* when the retained changes do not reach back.
OpeningOK ==
  harmed = {} =>
    /\ mode = "refused" => ~Resumable(db, manifest.lastSequence)
    /\ mode = "opening" =>
         /\ \A i \in DOMAIN call.todo : call.todo[i].sequence = call.cursor + i
         /\ stage["call"] = "start" => call.todo = << >>
         /\ stage["call"] \in {"sync", "manifest", "rename"} => call.cursor = state.lastSequence
         /\ stage["call"] \in {"line", "written"} => call.cursor = line["call"].event.sequence

\* Only what the script holds is committed.
WithinScript == Len(log) <= Len(Script)

Inductive == Sound /\ NumbersOK /\ WindowOK /\ ChainOK /\ OpeningOK /\ WithinScript

-----------------------------------------------------------------------------
\* What is known of a history stays known when it grows, and of a journal too.

\* History M goes on where L ends, and journal K covers what J does.
Later(L, J, M, K) ==
  /\ L \in Seq(Events) /\ M \in Seq(Events) /\ Len(L) <= Len(M)
  /\ \A i \in 1..Len(L) : M[i] = L[i]
  /\ Covered(J) \subseteq Covered(K)

LEMMA LaterSame ==
  ASSUME NEW L \in Seq(Events), NEW J, NEW M, NEW K, M = L, K = J
  PROVE  Later(L, J, M, K)
  BY DEF Later

LEMMA CopiedLater ==
  ASSUME NEW L, NEW J, NEW M, NEW K, Later(L, J, M, K), NEW e, Copied(L, e)
  PROVE  Copied(M, e) /\ e \in Events /\ e.sequence \in Nat \ {0}
  <1>1. Len(L) \in Nat /\ Len(M) \in Nat
    BY DEF Later
  <1>2. QED
    BY <1>1 DEF Copied, Later

LEMMA ReachedLater ==
  ASSUME NEW L, NEW J, NEW M, NEW K, Later(L, J, M, K), NEW n, Reached(L, J, n)
  PROVE  Reached(M, K, n)
  <1>1. Len(L) \in Nat /\ Len(M) \in Nat
    BY DEF Later
  <1>2. QED
    BY <1>1 DEF Reached, Later

LEMMA PrefixLater ==
  ASSUME NEW L \in Seq(Events), NEW M \in Seq(Events), Len(L) <= Len(M),
         \A i \in 1..Len(L) : M[i] = L[i], NEW n \in 0..Len(L)
  PROVE  SubSeq(M, 1, n) = SubSeq(L, 1, n)
  <1>1. 1 \in Nat \ {0} /\ n \in 0..Len(M)
    OBVIOUS
  <1>2. /\ SubSeq(L, 1, n) \in Seq(Events) /\ Len(SubSeq(L, 1, n)) = n
        /\ \A i \in 1..n : SubSeq(L, 1, n)[i] = L[i]
    BY <1>1, SubSeqIs
  <1>3. /\ SubSeq(M, 1, n) \in Seq(Events) /\ Len(SubSeq(M, 1, n)) = n
        /\ \A i \in 1..n : SubSeq(M, 1, n)[i] = M[i]
    BY <1>1, SubSeqIs
  <1>4. \A i \in 1..n : SubSeq(M, 1, n)[i] = SubSeq(L, 1, n)[i]
    BY <1>2, <1>3
  <1>5. QED
    BY <1>2, <1>3, <1>4, SameSequence

LEMMA WholeHistory == ASSUME NEW L \in Seq(Events) PROVE SubSeq(L, 1, Len(L)) = L
  OBVIOUS

LEMMA PastLater ==
  ASSUME NEW L, NEW J, NEW M, NEW K, Later(L, J, M, K), NEW s, Past(L, s)
  PROVE  Past(M, s)
  <1>1. /\ L \in Seq(Events) /\ M \in Seq(Events) /\ Len(L) <= Len(M)
        /\ s.sequence \in 0..Len(L) /\ \A i \in 1..Len(L) : M[i] = L[i]
    BY DEF Later, Past
  <1>2. SubSeq(M, 1, s.sequence) = SubSeq(L, 1, s.sequence) /\ s.sequence \in 0..Len(M)
    BY <1>1, PrefixLater
  <1>3. QED
    BY <1>2 DEF Past

LEMMA ManifestLater ==
  ASSUME NEW L, NEW J, NEW M, NEW K, Later(L, J, M, K), NEW m, ManifestOK(L, J, m)
  PROVE  ManifestOK(M, K, m)
  <1>1. SnapshotIds(L) \subseteq SnapshotIds(M)
    <2>1. Len(L) \in Nat /\ Len(M) \in Nat /\ Len(L) <= Len(M)
      BY DEF Later
    <2>2. QED
      BY <2>1 DEF SnapshotIds
  <1>2. QED
    BY <1>1, ReachedLater DEF ManifestOK

LEMMA FileLater ==
  ASSUME NEW L, NEW J, NEW M, NEW K, Later(L, J, M, K), NEW f, FileOK(L, f)
  PROVE  FileOK(M, f)
  <1>1. SnapshotIds(L) \subseteq SnapshotIds(M)
    <2>1. Len(L) \in Nat /\ Len(M) \in Nat /\ Len(L) <= Len(M)
      BY DEF Later
    <2>2. QED
      BY <2>1 DEF SnapshotIds
  <1>2. QED
    BY <1>1, PastLater DEF FileOK

LEMMA LineLater ==
  ASSUME NEW L, NEW J, NEW M, NEW K, Later(L, J, M, K), NEW s, NEW l, LineOK(L, J, s, l)
  PROVE  LineOK(M, K, s, l)
  BY CopiedLater, ReachedLater DEF LineOK

LEMMA HeldLater ==
  ASSUME NEW L, NEW J, NEW M, NEW K, Later(L, J, M, K), Held(L, J)
  PROVE  Held(M, K)
  <1>1. ManifestOK(M, K, state) /\ ManifestOK(M, K, manifest)
    BY ManifestLater DEF Held
  <1>2. \A f \in files : FileOK(M, f)
    BY FileLater DEF Held
  <1>3. \A w \in Writers : ManifestOK(M, K, image[w]) /\ LineOK(M, K, stage[w], line[w])
    BY ManifestLater, LineLater DEF Held
  <1>4. /\ \A i \in DOMAIN queue : Copied(M, queue[i])
        /\ \A i \in DOMAIN call.todo : Copied(M, call.todo[i])
    BY CopiedLater DEF Held
  <1>5. Past(M, taken)
    BY PastLater DEF Held
  <1>6. QED
    BY <1>1, <1>2, <1>3, <1>4, <1>5 DEF Held

\* A journal with one line more covers that line too.
LEMMA Appended ==
  ASSUME NEW J, J \in Seq(Range(J)), NEW x
  PROVE  /\ Append(J, x) \in Seq(Range(Append(J, x))) /\ Append(J, x) # << >>
         /\ Len(Append(J, x)) = Len(J) + 1 /\ Append(J, x)[Len(J) + 1] = x
         /\ \A i \in 1..Len(J) : Append(J, x)[i] = J[i]
         /\ Covered(Append(J, x)) = Covered(J) \cup {x.event.sequence}
  <1> DEFINE K == Append(J, x)
             S == Range(J) \cup {x}
  <1>1. J \in Seq(S) /\ x \in S
    OBVIOUS
  <1> HIDE DEF S
  <1>2. /\ K \in Seq(S) /\ Len(K) = Len(J) + 1 /\ K[Len(J) + 1] = x
        /\ \A i \in 1..Len(J) : K[i] = J[i]
        /\ Len(J) \in Nat
    BY <1>1
  <1> HIDE DEF K
  <1>3. K = [i \in 1..Len(K) |-> K[i]] /\ \A i \in 1..Len(K) : K[i] \in Range(K)
    BY <1>2 DEF Range
  <1>4. K \in Seq(Range(K)) /\ K # << >>
    BY <1>2, <1>3
  <1>5. Covered(K) = Covered(J) \cup {x.event.sequence}
    <2>1. DOMAIN K = DOMAIN J \cup {Len(J) + 1} /\ DOMAIN J = 1..Len(J)
      BY <1>1, <1>2
    <2>2. QED
      BY <1>2, <2>1 DEF Covered
  <1>6. QED
    BY <1>2, <1>4, <1>5 DEF K

\* Of a history, and of no history.
LEMMA FreshPast ==
  ASSUME NEW L \in Seq(Events)
  PROVE  Past(L, Fresh(Self))
  <1>1. Self \in DatabaseIds
    BY PitrAssumption
  <1>2. Fresh(Self) \in States /\ Fresh(Self).sequence = 0 /\ Fresh(Self).databaseId = Self
    BY <1>1, FreshType DEF Fresh
  <1>3. SubSeq(L, 1, 0) = << >>
    OBVIOUS
  <1>4. StateOf(Fresh(Self), << >>)
    <2>1. Retained(<< >>) = << >>
      BY DEF Retained
    <2>2. \A r \in RemoteIds : LastHit(<< >>, r) = 0
      <3>1. \A r \in RemoteIds : {i \in DOMAIN << >> : << >>[i].changeId = r} = {}
        OBVIOUS
      <3>2. {} \in SUBSET (1..0) /\ 0 \in Nat
        OBVIOUS
      <3>3. Latest({}) \in {} \cup {0}
        BY <3>2, LatestIsIn
      <3>4. QED
        BY <3>1, <3>3 DEF LastHit
    <2>3. AppliedBy(<< >>) = [r \in RemoteIds |-> 0]
      BY <2>2 DEF AppliedBy
    <2>4. ApplyEvents(Blank, << >>) = Blank
      BY DEF ApplyEvents, Blank
    <2>5. QED
      BY <1>2, <2>1, <2>3, <2>4 DEF StateOf, Remembers, Fresh, Blank
  <1>5. 0 \in 0..Len(L)
    OBVIOUS
  <1>6. QED
    BY <1>2, <1>3, <1>4, <1>5 DEF Past

-----------------------------------------------------------------------------
\* The engine's changes, as the manager reads them.

LEMMA StateRetains ==
  ASSUME NEW L \in Seq(Events), Numbered(L), NEW s, StateOf(s, L)
  PROVE  /\ s \in States /\ s.sequence = Len(L) /\ s.changes \in Seq(Events)
         /\ Len(s.changes) = IF Len(L) > Retention THEN Retention ELSE Len(L)
         /\ \A i \in 1..Len(s.changes) :
              /\ s.changes[i].sequence = Len(L) - Len(s.changes) + i
              /\ s.changes[i] = L[Len(L) - Len(s.changes) + i]
  <1>1. s \in States /\ s.sequence = Len(L) /\ s.changes = Retained(L)
    BY DEF StateOf, Remembers
  <1>2. /\ Retained(L) \in Seq(Events)
        /\ Len(Retained(L)) = IF Len(L) > Retention THEN Retention ELSE Len(L)
        /\ \A i \in 1..Len(Retained(L)) : Retained(L)[i] = L[Len(L) - Len(Retained(L)) + i]
    BY RetainedIs
  <1> DEFINE n == Len(L)
             q == Len(Retained(L))
  <1>3. n \in Nat /\ q \in Nat /\ q <= n /\ Retention \in Nat
    BY <1>2, RetentionAssumption
  <1>4. \A i \in 1..q : n - q + i \in 1..n
    <2> HIDE DEF n, q
    <2>1. QED
      BY <1>3
  <1>5. \A i \in 1..q : L[n - q + i].sequence = n - q + i
    BY <1>4 DEF Numbered
  <1>6. QED
    BY <1>1, <1>2, <1>5

\* Changes that are read are changes of the history.
LEMMA ReadIsCopied ==
  ASSUME NEW L \in Seq(Events), Numbered(L), NEW s, StateOf(s, L), NEW c, NEW scope, NEW limit
  PROVE  /\ ChangesSince(s, c, scope, limit) \in Seq(Events)
         /\ \A i \in DOMAIN ChangesSince(s, c, scope, limit) :
              Copied(L, ChangesSince(s, c, scope, limit)[i])
  <1> DEFINE read == ChangesSince(s, c, scope, limit)
  <1>0. /\ s \in States /\ s.sequence = Len(L) /\ s.changes \in Seq(Events)
        /\ Len(s.changes) = IF Len(L) > Retention THEN Retention ELSE Len(L)
        /\ \A i \in 1..Len(s.changes) :
              /\ s.changes[i].sequence = Len(L) - Len(s.changes) + i
              /\ s.changes[i] = L[Len(L) - Len(s.changes) + i]
    BY StateRetains, Zenon
  <1>1. Len(s.changes) <= Len(L) /\ Len(s.changes) \in Nat
    BY <1>0, RetentionAssumption
  <1>2. /\ read \in Seq(Events)
        /\ \A n \in DOMAIN read : \E i \in DOMAIN s.changes : read[n] = s.changes[i]
    BY <1>0, ChangesSinceType
  <1>3. \A i \in DOMAIN s.changes : Copied(L, s.changes[i])
    <2> SUFFICES ASSUME NEW i \in 1..Len(s.changes) PROVE Copied(L, s.changes[i])
      <3>1. DOMAIN s.changes = 1..Len(s.changes)
        BY <1>0
      <3>2. QED
        BY <3>1
    <2> DEFINE m == Len(L) - Len(s.changes) + i
    <2>1. m \in 1..Len(L)
      BY <1>0, <1>1
    <2>2. s.changes[i].sequence = m /\ s.changes[i] = L[m]
      BY <1>0
    <2> HIDE DEF m
    <2>3. QED
      BY <2>1, <2>2 DEF Copied
  <1>4. QED
    BY <1>2, <1>3

-----------------------------------------------------------------------------
\* The steps of the engine.

LEMMA CommitHistory ==
  ASSUME EngineOK, Commit
  PROVE  EngineOK' /\ Len(log') = Len(log) + 1 /\ \A i \in 1..Len(log) : log'[i] = log[i]
  <1> DEFINE e == Stamp(<<Script[Len(log) + 1]>>, db.sequence)
             t == [db EXCEPT !.docs = ApplyEvents(db.docs, e)]
  <1>1. /\ log \in Seq(Events) /\ Numbered(log) /\ StateOf(db, log)
        /\ emitted = Len(log) /\ Len(log) < Len(Script) /\ Script \in Seq(Changes)
    BY PitrAssumption DEF EngineOK, Commit
  <1>2. db' = RecordEvents(t, e) /\ log' = log \o e /\ emitted' = emitted
    BY DEF Commit
  <1>3. db \in States /\ db.sequence = Len(log) /\ Len(log) \in Nat
    BY <1>1, StateRetains
  <1>4. <<Script[Len(log) + 1]>> \in Seq(Changes) /\ Len(<<Script[Len(log) + 1]>>) = 1
    BY <1>1, <1>3
  <1>5. e \in Seq(Events) /\ Len(e) = 1
    BY <1>3, <1>4, StampType
  <1>6. e[1].sequence = Len(log) + 1
    BY <1>3 DEF Stamp
  <1> HIDE DEF e
  <1>7. /\ log \o e \in Seq(Events) /\ Len(log \o e) = Len(log) + 1
        /\ \A i \in 1..Len(log) : (log \o e)[i] = log[i]
        /\ (log \o e)[Len(log) + 1] = e[1]
    <2>1. /\ log \o e \in Seq(Events) /\ Len(log \o e) = Len(log) + Len(e)
          /\ \A i \in 1..Len(log) : (log \o e)[i] = log[i]
          /\ \A i \in 1..Len(e) : (log \o e)[Len(log) + i] = e[i]
      <3>1. log \in Seq(Events) /\ e \in Seq(Events)
        BY <1>1, <1>5
      <3>2. QED
        BY <3>1
    <2>2. 1 \in 1..Len(e)
      BY <1>5
    <2>3. QED
      BY <1>5, <2>1, <2>2
  <1>8. Numbered(log \o e)
    BY <1>1, <1>3, <1>6, <1>7 DEF Numbered
  <1>9. ApplyEvents(db.docs, e) \in [Keys -> Records]
    BY <1>3, <1>5, ApplyEventsType, StateFields
  <1>10. /\ t \in States /\ Remembers(t, log) /\ t.databaseId = Self
         /\ t.docs = ApplyEvents(db.docs, e)
    BY <1>1, <1>3, <1>9 DEF States, StateOf, Remembers
  <1> HIDE DEF t
  <1>11. /\ Remembers(RecordEvents(t, e), log \o e) /\ RecordEvents(t, e).docs = t.docs
         /\ RecordEvents(t, e).databaseId = Self /\ RecordEvents(t, e) \in States
    BY <1>1, <1>5, <1>8, <1>10, RecordedHistory, RecordEventsType
  <1>12. t.docs = ApplyEvents(Blank, log \o e)
    <2>1. Blank \in [Keys -> Records] /\ db.docs = ApplyEvents(Blank, log)
      BY <1>1 DEF Blank, StateOf, Records
    <2>2. QED
      BY <1>1, <1>5, <1>10, <2>1, ApplyParts
  <1>13. StateOf(db', log')
    BY <1>2, <1>11, <1>12 DEF StateOf
  <1>14. QED
    BY <1>1, <1>2, <1>3, <1>7, <1>8, <1>13 DEF EngineOK

LEMMA CommitSound == ASSUME Sound, Commit PROVE Sound'
  <1>1. EngineOK' /\ Len(log') = Len(log) + 1 /\ \A i \in 1..Len(log) : log'[i] = log[i]
    BY CommitHistory DEF Sound
  <1>2. UNCHANGED <<manager, disk>>
    BY DEF Commit
  <1>3. Later(log, journal, log', journal')
    <2>1. log \in Seq(Events) /\ log' \in Seq(Events) /\ journal' = journal
      BY <1>1, <1>2 DEF Sound, EngineOK, disk
    <2>2. QED
      BY <1>1, <2>1 DEF Later
  <1>4. Held(log', journal')
    BY <1>3, HeldLater DEF Sound
  <1>5. Held(log, journal)'
    BY <1>2, <1>4, SMTT(30) DEF Held, manager, disk
  <1>6. JournalOK(log, journal)'
    <2>1. journal' = journal /\ JournalOK(log, journal)
      BY <1>2 DEF Sound, disk
    <2>2. QED
      BY <1>3, <2>1, CopiedLater, ReachedLater DEF JournalOK
  <1>7. Shape' /\ ModeOK'
    BY <1>2 DEF Sound, Shape, ModeOK, Up, manager
  <1>8. QED
    BY <1>1, <1>5, <1>6, <1>7 DEF Sound

\* What a step says that leaves the history and the journal alone.
LEMMA StillHeld ==
  ASSUME Sound, UNCHANGED <<db, log, journal>>, emitted' \in 0..Len(log)
  PROVE  /\ EngineOK' /\ JournalOK(log, journal)' /\ Held(log', journal')
         /\ log' = log /\ journal' = journal /\ log \in Seq(Events) /\ Later(log, journal, log, journal)
  <1>1. EngineOK' /\ JournalOK(log, journal)'
    BY DEF Sound, EngineOK, JournalOK, StateOf
  <1>2. Held(log', journal')
    BY DEF Sound
  <1>3. log \in Seq(Events)
    BY DEF Sound, EngineOK
  <1>4. QED
    BY <1>1, <1>2, <1>3, LaterSame

LEMMA PublishSound == ASSUME Sound, Publish PROVE Sound'
  <1>1. /\ UNCHANGED <<db, log, journal>> /\ emitted' \in 0..Len(log) /\ emitted' \in DOMAIN log
        /\ UNCHANGED <<mode, state, stage, line, image, call, taken, manifest, files>>
    BY DEF Publish, Sound, EngineOK, disk
  <1>2. /\ EngineOK' /\ JournalOK(log, journal)' /\ Held(log', journal')
        /\ log' = log /\ journal' = journal /\ log \in Seq(Events)
    BY <1>1, StillHeld
  <1>3. log[emitted'] \in Events /\ Copied(log, log[emitted'])
    BY <1>1, <1>2 DEF Sound, EngineOK, Numbered, Copied
  <1>4. queue' \in {queue, Append(queue, log[emitted'])} /\ (mode # "open" => queue' = queue)
    BY DEF Publish
  <1>5. queue' \in Seq(Events) /\ \A i \in DOMAIN queue' : Copied(log, queue'[i])
    <2>1. queue \in Seq(Events) /\ \A i \in DOMAIN queue : Copied(log, queue[i])
      BY DEF Sound, Shape, Held
    <2> HIDE DEF Copied
    <2>2. QED
      BY <1>3, <1>4, <2>1
  <1>6. Held(log, journal)'
    BY <1>1, <1>2, <1>5, SMTT(30) DEF Held
  <1>7. Shape' /\ ModeOK'
    BY <1>1, <1>4, <1>5 DEF Sound, Shape, ModeOK, Up
  <1>8. QED
    BY <1>2, <1>6, <1>7 DEF Sound

-----------------------------------------------------------------------------
\* The steps of a writer.

LEMMA TailElements ==
  ASSUME NEW S, NEW s \in Seq(S), s # << >>
  PROVE  /\ Head(s) = s[1] /\ 1 \in DOMAIN s /\ Head(s) \in S /\ Tail(s) \in Seq(S)
         /\ Len(Tail(s)) = Len(s) - 1
         /\ \A i \in DOMAIN Tail(s) : Tail(s)[i] = s[i + 1] /\ i + 1 \in DOMAIN s
  OBVIOUS

\* What the next line of a writer must be, as it is made.
LEMMA NextLine ==
  ASSUME Sound, NEW e, Copied(log, e), NextInOrder(e)
  PROVE  LineOK(log, journal, "line", [event |-> e, previous |-> state.lastHash])
  <1>1. e.sequence - 1 = state.lastSequence
    <2>1. Reached(log, journal, state.lastSequence) /\ log \in Seq(Events)
      BY DEF Sound, Held, ManifestOK, EngineOK
    <2>2. state.lastSequence \in Int
      BY <2>1 DEF Reached
    <2>3. QED
      BY <2>2 DEF NextInOrder
  <1>2. Reached(log, journal, state.lastSequence)
    BY DEF Sound, Held, ManifestOK
  <1>3. QED
    BY <1>1, <1>2 DEF LineOK

LEMMA WatchSound == ASSUME Sound, Watch PROVE Sound'
  <1>1. /\ UNCHANGED <<db, log, journal>> /\ emitted' \in 0..Len(log)
        /\ UNCHANGED <<mode, state, image, call, taken, manifest, files>>
    BY DEF Watch, Sound, EngineOK, disk, engine
  <1>2. /\ EngineOK' /\ JournalOK(log, journal)' /\ Held(log', journal')
        /\ log' = log /\ journal' = journal /\ log \in Seq(Events)
    BY <1>1, StillHeld
  <1>3. queue # << >> /\ queue \in Seq(Events) /\ queue' = Tail(queue)
    BY DEF Watch, Sound, Shape
  <1>4. Copied(log, Head(queue))
    <2>1. Head(queue) = queue[1] /\ 1 \in DOMAIN queue
      BY <1>3, TailElements
    <2>2. QED
      BY <2>1 DEF Sound, Held
  <1>5. queue' \in Seq(Events) /\ \A i \in DOMAIN queue' : Copied(log, queue'[i])
    <2>1. /\ Tail(queue) \in Seq(Events)
          /\ \A i \in DOMAIN Tail(queue) : Tail(queue)[i] = queue[i + 1] /\ i + 1 \in DOMAIN queue
      BY <1>3, TailElements
    <2>2. \A i \in DOMAIN queue : Copied(log, queue[i])
      BY DEF Sound, Held
    <2>3. QED
      BY <1>3, <2>1, <2>2
  <1>6. Up /\ (mode # "open" => queue = << >>)
    BY DEF Watch, Sound, ModeOK
  <1>7. mode = "open"
    BY <1>3, <1>6
  <1>8. CASE NextInOrder(Head(queue))
    <2>1. /\ line' = [line EXCEPT !["watch"] = [event |-> Head(queue), previous |-> state.lastHash]]
          /\ stage' = [stage EXCEPT !["watch"] = "line"]
      BY <1>8 DEF Watch, MakeLine, Goto
    <2>2. LineOK(log, journal, "line", [event |-> Head(queue), previous |-> state.lastHash])
      BY <1>4, <1>8, NextLine
    <2>3. Shape'
      BY <1>1, <1>5, <2>1 DEF Sound, Shape, Writers, Stages, Busily
    <2>4. \A w \in Writers : LineOK(log', journal', stage'[w], line'[w])
      <3>1. /\ stage \in [Writers -> Stages] /\ DOMAIN line = Writers
            /\ \A w \in Writers : LineOK(log, journal, stage[w], line[w])
        BY DEF Sound, Shape, Held
      <3>2. QED
        BY <1>2, <2>1, <2>2, <3>1 DEF Writers
    <2>5. Held(log, journal)'
      BY <1>1, <1>2, <1>5, <2>4, SMTT(30) DEF Held
    <2>6. ModeOK'
      BY <1>1, <1>7, <2>1 DEF Sound, ModeOK, Up, Shape, Writers
    <2>7. QED
      BY <1>2, <2>3, <2>5, <2>6 DEF Sound
  <1>9. CASE ~NextInOrder(Head(queue))
    <2>1. UNCHANGED <<stage, line>>
      BY <1>9 DEF Watch
    <2>2. Shape' /\ ModeOK'
      BY <1>1, <1>5, <1>7, <2>1 DEF Sound, Shape, ModeOK, Up
    <2>3. Held(log, journal)'
      BY <1>1, <1>2, <1>5, <2>1, SMTT(30) DEF Held
    <2>4. QED
      BY <1>2, <2>2, <2>3 DEF Sound
  <1>10. QED
    BY <1>8, <1>9

LEMMA WriteLineSound == ASSUME Sound, NEW w \in Writers, WriteLine(w) PROVE Sound'
  <1>1. /\ UNCHANGED <<db, log, emitted, mode, state, queue, line, image, call, taken, manifest, files>>
        /\ stage[w] = "line" /\ stage' = [stage EXCEPT ![w] = "written"]
        /\ journal' = Append(journal, line[w])
    BY DEF WriteLine, engine, Goto
  <1>2. EngineOK' /\ log \in Seq(Events)
    BY <1>1 DEF Sound, EngineOK, StateOf
  <1>3. /\ Copied(log, line[w].event) /\ Reached(log, journal, line[w].event.sequence - 1)
        /\ JournalOK(log, journal)
    BY <1>1 DEF Sound, Held, LineOK
  <1>4. /\ journal' \in Seq(Range(journal')) /\ Len(journal') = Len(journal) + 1
        /\ journal'[Len(journal) + 1] = line[w] /\ \A i \in 1..Len(journal) : journal'[i] = journal[i]
        /\ Covered(journal') = Covered(journal) \cup {line[w].event.sequence}
    BY <1>1, <1>3, Appended DEF JournalOK
  <1>5. Later(log, journal, log', journal')
    BY <1>1, <1>2, <1>4 DEF Later
  <1>6. Reached(log', journal', line[w].event.sequence)
    <2> DEFINE n == line[w].event.sequence
    <2>1. n \in 0..Len(log') /\ n \in Nat /\ 1..(n - 1) \subseteq Covered(journal')
      BY <1>1, <1>2, <1>3, <1>4 DEF Reached, Copied
    <2>2. n \in Covered(journal')
      BY <1>4
    <2> HIDE DEF n
    <2>3. QED
      BY <2>1, <2>2 DEF Reached, n
  <1>7. JournalOK(log, journal)'
    <2>1. ASSUME NEW i \in DOMAIN journal'
          PROVE  Copied(log', journal'[i].event) /\ Reached(log', journal', journal'[i].event.sequence)
      <3>1. CASE i = Len(journal) + 1
        BY <1>1, <1>3, <1>4, <1>6, <3>1
      <3>2. CASE i # Len(journal) + 1
        <4>1. i \in DOMAIN journal /\ journal'[i] = journal[i]
          BY <1>3, <1>4, <3>2 DEF JournalOK
        <4>2. Copied(log, journal[i].event) /\ Reached(log, journal, journal[i].event.sequence)
          BY <1>3, <4>1 DEF JournalOK
        <4>3. QED
          BY <1>5, <4>1, <4>2, CopiedLater, ReachedLater
      <3>3. QED
        BY <3>1, <3>2
    <2>2. QED
      BY <1>4, <2>1 DEF JournalOK
  <1>8. Held(log', journal')
    BY <1>5, HeldLater DEF Sound
  <1>9. \A v \in Writers : LineOK(log', journal', stage'[v], line'[v])
    <2> SUFFICES ASSUME NEW v \in Writers PROVE LineOK(log', journal', stage'[v], line'[v])
      OBVIOUS
    <2>1. CASE v = w
      <3>1. stage'[v] = "written" /\ line'[v] = line[w]
        BY <1>1, <2>1 DEF Sound, Shape
      <3>2. Copied(log', line[w].event) /\ Reached(log', journal', line[w].event.sequence - 1)
        BY <1>3, <1>5, CopiedLater, ReachedLater
      <3>3. QED
        BY <1>6, <3>1, <3>2 DEF LineOK
    <2>2. CASE v # w
      <3>1. stage'[v] = stage[v] /\ line'[v] = line[v]
        BY <1>1, <2>2 DEF Sound, Shape
      <3>2. QED
        BY <1>8, <3>1 DEF Held
    <2>3. QED
      BY <2>1, <2>2
  <1>10. Held(log, journal)'
    BY <1>1, <1>8, <1>9, SMTT(30) DEF Held
  <1>11. Shape' /\ ModeOK'
    BY <1>1 DEF Sound, Shape, ModeOK, Up, Writers, Stages, Busily
  <1>12. QED
    BY <1>2, <1>7, <1>10, <1>11 DEF Sound

LEMMA EmptyManifest ==
  ASSUME NEW L \in Seq(Events), NEW J PROVE ManifestOK(L, J, Empty)
  <1>1. Len(L) \in Nat /\ 1..0 = {}
    OBVIOUS
  <1>2. QED
    BY <1>1 DEF ManifestOK, Empty, Reached

\* A step that leaves the history and the journal alone, and what it changes in hand.
LEMMA HeldNow ==
  ASSUME Sound, UNCHANGED <<db, log, journal>>, emitted' \in 0..Len(log),
         ManifestOK(log, journal, state'), ManifestOK(log, journal, manifest'),
         \A f \in files' : FileOK(log, f),
         \A w \in Writers : ManifestOK(log, journal, image'[w])
                            /\ LineOK(log, journal, stage'[w], line'[w]),
         \A i \in DOMAIN queue' : Copied(log, queue'[i]),
         \A i \in DOMAIN call'.todo : Copied(log, call'.todo[i]),
         Past(log, taken'), Shape', ModeOK'
  PROVE  Sound'
  <1>1. EngineOK' /\ JournalOK(log, journal)' /\ log' = log /\ journal' = journal
    BY StillHeld
  <1>2. Held(log, journal)'
    BY <1>1, SMTT(30) DEF Held
  <1>3. QED
    BY <1>1, <1>2 DEF Sound

LEMMA HeldThen ==
  ASSUME Sound
  PROVE  /\ ManifestOK(log, journal, state) /\ ManifestOK(log, journal, manifest)
         /\ \A f \in files : FileOK(log, f)
         /\ \A w \in Writers : ManifestOK(log, journal, image[w])
                               /\ LineOK(log, journal, stage[w], line[w])
         /\ \A i \in DOMAIN queue : Copied(log, queue[i])
         /\ \A i \in DOMAIN call.todo : Copied(log, call.todo[i])
         /\ Past(log, taken) /\ log \in Seq(Events) /\ emitted \in 0..Len(log)
         /\ stage \in [Writers -> Stages] /\ DOMAIN line = Writers /\ DOMAIN image = Writers
  BY DEF Sound, Held, EngineOK, Shape

LEMMA AdvanceSound == ASSUME Sound, NEW w \in Writers, Advance(w) PROVE Sound'
  <1>1. /\ UNCHANGED <<db, log, emitted, mode, queue, image, call, taken, journal, manifest, files>>
        /\ stage[w] = "written" /\ stage' = [stage EXCEPT ![w] = "manifest"]
        /\ state' = [state EXCEPT !.lastSequence = line[w].event.sequence, !.lastHash = Hash(line[w])]
        /\ line' = [line EXCEPT ![w] = NoLine]
    BY DEF Advance, engine, Goto, disk
  <1>2. ManifestOK(log, journal, state')
    <2>1. Reached(log, journal, line[w].event.sequence) /\ ManifestOK(log, journal, state)
      BY <1>1, HeldThen DEF LineOK
    <2>2. QED
      BY <1>1, <2>1 DEF ManifestOK
  <1>3. \A v \in Writers : LineOK(log, journal, stage'[v], line'[v])
    BY <1>1, HeldThen DEF LineOK
  <1>4. Shape' /\ ModeOK'
    BY <1>1 DEF Sound, Shape, ModeOK, Up, Writers, Stages, Busily
  <1>5. QED
    BY <1>1, <1>2, <1>3, <1>4, HeldThen, HeldNow

LEMMA SerialiseSound == ASSUME Sound, NEW w \in Writers, Serialise(w) PROVE Sound'
  <1>1. /\ UNCHANGED <<db, log, emitted, mode, state, queue, line, call, taken, journal, manifest, files>>
        /\ stage[w] = "manifest" /\ stage' = [stage EXCEPT ![w] = "rename"]
        /\ image' = [image EXCEPT ![w] = state]
    BY DEF Serialise, engine, Goto, disk
  <1>2. \A v \in Writers : ManifestOK(log, journal, image'[v]) /\ LineOK(log, journal, stage'[v], line'[v])
    BY <1>1, HeldThen DEF LineOK
  <1>3. Shape' /\ ModeOK'
    BY <1>1 DEF Sound, Shape, ModeOK, Up, Writers, Stages, Busily
  <1>4. QED
    BY <1>1, <1>2, <1>3, HeldThen, HeldNow

LEMMA IdleCall == Idle \in [kind : Kinds, cursor : Nat, todo : Seq(Events)] /\ Idle.kind = "none" /\ Idle.todo = << >>
  BY DEF Idle, Kinds

LEMMA RenameSound == ASSUME Sound, NEW w \in Writers, Rename(w) PROVE Sound'
  <1>1. /\ UNCHANGED <<db, log, emitted, mode, state, queue, line, taken, journal, files>>
        /\ stage[w] = "rename" /\ manifest' = image[w] /\ image' = [image EXCEPT ![w] = Empty]
    BY DEF Rename, engine, Goto, disk
  <1>2. \/ /\ w = "call" /\ call.kind \in {"open", "initial", "snapshot"} /\ call' = call
           /\ stage' = [stage EXCEPT ![w] = "sync"]
        \/ /\ w = "call" /\ call.kind \notin {"open", "initial", "snapshot"} /\ call' = Idle
           /\ stage' = [stage EXCEPT ![w] = "idle"]
        \/ w = "watch" /\ call' = call /\ stage' = [stage EXCEPT ![w] = "idle"]
    BY DEF Rename, Goto, Writers
  <1>3. \A v \in Writers : ManifestOK(log, journal, image'[v]) /\ LineOK(log, journal, stage'[v], line'[v])
    BY <1>1, <1>2, HeldThen, EmptyManifest DEF LineOK
  <1>4. ManifestOK(log, journal, manifest') /\ \A i \in DOMAIN call'.todo : Copied(log, call'.todo[i])
    BY <1>1, <1>2, HeldThen, IdleCall
  <1>5. Shape'
    BY <1>1, <1>2, IdleCall DEF Sound, Shape, Writers, Stages, Busily
  <1>6. ModeOK'
    BY <1>1, <1>2, IdleCall DEF Sound, ModeOK, Up, Writers, Shape
  <1>7. QED
    BY <1>1, <1>3, <1>4, <1>5, <1>6, HeldThen, HeldNow

\* A call that is rejected leaves nothing behind.
LEMMA RejectSound ==
  ASSUME Sound, Up, Reject, UNCHANGED <<engine, state, queue, from, line, image, taken, disk>>
  PROVE  Sound'
  <1>1. /\ UNCHANGED <<db, log, emitted, state, queue, line, image, taken, journal, manifest, files>>
        /\ call' = Idle /\ stage' = [stage EXCEPT !["call"] = "idle"]
        /\ mode' = IF mode = "opening" THEN "refused" ELSE mode
    BY DEF Reject, engine, Goto, disk
  <1>2. \A v \in Writers : ManifestOK(log, journal, image'[v]) /\ LineOK(log, journal, stage'[v], line'[v])
    BY <1>1, HeldThen DEF LineOK
  <1>3. \A i \in DOMAIN call'.todo : Copied(log, call'.todo[i])
    BY <1>1, IdleCall
  <1>4. Shape'
    BY <1>1, IdleCall DEF Sound, Shape, Writers, Stages, Busily
  <1>5. ModeOK'
    BY <1>1, IdleCall DEF Sound, ModeOK, Up, Writers, Shape
  <1>6. QED
    BY <1>1, <1>2, <1>3, <1>4, <1>5, HeldThen, HeldNow

LEMMA StepFailsSound == ASSUME Sound, NEW w \in Writers, StepFails(w) PROVE Sound'
  <1>1. Up /\ UNCHANGED <<engine, state, queue, from, line, image, taken, disk>>
    BY DEF StepFails
  <1>2. CASE w = "call"
    <2>1. Reject
      BY <1>2 DEF StepFails
    <2>2. QED
      BY <1>1, <2>1, RejectSound
  <1>3. CASE w # "call"
    <2>1. w = "watch" /\ stage' = [stage EXCEPT ![w] = "idle"] /\ UNCHANGED <<mode, call>>
      BY <1>3 DEF StepFails, Goto, Writers
    <2>2. \A v \in Writers : ManifestOK(log, journal, image'[v]) /\ LineOK(log, journal, stage'[v], line'[v])
      BY <1>1, <2>1, HeldThen DEF LineOK
    <2>3. Shape' /\ ModeOK'
      BY <1>1, <2>1 DEF Sound, Shape, ModeOK, Up, Writers, Stages, Busily
    <2>4. QED
      BY <1>1, <2>1, <2>2, <2>3, HeldThen, HeldNow DEF engine, disk
  <1>4. QED
    BY <1>2, <1>3

-----------------------------------------------------------------------------
\* The calls.

LEMMA NoTodo == << >> \in Seq(Events) /\ DOMAIN << >> = {}
  OBVIOUS

\* A call as a record.
LEMMA CallIs ==
  ASSUME NEW k \in Kinds, NEW c \in Nat, NEW t \in Seq(Events)
  PROVE  [kind |-> k, cursor |-> c, todo |-> t] \in [kind : Kinds, cursor : Nat, todo : Seq(Events)]
  OBVIOUS

LEMMA OpenSound == ASSUME Sound, OpenManager PROVE Sound'
  <1>1. /\ UNCHANGED <<db, log, emitted, queue, line, image, taken, journal, manifest, files>>
        /\ mode \in {"closed", "refused"}
    BY DEF OpenManager, engine, disk
  <1>2. \/ /\ mode' = "opening" /\ state' = manifest /\ stage' = [stage EXCEPT !["call"] = "start"]
           /\ call' = [kind |-> "open", cursor |-> manifest.lastSequence, todo |-> << >>]
        \/ mode' = "refused" /\ UNCHANGED <<state, call, stage>>
    BY DEF OpenManager, Goto
  <1>3. manifest.lastSequence \in Nat
    BY HeldThen DEF ManifestOK, Reached
  <1>4. call' \in [kind : Kinds, cursor : Nat, todo : Seq(Events)]
        /\ \A i \in DOMAIN call'.todo : Copied(log, call'.todo[i])
    <2>1. CASE mode' = "opening"
      <3>1. call' = [kind |-> "open", cursor |-> manifest.lastSequence, todo |-> << >>]
        BY <1>2, <2>1
      <3>2. "open" \in Kinds
        BY DEF Kinds
      <3>3. call' \in [kind : Kinds, cursor : Nat, todo : Seq(Events)]
        BY <1>3, <3>1, <3>2, NoTodo, CallIs
      <3>4. DOMAIN call'.todo = {}
        BY <3>1, NoTodo
      <3>5. QED
        BY <3>3, <3>4
    <2>2. CASE call' = call
      BY <2>2, HeldThen DEF Sound, Shape
    <2>3. QED
      BY <1>2, <2>1, <2>2
  <1>5. \A v \in Writers : ManifestOK(log, journal, image'[v]) /\ LineOK(log, journal, stage'[v], line'[v])
    BY <1>1, <1>2, HeldThen DEF LineOK
  <1>6. Shape'
    BY <1>1, <1>2, <1>4 DEF Sound, Shape, Writers, Stages
  <1>7. ModeOK'
    BY <1>1, <1>2 DEF Sound, ModeOK, Up, Writers, Shape
  <1>8. ManifestOK(log, journal, state')
    BY <1>2, HeldThen
  <1>9. QED
    BY <1>1, <1>4, <1>5, <1>6, <1>7, <1>8, HeldThen, HeldNow

LEMMA BeginSound == ASSUME Sound, NEW kind \in {"snapshot", "prune"}, Begin(kind) PROVE Sound'
  <1>1. /\ UNCHANGED <<db, log, emitted, mode, state, queue, line, image, taken, journal, manifest, files>>
        /\ mode = "open" /\ call' = [Idle EXCEPT !.kind = kind]
        /\ stage' = [stage EXCEPT !["call"] = IF kind = "prune" THEN "remove" ELSE "start"]
    BY DEF Begin, engine, disk, Goto
  <1>2. /\ call' \in [kind : Kinds, cursor : Nat, todo : Seq(Events)]
        /\ call'.kind = kind /\ call'.todo = << >>
    <2>1. call' = [kind |-> kind, cursor |-> 0, todo |-> << >>]
      BY <1>1 DEF Idle
    <2>2. kind \in Kinds /\ 0 \in Nat
      BY DEF Kinds
    <2>3. QED
      BY <2>1, <2>2, NoTodo, CallIs
  <1>3. \A v \in Writers : ManifestOK(log, journal, image'[v]) /\ LineOK(log, journal, stage'[v], line'[v])
    BY <1>1, HeldThen DEF LineOK
  <1>4. Shape'
    BY <1>1, <1>2 DEF Sound, Shape, Writers, Stages
  <1>5. ModeOK'
    BY <1>1, <1>2 DEF Sound, ModeOK, Up, Writers, Shape
  <1>6. QED
    BY <1>1, <1>2, <1>3, <1>4, <1>5, HeldThen, HeldNow

LEMMA UpInCall == ASSUME Sound, stage["call"] # "idle" PROVE Up
  BY DEF Sound, ModeOK

LEMMA SyncStartSound == ASSUME Sound, SyncStart PROVE Sound'
  <1>1. UNCHANGED <<engine, state, queue, from, line, image, taken, disk>> /\ stage["call"] = "start"
    BY DEF SyncStart
  <1>2. CASE Resumable(db, state.lastSequence)
    <2>1. /\ UNCHANGED <<db, log, emitted, mode, state, queue, line, image, taken, journal, manifest, files>>
          /\ call' = [call EXCEPT !.cursor = state.lastSequence, !.todo = << >>]
          /\ stage' = [stage EXCEPT !["call"] = "sync"]
      BY <1>1, <1>2 DEF SyncStart, engine, disk, Goto
    <2>2. state.lastSequence \in Nat
      BY HeldThen DEF ManifestOK, Reached
    <2>3. /\ call' \in [kind : Kinds, cursor : Nat, todo : Seq(Events)]
          /\ call'.kind = call.kind /\ call'.todo = << >>
      <3>1. call \in [kind : Kinds, cursor : Nat, todo : Seq(Events)]
        BY DEF Sound, Shape
      <3>2. call' = [kind |-> call.kind, cursor |-> state.lastSequence, todo |-> << >>]
        BY <2>1, <3>1
      <3>3. call.kind \in Kinds
        BY <3>1
      <3>4. QED
        BY <2>2, <3>2, <3>3, NoTodo, CallIs
    <2>4. \A v \in Writers : ManifestOK(log, journal, image'[v]) /\ LineOK(log, journal, stage'[v], line'[v])
      BY <2>1, HeldThen DEF LineOK
    <2>5. Shape'
      BY <2>1, <2>3 DEF Sound, Shape, Writers, Stages
    <2>6. ModeOK'
      BY <1>1, <2>1, <2>3 DEF Sound, ModeOK, Up, Writers, Shape
    <2>7. QED
      BY <2>1, <2>3, <2>4, <2>5, <2>6, HeldThen, HeldNow
  <1>3. CASE ~Resumable(db, state.lastSequence)
    <2>1. Reject
      BY <1>3 DEF SyncStart
    <2>2. QED
      BY <1>1, <2>1, UpInCall, RejectSound
  <1>4. QED
    BY <1>2, <1>3

\* The changes syncFromDatabase goes on with.
Todo == IF call.todo # << >> THEN call.todo ELSE ChangesSince(db, call.cursor, Keys, Len(Script))

LEMMA TodoType ==
  ASSUME Sound PROVE Todo \in Seq(Events) /\ \A i \in DOMAIN Todo : Copied(log, Todo[i])
  <1>1. call.todo \in Seq(Events) /\ \A i \in DOMAIN call.todo : Copied(log, call.todo[i])
    BY HeldThen DEF Sound, Shape
  <1>2. /\ ChangesSince(db, call.cursor, Keys, Len(Script)) \in Seq(Events)
        /\ \A i \in DOMAIN ChangesSince(db, call.cursor, Keys, Len(Script)) :
             Copied(log, ChangesSince(db, call.cursor, Keys, Len(Script))[i])
    <2>1. log \in Seq(Events) /\ Numbered(log) /\ StateOf(db, log)
      BY DEF Sound, EngineOK
    <2>2. QED
      BY <2>1, ReadIsCopied
  <1>3. QED
    BY <1>1, <1>2 DEF Todo

LEMMA SyncNextSound == ASSUME Sound, SyncNext PROVE Sound'
  <1>1. UNCHANGED <<engine, state, queue, from, image, taken, disk>> /\ stage["call"] = "sync"
    BY DEF SyncNext
  <1>2. Todo \in Seq(Events) /\ \A i \in DOMAIN Todo : Copied(log, Todo[i])
    BY TodoType
  <1>3. CASE Todo = << >> \/ Head(Todo).sequence > state.lastSequence + 1
    <2>1. Reject /\ line' = line
      BY <1>3 DEF SyncNext, Todo
    <2>2. QED
      BY <1>1, <2>1, UpInCall, RejectSound
  <1>4. CASE ~(Todo = << >> \/ Head(Todo).sequence > state.lastSequence + 1)
    <2>1. /\ UNCHANGED <<db, log, emitted, mode, state, queue, image, taken, journal, manifest, files>>
          /\ call' = [call EXCEPT !.cursor = Head(Todo).sequence, !.todo = Tail(Todo)]
      BY <1>1, <1>4 DEF SyncNext, Todo, engine, disk
    <2>2. \/ /\ NextInOrder(Head(Todo)) /\ stage' = [stage EXCEPT !["call"] = "line"]
             /\ line' = [line EXCEPT !["call"] = [event |-> Head(Todo), previous |-> state.lastHash]]
          \/ UNCHANGED <<stage, line>>
      BY <1>4 DEF SyncNext, Todo, MakeLine, Goto
    <2>3. /\ Head(Todo) \in Events /\ Copied(log, Head(Todo)) /\ Tail(Todo) \in Seq(Events)
          /\ \A i \in DOMAIN Tail(Todo) : Copied(log, Tail(Todo)[i])
      <3>1. /\ Head(Todo) = Todo[1] /\ 1 \in DOMAIN Todo /\ Head(Todo) \in Events
            /\ Tail(Todo) \in Seq(Events)
            /\ \A i \in DOMAIN Tail(Todo) : Tail(Todo)[i] = Todo[i + 1] /\ i + 1 \in DOMAIN Todo
        BY <1>2, <1>4, TailElements
      <3>2. QED
        BY <1>2, <3>1
    <2>4. Head(Todo).sequence \in Nat
      BY <2>3, EventFields
    <2>5. /\ call' \in [kind : Kinds, cursor : Nat, todo : Seq(Events)]
          /\ call'.kind = call.kind /\ call'.todo = Tail(Todo)
      BY <2>1, <2>3, <2>4 DEF Sound, Shape
    <2>6. \A v \in Writers : LineOK(log, journal, stage'[v], line'[v])
      <3>1. NextInOrder(Head(Todo)) =>
              LineOK(log, journal, "line", [event |-> Head(Todo), previous |-> state.lastHash])
        BY <2>3, NextLine
      <3>2. QED
        BY <2>2, <3>1, HeldThen DEF Writers
    <2>7. Shape'
      BY <2>1, <2>2, <2>5 DEF Sound, Shape, Writers, Stages
    <2>8. ModeOK'
      BY <1>1, <2>1, <2>2, <2>5 DEF Sound, ModeOK, Up, Writers, Shape
    <2>9. QED
      BY <2>1, <2>3, <2>5, <2>6, <2>7, <2>8, HeldThen, HeldNow
  <1>5. QED
    BY <1>3, <1>4

LEMMA SyncedSound == ASSUME Sound, Synced PROVE Sound'
  <1>1. /\ UNCHANGED <<db, log, emitted, state, queue, line, image, journal, manifest, files>>
        /\ stage["call"] = "sync"
    BY DEF Synced, engine, disk
  <1>2. \/ /\ call.kind = "open" /\ mode' = "open" /\ call' = Idle /\ taken' = taken
           /\ stage' = [stage EXCEPT !["call"] = "idle"]
        \/ /\ call.kind = "open" /\ call' = [call EXCEPT !.kind = "initial"]
           /\ stage' = [stage EXCEPT !["call"] = "start"] /\ UNCHANGED <<mode, taken>>
        \/ /\ call.kind # "open" /\ taken' = db /\ stage' = [stage EXCEPT !["call"] = "file"]
           /\ UNCHANGED <<mode, call>>
    BY DEF Synced, Goto
  <1>3. Past(log, taken')
    <2>1. Past(log, db)
      <3>1. log \in Seq(Events) /\ StateOf(db, log) /\ db.sequence = Len(log)
        BY DEF Sound, EngineOK, StateOf, Remembers
      <3>2. SubSeq(log, 1, Len(log)) = log /\ Len(log) \in 0..Len(log)
        BY <3>1, WholeHistory
      <3>3. QED
        BY <3>1, <3>2 DEF Past
    <2>2. QED
      BY <1>2, <2>1, HeldThen
  <1>4. call' \in [kind : Kinds, cursor : Nat, todo : Seq(Events)]
        /\ \A i \in DOMAIN call'.todo : Copied(log, call'.todo[i])
    <2>1. call \in [kind : Kinds, cursor : Nat, todo : Seq(Events)]
      BY DEF Sound, Shape
    <2>2. QED
      BY <1>2, <2>1, HeldThen, IdleCall DEF Kinds
  <1>5. \A v \in Writers : ManifestOK(log, journal, image'[v]) /\ LineOK(log, journal, stage'[v], line'[v])
    BY <1>1, <1>2, HeldThen DEF LineOK
  <1>6. Shape'
    BY <1>1, <1>2, <1>4 DEF Sound, Shape, Writers, Stages
  <1>7. ModeOK'
    <2>1. call \in [kind : Kinds, cursor : Nat, todo : Seq(Events)]
      BY DEF Sound, Shape
    <2>2. QED
      BY <1>1, <1>2, <2>1, IdleCall DEF Sound, ModeOK, Up, Writers, Shape
  <1>8. QED
    BY <1>1, <1>3, <1>4, <1>5, <1>6, <1>7, HeldThen, HeldNow

\* The number of the next snapshot is above those of all files.
LEMMA NextNumber ==
  ASSUME NumbersOK, \A f \in files : f.id.number \in Nat
  PROVE  /\ Number({f.id : f \in files}) \in Nat
         /\ \A g \in files : g.id.number < Number({f.id : f \in files})
  <1> DEFINE S == {f.id.number : f \in files}
             T == {s.number : s \in {f.id : f \in files}}
  <1>1. T = S /\ ({f.id : f \in files} = {} <=> files = {})
    OBVIOUS
  <1>2. PICK n \in Nat : \A f \in files : f.id.number <= n
    BY DEF NumbersOK
  <1>3. S \in SUBSET (0..n) /\ (S = {} <=> files = {})
    <2>1. \A f \in files : f.id.number \in 0..n
      BY <1>2
    <2>2. QED
      BY <2>1, Zenon
  <1>4. S # {} => Max(S) \in S /\ \A x \in S : x <= Max(S)
    BY <1>2, <1>3, MaxIsIn
  <1>5. Number({f.id : f \in files}) = IF files = {} THEN 1 ELSE Max(S) + 1
    BY <1>1 DEF Number
  <1>6. CASE files = {}
    BY <1>5, <1>6
  <1>7. CASE files # {}
    <2>1. Max(S) \in Nat /\ \A f \in files : f.id.number <= Max(S)
      BY <1>3, <1>4, <1>7
    <2> DEFINE next == Number({f.id : f \in files})
               m == Max(S)
    <2>2. m \in Nat /\ next = m + 1 /\ \A f \in files : f.id.number \in Nat /\ f.id.number <= m
      BY <1>5, <1>7, <2>1
    <2> HIDE DEF next, m
    <2>3. next \in Nat /\ \A f \in files : f.id.number < next
      BY <2>2
    <2>4. QED
      BY <2>3 DEF next
  <1>8. QED
    BY <1>6, <1>7

LEMMA FileNumbers == ASSUME Sound PROVE \A f \in files : f.id.number \in Nat
  BY HeldThen DEF FileOK, SnapshotIds

LEMMA WriteSnapshotSound == ASSUME Sound, NumbersOK, WriteSnapshot PROVE Sound' /\ NumbersOK'
  <1> DEFINE id == [number |-> Number({f.id : f \in files}), sequence |-> taken.sequence]
  <1>1. /\ UNCHANGED <<db, log, emitted, mode, queue, line, image, journal, manifest>>
        /\ stage["call"] = "file" /\ taken' = Fresh(Self)
        /\ files' = files \cup {[id |-> id, state |-> taken]}
        /\ state' = [state EXCEPT !.snapshots = state.snapshots \cup {id}]
        /\ call' = [call EXCEPT !.kind = IF call.kind = "initial" THEN "open" ELSE "saved"]
        /\ stage' = [stage EXCEPT !["call"] = IF call.kind = "initial" THEN "subscribe" ELSE "manifest"]
    BY DEF WriteSnapshot, engine, Goto
  <1>2. /\ Number({f.id : f \in files}) \in Nat
        /\ \A g \in files : g.id.number < Number({f.id : f \in files})
    BY NextNumber, FileNumbers
  <1>3. id \in SnapshotIds(log)
    <2>1. taken.sequence \in 0..Len(log)
      BY HeldThen DEF Past
    <2>2. QED
      BY <1>2, <2>1 DEF SnapshotIds
  <1>4. id.sequence = taken.sequence /\ id.number = Number({f.id : f \in files})
    OBVIOUS
  <1> HIDE DEF id
  <1>5. ManifestOK(log, journal, state')
    <2>1. ManifestOK(log, journal, state)
      BY HeldThen
    <2>2. QED
      BY <1>1, <1>3, <2>1 DEF ManifestOK
  <1>6. \A f \in files' : FileOK(log, f)
    <2>1. FileOK(log, [id |-> id, state |-> taken])
      BY <1>3, <1>4, HeldThen DEF FileOK
    <2>2. QED
      BY <1>1, <2>1, HeldThen
  <1>7. Past(log, taken')
    BY <1>1, HeldThen, FreshPast
  <1>8. /\ call' \in [kind : Kinds, cursor : Nat, todo : Seq(Events)] /\ call'.todo = call.todo
        /\ call'.kind = IF call.kind = "initial" THEN "open" ELSE "saved"
    <2>1. call \in [kind : Kinds, cursor : Nat, todo : Seq(Events)]
      BY DEF Sound, Shape
    <2>2. QED
      BY <1>1, <2>1 DEF Kinds
  <1>9. \A v \in Writers : ManifestOK(log, journal, image'[v]) /\ LineOK(log, journal, stage'[v], line'[v])
    BY <1>1, HeldThen DEF LineOK
  <1>10. Shape'
    BY <1>1, <1>8 DEF Sound, Shape, Writers, Stages
  <1>11. ModeOK'
    BY <1>1, <1>8 DEF Sound, ModeOK, Up, Writers, Shape
  <1>12. Sound'
    BY <1>1, <1>5, <1>6, <1>7, <1>8, <1>9, <1>10, <1>11, HeldThen, HeldNow
  <1>13. \A f \in files' : f.id.number <= Number({g.id : g \in files})
    <2>1. \A f \in files : f.id.number <= Number({g.id : g \in files})
      BY <1>2, FileNumbers
    <2>2. Number({g.id : g \in files}) <= Number({g.id : g \in files})
      BY <1>2
    <2>3. QED
      BY <1>1, <1>4, <2>1, <2>2
  <1>14. NumbersOK'
    BY <1>2, <1>13 DEF NumbersOK
  <1>15. QED
    BY <1>12, <1>14

LEMMA SubscribeSound == ASSUME Sound, Subscribe PROVE Sound'
  <1>1. /\ UNCHANGED <<db, log, emitted, state, queue, line, image, taken, journal, files>>
        /\ stage["call"] = "subscribe" /\ manifest' = state /\ mode' = "open" /\ call' = Idle
        /\ stage' = [stage EXCEPT !["call"] = "idle"]
    BY DEF Subscribe, engine, Goto
  <1>2. \A v \in Writers : ManifestOK(log, journal, image'[v]) /\ LineOK(log, journal, stage'[v], line'[v])
    BY <1>1, HeldThen DEF LineOK
  <1>3. ManifestOK(log, journal, manifest') /\ \A i \in DOMAIN call'.todo : Copied(log, call'.todo[i])
    BY <1>1, HeldThen, IdleCall
  <1>4. Shape'
    BY <1>1, IdleCall DEF Sound, Shape, Writers, Stages
  <1>5. ModeOK'
    BY <1>1, IdleCall DEF Sound, ModeOK, Up, Writers, Shape
  <1>6. QED
    BY <1>1, <1>2, <1>3, <1>4, <1>5, HeldThen, HeldNow

LEMMA PruneSound == ASSUME Sound, NEW after, Prune(after) PROVE Sound'
  <1>1. /\ UNCHANGED <<db, log, emitted, mode, queue, line, image, call, taken, journal, manifest>>
        /\ stage["call"] = "remove" /\ stage' = [stage EXCEPT !["call"] = "manifest"]
        /\ files' \subseteq files /\ state' = [state EXCEPT !.snapshots = Kept(state.snapshots, after)]
    BY DEF Prune, engine, Goto
  <1>2. Kept(state.snapshots, after) \subseteq state.snapshots
    BY DEF Kept
  <1>3. ManifestOK(log, journal, state')
    <2>1. ManifestOK(log, journal, state)
      BY HeldThen
    <2>2. QED
      BY <1>1, <1>2, <2>1 DEF ManifestOK
  <1>4. \A v \in Writers : ManifestOK(log, journal, image'[v]) /\ LineOK(log, journal, stage'[v], line'[v])
    BY <1>1, HeldThen DEF LineOK
  <1>5. Shape' /\ ModeOK'
    BY <1>1 DEF Sound, Shape, ModeOK, Up, Writers, Stages
  <1>6. QED
    BY <1>1, <1>3, <1>4, <1>5, HeldThen, HeldNow

\* A manager that stops leaves what is on disk.
LEMMA StoppedSound ==
  ASSUME Sound, Stopped, UNCHANGED <<db, log, journal, manifest, files>>, emitted' \in 0..Len(log)
  PROVE  Sound'
  <1>1. /\ mode' = "closed" /\ queue' = << >> /\ call' = Idle /\ state' = Empty
        /\ stage' = [w \in Writers |-> "idle"] /\ line' = [w \in Writers |-> NoLine]
        /\ image' = [w \in Writers |-> Empty] /\ taken' = Fresh(Self)
    BY DEF Stopped
  <1>2. Past(log, taken') /\ ManifestOK(log, journal, Empty) /\ log \in Seq(Events)
    BY <1>1, HeldThen, FreshPast, EmptyManifest
  <1>3. \A v \in Writers : ManifestOK(log, journal, image'[v]) /\ LineOK(log, journal, stage'[v], line'[v])
    BY <1>1, <1>2 DEF LineOK
  <1>4. Shape'
    BY <1>1, IdleCall, NoTodo DEF Shape, Writers, Stages
  <1>5. ModeOK'
    BY <1>1, IdleCall DEF ModeOK, Up, Writers
  <1>6. /\ \A i \in DOMAIN queue' : Copied(log, queue'[i])
        /\ \A i \in DOMAIN call'.todo : Copied(log, call'.todo[i])
    BY <1>1, IdleCall, NoTodo
  <1>7. QED
    BY <1>1, <1>2, <1>3, <1>4, <1>5, <1>6, HeldThen, HeldNow

LEMMA StopSound == ASSUME Sound, Close \/ Crash \/ CrashTears PROVE Sound'
  <1>1. Stopped /\ UNCHANGED <<db, log, journal, manifest, files>> /\ emitted' \in {emitted, Len(log)}
    BY DEF Close, Crash, CrashTears, engine, disk
  <1>2. emitted' \in 0..Len(log)
    BY <1>1, HeldThen
  <1>3. QED
    BY <1>1, <1>2, StoppedSound

LEMMA NumbersKept == ASSUME NumbersOK, files' \subseteq files PROVE NumbersOK'
  BY DEF NumbersOK

LEMMA StutterSound == ASSUME Sound, UNCHANGED vars PROVE Sound'
  <1>1. /\ UNCHANGED <<db, log, emitted, mode, state, queue, line, image, call, taken, journal, manifest, files>>
        /\ stage' = stage
    BY DEF vars, engine, manager, disk
  <1>2. Shape' /\ ModeOK'
    BY <1>1 DEF Sound, Shape, ModeOK, Up
  <1>3. QED
    BY <1>1, <1>2, HeldThen, HeldNow

LEMMA NextSound == ASSUME Sound, NumbersOK, [Next]_vars PROVE Sound' /\ NumbersOK'
  <1>1. CASE Commit
    BY <1>1, CommitSound, NumbersKept DEF Commit, disk
  <1>2. CASE Publish
    BY <1>2, PublishSound, NumbersKept DEF Publish, disk
  <1>3. CASE Watch
    BY <1>3, WatchSound, NumbersKept DEF Watch, disk
  <1>4. CASE OpenManager
    BY <1>4, OpenSound, NumbersKept DEF OpenManager, disk
  <1>5. CASE SyncStart
    BY <1>5, SyncStartSound, NumbersKept DEF SyncStart, disk
  <1>6. CASE SyncNext
    BY <1>6, SyncNextSound, NumbersKept DEF SyncNext, disk
  <1>7. CASE Synced
    BY <1>7, SyncedSound, NumbersKept DEF Synced, disk
  <1>8. ASSUME NEW w \in Writers, WriteLine(w) PROVE Sound' /\ NumbersOK'
    BY <1>8, WriteLineSound, NumbersKept DEF WriteLine
  <1>9. ASSUME NEW w \in Writers, Advance(w) PROVE Sound' /\ NumbersOK'
    BY <1>9, AdvanceSound, NumbersKept DEF Advance, disk
  <1>10. ASSUME NEW w \in Writers, Serialise(w) PROVE Sound' /\ NumbersOK'
    BY <1>10, SerialiseSound, NumbersKept DEF Serialise, disk
  <1>11. ASSUME NEW w \in Writers, Rename(w) PROVE Sound' /\ NumbersOK'
    BY <1>11, RenameSound, NumbersKept DEF Rename
  <1>12. ASSUME NEW w \in Writers, StepFails(w) PROVE Sound' /\ NumbersOK'
    BY <1>12, StepFailsSound, NumbersKept DEF StepFails, disk
  <1>13. ASSUME NEW kind \in {"snapshot", "prune"}, Begin(kind) PROVE Sound' /\ NumbersOK'
    BY <1>13, BeginSound, NumbersKept DEF Begin, disk
  <1>14. CASE WriteSnapshot
    BY <1>14, WriteSnapshotSound
  <1>15. CASE Subscribe
    BY <1>15, SubscribeSound, NumbersKept DEF Subscribe
  <1>16. CASE Close \/ Crash \/ CrashTears
    BY <1>16, StopSound, NumbersKept DEF Close, Crash, CrashTears, disk
  <1>17. ASSUME NEW n \in 0..Len(Script), Prune(n) PROVE Sound' /\ NumbersOK'
    <2>1. files' \subseteq files
      BY <1>17 DEF Prune
    <2>2. QED
      BY <1>17, <2>1, PruneSound, NumbersKept
  <1>18. CASE UNCHANGED vars
    BY <1>18, StutterSound, NumbersKept DEF vars, disk
  <1>19. QED
    BY <1>1, <1>2, <1>3, <1>4, <1>5, <1>6, <1>7, <1>8, <1>9, <1>10, <1>11, <1>12, <1>13, <1>14,
       <1>15, <1>16, <1>17, <1>18 DEF Next

LEMMA InitSound == ASSUME Init PROVE Sound /\ NumbersOK
  <1>1. << >> \in Seq(Events) /\ Len(<< >>) = 0
    OBVIOUS
  <1>2. Past(<< >>, Fresh(Self)) /\ StateOf(Fresh(Self), << >>)
    <2>1. Past(<< >>, Fresh(Self))
      BY <1>1, FreshPast
    <2>2. SubSeq(<< >>, 1, Fresh(Self).sequence) = << >>
      BY DEF Fresh
    <2>3. QED
      BY <2>1, <2>2 DEF Past
  <1>3. EngineOK
    BY <1>1, <1>2 DEF Init, EngineOK, Numbered
  <1>4. JournalOK(log, journal)
    <2>1. << >> \in Seq(Range(<< >>)) /\ DOMAIN << >> = {}
      OBVIOUS
    <2>2. QED
      BY <2>1 DEF Init, JournalOK
  <1>5. Shape
    BY <1>1, IdleCall DEF Init, Shape, Writers, Stages
  <1>6. ModeOK
    BY IdleCall DEF Init, ModeOK, Up, Writers
  <1>7. Held(log, journal)
    <2>1. ManifestOK(log, journal, Empty)
      BY <1>1, EmptyManifest DEF Init
    <2>2. \A w \in Writers : ManifestOK(log, journal, image[w]) /\ LineOK(log, journal, stage[w], line[w])
      BY <2>1 DEF Init, LineOK
    <2>3. DOMAIN queue = {} /\ DOMAIN call.todo = {}
      BY IdleCall, NoTodo DEF Init
    <2>4. QED
      BY <1>2, <2>1, <2>2, <2>3 DEF Init, Held
  <1>8. NumbersOK
    BY DEF Init, NumbersOK
  <1>9. QED
    BY <1>3, <1>4, <1>5, <1>6, <1>7, <1>8 DEF Sound

-----------------------------------------------------------------------------
\* The newest snapshot keeps its file.

LEMMA BeforeIsTotal ==
  ASSUME NEW L, NEW s \in SnapshotIds(L), NEW t \in SnapshotIds(L), Len(L) \in Nat
  PROVE  /\ s # t => Before(s, t) \/ Before(t, s)
         /\ ~(Before(s, t) /\ Before(t, s))
         /\ \A u \in SnapshotIds(L) : Before(s, t) /\ Before(t, u) => Before(s, u)
  BY DEF Before, SnapshotIds

LEMMA FirstIs ==
  ASSUME NEW L, Len(L) \in Nat, NEW S \in SUBSET SnapshotIds(L), NEW s \in S,
         \A t \in S \ {s} : Before(s, t)
  PROVE  First(S) = s
  <1>1. ASSUME NEW u \in S, \A t \in S \ {u} : Before(u, t) PROVE u = s
    <2> SUFFICES ASSUME u # s PROVE FALSE
      OBVIOUS
    <2>1. Before(u, s) /\ Before(s, u)
      BY <1>1
    <2>2. QED
      BY <2>1, BeforeIsTotal
  <1>2. QED
    BY <1>1 DEF First

LEMMA NewestStays ==
  ASSUME files \subseteq files', NEW S, HasNewest(S)
  PROVE  S # {} => \E s \in S : FileOf(s)' # {} /\ \A t \in S \ {s} : Before(s, t)
  BY DEF HasNewest, FileOf

\* A step that changes neither list nor their files.
LEMMA WindowStays ==
  ASSUME Sound', WindowOK, harmed' \subseteq {"crash"} => harmed \subseteq {"crash"},
         files \subseteq files', manifest'.snapshots = manifest.snapshots,
         Up' => Up /\ state'.snapshots = state.snapshots,
         Up' /\ stage'["call"] \notin {"manifest", "rename", "subscribe"} =>
           stage["call"] \notin {"manifest", "rename", "subscribe"},
         \A w \in Writers : stage'[w] = "rename" =>
           \/ stage[w] = "rename" /\ image'[w].snapshots = image[w].snapshots
           \/ image'[w].snapshots = state.snapshots
  PROVE  WindowOK'
  <1> SUFFICES ASSUME harmed' \subseteq {"crash"} PROVE WindowOK'
    BY DEF WindowOK
  <1>1. /\ HasNewest(manifest.snapshots)
        /\ Up => HasNewest(state.snapshots)
        /\ Up /\ stage["call"] \notin {"manifest", "rename", "subscribe"} =>
             state.snapshots = manifest.snapshots
        /\ \A w \in Writers : stage[w] = "rename" => image[w].snapshots = state.snapshots
    BY DEF WindowOK
  <1>2. HasNewest(manifest.snapshots)'
    BY <1>1, NewestStays DEF HasNewest
  <1>3. Up' => HasNewest(state.snapshots)'
    BY <1>1, NewestStays DEF HasNewest
  <1>4. \A w \in Writers : stage'[w] = "rename" => Up'
    BY DEF Sound, ModeOK, Writers, Up
  <1>5. \A w \in Writers : stage'[w] = "rename" => image'[w].snapshots = state'.snapshots
    BY <1>1, <1>4
  <1>6. QED
    BY <1>1, <1>2, <1>3, <1>5 DEF WindowOK

LEMMA RenameWindow == ASSUME Sound, Sound', WindowOK, NEW w \in Writers, Rename(w) PROVE WindowOK'
  <1> SUFFICES ASSUME harmed' \subseteq {"crash"} PROVE WindowOK'
    BY DEF WindowOK
  <1>1. /\ UNCHANGED <<mode, state, harmed, files>> /\ stage[w] = "rename"
        /\ manifest' = image[w] /\ image' = [image EXCEPT ![w] = Empty]
        /\ stage' \in {[stage EXCEPT ![w] = "sync"], [stage EXCEPT ![w] = "idle"]}
    BY DEF Rename, Goto
  <1>2. /\ Up => HasNewest(state.snapshots)
        /\ \A v \in Writers : stage[v] = "rename" => image[v].snapshots = state.snapshots
    BY <1>1 DEF WindowOK
  <1>3. Up /\ Up'
    BY <1>1 DEF Sound, ModeOK, Up, Writers
  <1>4. manifest'.snapshots = state'.snapshots /\ HasNewest(state.snapshots)
    BY <1>1, <1>2, <1>3
  <1>5. HasNewest(state.snapshots)' /\ HasNewest(manifest.snapshots)'
    BY <1>1, <1>4, NewestStays DEF HasNewest
  <1>6. \A v \in Writers : stage'[v] = "rename" => image'[v].snapshots = state'.snapshots
    BY <1>1, <1>2, HeldThen
  <1>7. QED
    BY <1>4, <1>5, <1>6 DEF WindowOK

LEMMA OpenWindow == ASSUME Sound, Sound', WindowOK, OpenManager PROVE WindowOK'
  <1> SUFFICES ASSUME harmed' \subseteq {"crash"} PROVE WindowOK'
    BY DEF WindowOK
  <1>1. UNCHANGED <<image, manifest, files, harmed>> /\ ~Up
    BY DEF OpenManager, disk, Up
  <1>2. \/ Up' /\ state' = manifest /\ stage' = [stage EXCEPT !["call"] = "start"]
        \/ ~Up' /\ UNCHANGED <<state, stage>>
    BY DEF OpenManager, Up, Goto
  <1>3. \A w \in Writers : stage[w] = "idle"
    BY <1>1 DEF Sound, ModeOK, Up, Writers
  <1>4. \A w \in Writers : stage'[w] # "rename"
    BY <1>2, <1>3, HeldThen
  <1>5. HasNewest(manifest.snapshots)
    BY <1>1 DEF WindowOK
  <1>6. HasNewest(manifest.snapshots)' /\ (Up' => HasNewest(state.snapshots)')
    BY <1>1, <1>2, <1>5, NewestStays DEF HasNewest
  <1>7. QED
    BY <1>1, <1>2, <1>4, <1>6 DEF WindowOK

LEMMA WriteSnapshotWindow ==
  ASSUME Sound, Sound', WindowOK, NumbersOK, WriteSnapshot PROVE WindowOK'
  <1> SUFFICES ASSUME harmed' \subseteq {"crash"} PROVE WindowOK'
    BY DEF WindowOK
  <1>0. PICK id : id = [number |-> Number({f.id : f \in files}), sequence |-> taken.sequence]
    OBVIOUS
  <1>1. /\ UNCHANGED <<mode, image, manifest>> /\ stage["call"] = "file"
        /\ files' = files \cup {[id |-> id, state |-> taken]}
        /\ state' = [state EXCEPT !.snapshots = state.snapshots \cup {id}]
        /\ stage' \in {[stage EXCEPT !["call"] = "subscribe"], [stage EXCEPT !["call"] = "manifest"]}
        /\ harmed' = IF stage["watch"] # "idle" THEN harmed \cup {"overlap"} ELSE harmed
    BY <1>0 DEF WriteSnapshot, Goto, Harm
  <1>2. harmed \subseteq {"crash"} /\ stage["watch"] = "idle"
    BY <1>1
  <1>3. Up /\ Up'
    BY <1>1 DEF Sound, ModeOK, Up
  <1>4. /\ HasNewest(manifest.snapshots) /\ HasNewest(state.snapshots)
    BY <1>2, <1>3 DEF WindowOK
  <1>5. id \in SnapshotIds(log) /\ state.snapshots \subseteq SnapshotIds(log) /\ Len(log) \in Nat
    <2>1. taken.sequence \in 0..Len(log) /\ ManifestOK(log, journal, state) /\ log \in Seq(Events)
      BY HeldThen DEF Past
    <2>2. Number({f.id : f \in files}) \in Nat
      BY NextNumber, FileNumbers
    <2>3. QED
      BY <1>0, <2>1, <2>2 DEF SnapshotIds, ManifestOK
  <1>6. FileOf(id)' # {}
    <2>1. [id |-> id, state |-> taken] \in files' /\ [id |-> id, state |-> taken].id = id
      BY <1>1
    <2>2. QED
      BY <2>1 DEF FileOf
  <1>7. state'.snapshots = state.snapshots \cup {id}
    <2>1. ManifestOK(log, journal, state)
      BY HeldThen
    <2>2. QED
      BY <1>1, <2>1 DEF ManifestOK
  <1>8. \E s \in state'.snapshots : FileOf(s)' # {} /\ \A t \in state'.snapshots \ {s} : Before(s, t)
    <2>1. CASE state.snapshots = {}
      BY <1>6, <1>7, <2>1
    <2>2. CASE state.snapshots # {}
      <3>1. PICK s \in state.snapshots : FileOf(s)' # {} /\ \A t \in state.snapshots \ {s} : Before(s, t)
        BY <1>1, <1>4, <2>2, NewestStays
      <3>2. CASE id = s \/ Before(s, id)
        <4>1. \A t \in state'.snapshots \ {s} : Before(s, t)
          BY <1>7, <3>1, <3>2
        <4>2. QED
          BY <1>7, <3>1, <4>1
      <3>3. CASE ~(id = s \/ Before(s, id))
        <4>1. s \in SnapshotIds(log) /\ Before(id, s)
          BY <1>5, <3>1, <3>3, BeforeIsTotal
        <4>2. \A t \in state.snapshots \ {s} : Before(id, t)
          <5> SUFFICES ASSUME NEW t \in state.snapshots \ {s} PROVE Before(id, t)
            OBVIOUS
          <5>1. Before(s, t) /\ t \in SnapshotIds(log)
            BY <1>5, <3>1
          <5>2. QED
            BY <1>5, <4>1, <5>1, BeforeIsTotal
        <4>3. \A t \in state'.snapshots \ {id} : Before(id, t)
          BY <1>7, <4>1, <4>2
        <4>4. QED
          BY <1>6, <1>7, <4>3
      <3>4. QED
        BY <3>2, <3>3
    <2>3. QED
      BY <2>1, <2>2
  <1>9. HasNewest(state.snapshots)' /\ HasNewest(manifest.snapshots)'
    BY <1>1, <1>4, <1>8, NewestStays DEF HasNewest
  <1>10. \A w \in Writers : stage'[w] # "rename"
    BY <1>1, <1>2, HeldThen DEF Writers
  <1>11. stage'["call"] \in {"manifest", "subscribe"}
    BY <1>1, HeldThen DEF Writers
  <1>12. QED
    BY <1>9, <1>10, <1>11 DEF WindowOK

LEMMA SubscribeWindow == ASSUME Sound, Sound', WindowOK, Subscribe PROVE WindowOK'
  <1> SUFFICES ASSUME harmed' \subseteq {"crash"} PROVE WindowOK'
    BY DEF WindowOK
  <1>1. /\ UNCHANGED <<state, image, files, harmed>> /\ stage["call"] = "subscribe"
        /\ manifest' = state /\ stage' = [stage EXCEPT !["call"] = "idle"]
    BY DEF Subscribe, Goto
  <1>2. mode = "opening" /\ Up /\ stage["watch"] = "idle"
    BY <1>1 DEF Sound, ModeOK, Up
  <1>3. HasNewest(state.snapshots)
    BY <1>1, <1>2 DEF WindowOK
  <1>4. HasNewest(state.snapshots)' /\ HasNewest(manifest.snapshots)'
    BY <1>1, <1>3, NewestStays DEF HasNewest
  <1>5. \A w \in Writers : stage'[w] # "rename"
    BY <1>1, <1>2, HeldThen DEF Writers
  <1>6. QED
    BY <1>1, <1>4, <1>5 DEF WindowOK

LEMMA PruneWindow == ASSUME Sound, Sound', WindowOK, NEW after, Prune(after) PROVE WindowOK'
  <1> SUFFICES ASSUME harmed' \subseteq {"crash"} PROVE WindowOK'
    BY DEF WindowOK
  <1> DEFINE S == state.snapshots
             K == Kept(S, after)
  <1>1. /\ UNCHANGED <<mode, image, manifest>> /\ stage["call"] = "remove"
        /\ files' = {f \in files : f.id \in K \/ f.id \notin S}
        /\ state' = [state EXCEPT !.snapshots = K]
        /\ stage' = [stage EXCEPT !["call"] = "manifest"]
        /\ harmed' = IF stage["watch"] # "idle" THEN harmed \cup {"overlap"} ELSE harmed
    BY DEF Prune, Goto, Harm
  <1>2. harmed \subseteq {"crash"} /\ stage["watch"] = "idle"
    BY <1>1
  <1>3. Up
    BY <1>1 DEF Sound, ModeOK, Up
  <1>4. HasNewest(S) /\ S = manifest.snapshots
    BY <1>1, <1>2, <1>3 DEF WindowOK
  <1>5. state'.snapshots = K
    <2>1. ManifestOK(log, journal, state)
      BY HeldThen
    <2> HIDE DEF K
    <2>2. QED
      BY <1>1, <2>1 DEF ManifestOK
  <1>6. \A w \in Writers : stage'[w] # "rename"
    BY <1>1, <1>2, HeldThen DEF Writers
  <1>7. K \subseteq S
    BY DEF Kept
  <1>8. ASSUME S # {}
        PROVE  \E s \in K : FileOf(s)' # {} /\ \A t \in S \ {s} : Before(s, t)
    <2>1. PICK s \in S : FileOf(s) # {} /\ \A t \in S \ {s} : Before(s, t)
      BY <1>4, <1>8 DEF HasNewest
    <2>2. S \subseteq SnapshotIds(log) /\ Len(log) \in Nat
      BY HeldThen DEF ManifestOK
    <2>3. {t \in S : Before(t, s)} = {}
      <3>1. ~Before(s, s)
        BY <2>1, <2>2, BeforeIsTotal
      <3>2. \A t \in S : ~Before(t, s)
        BY <2>1, <2>2, <3>1, BeforeIsTotal
      <3>3. QED
        BY <3>2
    <2>4. Cardinality({t \in S : Before(t, s)}) < KeepSnapshots
      <3>1. Cardinality({}) = 0
        BY FS_EmptySet
      <3>2. 0 < KeepSnapshots
        BY PitrAssumption
      <3>3. QED
        BY <2>3, <3>1, <3>2
    <2>5. s \in K
      BY <2>1, <2>4 DEF Kept
    <2>6. FileOf(s)' # {}
      BY <1>1, <2>1, <2>5 DEF FileOf
    <2>7. QED
      BY <2>1, <2>5, <2>6
  <1>9. HasNewest(state.snapshots)' /\ HasNewest(manifest.snapshots)'
    BY <1>1, <1>4, <1>5, <1>7, <1>8 DEF HasNewest
  <1>10. stage'["call"] = "manifest"
    BY <1>1, HeldThen DEF Writers
  <1>11. QED
    BY <1>6, <1>9, <1>10 DEF WindowOK

\* What a step harms is not repaired.
LEMMA HarmedGrows == ASSUME [Next]_vars PROVE harmed \subseteq harmed'
  <1>1. CASE UNCHANGED vars
    BY <1>1 DEF vars
  <1>2. CASE Commit \/ Publish \/ Watch \/ OpenManager \/ SyncStart \/ SyncNext \/ Synced
    BY <1>2 DEF Commit, Publish, Watch, OpenManager, SyncStart, SyncNext, Synced, Harm
  <1>3. ASSUME NEW w \in Writers,
               WriteLine(w) \/ Advance(w) \/ Serialise(w) \/ Rename(w) \/ StepFails(w)
        PROVE  harmed \subseteq harmed'
    BY <1>3 DEF WriteLine, Advance, Serialise, Rename, StepFails, Harm
  <1>4. ASSUME NEW kind, Begin(kind) PROVE harmed \subseteq harmed'
    BY <1>4 DEF Begin
  <1>5. CASE WriteSnapshot \/ Subscribe \/ Close \/ Crash \/ CrashTears
    BY <1>5 DEF WriteSnapshot, Subscribe, Close, Crash, CrashTears, Harm
  <1>6. ASSUME NEW n, Prune(n) PROVE harmed \subseteq harmed'
    BY <1>6 DEF Prune, Harm
  <1>7. QED
    BY <1>1, <1>2, <1>3, <1>4, <1>5, <1>6 DEF Next

LEMMA NextWindow ==
  ASSUME Sound, Sound', NumbersOK, WindowOK, [Next]_vars PROVE WindowOK'
  <1> USE HarmedGrows
  <1>1. CASE Commit \/ Publish \/ UNCHANGED vars
    <2>1. UNCHANGED <<mode, state, stage, image, manifest, files, harmed>>
      BY <1>1 DEF Commit, Publish, vars, manager, disk
    <2>2. QED
      BY <2>1, WindowStays DEF Up, WindowOK
  <1>2. CASE Watch
    <2>1. UNCHANGED <<mode, state, image, manifest, files>> /\ stage["watch"] = "idle"
          /\ stage' \in {stage, [stage EXCEPT !["watch"] = "line"]}
      BY <1>2 DEF Watch, disk, Goto
    <2>2. stage'["call"] = stage["call"] /\ stage'["watch"] # "rename"
      BY <2>1, HeldThen DEF Writers
    <2>3. QED
      BY <2>1, <2>2, WindowStays DEF Up, Writers
  <1>3. ASSUME NEW w \in Writers, WriteLine(w) PROVE WindowOK'
    <2>1. UNCHANGED <<mode, state, image, manifest, files>> /\ stage[w] = "line"
          /\ stage' = [stage EXCEPT ![w] = "written"]
      BY <1>3 DEF WriteLine, Goto
    <2>2. stage["call"] \notin {"manifest", "rename", "subscribe"} \/ stage'["call"] = stage["call"]
      BY <2>1, HeldThen DEF Writers
    <2>3. \A v \in Writers : stage'[v] = "rename" => stage[v] = "rename"
      BY <2>1, HeldThen
    <2>4. QED
      BY <2>1, <2>2, <2>3, WindowStays DEF Up
  <1>4. ASSUME NEW w \in Writers, Advance(w) PROVE WindowOK'
    <2>1. /\ UNCHANGED <<mode, image, manifest, files>> /\ stage[w] = "written"
          /\ stage' = [stage EXCEPT ![w] = "manifest"] /\ ManifestOK(log, journal, state)
          /\ state' = [state EXCEPT !.lastSequence = line[w].event.sequence, !.lastHash = Hash(line[w])]
      BY <1>4, HeldThen DEF Advance, disk, Goto
    <2>2. state'.snapshots = state.snapshots
      BY <2>1 DEF ManifestOK
    <2>3. stage["call"] \notin {"manifest", "rename", "subscribe"} \/ stage'["call"] = stage["call"]
      BY <2>1, HeldThen DEF Writers
    <2>4. \A v \in Writers : stage'[v] = "rename" => stage[v] = "rename"
      BY <2>1, HeldThen
    <2>5. QED
      BY <2>1, <2>2, <2>3, <2>4, WindowStays DEF Up
  <1>5. ASSUME NEW w \in Writers, Serialise(w) PROVE WindowOK'
    <2>1. /\ UNCHANGED <<mode, state, manifest, files>> /\ stage[w] = "manifest"
          /\ stage' = [stage EXCEPT ![w] = "rename"] /\ image' = [image EXCEPT ![w] = state]
      BY <1>5 DEF Serialise, disk, Goto
    <2>2. stage'["call"] \in {stage["call"], "rename"}
      BY <2>1, HeldThen DEF Writers
    <2>3. \A v \in Writers : stage'[v] = "rename" =>
            \/ stage[v] = "rename" /\ image'[v].snapshots = image[v].snapshots
            \/ image'[v].snapshots = state.snapshots
      BY <2>1, HeldThen
    <2>4. QED
      BY <2>1, <2>2, <2>3, WindowStays DEF Up
  <1>6. ASSUME NEW w \in Writers, Rename(w) PROVE WindowOK'
    BY <1>6, RenameWindow
  <1>7. ASSUME NEW w \in Writers, StepFails(w) PROVE WindowOK'
    <2>1. "io" \in harmed'
      BY <1>7 DEF StepFails, Harm
    <2>2. QED
      BY <2>1 DEF WindowOK
  <1>8. CASE SyncStart \/ SyncNext \/ Synced
    <2>1. /\ UNCHANGED <<state, image, manifest, files>> /\ stage["call"] \in {"start", "sync"}
          /\ \/ stage' = stage
             \/ \E s \in {"sync", "idle", "line", "start", "file"} : stage' = [stage EXCEPT !["call"] = s]
      BY <1>8 DEF SyncStart, SyncNext, Synced, Reject, Goto, disk
    <2>2. Up
      BY <2>1, UpInCall
    <2>3. \A v \in Writers : stage'[v] = "rename" => stage[v] = "rename"
      BY <2>1, HeldThen
    <2>4. QED
      BY <2>1, <2>2, <2>3, WindowStays
  <1>9. ASSUME NEW kind \in {"snapshot", "prune"}, Begin(kind) PROVE WindowOK'
    <2>1. /\ UNCHANGED <<mode, state, image, manifest, files>> /\ mode = "open" /\ call = Idle
          /\ \E s \in {"remove", "start"} : stage' = [stage EXCEPT !["call"] = s]
      BY <1>9 DEF Begin, Goto, disk
    <2>2. stage["call"] = "idle"
      BY <2>1, IdleCall DEF Sound, ModeOK
    <2>3. \A v \in Writers : stage'[v] = "rename" => stage[v] = "rename"
      BY <2>1, HeldThen
    <2>4. QED
      BY <2>1, <2>2, <2>3, WindowStays DEF Up
  <1>10. CASE OpenManager
    BY <1>10, OpenWindow
  <1>11. CASE WriteSnapshot
    BY <1>11, WriteSnapshotWindow
  <1>12. CASE Subscribe
    BY <1>12, SubscribeWindow
  <1>13. ASSUME NEW n, Prune(n) PROVE WindowOK'
    BY <1>13, PruneWindow
  <1>14. CASE Close \/ Crash \/ CrashTears
    <2>1. /\ UNCHANGED <<manifest, files>> /\ mode' = "closed"
          /\ stage' = [w \in Writers |-> "idle"]
      BY <1>14 DEF Close, Crash, CrashTears, Stopped, disk
    <2>2. ~Up' /\ \A w \in Writers : stage'[w] # "rename"
      BY <2>1 DEF Up
    <2>3. QED
      BY <2>1, <2>2, WindowStays
  <1>15. QED
    BY <1>1, <1>2, <1>3, <1>4, <1>5, <1>6, <1>7, <1>8, <1>9, <1>10, <1>11, <1>12, <1>13, <1>14
       DEF Next

LEMMA InitWindow == ASSUME Init PROVE WindowOK
  BY DEF Init, WindowOK, HasNewest, Empty, Up, Writers

-----------------------------------------------------------------------------
\* Undisturbed, the journal is a chain that ends where the manifest says.

\* The stages in which a line is in the journal and not yet in the manifest.
Unsaved == {"written", "manifest", "rename"}

\* A step that leaves the journal and what is known of its tail alone.
LEMMA ChainStays ==
  ASSUME ChainOK, harmed' = {}, harmed = {}, UNCHANGED <<torn, journal>>,
         manifest'.lastSequence = manifest.lastSequence, manifest'.lastHash = manifest.lastHash,
         Up' => /\ Up /\ state'.lastSequence = state.lastSequence
                /\ state'.lastHash = state.lastHash,
         \A w \in Writers : stage'[w] \in Busily => Up',
         \A w \in Writers :
           \/ stage'[w] = stage[w] /\ line'[w] = line[w] /\ image'[w] = image[w]
           \/ stage[w] \notin Unsaved /\ stage'[w] \notin Busily
  PROVE  ChainOK'
  <1>1. /\ ~torn /\ Chained /\ ~ \A w \in Writers : stage[w] \in Busily
        /\ (Up /\ \A w \in Writers : stage[w] # "written") => TailIs(state)
        /\ (\A w \in Writers : stage[w] \notin {"written", "manifest", "rename"}) => TailIs(manifest)
        /\ \A w \in Writers :
             /\ stage[w] = "line" => /\ line[w].event.sequence = state.lastSequence + 1
                                     /\ line[w].previous = state.lastHash
             /\ stage[w] = "written" => journal # << >> /\ Last(journal) = line[w]
             /\ stage[w] = "rename" => /\ image[w].lastSequence = state.lastSequence
                                       /\ image[w].lastHash = state.lastHash
    BY DEF ChainOK
  <1>2. ~torn' /\ Chained' /\ ~ \A w \in Writers : stage'[w] \in Busily
    BY <1>1 DEF Chained, Unsaved, Busily
  <1>3. \A w \in Writers : stage'[w] = "line" \/ stage'[w] \in Unsaved => stage'[w] \in Busily
    BY DEF Unsaved, Busily
  <1>4. (Up' /\ \A w \in Writers : stage'[w] # "written") => TailIs(state)'
    <2> SUFFICES ASSUME Up', \A w \in Writers : stage'[w] # "written" PROVE TailIs(state)'
      OBVIOUS
    <2>1. \A w \in Writers : stage[w] # "written"
      BY DEF Unsaved
    <2>2. TailIs(state)
      BY <1>1, <2>1
    <2>3. QED
      BY <2>2 DEF TailIs
  <1>5. (\A w \in Writers : stage'[w] \notin {"written", "manifest", "rename"}) => TailIs(manifest)'
    <2> SUFFICES ASSUME \A w \in Writers : stage'[w] \notin {"written", "manifest", "rename"}
                 PROVE TailIs(manifest)'
      OBVIOUS
    <2>1. \A w \in Writers : stage[w] \notin {"written", "manifest", "rename"}
      BY DEF Unsaved
    <2>2. TailIs(manifest)
      BY <1>1, <2>1
    <2>3. QED
      BY <2>2 DEF TailIs
  <1>6. \A w \in Writers :
          /\ stage'[w] = "line" => /\ line'[w].event.sequence = state'.lastSequence + 1
                                   /\ line'[w].previous = state'.lastHash
          /\ stage'[w] = "written" => journal' # << >> /\ Last(journal') = line'[w]
          /\ stage'[w] = "rename" => /\ image'[w].lastSequence = state'.lastSequence
                                     /\ image'[w].lastHash = state'.lastHash
    <2> SUFFICES ASSUME NEW w \in Writers, stage'[w] \in Busily
                 PROVE  /\ stage'[w] = "line" => /\ line'[w].event.sequence = state'.lastSequence + 1
                                                 /\ line'[w].previous = state'.lastHash
                        /\ stage'[w] = "written" => journal' # << >> /\ Last(journal') = line'[w]
                        /\ stage'[w] = "rename" => /\ image'[w].lastSequence = state'.lastSequence
                                                   /\ image'[w].lastHash = state'.lastHash
      BY <1>3 DEF Unsaved
    <2>1. stage'[w] = stage[w] /\ line'[w] = line[w] /\ image'[w] = image[w] /\ Up'
      OBVIOUS
    <2>2. QED
      BY <1>1, <2>1
  <1>7. QED
    BY <1>2, <1>4, <1>5, <1>6 DEF ChainOK

LEMMA ChainNow ==
  ASSUME ChainOK, harmed = {}
  PROVE  /\ ~torn /\ Chained /\ ~ \A w \in Writers : stage[w] \in Busily
         /\ (Up /\ \A w \in Writers : stage[w] # "written") => TailIs(state)
         /\ (\A w \in Writers : stage[w] \notin {"written", "manifest", "rename"}) => TailIs(manifest)
         /\ \A w \in Writers :
              /\ stage[w] = "line" => /\ line[w].event.sequence = state.lastSequence + 1
                                      /\ line[w].previous = state.lastHash
              /\ stage[w] = "written" => journal # << >> /\ Last(journal) = line[w]
              /\ stage[w] = "rename" => /\ image[w].lastSequence = state.lastSequence
                                        /\ image[w].lastHash = state.lastHash
  BY DEF ChainOK

\* A writer makes a line: the other one is not writing.
LEMMA LineChain ==
  ASSUME Sound, ChainOK, harmed = {}, harmed' = {}, NEW w \in Writers, NEW e, NextInOrder(e), Up, Up',
         UNCHANGED <<torn, journal, manifest, state, image>>,
         stage[w] \notin Busily, stage' = [stage EXCEPT ![w] = "line"],
         line' = [line EXCEPT ![w] = [event |-> e, previous |-> state.lastHash]], ~Busy
  PROVE  ChainOK'
  <1>1. /\ ~torn /\ Chained
        /\ (\A v \in Writers : stage[v] # "written") => TailIs(state)
        /\ (\A v \in Writers : stage[v] \notin {"written", "manifest", "rename"}) => TailIs(manifest)
    BY ChainNow
  <1>2. /\ stage'[w] = "line" /\ line'[w] = [event |-> e, previous |-> state.lastHash]
        /\ \A v \in Writers : v # w => stage'[v] = stage[v]
    BY HeldThen
  <1>3. \A v \in Writers : v # w => stage'[v] \notin Busily
    BY <1>2 DEF Busy, Writers, Busily
  <1>4. \A v \in Writers : stage[v] \notin {"written", "manifest", "rename"}
    BY <1>2, <1>3 DEF Busily
  <1>5. TailIs(state)' /\ TailIs(manifest)'
    BY <1>1, <1>4 DEF TailIs
  <1>6. ~torn' /\ Chained'
    BY <1>1 DEF Chained
  <1>7. ~ \A v \in Writers : stage'[v] \in Busily
    BY <1>3 DEF Writers
  <1>8. line'[w].event.sequence = state'.lastSequence + 1 /\ line'[w].previous = state'.lastHash
    BY <1>2 DEF NextInOrder
  <1>9. QED
    BY <1>2, <1>3, <1>5, <1>6, <1>7, <1>8 DEF ChainOK, Busily

\* The other writer is not writing while one is.
LEMMA AloneWriting ==
  ASSUME ChainOK, harmed = {}, NEW w \in Writers, stage[w] \in Busily
  PROVE  \A v \in Writers : v # w => stage[v] \notin Busily
  BY ChainNow DEF Writers

LEMMA WriteLineChain ==
  ASSUME Sound, ChainOK, harmed = {}, harmed' = {}, NEW w \in Writers, WriteLine(w)
  PROVE  ChainOK'
  <1>1. /\ UNCHANGED <<torn, mode, state, line, image, manifest>> /\ stage[w] = "line"
        /\ stage' = [stage EXCEPT ![w] = "written"] /\ journal' = Append(journal, line[w])
    BY DEF WriteLine, Goto
  <1>2. \A v \in Writers : v # w => stage[v] \notin Busily
    BY <1>1, AloneWriting DEF Busily
  <1>3. stage'[w] = "written" /\ \A v \in Writers : v # w => stage'[v] = stage[v]
    BY <1>1, HeldThen
  <1>4. Up
    BY <1>1 DEF Sound, ModeOK, Writers, Up
  <1>5. /\ ~torn /\ Chained /\ TailIs(state)
        /\ line[w].event.sequence = state.lastSequence + 1 /\ line[w].previous = state.lastHash
    BY <1>1, <1>2, <1>4, ChainNow DEF Busily
  <1>6. journal \in Seq(Range(journal))
    BY DEF Sound, JournalOK
  <1>7. /\ Len(journal') = Len(journal) + 1 /\ journal'[Len(journal) + 1] = line[w]
        /\ \A i \in 1..Len(journal) : journal'[i] = journal[i]
        /\ journal' # << >> /\ journal' \in Seq(Range(journal'))
    BY <1>1, <1>6, Appended
  <1>8. Len(journal) \in Nat /\ DOMAIN journal = 1..Len(journal) /\ DOMAIN journal' = 1..(Len(journal) + 1)
    BY <1>6, <1>7
  <1>9. Chained'
    <2> SUFFICES ASSUME NEW i \in 1..(Len(journal) + 1)
                 PROVE  /\ journal'[i].previous = IF i = 1 THEN NoHash ELSE Hash(journal'[i - 1])
                        /\ i > 1 => journal'[i].event.sequence = journal'[i - 1].event.sequence + 1
      BY <1>8 DEF Chained
    <2>1. CASE i \in 1..Len(journal)
      <3>1. journal'[i] = journal[i] /\ (i # 1 => i - 1 \in 1..Len(journal))
        BY <1>7, <1>8, <2>1
      <3>2. i # 1 => journal'[i - 1] = journal[i - 1]
        BY <1>7, <3>1
      <3>3. /\ journal[i].previous = IF i = 1 THEN NoHash ELSE Hash(journal[i - 1])
            /\ i > 1 => journal[i].event.sequence = journal[i - 1].event.sequence + 1
        BY <1>5, <1>8, <2>1 DEF Chained
      <3>4. QED
        BY <3>1, <3>2, <3>3, <2>1
    <2>2. CASE i = Len(journal) + 1
      <3>1. journal'[i] = line[w]
        BY <1>7, <2>2
      <3>2. CASE journal = << >>
        <4>1. i = 1 /\ state.lastHash = NoHash
          BY <1>5, <2>2, <3>2 DEF TailIs
        <4>2. QED
          BY <1>5, <3>1, <4>1
      <3>3. CASE journal # << >>
        <4>1. Len(journal) # 0 /\ i - 1 = Len(journal) /\ i # 1 /\ Len(journal) \in 1..Len(journal)
          BY <1>6, <1>8, <2>2, <3>3
        <4>2. journal'[i - 1] = Last(journal)
          BY <1>7, <4>1 DEF Last
        <4>3. state.lastSequence = Last(journal).event.sequence /\ state.lastHash = Hash(Last(journal))
          BY <1>5, <3>3 DEF TailIs
        <4>4. QED
          BY <1>5, <3>1, <4>1, <4>2, <4>3
      <3>4. QED
        BY <3>2, <3>3
    <2>3. QED
      BY <1>8, <2>1, <2>2
  <1>10. Last(journal') = line'[w]
    BY <1>1, <1>7 DEF Last
  <1>11. ~ \A v \in Writers : stage'[v] \in Busily
    BY <1>2, <1>3 DEF Writers
  <1>12. QED
    BY <1>1, <1>2, <1>3, <1>5, <1>7, <1>9, <1>10, <1>11 DEF ChainOK, Busily

LEMMA AdvanceChain ==
  ASSUME Sound, ChainOK, harmed = {}, harmed' = {}, NEW w \in Writers, Advance(w)
  PROVE  ChainOK'
  <1>1. /\ UNCHANGED <<torn, mode, journal, image, manifest>> /\ stage[w] = "written"
        /\ stage' = [stage EXCEPT ![w] = "manifest"]
        /\ state' = [state EXCEPT !.lastSequence = line[w].event.sequence, !.lastHash = Hash(line[w])]
        /\ ManifestOK(log, journal, state)
    BY HeldThen DEF Advance, Goto, disk
  <1>2. \A v \in Writers : v # w => stage[v] \notin Busily
    BY <1>1, AloneWriting DEF Busily
  <1>3. stage'[w] = "manifest" /\ \A v \in Writers : v # w => stage'[v] = stage[v]
    BY <1>1, HeldThen
  <1>4. ~torn /\ Chained /\ journal # << >> /\ Last(journal) = line[w]
    BY <1>1, ChainNow
  <1>5. state'.lastSequence = line[w].event.sequence /\ state'.lastHash = Hash(line[w])
    BY <1>1 DEF ManifestOK
  <1>6. TailIs(state)'
    BY <1>1, <1>4, <1>5 DEF TailIs
  <1>7. ~torn' /\ Chained' /\ ~ \A v \in Writers : stage'[v] \in Busily
    BY <1>1, <1>2, <1>3, <1>4 DEF Writers, Chained
  <1>8. QED
    BY <1>2, <1>3, <1>6, <1>7 DEF ChainOK, Busily

LEMMA SerialiseChain ==
  ASSUME Sound, ChainOK, harmed = {}, harmed' = {}, NEW w \in Writers, Serialise(w)
  PROVE  ChainOK'
  <1>1. /\ UNCHANGED <<torn, mode, journal, state, manifest>> /\ stage[w] = "manifest"
        /\ stage' = [stage EXCEPT ![w] = "rename"] /\ image' = [image EXCEPT ![w] = state]
    BY DEF Serialise, Goto, disk
  <1>2. \A v \in Writers : v # w => stage[v] \notin Busily
    BY <1>1, AloneWriting DEF Busily
  <1>3. /\ stage'[w] = "rename" /\ image'[w] = state
        /\ \A v \in Writers : v # w => stage'[v] = stage[v]
    BY <1>1, HeldThen
  <1>4. Up
    BY <1>1 DEF Sound, ModeOK, Writers, Up
  <1>5. ~torn /\ Chained /\ TailIs(state)
    BY <1>1, <1>2, <1>4, ChainNow DEF Busily
  <1>6. TailIs(state)' /\ ~torn' /\ Chained' /\ ~ \A v \in Writers : stage'[v] \in Busily
    BY <1>1, <1>2, <1>3, <1>5 DEF Writers, Chained, TailIs
  <1>7. QED
    BY <1>1, <1>2, <1>3, <1>6 DEF ChainOK, Busily

LEMMA RenameChain ==
  ASSUME Sound, ChainOK, harmed = {}, harmed' = {}, NEW w \in Writers, Rename(w)
  PROVE  ChainOK'
  <1>1. /\ UNCHANGED <<torn, mode, journal, state>> /\ stage[w] = "rename" /\ manifest' = image[w]
        /\ stage' \in {[stage EXCEPT ![w] = "sync"], [stage EXCEPT ![w] = "idle"]}
    BY DEF Rename, Goto
  <1>2. \A v \in Writers : v # w => stage[v] \notin Busily
    BY <1>1, AloneWriting DEF Busily
  <1>3. \A v \in Writers : stage'[v] \notin Busily
    BY <1>1, <1>2, HeldThen DEF Busily
  <1>4. Up
    BY <1>1 DEF Sound, ModeOK, Writers, Up
  <1>5. /\ ~torn /\ Chained /\ TailIs(state)
        /\ manifest'.lastSequence = state.lastSequence /\ manifest'.lastHash = state.lastHash
    BY <1>1, <1>2, <1>4, ChainNow DEF Busily
  <1>6. TailIs(state)' /\ TailIs(manifest)' /\ ~torn' /\ Chained'
    BY <1>1, <1>5 DEF Chained, TailIs
  <1>7. QED
    BY <1>3, <1>6 DEF ChainOK, Busily, Writers

\* Nobody writes as the manager opens, and what is saved is the tail.
LEMMA OpenChain ==
  ASSUME Sound, ChainOK, harmed = {}, harmed' = {}, OpenManager
  PROVE  ChainOK'
  <1>1. UNCHANGED <<torn, journal, manifest, line, image>> /\ ~Up
    BY DEF OpenManager, disk, Up
  <1>2. \/ state' = manifest /\ stage' = [stage EXCEPT !["call"] = "start"]
        \/ ~Up' /\ UNCHANGED <<state, stage>>
    BY DEF OpenManager, Up, Goto
  <1>3. \A w \in Writers : stage[w] = "idle"
    BY <1>1 DEF Sound, ModeOK, Up, Writers
  <1>4. \A w \in Writers : stage'[w] \in {"start", "idle"}
    BY <1>2, <1>3, HeldThen
  <1>5. ~torn /\ Chained /\ TailIs(manifest)
    BY <1>3, ChainNow
  <1>6. ~torn' /\ Chained' /\ TailIs(manifest)' /\ (Up' => TailIs(state)')
    BY <1>1, <1>2, <1>5 DEF Chained, TailIs
  <1>7. QED
    BY <1>4, <1>6 DEF ChainOK, Busily, Writers

LEMMA SubscribeChain ==
  ASSUME Sound, ChainOK, harmed = {}, harmed' = {}, Subscribe
  PROVE  ChainOK'
  <1>1. /\ UNCHANGED <<torn, journal, state>> /\ stage["call"] = "subscribe" /\ manifest' = state
        /\ stage' = [stage EXCEPT !["call"] = "idle"]
    BY DEF Subscribe, Goto
  <1>2. mode = "opening" /\ Up /\ stage["watch"] = "idle"
    BY <1>1 DEF Sound, ModeOK, Up
  <1>3. \A w \in Writers : stage[w] \in {"subscribe", "idle"} /\ stage'[w] = "idle"
    BY <1>1, <1>2, HeldThen DEF Writers
  <1>4. ~torn /\ Chained /\ TailIs(state)
    BY <1>2, <1>3, ChainNow
  <1>5. ~torn' /\ Chained' /\ TailIs(manifest)' /\ TailIs(state)'
    BY <1>1, <1>4 DEF Chained, TailIs
  <1>6. QED
    BY <1>3, <1>5 DEF ChainOK, Busily, Writers

\* A call changes the list of snapshots while the queue rests.
LEMMA ListChain ==
  ASSUME Sound, ChainOK, harmed = {}, harmed' = {}, UNCHANGED <<mode, journal, torn, manifest>>,
         stage["call"] \in {"file", "remove"}, stage["watch"] = "idle",
         stage' \in {[stage EXCEPT !["call"] = "subscribe"], [stage EXCEPT !["call"] = "manifest"]},
         state'.lastSequence = state.lastSequence, state'.lastHash = state.lastHash
  PROVE  ChainOK'
  <1>1. Up
    BY DEF Sound, ModeOK, Up
  <1>2. \A w \in Writers : stage[w] \in {"file", "remove", "idle"}
    BY DEF Writers
  <1>3. stage'["watch"] = "idle" /\ stage'["call"] \in {"subscribe", "manifest"}
    BY HeldThen DEF Writers
  <1>4. ~torn /\ Chained /\ TailIs(state) /\ TailIs(manifest)
    BY <1>1, <1>2, ChainNow
  <1>5. ~torn' /\ Chained' /\ TailIs(manifest)' /\ TailIs(state)'
    BY <1>4 DEF Chained, TailIs
  <1>6. QED
    BY <1>3, <1>5 DEF ChainOK, Busily, Writers

\* The call goes on without writing.
LEMMA CallMovesChain ==
  ASSUME Sound, ChainOK, harmed = {}, harmed' = {}, UNCHANGED <<state, line, image, manifest, torn, journal>>,
         stage["call"] \in {"idle", "start", "sync"},
         stage["call"] = "idle" => Up,
         \A w \in Writers : stage'[w] \in Busily => Up',
         \E s \in {"sync", "idle", "start", "file", "remove"} : stage' = [stage EXCEPT !["call"] = s]
  PROVE  ChainOK'
  <1>1. Up
    BY UpInCall
  <1>2. stage'["watch"] = stage["watch"] /\ stage'["call"] \in {"sync", "idle", "start", "file", "remove"}
    BY HeldThen DEF Writers
  <1>3. \A w \in Writers :
          \/ stage'[w] = stage[w] /\ line'[w] = line[w] /\ image'[w] = image[w]
          \/ stage[w] \notin Unsaved /\ stage'[w] \notin Busily
    BY <1>2 DEF Writers, Unsaved, Busily
  <1>4. QED
    BY <1>1, <1>3, ChainStays

LEMMA NextChain ==
  ASSUME Sound, Sound', ChainOK, [Next]_vars
  PROVE  ChainOK'
  <1> SUFFICES ASSUME harmed' = {} PROVE ChainOK'
    BY DEF ChainOK
  <1>0. harmed = {}
    BY HarmedGrows
  <1>u. \A w \in Writers : stage'[w] \in Busily => Up'
    BY DEF Sound, ModeOK, Writers, Busily, Up
  <1>1. CASE Commit \/ Publish \/ UNCHANGED vars
    <2>1. UNCHANGED <<mode, state, stage, line, image, manifest, torn, journal>>
      BY <1>1 DEF Commit, Publish, vars, manager, disk
    <2>2. QED
      BY <1>0, <1>u, <2>1, ChainStays DEF Up
  <1>2. CASE Watch
    <2>1. /\ UNCHANGED <<mode, state, image, manifest, torn, journal>>
          /\ Up /\ Up' /\ stage["watch"] = "idle"
      BY <1>2 DEF Watch, disk, Up
    <2>2. CASE NextInOrder(Head(queue))
      <3>1. /\ stage' = [stage EXCEPT !["watch"] = "line"] /\ ~Busy
            /\ line' = [line EXCEPT !["watch"] = [event |-> Head(queue), previous |-> state.lastHash]]
        BY <1>2, <2>2 DEF Watch, MakeLine, Goto, Harm
      <3>2. QED
        BY <1>0, <2>1, <2>2, <3>1, LineChain DEF Writers, Busily
    <2>3. CASE ~NextInOrder(Head(queue))
      <3>1. UNCHANGED <<stage, line>>
        BY <1>2, <2>3 DEF Watch
      <3>2. QED
        BY <1>0, <1>u, <2>1, <3>1, ChainStays
    <2>4. QED
      BY <2>2, <2>3
  <1>3. ASSUME NEW w \in Writers,
               WriteLine(w) \/ Advance(w) \/ Serialise(w) \/ Rename(w) \/ StepFails(w)
        PROVE  ChainOK'
    <2>1. CASE StepFails(w)
      BY <2>1 DEF StepFails, Harm
    <2>2. QED
      BY <1>0, <1>3, <2>1, WriteLineChain, AdvanceChain, SerialiseChain, RenameChain
  <1>4. CASE OpenManager
    BY <1>0, <1>4, OpenChain
  <1>5. CASE SyncStart \/ Synced
    <2>1. /\ UNCHANGED <<state, image, line, manifest, torn, journal>> /\ stage["call"] \in {"start", "sync"}
          /\ \E s \in {"sync", "idle", "start", "file"} : stage' = [stage EXCEPT !["call"] = s]
      BY <1>5 DEF SyncStart, Synced, Reject, Goto, disk
    <2>2. QED
      BY <1>0, <1>u, <2>1, CallMovesChain
  <1>6. CASE SyncNext
    <2>1. /\ UNCHANGED <<state, image, manifest, torn, journal>> /\ stage["call"] = "sync"
      BY <1>6 DEF SyncNext, disk
    <2>2. PICK e : \/ UNCHANGED line /\ stage' = [stage EXCEPT !["call"] = "idle"]
                   \/ UNCHANGED <<line, stage>>
                   \/ /\ NextInOrder(e) /\ stage' = [stage EXCEPT !["call"] = "line"] /\ ~Busy
                      /\ line' = [line EXCEPT !["call"] = [event |-> e, previous |-> state.lastHash]]
                      /\ UNCHANGED mode
      BY <1>6 DEF SyncNext, Reject, MakeLine, Goto, Harm
    <2>3. CASE UNCHANGED line /\ stage' = [stage EXCEPT !["call"] = "idle"]
      BY <1>0, <1>u, <2>1, <2>3, CallMovesChain
    <2>4. CASE UNCHANGED <<line, stage>>
      <3>1. Up
        BY <2>1, UpInCall
      <3>2. QED
        BY <1>0, <1>u, <2>1, <2>4, <3>1, ChainStays
    <2>5. CASE /\ NextInOrder(e) /\ stage' = [stage EXCEPT !["call"] = "line"] /\ ~Busy
               /\ line' = [line EXCEPT !["call"] = [event |-> e, previous |-> state.lastHash]]
               /\ UNCHANGED mode
      <3>1. Up /\ Up'
        BY <2>1, <2>5, UpInCall DEF Up
      <3>2. QED
        BY <1>0, <2>1, <2>5, <3>1, LineChain DEF Writers, Busily
    <2>6. QED
      BY <2>2, <2>3, <2>4, <2>5
  <1>7. ASSUME NEW kind, Begin(kind) PROVE ChainOK'
    <2>1. /\ UNCHANGED <<mode, state, image, line, manifest, torn, journal>>
          /\ mode = "open" /\ call = Idle
          /\ \E s \in {"start", "remove"} : stage' = [stage EXCEPT !["call"] = s]
      BY <1>7 DEF Begin, Goto, disk
    <2>2. stage["call"] = "idle" /\ Up
      BY <2>1, IdleCall DEF Sound, ModeOK, Up
    <2>3. QED
      BY <1>0, <1>u, <2>1, <2>2, CallMovesChain
  <1>8. CASE WriteSnapshot
    <2>1. PICK id : state' = [state EXCEPT !.snapshots = state.snapshots \cup {id}]
      BY <1>8 DEF WriteSnapshot
    <2>2. /\ UNCHANGED <<mode, journal, torn, manifest>> /\ stage["call"] = "file"
          /\ stage["watch"] = "idle" /\ ManifestOK(log, journal, state)
          /\ stage' \in {[stage EXCEPT !["call"] = "subscribe"], [stage EXCEPT !["call"] = "manifest"]}
      BY <1>8, HeldThen DEF WriteSnapshot, Goto, Harm
    <2>3. state'.lastSequence = state.lastSequence /\ state'.lastHash = state.lastHash
      BY <2>1, <2>2 DEF ManifestOK
    <2>4. QED
      BY <1>0, <2>2, <2>3, ListChain
  <1>9. CASE Subscribe
    BY <1>0, <1>9, SubscribeChain
  <1>10. ASSUME NEW n, Prune(n) PROVE ChainOK'
    <2>1. PICK K : state' = [state EXCEPT !.snapshots = K]
      BY <1>10 DEF Prune
    <2>2. /\ UNCHANGED <<mode, journal, torn, manifest>> /\ stage["call"] = "remove"
          /\ stage["watch"] = "idle" /\ ManifestOK(log, journal, state)
          /\ stage' = [stage EXCEPT !["call"] = "manifest"]
      BY <1>10, HeldThen DEF Prune, Goto, Harm
    <2>3. state'.lastSequence = state.lastSequence /\ state'.lastHash = state.lastHash
      BY <2>1, <2>2 DEF ManifestOK
    <2>4. QED
      BY <1>0, <2>2, <2>3, ListChain
  <1>11. CASE Close \/ Crash \/ CrashTears
    <2>1. ~CrashTears
      BY DEF CrashTears, Harm
    <2>2. /\ UNCHANGED <<manifest, torn, journal>> /\ mode' = "closed"
          /\ stage' = [w \in Writers |-> "idle"]
      BY <1>11, <2>1 DEF Close, Crash, Stopped, disk
    <2>3. \A w \in Writers : stage[w] \notin {"written", "manifest", "rename"}
      <3>1. CASE Crash
        BY <3>1 DEF Crash, Harm
      <3>2. CASE Close
        <4>1. stage["watch"] = "idle" /\ call = Idle
          BY <3>2 DEF Close
        <4>2. stage["call"] = "idle"
          BY <4>1, IdleCall DEF Sound, ModeOK
        <4>3. QED
          BY <4>1, <4>2 DEF Writers
      <3>3. QED
        BY <1>11, <2>1, <3>1, <3>2
    <2>4. ~Up' /\ \A w \in Writers : stage'[w] = "idle"
      BY <2>2 DEF Up
    <2>5. \A w \in Writers :
            \/ stage'[w] = stage[w] /\ line'[w] = line[w] /\ image'[w] = image[w]
            \/ stage[w] \notin Unsaved /\ stage'[w] \notin Busily
      BY <2>3, <2>4 DEF Unsaved, Busily
    <2>6. QED
      BY <1>0, <1>u, <2>2, <2>4, <2>5, ChainStays
  <1>12. QED
    BY <1>1, <1>2, <1>3, <1>4, <1>5, <1>6, <1>7, <1>8, <1>9, <1>10, <1>11 DEF Next

LEMMA InitChain == ASSUME Init PROVE ChainOK
  BY DEF Init, ChainOK, Chained, TailIs, Empty, Up, Writers, Busily

-----------------------------------------------------------------------------
\* Opening is refused only when the retained changes do not reach back.

\* The sequence before the oldest change a state retains.
Dropped(L) == IF Len(L) > Retention THEN Len(L) - Retention ELSE 0

LEMMA OldestIs ==
  ASSUME NEW L \in Seq(Events), Numbered(L), NEW s, StateOf(s, L)
  PROVE  /\ Dropped(L) \in 0..Len(L) /\ OldestRetained(s) = Dropped(L) + 1
         /\ Len(s.changes) = Len(L) - Dropped(L)
         /\ \A i \in 1..Len(s.changes) : s.changes[i].sequence = Dropped(L) + i
         /\ \A c \in 0..Len(L) : Resumable(s, c) <=> c >= Dropped(L)
         /\ Len(L) # 0 => Len(s.changes) # 0
  <1>1. /\ s \in States /\ s.sequence = Len(L) /\ s.changes \in Seq(Events)
        /\ Len(s.changes) = IF Len(L) > Retention THEN Retention ELSE Len(L)
        /\ \A i \in 1..Len(s.changes) :
             s.changes[i].sequence = Len(L) - Len(s.changes) + i
    BY StateRetains
  <1>2. Len(L) \in Nat /\ Retention \in Nat /\ Retention > 0
    BY RetentionAssumption
  <1>3. /\ Dropped(L) \in 0..Len(L) /\ Len(s.changes) = Len(L) - Dropped(L)
        /\ Len(L) # 0 => Len(s.changes) # 0
    BY <1>1, <1>2 DEF Dropped
  <1>4. \A i \in 1..Len(s.changes) : s.changes[i].sequence = Dropped(L) + i
    BY <1>1, <1>3
  <1>5. s.changes = << >> <=> Len(s.changes) = 0
    BY <1>1, EmptyIs
  <1>6. OldestRetained(s) = Dropped(L) + 1
    <2>1. CASE s.changes = << >>
      BY <1>1, <1>3, <1>5, <2>1 DEF OldestRetained
    <2>2. CASE s.changes # << >>
      <3>1. 1 \in 1..Len(s.changes)
        BY <1>2, <1>3, <1>5, <2>2
      <3>2. QED
        BY <1>4, <2>2, <3>1 DEF OldestRetained
    <2>3. QED
      BY <2>1, <2>2
  <1>7. QED
    BY <1>1, <1>3, <1>4, <1>6 DEF Resumable

\* What does not reach back does not reach back later either.
LEMMA StillBehind ==
  ASSUME NEW L \in Seq(Events), Numbered(L), NEW s, StateOf(s, L),
         NEW M \in Seq(Events), Numbered(M), NEW t, StateOf(t, M), Len(L) <= Len(M),
         NEW c \in 0..Len(L), ~Resumable(s, c)
  PROVE  ~Resumable(t, c)
  <1>1. Dropped(L) <= Dropped(M)
    BY RetentionAssumption DEF Dropped
  <1>2. c < Dropped(L) /\ Dropped(L) \in Nat /\ Dropped(M) \in Nat
    BY OldestIs
  <1>3. c \in 0..Len(M)
    OBVIOUS
  <1>4. QED
    BY <1>1, <1>2, <1>3, OldestIs

\* The elements of a stretch of a sequence.
LEMMA PickStretch ==
  ASSUME NEW s, NEW k \in Nat, NEW m \in Nat, k <= m
  PROVE  Pick(s, k + 1 .. m) = [i \in 1..(m - k) |-> s[k + i]]
  <1> DEFINE f == [i \in 1..(m - k) |-> k + i]
             n == m - k
             S == k + 1 .. m
  <1>1. n \in Nat /\ S \in SUBSET Nat
    OBVIOUS
  <1>2. \A x \in S : x - k \in 1..n /\ f[x - k] = x
    OBVIOUS
  <1>3. Lists(f, n, S)
    BY <1>1, <1>2 DEF Lists
  <1>4. Pick(s, S) = [i \in 1..n |-> s[f[i]]]
    <2> HIDE DEF f, n, S
    <2>1. QED
      BY <1>1, <1>3, PickIs
  <1>5. QED
    BY <1>4

LEMMA StretchSize ==
  ASSUME NEW k \in Nat, NEW m \in Nat, k <= m
  PROVE  Cardinality(k + 1 .. m) = m - k
  <1> DEFINE f == [i \in 1..(m - k) |-> k + i]
             n == m - k
             S == k + 1 .. m
  <1>1. n \in Nat /\ S \in SUBSET Nat
    OBVIOUS
  <1>2. \A x \in S : x - k \in 1..n /\ f[x - k] = x
    OBVIOUS
  <1>3. Lists(f, n, S)
    BY <1>1, <1>2 DEF Lists
  <1> HIDE DEF f, n, S
  <1>4. Cardinality(S) = n
    BY <1>1, <1>3, ListedRank
  <1>5. QED
    BY <1>4 DEF n, S

\* What is read after a cursor follows it, or what is still retained.
LEMMA ReadInOrder ==
  ASSUME NEW L \in Seq(Events), Numbered(L), NEW s, StateOf(s, L),
         NEW c \in 0..Len(L), c < Len(L), NEW limit \in Nat, limit > 0
  PROVE  LET read == ChangesSince(s, c, Keys, limit)
             b == IF c >= Dropped(L) THEN c ELSE Dropped(L)
         IN /\ read \in Seq(Events) /\ read # << >>
            /\ \A i \in DOMAIN read : read[i].sequence = b + i
  <1> DEFINE b == IF c >= Dropped(L) THEN c ELSE Dropped(L)
             k == b - Dropped(L)
             q == Len(s.changes)
             found == {i \in DOMAIN s.changes : s.changes[i].sequence > c /\ s.changes[i].key \in Keys}
             m == IF q <= k + limit THEN q ELSE k + limit
             picked == {i \in found : Cardinality({j \in found : j <= i}) <= limit}
  <1>1. /\ s.changes \in Seq(Events) /\ q = Len(L) - Dropped(L) /\ Dropped(L) \in 0..Len(L)
        /\ \A i \in 1..q : s.changes[i].sequence = Dropped(L) + i
        /\ q # 0
    <2>1. s.changes \in Seq(Events)
      BY StateRetains
    <2>2. /\ Dropped(L) \in 0..Len(L) /\ OldestRetained(s) = Dropped(L) + 1
          /\ Len(s.changes) = Len(L) - Dropped(L)
          /\ \A i \in 1..Len(s.changes) : s.changes[i].sequence = Dropped(L) + i
          /\ Len(L) # 0 => Len(s.changes) # 0
      BY OldestIs, Zenon
    <2>3. Len(L) # 0
      OBVIOUS
    <2>4. QED
      BY <2>1, <2>2, <2>3
  <1>2. q \in Nat /\ k \in Nat /\ k < q /\ m \in Nat /\ k < m /\ m <= q /\ b \in Nat
    <2>1. b \in Nat /\ Dropped(L) \in Nat /\ Len(L) \in Nat /\ Dropped(L) <= b /\ (b < Len(L) \/ b = Dropped(L))
      BY <1>1
    <2>2. q \in Nat /\ k \in Nat /\ k < q
      <3> HIDE DEF b
      <3>1. QED
        BY <1>1, <2>1
    <2> HIDE DEF q, k
    <2>3. QED
      BY <2>1, <2>2
  <1>3. DOMAIN s.changes = 1..q /\ \A i \in 1..q : s.changes[i].key \in Keys
    BY <1>1, ElementType, EventFields
  <1>4. found = k + 1 .. q
    <2>1. \A i \in 1..q : s.changes[i].sequence > c <=> i > k
      <3> SUFFICES ASSUME NEW i \in 1..q PROVE s.changes[i].sequence > c <=> i > k
        OBVIOUS
      <3>1. s.changes[i].sequence = Dropped(L) + i /\ Dropped(L) \in Nat /\ i \in Nat /\ i > 0 /\ c \in Nat
        BY <1>1, <1>2
      <3>2. k = IF c >= Dropped(L) THEN c - Dropped(L) ELSE 0
        BY <3>1
      <3> HIDE DEF k, q
      <3>3. QED
        BY <3>1, <3>2
    <2>2. QED
      BY <1>2, <1>3, <2>1
  <1>5. picked = k + 1 .. m
    <2>1. \A i \in k + 1 .. q : Cardinality({j \in found : j <= i}) = i - k
      <3> SUFFICES ASSUME NEW i \in k + 1 .. q PROVE Cardinality({j \in found : j <= i}) = i - k
        OBVIOUS
      <3>1. i \in Nat /\ k <= i
        BY <1>2
      <3>2. {j \in found : j <= i} = k + 1 .. i
        BY <1>2, <1>4, <3>1
      <3> HIDE DEF k, found
      <3>3. QED
        BY <1>2, <3>1, <3>2, StretchSize
    <2> HIDE DEF found, k, q
    <2>2. QED
      BY <1>2, <1>4, <2>1
  <1>6. ChangesSince(s, c, Keys, limit) = Pick(s.changes, picked)
    BY DEF ChangesSince
  <1> HIDE DEF picked, found
  <1>7. ChangesSince(s, c, Keys, limit) = [i \in 1..(m - k) |-> s.changes[k + i]]
    <2> DEFINE ch == s.changes
    <2> HIDE DEF k, m, ch
    <2>1. Pick(ch, k + 1 .. m) = [i \in 1..(m - k) |-> ch[k + i]]
      BY <1>2, PickStretch
    <2>2. QED
      BY <1>5, <1>6, <2>1 DEF ch
  <1>8. \A i \in 1..(m - k) : k + i \in 1..q
    <2> HIDE DEF k, m, q
    <2>1. QED
      BY <1>2
  <1>9. \A i \in 1..(m - k) : s.changes[k + i].sequence = b + i
    <2>1. \A i \in 1..(m - k) : s.changes[k + i].sequence = Dropped(L) + (k + i)
      BY <1>1, <1>8
    <2>2. Dropped(L) + k = b
      BY <1>1
    <2>3. QED
      BY <1>1, <1>2, <2>1, <2>2
  <1>10. ChangesSince(s, c, Keys, limit) \in Seq(Events)
    BY <1>1, StateRetains, ChangesSinceType
  <1>11. m - k \in Nat /\ 1 \in 1..(m - k)
    BY <1>2
  <1> HIDE DEF m, k, b
  <1>12. ChangesSince(s, c, Keys, limit) # << >>
    BY <1>7, <1>10, <1>11, EmptyIs
  <1>13. QED
    BY <1>7, <1>9, <1>10, <1>12 DEF b

LEMMA NextScript == ASSUME Sound, WithinScript, [Next]_vars PROVE WithinScript'
  <1>1. CASE Commit
    <2>1. Len(log') = Len(log) + 1 /\ Len(log) < Len(Script)
      BY <1>1, CommitHistory DEF Sound, Commit
    <2>2. Len(log) \in Nat /\ Len(Script) \in Nat
      BY HeldThen, PitrAssumption
    <2>3. QED
      BY <2>1, <2>2 DEF WithinScript
  <1>2. CASE ~Commit
    <2>1. UNCHANGED log
      BY <1>2 DEF Next, Publish, Watch, OpenManager, SyncStart, SyncNext, Synced, WriteLine, Advance,
         Serialise, Rename, StepFails, Begin, WriteSnapshot, Subscribe, Close, Crash, CrashTears,
         Prune, engine, vars
    <2>2. QED
      BY <2>1 DEF WithinScript
  <1>3. QED
    BY <1>1, <1>2

LEMMA OpeningNow ==
  ASSUME OpeningOK, harmed = {}
  PROVE  /\ mode = "refused" => ~Resumable(db, manifest.lastSequence)
         /\ mode = "opening" =>
              /\ \A i \in DOMAIN call.todo : call.todo[i].sequence = call.cursor + i
              /\ stage["call"] = "start" => call.todo = << >>
              /\ stage["call"] \in {"sync", "manifest", "rename"} => call.cursor = state.lastSequence
              /\ stage["call"] \in {"line", "written"} => call.cursor = line["call"].event.sequence
  BY DEF OpeningOK

\* While the call reads, memory and manifest both describe the journal's tail.
LEMMA TailsAgree ==
  ASSUME Sound, ChainOK, harmed = {}, mode = "opening", stage["call"] \in {"start", "sync"}
  PROVE  manifest.lastSequence = state.lastSequence
  <1>1. \A w \in Writers : stage[w] \in {"start", "sync", "idle"}
    BY DEF Sound, ModeOK, Writers
  <1>2. Up
    BY DEF Up
  <1>3. TailIs(state) /\ TailIs(manifest)
    BY <1>1, <1>2, ChainNow
  <1>4. QED
    BY <1>3 DEF TailIs

LEMMA OpenOpening ==
  ASSUME Sound, ChainOK, harmed = {}, harmed' = {}, OpenManager PROVE OpeningOK'
  <1>1. \A w \in Writers : stage[w] = "idle"
    BY DEF OpenManager, Sound, ModeOK, Up, Writers
  <1>2. ~torn /\ Chained /\ TailIs(manifest)
    BY <1>1, ChainNow
  <1>3. Verified
    BY <1>2 DEF Verified, Chained, TailIs
  <1>4. /\ mode' = "opening" /\ stage' = [stage EXCEPT !["call"] = "start"]
        /\ call' = [kind |-> "open", cursor |-> manifest.lastSequence, todo |-> << >>]
    BY <1>3 DEF OpenManager, Goto
  <1>5. stage'["call"] = "start" /\ call'.todo = << >>
    BY <1>4, HeldThen DEF Writers
  <1>6. QED
    BY <1>4, <1>5, NoTodo DEF OpeningOK

LEMMA SyncStartOpening ==
  ASSUME Sound, ChainOK, OpeningOK, harmed = {}, harmed' = {}, SyncStart PROVE OpeningOK'
  <1>1. /\ UNCHANGED <<db, state, manifest, line>> /\ stage["call"] = "start"
    BY DEF SyncStart, disk, engine
  <1>2. mode # "refused"
    BY <1>1, UpInCall DEF Up
  <1>3. CASE Resumable(db, state.lastSequence)
    <2>1. /\ call' = [call EXCEPT !.cursor = state.lastSequence, !.todo = << >>] /\ UNCHANGED mode
          /\ stage' = [stage EXCEPT !["call"] = "sync"]
      BY <1>3 DEF SyncStart, Goto
    <2>2. stage'["call"] = "sync" /\ call \in [kind : Kinds, cursor : Nat, todo : Seq(Events)]
      BY <2>1, HeldThen DEF Writers, Sound, Shape
    <2>3. call'.todo = << >> /\ call'.cursor = state.lastSequence
      BY <2>1, <2>2
    <2>4. QED
      BY <1>1, <1>2, <2>1, <2>2, <2>3, NoTodo DEF OpeningOK
  <1>4. CASE ~Resumable(db, state.lastSequence)
    <2>1. mode' = IF mode = "opening" THEN "refused" ELSE mode
      BY <1>4 DEF SyncStart, Reject
    <2>2. CASE mode = "opening"
      <3>1. ~Resumable(db, manifest.lastSequence)
        BY <1>1, <1>4, <2>2, TailsAgree
      <3>2. QED
        BY <1>1, <2>1, <2>2, <3>1 DEF OpeningOK
    <2>3. QED
      BY <1>2, <2>1, <2>2 DEF OpeningOK
  <1>5. QED
    BY <1>3, <1>4

LEMMA SyncNextOpening ==
  ASSUME Sound, ChainOK, OpeningOK, WithinScript, harmed = {}, harmed' = {}, SyncNext PROVE OpeningOK'
  <1> DEFINE todo == IF call.todo # << >> THEN call.todo
                     ELSE ChangesSince(db, call.cursor, Keys, Len(Script))
             c == call.cursor
  <1>1. /\ UNCHANGED <<db, state, manifest>> /\ stage["call"] = "sync"
        /\ call.todo # << >> \/ c < db.sequence
    BY DEF SyncNext, disk, engine
  <1>2. Up /\ call \in [kind : Kinds, cursor : Nat, todo : Seq(Events)]
    BY <1>1, UpInCall DEF Sound, Shape
  <1>3. CASE mode = "open"
    <2>1. mode' = "open"
      BY <1>3 DEF SyncNext, Reject
    <2>2. QED
      BY <2>1 DEF OpeningOK
  <1>4. CASE mode = "opening"
    <2>1. /\ \A i \in DOMAIN call.todo : call.todo[i].sequence = c + i
          /\ c = state.lastSequence /\ manifest.lastSequence = c
      BY <1>1, <1>4, OpeningNow, TailsAgree
    <2>2. /\ log \in Seq(Events) /\ Numbered(log) /\ StateOf(db, log) /\ c \in 0..Len(log)
          /\ db.sequence = Len(log)
      <3>1. Reached(log, journal, state.lastSequence)
        BY HeldThen DEF ManifestOK
      <3>2. QED
        BY <2>1, <3>1 DEF Reached, Sound, EngineOK, StateOf, Remembers
    <2>3. \E b \in Nat : /\ todo \in Seq(Events) /\ todo # << >>
                         /\ \A i \in DOMAIN todo : todo[i].sequence = b + i
                         /\ b = c \/ (b > c /\ ~Resumable(db, c))
      <3>1. CASE call.todo # << >>
        BY <1>2, <2>1, <3>1
      <3>2. CASE call.todo = << >>
        <4>1. Len(Script) \in Nat /\ Len(log) \in Nat /\ c < Len(log) /\ Len(Script) > 0
          BY <1>1, <2>2, <3>2, PitrAssumption DEF WithinScript
        <4> DEFINE b == IF c >= Dropped(log) THEN c ELSE Dropped(log)
        <4>2. todo = ChangesSince(db, c, Keys, Len(Script))
          BY <3>2
        <4> HIDE DEF todo
        <4>3. todo \in Seq(Events) /\ todo # << >> /\ \A i \in DOMAIN todo : todo[i].sequence = b + i
          BY <2>2, <4>1, <4>2, ReadInOrder
        <4>4. Dropped(log) \in Nat /\ (Resumable(db, c) <=> c >= Dropped(log))
          BY <2>2, OldestIs
        <4>5. b \in Nat /\ (b = c \/ (b > c /\ ~Resumable(db, c)))
          BY <2>2, <4>4
        <4>6. QED
          BY <4>3, <4>5
      <3>3. QED
        BY <3>1, <3>2
    <2>4. PICK b \in Nat : /\ todo \in Seq(Events) /\ todo # << >>
                           /\ \A i \in DOMAIN todo : todo[i].sequence = b + i
                           /\ b = c \/ (b > c /\ ~Resumable(db, c))
      BY <2>3
    <2>5. IF Head(todo).sequence > state.lastSequence + 1
          THEN Reject /\ UNCHANGED <<line, harmed>>
          ELSE /\ call' = [call EXCEPT !.cursor = Head(todo).sequence, !.todo = Tail(todo)]
               /\ UNCHANGED mode
               /\ IF NextInOrder(Head(todo))
                  THEN /\ MakeLine("call", Head(todo)) /\ Goto("call", "line")
                       /\ Harm("overlap", Busy)
                  ELSE UNCHANGED <<stage, line, harmed>>
      BY <2>4 DEF SyncNext
    <2> HIDE DEF todo
    <2>6. Head(todo) = todo[1] /\ 1 \in DOMAIN todo /\ DOMAIN todo = 1..Len(todo) /\ Len(todo) \in Nat
      BY <2>4
    <2>7. Head(todo).sequence = b + 1
      BY <2>4, <2>6
    <2>8. CASE b = c
      <3>1. Head(todo).sequence = state.lastSequence + 1 /\ state.lastSequence \in Nat
        BY <2>1, <2>2, <2>7, <2>8
      <3>2. /\ call' = [call EXCEPT !.cursor = Head(todo).sequence, !.todo = Tail(todo)]
            /\ UNCHANGED mode
            /\ line' = [line EXCEPT !["call"] = [event |-> Head(todo), previous |-> state.lastHash]]
            /\ stage' = [stage EXCEPT !["call"] = "line"]
        BY <2>5, <3>1 DEF NextInOrder, MakeLine, Goto
      <3>3. /\ call'.cursor = c + 1 /\ call'.todo = Tail(todo) /\ stage'["call"] = "line"
            /\ line'["call"].event = Head(todo)
        BY <1>2, <2>7, <2>8, <3>2, HeldThen DEF Writers
      <3>4. DOMAIN Tail(todo) = 1..(Len(todo) - 1) /\ \A i \in 1..(Len(todo) - 1) : Tail(todo)[i] = todo[i + 1]
        BY <2>4, <2>6
      <3>5. \A i \in DOMAIN call'.todo : call'.todo[i].sequence = call'.cursor + i
        <4> SUFFICES ASSUME NEW i \in 1..(Len(todo) - 1) PROVE call'.todo[i].sequence = call'.cursor + i
          BY <3>3, <3>4
        <4>1. i + 1 \in DOMAIN todo /\ call'.todo[i] = todo[i + 1]
          BY <2>6, <3>3, <3>4
        <4>2. todo[i + 1].sequence = b + (i + 1) /\ i \in Nat
          BY <2>4, <4>1
        <4>3. b + (i + 1) = (c + 1) + i
          BY <2>8, <4>2
        <4>4. QED
          BY <3>3, <4>1, <4>2, <4>3
      <3>6. mode' # "refused"
        BY <1>4, <3>2
      <3>7. call'.cursor = line'["call"].event.sequence
        BY <2>7, <2>8, <3>3
      <3>8. QED
        BY <3>3, <3>5, <3>6, <3>7 DEF OpeningOK
    <2>9. CASE b > c /\ ~Resumable(db, c)
      <3>1. mode' = "refused"
        BY <1>4, <2>1, <2>2, <2>5, <2>7, <2>9 DEF Reject
      <3>2. ~Resumable(db', manifest'.lastSequence)
        BY <1>1, <2>1, <2>9
      <3>3. QED
        BY <3>1, <3>2 DEF OpeningOK
    <2>10. QED
      BY <2>4, <2>8, <2>9
  <1>5. QED
    BY <1>2, <1>3, <1>4 DEF Up

\* Copied and still opening, the first snapshot is next.
LEMMA SyncedKeeps ==
  ASSUME Sound, Synced, mode' \in {"opening", "refused"}
  PROVE  /\ UNCHANGED <<db, state, line, manifest>> /\ stage["call"] = "sync" /\ call.todo = << >>
         /\ call'.todo = << >> /\ UNCHANGED mode
         /\ \E s \in {"start", "file"} : stage' = [stage EXCEPT !["call"] = s]
  <1>1. call \in [kind : Kinds, cursor : Nat, todo : Seq(Events)]
    BY DEF Sound, Shape
  <1>2. QED
    BY <1>1 DEF Synced, Goto, engine, disk

LEMMA NextOpening ==
  ASSUME Sound, Sound', ChainOK, OpeningOK, WithinScript, [Next]_vars PROVE OpeningOK'
  <1> SUFFICES ASSUME harmed' = {} PROVE OpeningOK'
    BY DEF OpeningOK
  <1>0. harmed = {}
    BY HarmedGrows
  <1>1. CASE Commit \/ Publish \/ UNCHANGED vars
    <2>1. UNCHANGED <<mode, state, stage, line, call, manifest>>
      BY <1>1 DEF Commit, Publish, vars, manager, disk
    <2>2. mode = "refused" => ~Resumable(db', manifest.lastSequence)
      <3> SUFFICES ASSUME mode = "refused" PROVE ~Resumable(db', manifest.lastSequence)
        OBVIOUS
      <3>1. ~Resumable(db, manifest.lastSequence)
        BY <1>0, OpeningNow
      <3>2. CASE UNCHANGED db
        BY <3>1, <3>2
      <3>3. CASE Commit
        <4>1. /\ log \in Seq(Events) /\ Numbered(log) /\ StateOf(db, log)
              /\ manifest.lastSequence \in 0..Len(log)
          BY HeldThen DEF ManifestOK, Reached, Sound, EngineOK
        <4>2. log' \in Seq(Events) /\ Numbered(log') /\ StateOf(db', log') /\ Len(log) <= Len(log')
          BY <3>3, <4>1, CommitHistory DEF Sound, EngineOK
        <4>3. QED
          BY <3>1, <4>1, <4>2, StillBehind
      <3>4. QED
        BY <1>1, <3>2, <3>3 DEF Publish, vars, engine
    <2>3. QED
      BY <1>0, <2>1, <2>2, OpeningNow DEF OpeningOK
  <1>2. CASE mode' \notin {"opening", "refused"}
    BY <1>2 DEF OpeningOK
  <1>3. CASE OpenManager
    BY <1>0, <1>3, OpenOpening
  <1>4. CASE SyncStart
    BY <1>0, <1>4, SyncStartOpening
  <1>5. CASE SyncNext
    BY <1>0, <1>5, SyncNextOpening
  <1>6. CASE Synced /\ mode' \in {"opening", "refused"}
    <2>1. /\ UNCHANGED <<db, state, line, manifest>> /\ stage["call"] = "sync" /\ call.todo = << >>
          /\ call'.todo = << >> /\ UNCHANGED mode
          /\ \E s \in {"start", "file"} : stage' = [stage EXCEPT !["call"] = s]
      BY <1>6, SyncedKeeps
    <2>2. Up
      BY <2>1, UpInCall
    <2>3. stage'["call"] \in {"start", "file"}
      BY <2>1, HeldThen DEF Writers
    <2>4. QED
      BY <2>1, <2>2, <2>3, NoTodo DEF OpeningOK, Up
  <1>7. ASSUME NEW w \in Writers, mode' \in {"opening", "refused"},
               WriteLine(w) \/ Advance(w) \/ Serialise(w) \/ Rename(w) \/ StepFails(w)
        PROVE  OpeningOK'
    <2>1. ~StepFails(w)
      BY DEF StepFails, Harm
    <2>2. UNCHANGED <<db, mode>> /\ stage[w] \in Busily
      BY <1>7, <2>1 DEF WriteLine, Advance, Serialise, Rename, engine, Busily
    <2>3. mode = "opening" /\ w = "call"
      <3>1. Up
        BY <2>2 DEF Sound, ModeOK, Writers, Busily, Up
      <3>2. mode = "opening"
        BY <1>7, <2>2, <3>1 DEF Up
      <3>3. QED
        BY <2>2, <3>2 DEF Sound, ModeOK, Writers, Busily
    <2>4. /\ \A i \in DOMAIN call.todo : call.todo[i].sequence = call.cursor + i
          /\ stage["call"] \in {"sync", "manifest", "rename"} => call.cursor = state.lastSequence
          /\ stage["call"] \in {"line", "written"} => call.cursor = line["call"].event.sequence
      BY <1>0, <2>3, OpeningNow
    <2>5. CASE WriteLine("call")
      <3>1. /\ UNCHANGED <<state, line, call>> /\ stage["call"] = "line"
            /\ stage' = [stage EXCEPT !["call"] = "written"]
        BY <2>5 DEF WriteLine, Goto
      <3>2. stage'["call"] = "written"
        BY <3>1, HeldThen DEF Writers
      <3>3. QED
        BY <2>2, <2>3, <2>4, <3>1, <3>2 DEF OpeningOK
    <2>6. CASE Advance("call")
      <3>1. /\ UNCHANGED call /\ stage["call"] = "written" /\ ManifestOK(log, journal, state)
            /\ stage' = [stage EXCEPT !["call"] = "manifest"]
            /\ state' = [state EXCEPT !.lastSequence = line["call"].event.sequence, !.lastHash = Hash(line["call"])]
        BY <2>6, HeldThen DEF Advance, Goto
      <3>2. stage'["call"] = "manifest" /\ state'.lastSequence = line["call"].event.sequence
        BY <3>1, HeldThen DEF Writers, ManifestOK
      <3>3. QED
        BY <2>2, <2>3, <2>4, <3>1, <3>2 DEF OpeningOK
    <2>7. CASE Serialise("call")
      <3>1. /\ UNCHANGED <<call, state>> /\ stage["call"] = "manifest"
            /\ stage' = [stage EXCEPT !["call"] = "rename"]
        BY <2>7 DEF Serialise, Goto
      <3>2. stage'["call"] = "rename"
        BY <3>1, HeldThen DEF Writers
      <3>3. QED
        BY <2>2, <2>3, <2>4, <3>1, <3>2 DEF OpeningOK
    <2>8. CASE Rename("call")
      <3>1. call.kind \in {"open", "initial"}
        BY <2>3 DEF Sound, ModeOK
      <3>2. /\ UNCHANGED <<call, state>> /\ stage["call"] = "rename"
            /\ stage' = [stage EXCEPT !["call"] = "sync"]
        BY <2>8, <3>1 DEF Rename, Goto
      <3>3. stage'["call"] = "sync"
        BY <3>2, HeldThen DEF Writers
      <3>4. QED
        BY <2>2, <2>3, <2>4, <3>2, <3>3 DEF OpeningOK
    <2>9. QED
      BY <1>7, <2>1, <2>3, <2>5, <2>6, <2>7, <2>8
  <1>8. CASE WriteSnapshot /\ mode' \in {"opening", "refused"}
    <2>1. /\ UNCHANGED mode /\ stage["call"] = "file"
          /\ call' = [call EXCEPT !.kind = IF call.kind = "initial" THEN "open" ELSE "saved"]
          /\ stage' = [stage EXCEPT !["call"] = IF call.kind = "initial" THEN "subscribe" ELSE "manifest"]
      BY <1>8 DEF WriteSnapshot, Goto
    <2>2. mode = "opening" /\ call.kind = "initial"
      BY <1>8, <2>1, UpInCall DEF Sound, ModeOK, Up
    <2>3. call'.todo = call.todo /\ call'.cursor = call.cursor /\ stage'["call"] = "subscribe"
      BY <2>1, <2>2, HeldThen DEF Writers, Sound, Shape
    <2>4. QED
      BY <1>0, <2>1, <2>2, <2>3, OpeningNow DEF OpeningOK
  <1>9. ASSUME NEW kind, Begin(kind) PROVE mode' = "open"
    BY <1>9 DEF Begin
  <1>10. ASSUME NEW n, Prune(n) PROVE mode' = "open"
    <2>1. UNCHANGED mode /\ stage["call"] = "remove"
      BY <1>10 DEF Prune
    <2>2. QED
      BY <2>1, UpInCall DEF Sound, ModeOK, Up
  <1>11. ASSUME Watch PROVE mode' = "open"
    BY <1>11 DEF Watch, Sound, ModeOK, Up
  <1>12. ASSUME Subscribe \/ Close \/ Crash \/ CrashTears PROVE mode' \in {"open", "closed"}
    BY <1>12 DEF Subscribe, Close, Crash, CrashTears, Stopped
  <1>13. QED
    BY <1>1, <1>2, <1>3, <1>4, <1>5, <1>6, <1>7, <1>8, <1>9, <1>10, <1>11, <1>12 DEF Next

LEMMA InitOpening == ASSUME Init PROVE OpeningOK /\ WithinScript
  <1>1. Len(<< >>) = 0 /\ Len(Script) \in Nat
    BY PitrAssumption
  <1>2. QED
    BY <1>1 DEF Init, OpeningOK, WithinScript

-----------------------------------------------------------------------------
\* What the invariant says of the journal, of refusals and of the window.

LEMMA InductiveHolds == Spec => []Inductive
  <1>1. Init => Inductive
    BY InitSound, InitWindow, InitChain, InitOpening DEF Inductive
  <1>2. Inductive /\ [Next]_vars => Inductive'
    <2> SUFFICES ASSUME Inductive, [Next]_vars PROVE Inductive'
      OBVIOUS
    <2>1. Sound' /\ NumbersOK'
      BY NextSound DEF Inductive
    <2>2. WindowOK' /\ ChainOK' /\ OpeningOK' /\ WithinScript'
      BY <2>1, NextWindow, NextChain, NextOpening, NextScript DEF Inductive
    <2>3. QED
      BY <2>1, <2>2 DEF Inductive
  <1>3. QED
    BY <1>1, <1>2, PTL DEF Spec

LEMMA SoundIsTyped == ASSUME Sound PROVE TypeOK
  <1>1. db \in States /\ log \in Seq(Events) /\ emitted \in 0..Len(log) /\ taken \in States
    BY HeldThen DEF Sound, EngineOK, StateOf, Past
  <1>2. state.lastSequence \in Nat /\ manifest.lastSequence \in Nat
    BY HeldThen DEF ManifestOK, Reached
  <1>3. queue \in Seq(Events) /\ call.cursor \in Nat /\ call.todo \in Seq(Events)
    BY DEF Sound, Shape
  <1>4. \A i \in DOMAIN journal : journal[i].event \in Events
    <2>1. \A i \in DOMAIN journal : Copied(log, journal[i].event)
      BY DEF Sound, JournalOK
    <2>2. QED
      BY <1>1, <2>1, ElementType DEF Copied
  <1>5. \A f \in files : f.state \in States
    BY HeldThen DEF FileOK, Past, StateOf
  <1>6. mode \in {"closed", "refused", "opening", "open"}
    BY DEF Sound, ModeOK
  <1>7. QED
    BY <1>1, <1>2, <1>3, <1>4, <1>5, <1>6 DEF TypeOK

LEMMA SoundIsHistory == ASSUME Sound PROVE JournalIsHistory
  <1>1. /\ \A i \in DOMAIN journal : /\ Copied(log, journal[i].event)
                                     /\ Reached(log, journal, journal[i].event.sequence)
        /\ Reached(log, journal, state.lastSequence)
    BY HeldThen DEF Sound, JournalOK, ManifestOK
  <1>2. \A n \in Covered(journal) : n \in 1..Len(log) /\ 1..n \subseteq Covered(journal)
    BY <1>1 DEF Covered, Copied, Reached
  <1>3. \A m, n \in Covered(journal) : m..n \subseteq Covered(journal)
    <2> SUFFICES ASSUME NEW m \in Covered(journal), NEW n \in Covered(journal)
                 PROVE  m..n \subseteq Covered(journal)
      OBVIOUS
    <2>1. m \in 1..Len(log) /\ n \in 1..Len(log) /\ 1..n \subseteq Covered(journal)
      BY <1>2
    <2>2. m..n \subseteq 1..n
      BY <2>1, HeldThen
    <2>3. QED
      BY <2>1, <2>2
  <1>4. state.lastSequence > 0 => state.lastSequence \in Covered(journal)
    <2>1. state.lastSequence \in Nat /\ 1..state.lastSequence \subseteq Covered(journal)
      BY <1>1 DEF Reached
    <2>2. state.lastSequence > 0 => state.lastSequence \in 1..state.lastSequence
      BY <2>1
    <2>3. QED
      BY <2>1, <2>2
  <1>5. QED
    BY <1>1, <1>3, <1>4 DEF JournalIsHistory, Covered, Copied

LEMMA NewestIsFirst ==
  ASSUME Sound, NEW m, ManifestOK(log, journal, m), HasNewest(m.snapshots)
  PROVE  m.snapshots # {} => FileOf(First(m.snapshots)) # {}
  <1> SUFFICES ASSUME m.snapshots # {} PROVE FileOf(First(m.snapshots)) # {}
    OBVIOUS
  <1>1. m.snapshots \in SUBSET SnapshotIds(log) /\ Len(log) \in Nat
    BY HeldThen DEF ManifestOK
  <1>2. PICK s \in m.snapshots : FileOf(s) # {} /\ \A t \in m.snapshots \ {s} : Before(s, t)
    BY DEF HasNewest
  <1>3. First(m.snapshots) = s
    BY <1>1, <1>2, FirstIs
  <1>4. QED
    BY <1>2, <1>3

\* The journal on disk is the history without a gap, each line as committed, up
\* to the sequence the manager reports, whatever was interrupted, failed or
\* appended twice, and the newest snapshot of the manifest keeps its file until
\* a save fails or is overtaken (#append, prune).
THEOREM JournalSound == Spec => []JournalIsSound
  <1>1. Inductive => JournalIsSound
    <2> SUFFICES ASSUME Inductive PROVE JournalIsSound
      OBVIOUS
    <2>1. Sound
      BY DEF Inductive
    <2>2. WindowKept
      <3> SUFFICES ASSUME harmed \subseteq {"crash"}
                   PROVE  manifest.snapshots # {} => FileOf(First(manifest.snapshots)) # {}
        BY DEF WindowKept
      <3>1. HasNewest(manifest.snapshots)
        BY DEF Inductive, WindowOK
      <3>2. QED
        BY <2>1, <3>1, NewestIsFirst, HeldThen
    <2>3. QED
      BY <2>1, <2>2, SoundIsTyped, SoundIsHistory DEF JournalIsSound
  <1>2. QED
    BY <1>1, InductiveHolds, PTL

\* Opening is refused only when the retained changes no longer reach back to
\* the journal, or a writer was interrupted, failed or ran beside the other
\* one (open, #verifyJournal).
THEOREM RefusalsExplained == Spec => []RefusalExplained
  <1>1. Inductive => RefusalExplained
    BY DEF Inductive, OpeningOK, RefusalExplained
  <1>2. QED
    BY <1>1, InductiveHolds, PTL

-----------------------------------------------------------------------------
\* Indices in order of a key, those of one key in their own order.

UptoOf(key, picked, i) == {j \in picked : key[j] < key[i] \/ (key[j] = key[i] /\ j <= i)}
RankOf(key, picked, i) == Cardinality(UptoOf(key, picked, i))

LEMMA RanksOrder ==
  ASSUME NEW N \in Nat, NEW picked \in SUBSET (1..N), NEW key \in [picked -> Nat],
         NEW i \in picked, NEW j \in picked, RankOf(key, picked, i) <= RankOf(key, picked, j)
  PROVE  key[i] < key[j] \/ (key[i] = key[j] /\ i <= j)
  <1> SUFFICES ASSUME key[j] < key[i] \/ (key[j] = key[i] /\ j < i) PROVE FALSE
    OBVIOUS
  <1> DEFINE A == UptoOf(key, picked, i)
             B == UptoOf(key, picked, j)
  <1>0. \A x \in picked : key[x] \in Nat /\ x \in Nat
    OBVIOUS
  <1>1. B \subseteq A /\ i \in A /\ i \notin B /\ A \subseteq picked
    <2>1. B \subseteq A
      <3> SUFFICES ASSUME NEW x \in picked, key[x] < key[j] \/ (key[x] = key[j] /\ x <= j)
                   PROVE  key[x] < key[i] \/ (key[x] = key[i] /\ x <= i)
        BY DEF UptoOf
      <3>1. key[x] \in Nat /\ key[j] \in Nat /\ key[i] \in Nat /\ x \in Nat /\ i \in Nat /\ j \in Nat
        BY <1>0
      <3>2. QED
        BY <3>1
    <2>2. key[i] \in Nat /\ key[j] \in Nat /\ i \in Nat /\ j \in Nat
      BY <1>0
    <2>3. i \in A /\ i \notin B
      BY <2>2 DEF UptoOf
    <2>4. QED
      BY <2>1, <2>3 DEF UptoOf
  <1>2. IsFiniteSet(A) /\ IsFiniteSet(B)
    <2>1. IsFiniteSet(1..N)
      BY FS_Interval
    <2>2. A \in SUBSET (1..N) /\ B \in SUBSET (1..N)
      BY <1>1
    <2> HIDE DEF A, B
    <2>3. QED
      BY <2>1, <2>2, FS_Subset
  <1> HIDE DEF A, B
  <1>3. Cardinality(B) <= Cardinality(A) /\ Cardinality(B) # Cardinality(A)
    BY <1>1, <1>2, FS_Subset
  <1>4. Cardinality(A) \in Nat /\ Cardinality(B) \in Nat
    BY <1>2, FS_CardinalityType
  <1>5. Cardinality(A) <= Cardinality(B)
    BY DEF A, B, RankOf
  <1>6. QED
    BY <1>3, <1>4, <1>5

\* Every place up to the number of indices is the rank of one of them.
LEMMA RanksTaken ==
  ASSUME NEW N \in Nat, NEW picked \in SUBSET (1..N), NEW key \in [picked -> Nat]
  PROVE  /\ IsFiniteSet(picked) /\ Cardinality(picked) \in Nat
         /\ \A i \in picked : RankOf(key, picked, i) \in 1..Cardinality(picked)
         /\ \A k \in 1..Cardinality(picked) : \E i \in picked : RankOf(key, picked, i) = k
         /\ \A i, j \in picked : RankOf(key, picked, i) = RankOf(key, picked, j) => i = j
  <1> DEFINE K == Cardinality(picked)
             f == [i \in picked |-> RankOf(key, picked, i)]
  <1>1. IsFiniteSet(picked) /\ K \in Nat
    <2>1. IsFiniteSet(1..N)
      BY FS_Interval
    <2>2. IsFiniteSet(picked)
      BY <2>1, FS_Subset
    <2>3. QED
      BY <2>2, FS_CardinalityType
  <1>2. \A i \in picked : RankOf(key, picked, i) \in 1..K
    <2> SUFFICES ASSUME NEW i \in picked PROVE RankOf(key, picked, i) \in 1..K
      OBVIOUS
    <2> DEFINE A == UptoOf(key, picked, i)
    <2>1. A \in SUBSET picked /\ i \in A
      BY DEF UptoOf
    <2> HIDE DEF A, K
    <2>2. IsFiniteSet(A) /\ Cardinality(A) <= K
      BY <1>1, <2>1, FS_Subset DEF K
    <2>3. Cardinality(A) \in Nat /\ Cardinality(A) # 0
      BY <2>1, <2>2, FS_CardinalityType, FS_EmptySet
    <2>4. RankOf(key, picked, i) = Cardinality(A)
      BY DEF RankOf, A
    <2>5. QED
      BY <1>1, <2>2, <2>3, <2>4
  <1>3. \A i, j \in picked : RankOf(key, picked, i) = RankOf(key, picked, j) => i = j
    <2> SUFFICES ASSUME NEW i \in picked, NEW j \in picked,
                        RankOf(key, picked, i) = RankOf(key, picked, j)
                 PROVE  i = j
      OBVIOUS
    <2>1. RankOf(key, picked, i) \in Nat /\ RankOf(key, picked, j) \in Nat
      BY <1>1, <1>2
    <2>2. RankOf(key, picked, i) <= RankOf(key, picked, j) /\ RankOf(key, picked, j) <= RankOf(key, picked, i)
      BY <2>1
    <2>3. (key[i] < key[j] \/ (key[i] = key[j] /\ i <= j)) /\ (key[j] < key[i] \/ (key[j] = key[i] /\ j <= i))
      BY <2>2, RanksOrder
    <2>4. key[i] \in Nat /\ key[j] \in Nat /\ i \in Nat /\ j \in Nat
      OBVIOUS
    <2>5. QED
      BY <2>3, <2>4
  <1>4. f \in Injection(picked, 1..K)
    <2> HIDE DEF K
    <2>1. f \in [picked -> 1..K]
      BY <1>2
    <2>2. \A i, j \in picked : f[i] = f[j] => i = j
      BY <1>3
    <2> HIDE DEF f
    <2>3. QED
      BY <2>1, <2>2 DEF Injection, IsInjective
  <1>5. IsFiniteSet(1..K) /\ Cardinality(1..K) = K
    <2> HIDE DEF K
    <2>1. QED
      BY <1>1, FS_Interval
  <1>6. f \in Surjection(picked, 1..K)
    <2> HIDE DEF f
    <2>1. QED
      BY <1>4, <1>5, FS_Injection
  <1>7. \A k \in 1..K : \E i \in picked : RankOf(key, picked, i) = k
    BY <1>6 DEF Surjection
  <1>8. QED
    BY <1>1, <1>2, <1>3, <1>7

\* The lines of journal J from after sequence c up to sequence n.
Between(J, c, n) == {i \in DOMAIN J : J[i].event.sequence > c /\ J[i].event.sequence <= n}

\* Events E tell history L from after c up to n, in order and with repetitions.
Tells(E, L, c, n) ==
  /\ E \in Seq(Events)
  /\ \A k \in DOMAIN E : E[k].sequence \in c + 1 .. n /\ E[k] = L[E[k].sequence]
  /\ \A k, l \in DOMAIN E : k <= l => E[k].sequence <= E[l].sequence
  /\ \A m \in c + 1 .. n : \E k \in DOMAIN E : E[k].sequence = m

\* Events E are those of the lines between, the k-th at the index of rank k.
Ranked(E, at, key, J, c, n) ==
  /\ key = [i \in Between(J, c, n) |-> J[i].event.sequence]
  /\ E = [k \in 1..Cardinality(Between(J, c, n)) |-> E[k]]
  /\ \A k \in 1..Cardinality(Between(J, c, n)) :
       /\ at[k] \in Between(J, c, n) /\ RankOf(key, Between(J, c, n), at[k]) = k
       /\ E[k] = J[at[k]].event

LEMMA FormsSequence == ASSUME NEW S, NEW K \in Nat, NEW f \in [1..K -> S] PROVE f \in Seq(S)
  OBVIOUS

\* The lines a restore applies: those of a journal, by rank.
LEMMA LinesTell ==
  ASSUME NEW L \in Seq(Events), NEW J, JournalOK(L, J), NEW c \in Nat, NEW n \in 0..Len(L),
         1..n \subseteq Covered(J), NEW E, NEW at, NEW key, Ranked(E, at, key, J, c, n)
  PROVE  Tells(E, L, c, n)
  <1> DEFINE P == Between(J, c, n)
             K == Cardinality(P)
  <1>1. /\ DOMAIN J = 1..Len(J) /\ Len(J) \in Nat
        /\ \A i \in DOMAIN J : Copied(L, J[i].event)
    BY DEF JournalOK
  <1>2. /\ P \in SUBSET (1..Len(J)) /\ n \in Nat
        /\ \A i \in P : J[i].event.sequence \in c + 1 .. n /\ J[i].event = L[J[i].event.sequence]
    BY <1>1 DEF Between, Copied
  <1>3. key \in [P -> Nat] /\ \A i \in P : key[i] = J[i].event.sequence
    <2> HIDE DEF P
    <2>1. \A i \in P : J[i].event.sequence \in Nat
      BY <1>2
    <2>2. QED
      BY <2>1 DEF P, Ranked
  <1> HIDE DEF P
  <1>4. /\ K \in Nat
        /\ \A i \in P : RankOf(key, P, i) \in 1..K
        /\ \A k \in 1..K : \E i \in P : RankOf(key, P, i) = k
        /\ \A i, j \in P : RankOf(key, P, i) = RankOf(key, P, j) => i = j
    <2>1. /\ IsFiniteSet(P) /\ Cardinality(P) \in Nat
          /\ \A i \in P : RankOf(key, P, i) \in 1..Cardinality(P)
          /\ \A k \in 1..Cardinality(P) : \E i \in P : RankOf(key, P, i) = k
          /\ \A i, j \in P : RankOf(key, P, i) = RankOf(key, P, j) => i = j
      <3>1. Len(J) \in Nat /\ P \in SUBSET (1..Len(J)) /\ key \in [P -> Nat]
        BY <1>1, <1>2, <1>3
      <3>2. QED
        BY <3>1, RanksTaken, Zenon
    <2>2. QED
      BY <2>1
  <1>5. \A k \in 1..K : at[k] \in P /\ RankOf(key, P, at[k]) = k
    BY DEF P, Ranked
  <1>6. E = [k \in 1..K |-> E[k]] /\ \A k \in 1..K : E[k] = J[at[k]].event
    BY DEF P, Ranked
  <1> HIDE DEF K
  <1>7. DOMAIN E = 1..K /\ \A k \in 1..K : E[k] = J[at[k]].event
    BY <1>6
  <1>8. \A k \in DOMAIN E : E[k].sequence \in c + 1 .. n /\ E[k] = L[E[k].sequence]
    <2> SUFFICES ASSUME NEW k \in 1..K
                 PROVE  E[k].sequence \in c + 1 .. n /\ E[k] = L[E[k].sequence]
      BY <1>7
    <2>1. PICK i \in P : E[k] = J[i].event
      BY <1>5, <1>7
    <2>2. J[i].event.sequence \in c + 1 .. n /\ J[i].event = L[J[i].event.sequence]
      BY <1>2
    <2>3. QED
      BY <2>1, <2>2
  <1>9. E \in Seq(Events)
    <2>1. \A m \in c + 1 .. n : L[m] \in Events
      BY ElementType
    <2>2. \A k \in 1..K : E[k] \in Events
      BY <1>7, <1>8, <2>1
    <2>3. E = [k \in 1..K |-> E[k]]
      BY <1>6
    <2>4. K \in Nat
      BY <1>4
    <2>5. E \in [1..K -> Events]
      BY <2>2, <2>3
    <2>6. QED
      BY <2>4, <2>5, FormsSequence
  <1>10. \A k, l \in DOMAIN E : k <= l => E[k].sequence <= E[l].sequence
    <2> SUFFICES ASSUME NEW k \in 1..K, NEW l \in 1..K, k <= l PROVE E[k].sequence <= E[l].sequence
      BY <1>7
    <2>1. at[k] \in P /\ at[l] \in P /\ RankOf(key, P, at[k]) <= RankOf(key, P, at[l])
      BY <1>5
    <2>2. key[at[k]] <= key[at[l]]
      <3> DEFINE i == at[k]
                 j == at[l]
      <3>1. i \in P /\ j \in P /\ RankOf(key, P, i) <= RankOf(key, P, j)
        BY <2>1
      <3>2. Len(J) \in Nat /\ P \in SUBSET (1..Len(J)) /\ key \in [P -> Nat]
        BY <1>1, <1>2, <1>3
      <3> HIDE DEF i, j
      <3>3. key[i] < key[j] \/ (key[i] = key[j] /\ i <= j)
        BY <3>1, <3>2, RanksOrder
      <3>4. key[i] <= key[j]
        BY <3>1, <3>2, <3>3
      <3>5. QED
        BY <3>4 DEF i, j
    <2>3. QED
      BY <1>3, <1>7, <2>1, <2>2
  <1>11. \A m \in c + 1 .. n : \E k \in DOMAIN E : E[k].sequence = m
    <2> SUFFICES ASSUME NEW m \in c + 1 .. n PROVE \E k \in 1..K : E[k].sequence = m
      BY <1>7
    <2>1. m \in 1..n /\ m \in Nat /\ m > c /\ m <= n
      BY <1>2
    <2>2. PICK i \in DOMAIN J : J[i].event.sequence = m
      BY <2>1 DEF Covered
    <2>3. i \in P
      BY <2>1, <2>2 DEF P, Between
    <2>4. RankOf(key, P, i) \in 1..K /\ at[RankOf(key, P, i)] = i
      BY <1>4, <1>5, <2>3
    <2>5. QED
      BY <1>7, <2>2, <2>4
  <1>12. QED
    BY <1>9, <1>8, <1>10, <1>11 DEF Tells

\* Told with repetitions, a stretch of history has the effect it has told once.
LEMMA ToldEffect ==
  ASSUME NEW L \in Seq(Events), NEW n \in 0..Len(L), NEW c \in 0..n, NEW E, Tells(E, L, c, n), NEW docs
  PROVE  ApplyEvents(docs, E) = ApplyEvents(docs, SubSeq(L, c + 1, n))
  <1> DEFINE D == SubSeq(L, c + 1, n)
             told(k) == {i \in DOMAIN E : E[i].key = k}
             once(k) == {i \in DOMAIN D : D[i].key = k}
  <1>1. n \in Nat /\ c \in Nat /\ c <= n /\ c + 1 \in Nat \ {0}
    OBVIOUS
  <1>2. /\ D \in Seq(Events) /\ Len(D) = n - c /\ DOMAIN D = 1..(n - c)
        /\ \A i \in 1..(n - c) : D[i] = L[c + i]
    <2>1. /\ D \in Seq(Events) /\ Len(D) = IF c + 1 <= n THEN n - (c + 1) + 1 ELSE 0
          /\ \A i \in 1..Len(D) : D[i] = L[(c + 1) + i - 1]
      BY <1>1, SubSeqIs
    <2>2. Len(D) = n - c /\ DOMAIN D = 1..Len(D)
      BY <1>1, <2>1
    <2>3. \A i \in 1..(n - c) : (c + 1) + i - 1 = c + i
      BY <1>1
    <2>4. QED
      BY <2>1, <2>2, <2>3
  <1> HIDE DEF D
  <1>3. /\ E \in Seq(Events) /\ DOMAIN E = 1..Len(E) /\ Len(E) \in Nat
        /\ \A k \in DOMAIN E : E[k].sequence \in c + 1 .. n /\ E[k] = L[E[k].sequence]
        /\ \A k, l \in DOMAIN E : k <= l => E[k].sequence <= E[l].sequence
        /\ \A m \in c + 1 .. n : \E k \in DOMAIN E : E[k].sequence = m
    BY DEF Tells
  <1>4. \A i \in DOMAIN E : E[i].sequence - c \in 1..(n - c) /\ D[E[i].sequence - c] = E[i]
    <2> SUFFICES ASSUME NEW i \in DOMAIN E
                 PROVE  E[i].sequence - c \in 1..(n - c) /\ D[E[i].sequence - c] = E[i]
      OBVIOUS
    <2>1. E[i].sequence \in c + 1 .. n /\ E[i] = L[E[i].sequence]
      BY <1>3
    <2>2. E[i].sequence - c \in 1..(n - c) /\ c + (E[i].sequence - c) = E[i].sequence
      BY <1>1, <2>1
    <2>3. QED
      BY <1>2, <2>1, <2>2
  <1>5. \A j \in 1..(n - c) : \E i \in DOMAIN E : E[i].sequence = c + j /\ E[i] = D[j]
    <2> SUFFICES ASSUME NEW j \in 1..(n - c)
                 PROVE  \E i \in DOMAIN E : E[i].sequence = c + j /\ E[i] = D[j]
      OBVIOUS
    <2>1. c + j \in c + 1 .. n
      BY <1>1
    <2>2. \A m \in c + 1 .. n : \E i \in DOMAIN E : E[i].sequence = m
      BY <1>3
    <2>3. PICK i \in DOMAIN E : E[i].sequence = c + j
      BY <2>1, <2>2
    <2>4. E[i] = L[E[i].sequence] /\ D[j] = L[c + j]
      BY <1>2, <1>3
    <2>5. QED
      BY <2>3, <2>4
  <1>6. ASSUME NEW k
        PROVE  /\ told(k) = {} <=> once(k) = {}
               /\ told(k) # {} => E[Max(told(k))].record = D[Max(once(k))].record
    <2>1. \A i \in told(k) : E[i].sequence - c \in once(k)
      BY <1>2, <1>4
    <2>2. \A j \in once(k) : \E i \in told(k) : E[i].sequence = c + j
      BY <1>2, <1>5
    <2>3. told(k) = {} <=> once(k) = {}
      BY <2>1, <2>2
    <2>4. ASSUME told(k) # {} PROVE E[Max(told(k))].record = D[Max(once(k))].record
      <3> DEFINE a == Max(told(k))
                 b == Max(once(k))
      <3>1. a \in told(k) /\ \A x \in told(k) : x <= a
        <4>1. told(k) \in SUBSET (0..Len(E))
          BY <1>3
        <4> HIDE DEF told
        <4>2. QED
          BY <1>3, <2>4, <4>1, MaxIsIn
      <3>2. b \in once(k) /\ \A x \in once(k) : x <= b
        <4>1. once(k) \in SUBSET (0..Len(D)) /\ Len(D) \in Nat
          BY <1>1, <1>2
        <4> HIDE DEF once, told
        <4>2. QED
          BY <2>3, <2>4, <4>1, MaxIsIn
      <3> HIDE DEF a, b
      <3>3. PICK i \in told(k) : E[i].sequence = c + b
        BY <2>2, <3>2
      <3>4. i <= a /\ i \in DOMAIN E /\ a \in DOMAIN E
        BY <3>1
      <3>5. E[i].sequence <= E[a].sequence
        BY <1>3, <3>4
      <3>6. E[a].sequence - c <= b /\ E[a].sequence \in Nat /\ b \in Nat
        <4>1. E[a].sequence - c \in once(k)
          BY <2>1, <3>1
        <4>2. b \in 1..(n - c)
          BY <1>2, <3>2
        <4>3. E[a].sequence \in c + 1 .. n
          BY <1>3, <3>4
        <4>4. QED
          BY <1>1, <3>2, <4>1, <4>2, <4>3
      <3>7. E[a].sequence - c = b
        BY <1>1, <3>3, <3>5, <3>6
      <3>8. D[b] = E[a]
        BY <1>4, <3>4, <3>7
      <3>9. QED
        BY <3>8 DEF a, b
    <2>5. QED
      BY <2>3, <2>4
  <1>7. \A k \in Keys : (IF told(k) = {} THEN docs[k] ELSE E[Max(told(k))].record)
                        = (IF once(k) = {} THEN docs[k] ELSE D[Max(once(k))].record)
    <2> SUFFICES ASSUME NEW k \in Keys
                 PROVE (IF told(k) = {} THEN docs[k] ELSE E[Max(told(k))].record)
                        = (IF once(k) = {} THEN docs[k] ELSE D[Max(once(k))].record)
      OBVIOUS
    <2>1. /\ told(k) = {} <=> once(k) = {}
          /\ told(k) # {} => E[Max(told(k))].record = D[Max(once(k))].record
      BY <1>6
    <2> HIDE DEF told, once
    <2>2. QED
      BY <2>1
  <1>8. ApplyEvents(docs, E) = ApplyEvents(docs, D)
    BY <1>7 DEF ApplyEvents
  <1>9. QED
    BY <1>8 DEF D

\* Of the snapshots of a list there is a first one.
LEMMA FirstIsOne ==
  ASSUME NEW L, Len(L) \in Nat, NEW S \in SUBSET SnapshotIds(L), S # {}
  PROVE  First(S) \in S
  <1> DEFINE Q == {s.sequence : s \in S}
             T == {s \in S : s.sequence = Max(Q)}
             R == {s.number : s \in T}
  <1>1. \A s \in S : s.sequence \in 0..Len(L) /\ s.number \in Nat
    BY DEF SnapshotIds
  <1>2. Max(Q) \in Q /\ \A x \in Q : x <= Max(Q)
    <2>1. Q \in SUBSET (0..Len(L)) /\ Q # {}
      BY <1>1
    <2> HIDE DEF Q
    <2>2. QED
      BY <2>1, MaxIsIn
  <1>3. T # {} /\ T \subseteq S
    BY <1>2
  <1> HIDE DEF Q
  <1>4. R \subseteq Nat /\ R # {}
    BY <1>1, <1>3
  <1>5. PICK m \in R : \A y \in R : ~(<<y, m>> \in OpToRel(<, Nat))
    <2> HIDE DEF R
    <2>1. QED
      BY <1>4, NatLessThanWellFounded, WFMin, Zenon
  <1>6. \A y \in R : m <= y
    <2> HIDE DEF R
    <2> SUFFICES ASSUME NEW y \in R PROVE ~(y < m)
      BY <1>4
    <2>1. y \in Nat /\ m \in Nat
      BY <1>4
    <2>2. y < m => <<y, m>> \in OpToRel(<, Nat)
      BY <2>1 DEF OpToRel
    <2>3. QED
      BY <1>5, <2>2
  <1>7. PICK s \in T : s.number = m
    OBVIOUS
  <1>8. \A t \in S \ {s} : Before(s, t)
    <2> SUFFICES ASSUME NEW t \in S \ {s} PROVE Before(s, t)
      OBVIOUS
    <2>1. /\ s \in SnapshotIds(L) /\ t \in SnapshotIds(L) /\ s \in S
          /\ s.sequence = Max(Q) /\ s.sequence \in Nat /\ t.sequence \in Nat
      BY <1>1, <1>3
    <2>2. t.sequence <= s.sequence
      BY <1>2, <2>1 DEF Q
    <2>3. CASE t.sequence < s.sequence
      BY <2>1, <2>3 DEF Before
    <2>4. CASE t.sequence = s.sequence
      <3>1. t \in T
        BY <2>1, <2>4
      <3>2. s.number <= t.number /\ s.number \in Nat /\ t.number \in Nat
        BY <1>1, <1>3, <1>6, <1>7, <3>1
      <3>3. s.number # t.number
        <4>1. /\ s = [number |-> s.number, sequence |-> s.sequence]
              /\ t = [number |-> t.number, sequence |-> t.sequence]
          BY <2>1 DEF SnapshotIds
        <4>2. QED
          BY <2>4, <4>1
      <3>4. QED
        BY <2>4, <3>2, <3>3 DEF Before
    <2>5. QED
      BY <2>1, <2>2, <2>3, <2>4
  <1>9. s \in S
    BY <1>3
  <1>10. QED
    BY <1>8, <1>9 DEF First

\* The snapshot a restore starts from.
LEMMA BaseIs ==
  ASSUME Sound, NEW n \in 0..state.lastSequence, Restorable(n)
  PROVE  /\ Base(n) \in files /\ Base(n).id.sequence \in 0..n
         /\ n \in 0..Len(log) /\ 1..n \subseteq Covered(journal)
         /\ StateOf(Base(n).state, SubSeq(log, 1, Base(n).id.sequence))
  <1> DEFINE W == Window(state.snapshots, n)
  <1>1. /\ state.snapshots \subseteq SnapshotIds(log) /\ Len(log) \in Nat
        /\ state.lastSequence \in 0..Len(log) /\ 1..state.lastSequence \subseteq Covered(journal)
    BY HeldThen DEF ManifestOK, Reached
  <1>2. n \in 0..Len(log) /\ 1..n \subseteq Covered(journal)
    BY <1>1
  <1>3. W \in SUBSET SnapshotIds(log) /\ W # {}
    BY <1>1 DEF Window, Restorable
  <1>4. First(W) \in W
    <2> HIDE DEF W
    <2>1. QED
      BY <1>1, <1>3, FirstIsOne
  <1>5. First(W).sequence \in 0..Len(log) /\ First(W).sequence <= n
    BY <1>3, <1>4 DEF Window, SnapshotIds
  <1>6. Base(n) \in files /\ Base(n).id = First(W)
    BY DEF Restorable, Base, FileOf
  <1>7. Past(log, Base(n).state) /\ Base(n).state.sequence = Base(n).id.sequence
    BY <1>6, HeldThen DEF FileOK
  <1>8. QED
    BY <1>1, <1>2, <1>5, <1>6, <1>7 DEF Past

EventsAt(n) == [i \in DOMAIN Replayed(n) |-> Replayed(n)[i].event]

\* What a restore replays tells the history from the snapshot's sequence on.
LEMMA ReplayTells ==
  ASSUME Sound, NEW n \in 0..state.lastSequence, Restorable(n)
  PROVE  Tells(EventsAt(n), log, Base(n).id.sequence, n)
  <1> DEFINE c == Base(n).id.sequence
             P == Between(journal, c, n)
             K == Cardinality(P)
             key == [i \in P |-> journal[i].event.sequence]
             Upto(i) == {j \in P : \/ journal[j].event.sequence < journal[i].event.sequence
                                   \/ journal[j].event.sequence = journal[i].event.sequence /\ j <= i}
             at == [k \in 1..K |-> CHOOSE i \in P : Cardinality(Upto(i)) = k]
             E == EventsAt(n)
  <1>1. /\ c \in Nat /\ n \in 0..Len(log) /\ 1..n \subseteq Covered(journal) /\ n \in Nat
    <2>1. Base(n).id.sequence \in 0..n /\ n \in 0..Len(log) /\ 1..n \subseteq Covered(journal)
      BY BaseIs
    <2>2. QED
      BY <2>1, HeldThen
  <1>2. JournalOK(log, journal) /\ log \in Seq(Events)
    BY HeldThen DEF Sound
  <1>3. /\ Len(journal) \in Nat /\ P \in SUBSET (1..Len(journal)) /\ key \in [P -> Nat]
    <2>1. DOMAIN journal = 1..Len(journal) /\ Len(journal) \in Nat
      BY <1>2 DEF JournalOK
    <2>2. \A i \in DOMAIN journal : journal[i].event.sequence \in Nat
      BY <1>2 DEF JournalOK, Copied
    <2>3. P \subseteq DOMAIN journal
      BY DEF Between
    <2> HIDE DEF P
    <2>4. QED
      BY <2>1, <2>2, <2>3
  <1>4. \A i \in P : Upto(i) = UptoOf(key, P, i)
    <2> HIDE DEF P
    <2>1. QED
      BY DEF UptoOf
  <1>5. Replayed(n) = [k \in 1..K |-> journal[CHOOSE i \in P : Cardinality(Upto(i)) = k]]
    BY DEF Replayed, Between
  <1>6. Replayed(n) = [k \in 1..K |-> journal[at[k]]]
    <2> HIDE DEF P, Upto
    <2>1. \A k \in 1..K : at[k] = CHOOSE i \in P : Cardinality(Upto(i)) = k
      OBVIOUS
    <2> HIDE DEF K, at
    <2>2. QED
      BY <1>5, <2>1, Zenon
  <1> HIDE DEF P, key
  <1>7. \A k \in 1..K : \E i \in P : RankOf(key, P, i) = k
    <2>1. /\ IsFiniteSet(P) /\ Cardinality(P) \in Nat
          /\ \A i \in P : RankOf(key, P, i) \in 1..Cardinality(P)
          /\ \A k \in 1..Cardinality(P) : \E i \in P : RankOf(key, P, i) = k
          /\ \A i, j \in P : RankOf(key, P, i) = RankOf(key, P, j) => i = j
      BY <1>3, RanksTaken, Zenon
    <2>2. QED
      BY <2>1
  <1>8. \A k \in 1..K : at[k] \in P /\ RankOf(key, P, at[k]) = k
    <2> SUFFICES ASSUME NEW k \in 1..K PROVE at[k] \in P /\ RankOf(key, P, at[k]) = k
      OBVIOUS
    <2>1. \E i \in P : Cardinality(Upto(i)) = k
      <3>1. PICK i \in P : RankOf(key, P, i) = k
        BY <1>7
      <3> HIDE DEF Upto
      <3>2. QED
        BY <1>4, <3>1 DEF RankOf
    <2>2. at[k] = CHOOSE i \in P : Cardinality(Upto(i)) = k
      OBVIOUS
    <2> HIDE DEF at, Upto
    <2>3. at[k] \in P /\ Cardinality(Upto(at[k])) = k
      BY <2>1, <2>2, Zenon
    <2>4. QED
      BY <1>4, <2>3 DEF RankOf
  <1> HIDE DEF at, Upto, K
  <1>9. DOMAIN Replayed(n) = 1..K /\ \A k \in 1..K : Replayed(n)[k] = journal[at[k]]
    BY <1>6
  <1>10. E = [k \in 1..K |-> E[k]] /\ \A k \in 1..K : E[k] = journal[at[k]].event
    BY <1>9 DEF EventsAt
  <1> HIDE DEF E, c
  <1>11. Tells(E, log, c, n)
    <2>1. key = [i \in Between(journal, c, n) |-> journal[i].event.sequence]
      BY DEF key, P
    <2>2. E = [k \in 1..Cardinality(Between(journal, c, n)) |-> E[k]]
      BY <1>10 DEF K, P
    <2>3. \A k \in 1..Cardinality(Between(journal, c, n)) :
            /\ at[k] \in Between(journal, c, n) /\ RankOf(key, Between(journal, c, n), at[k]) = k
            /\ E[k] = journal[at[k]].event
      BY <1>8, <1>10 DEF K, P
    <2>4. c \in Nat /\ n \in 0..Len(log) /\ 1..n \subseteq Covered(journal)
      BY <1>1
    <2>5. Ranked(E, at, key, journal, c, n)
      BY <2>1, <2>2, <2>3 DEF Ranked
    <2>6. QED
      BY <1>2, <2>4, <2>5, LinesTell
  <1>12. QED
    BY <1>11 DEF E, c

\* The documents that are restored.
LEMMA DocsRestored ==
  ASSUME Sound, NEW n \in 0..state.lastSequence, Restorable(n)
  PROVE  ApplyEvents(Base(n).state.docs, EventsAt(n)) = ApplyEvents(Blank, SubSeq(log, 1, n))
  <1> DEFINE c == Base(n).id.sequence
             P == SubSeq(log, 1, n)
  <1>1. /\ c \in 0..n /\ n \in 0..Len(log) /\ StateOf(Base(n).state, SubSeq(log, 1, c))
        /\ Tells(EventsAt(n), log, c, n) /\ log \in Seq(Events)
    BY BaseIs, ReplayTells, HeldThen
  <1> HIDE DEF c
  <1>2. /\ Base(n).state.docs = ApplyEvents(Blank, SubSeq(log, 1, c))
        /\ ApplyEvents(Base(n).state.docs, EventsAt(n)) = ApplyEvents(Base(n).state.docs, SubSeq(log, c + 1, n))
    BY <1>1, ToldEffect DEF StateOf
  <1>3. P \in Seq(Events) /\ Len(P) = n
    BY <1>1, PartsOf
  <1>4. SubSeq(P, 1, c) = SubSeq(log, 1, c) /\ SubSeq(P, c + 1, n) = SubSeq(log, c + 1, n)
    <2>1. /\ c \in Nat /\ n \in Nat /\ c <= n
      BY <1>1
    <2>2. QED
      BY <1>1, <2>1
  <1>5. /\ SubSeq(P, 1, c) \in Seq(Events) /\ SubSeq(P, c + 1, n) \in Seq(Events)
        /\ SubSeq(P, 1, c) \o SubSeq(P, c + 1, n) = P
    <2> HIDE DEF P
    <2>1. c \in 0..Len(P)
      BY <1>1, <1>3
    <2>2. QED
      BY <1>3, <2>1, PartsOf
  <1>6. Blank \in [Keys -> Records]
    BY DEF Blank, Records
  <1>7. ApplyEvents(ApplyEvents(Blank, SubSeq(P, 1, c)), SubSeq(P, c + 1, n)) = ApplyEvents(Blank, P)
    BY <1>5, <1>6, ApplyParts
  <1>8. QED
    BY <1>2, <1>4, <1>7

\* The changes that are restored: those retained by the snapshot, and those after it.
RestoredChanges(n) == Base(n).state.changes \o EventsAt(n)
KeptAt(n) == {RestoredChanges(n)[i] : i \in DOMAIN RestoredChanges(n)}

LEMMA ChangesRestored ==
  ASSUME Sound, NEW n \in 0..state.lastSequence, Restorable(n)
  PROVE  LET c == Base(n).id.sequence
             d == Dropped(SubSeq(log, 1, c))
         IN /\ d \in 0..c /\ c - d <= Retention
            /\ KeptAt(n) = {log[j] : j \in d + 1 .. n}
  <1> DEFINE c == Base(n).id.sequence
             H == SubSeq(log, 1, c)
             d == Dropped(H)
             s == Base(n).state
             E == EventsAt(n)
  <1>1. /\ c \in 0..n /\ n \in 0..Len(log) /\ StateOf(s, H) /\ Tells(E, log, c, n)
        /\ log \in Seq(Events) /\ Numbered(log)
    BY BaseIs, ReplayTells, HeldThen DEF Sound, EngineOK
  <1>2. /\ H \in Seq(Events) /\ Len(H) = c /\ \A i \in 1..c : H[i] = log[i]
    <2> HIDE DEF c
    <2>1. c \in 0..Len(log)
      BY <1>1
    <2>2. QED
      BY <1>1, <2>1, PartsOf
  <1> HIDE DEF H
  <1>3. c \in Nat /\ n \in Nat /\ c <= n /\ n <= Len(log) /\ Len(log) \in Nat
    BY <1>1
  <1>4. Numbered(H)
    BY <1>1, <1>2, <1>3 DEF Numbered
  <1> HIDE DEF c, s, E
  <1>5. d \in 0..c /\ c - d <= Retention
    BY <1>2, <1>3, RetentionAssumption DEF Dropped
  <1>6. /\ s.changes \in Seq(Events) /\ Len(s.changes) = c - d
        /\ \A i \in 1..(c - d) : s.changes[i] = log[d + i]
    <2>1. /\ s.changes \in Seq(Events)
          /\ Len(s.changes) = IF Len(H) > Retention THEN Retention ELSE Len(H)
          /\ \A i \in 1..Len(s.changes) : s.changes[i] = H[Len(H) - Len(s.changes) + i]
      <3>1. H \in Seq(Events) /\ Numbered(H) /\ StateOf(s, H)
        BY <1>1, <1>2, <1>4
      <3>2. /\ s \in States /\ s.sequence = Len(H) /\ s.changes \in Seq(Events)
            /\ Len(s.changes) = IF Len(H) > Retention THEN Retention ELSE Len(H)
            /\ \A i \in 1..Len(s.changes) :
                 /\ s.changes[i].sequence = Len(H) - Len(s.changes) + i
                 /\ s.changes[i] = H[Len(H) - Len(s.changes) + i]
        BY <3>1, StateRetains, Zenon
      <3>3. QED
        BY <3>2
    <2>2. Len(s.changes) = c - d
      BY <1>2, <1>3, <2>1, RetentionAssumption DEF Dropped
    <2>3. ASSUME NEW i \in 1..(c - d) PROVE s.changes[i] = log[d + i]
      <3>1. Len(H) - Len(s.changes) + i = d + i /\ d + i \in 1..c
        BY <1>2, <1>3, <1>5, <2>2
      <3>2. QED
        BY <1>2, <2>1, <2>2, <3>1
    <2>4. QED
      BY <2>1, <2>2, <2>3
  <1> HIDE DEF d
  <1>7. /\ E \in Seq(Events) /\ \A k \in DOMAIN E : E[k].sequence \in c + 1 .. n /\ E[k] = log[E[k].sequence]
        /\ \A m \in c + 1 .. n : \E k \in DOMAIN E : E[k].sequence = m
        /\ DOMAIN E = 1..Len(E)
    BY <1>1 DEF Tells
  <1> DEFINE C == s.changes \o E
             kept == {C[i] : i \in DOMAIN C}
  <1>8. /\ DOMAIN C = 1..(Len(s.changes) + Len(E))
        /\ \A i \in 1..Len(s.changes) : C[i] = s.changes[i]
        /\ \A i \in 1..Len(E) : C[Len(s.changes) + i] = E[i]
        /\ \A i \in 1..(Len(s.changes) + Len(E)) : i > Len(s.changes) => C[i] = E[i - Len(s.changes)]
        /\ Len(s.changes) \in Nat /\ Len(E) \in Nat
    <2> DEFINE a == s.changes
    <2>1. a \in Seq(Events) /\ E \in Seq(Events)
      BY <1>6, <1>7
    <2> HIDE DEF a
    <2>2. /\ a \o E \in Seq(Events) /\ Len(a \o E) = Len(a) + Len(E)
          /\ \A i \in 1..Len(a) : (a \o E)[i] = a[i]
          /\ \A i \in 1..Len(E) : (a \o E)[Len(a) + i] = E[i]
          /\ \A i \in 1..(Len(a) + Len(E)) : i > Len(a) => (a \o E)[i] = E[i - Len(a)]
      BY <2>1, ConcatIs
    <2>3. Len(a) \in Nat /\ Len(E) \in Nat /\ DOMAIN (a \o E) = 1..(Len(a) + Len(E))
      BY <2>1, <2>2
    <2>4. QED
      BY <2>2, <2>3 DEF a
  <1> HIDE DEF C
  <1>9. ASSUME NEW i \in DOMAIN C PROVE \E j \in d + 1 .. n : C[i] = log[j]
    <2>1. i \in Nat /\ i > 0 /\ i <= Len(s.changes) + Len(E)
      BY <1>8
    <2>2. CASE i <= Len(s.changes)
      <3>1. i \in 1..(c - d) /\ d + i \in d + 1 .. n
        BY <1>3, <1>5, <1>6, <2>1, <2>2
      <3>2. C[i] = log[d + i]
        BY <1>6, <1>8, <3>1
      <3>3. QED
        BY <3>1, <3>2
    <2>3. CASE i > Len(s.changes)
      <3>1. i - Len(s.changes) \in DOMAIN E /\ C[i] = E[i - Len(s.changes)]
        BY <1>7, <1>8, <2>1, <2>3
      <3>2. PICK k \in DOMAIN E : C[i] = E[k]
        BY <3>1
      <3>3. E[k].sequence \in c + 1 .. n /\ E[k] = log[E[k].sequence]
        BY <1>7
      <3>4. E[k].sequence \in d + 1 .. n
        BY <1>3, <1>5, <3>3
      <3>5. QED
        BY <3>2, <3>3, <3>4
    <2>4. QED
      BY <1>8, <2>1, <2>2, <2>3
  <1>10. ASSUME NEW j \in d + 1 .. n PROVE \E i \in DOMAIN C : C[i] = log[j]
    <2>1. j \in Nat /\ d < j /\ j <= n
      BY <1>3, <1>5
    <2>2. CASE j <= c
      <3>1. j - d \in 1..(c - d) /\ d + (j - d) = j
        BY <1>3, <1>5, <2>1, <2>2
      <3>2. C[j - d] = log[j] /\ j - d \in DOMAIN C
        BY <1>6, <1>8, <3>1
      <3>3. QED
        BY <3>2
    <2>3. CASE j > c
      <3>1. j \in c + 1 .. n
        BY <1>3, <2>1, <2>3
      <3>2. PICK k \in DOMAIN E : E[k].sequence = j
        BY <1>7, <3>1
      <3>3. E[k] = log[j] /\ k \in 1..Len(E)
        BY <1>7, <3>2
      <3>4. C[Len(s.changes) + k] = log[j] /\ Len(s.changes) + k \in DOMAIN C
        BY <1>8, <3>3
      <3>5. QED
        BY <3>4
    <2>4. QED
      BY <1>3, <2>1, <2>2, <2>3
  <1>11. kept = {log[j] : j \in d + 1 .. n}
    BY <1>9, <1>10
  <1>12. KeptAt(n) = kept
    BY DEF KeptAt, RestoredChanges, C, s, E
  <1> HIDE DEF kept
  <1>13. QED
    BY <1>5, <1>11, <1>12 DEF c, d, H

\* The ids of the changes that are restored.
HitsAt(n, r) == {i \in DOMAIN EventsAt(n) : EventsAt(n)[i].changeId = r}

LEMMA IdsRestored ==
  ASSUME Sound, NEW n \in 0..state.lastSequence, Restorable(n), NEW e \in KeptAt(n),
         e.changeId \in RemoteIds
  PROVE  (IF HitsAt(n, e.changeId) = {} THEN Base(n).state.appliedChangeIds[e.changeId]
          ELSE EventsAt(n)[Max(HitsAt(n, e.changeId))].sequence) >= e.sequence
  <1> DEFINE c == Base(n).id.sequence
             H == SubSeq(log, 1, c)
             d == Dropped(H)
             s == Base(n).state
             E == EventsAt(n)
             r == e.changeId
             hits == HitsAt(n, r)
  <1>1. /\ c \in 0..n /\ n \in 0..Len(log) /\ StateOf(s, H) /\ Tells(E, log, c, n)
        /\ log \in Seq(Events) /\ Numbered(log)
        /\ d \in 0..c /\ c - d <= Retention /\ KeptAt(n) = {log[j] : j \in d + 1 .. n}
    BY BaseIs, ReplayTells, HeldThen, ChangesRestored DEF Sound, EngineOK
  <1>2. /\ H \in Seq(Events) /\ Len(H) = c /\ \A i \in 1..c : H[i] = log[i]
    <2> HIDE DEF c
    <2>1. c \in 0..Len(log)
      BY <1>1
    <2>2. QED
      BY <1>1, <2>1, PartsOf
  <1> HIDE DEF H, c, d, s
  <1>3. hits = {i \in DOMAIN E : E[i].changeId = r}
    BY DEF HitsAt
  <1> HIDE DEF hits, E
  <1>4. PICK j \in d + 1 .. n : e = log[j]
    BY <1>1
  <1>5. c \in Nat /\ n \in Nat /\ d \in Nat /\ c <= n /\ d <= c /\ n <= Len(log) /\ Len(log) \in Nat
    BY <1>1
  <1>6. j \in 1..Len(log) /\ j \in Nat /\ d < j /\ j <= n
    BY <1>4, <1>5
  <1>7. e.sequence = j
    BY <1>1, <1>4, <1>6 DEF Numbered
  <1>8. /\ E \in Seq(Events) /\ DOMAIN E = 1..Len(E) /\ Len(E) \in Nat
        /\ \A k \in DOMAIN E : E[k].sequence \in c + 1 .. n /\ E[k] = log[E[k].sequence]
        /\ \A k, l \in DOMAIN E : k <= l => E[k].sequence <= E[l].sequence
        /\ \A m \in c + 1 .. n : \E k \in DOMAIN E : E[k].sequence = m
    BY <1>1 DEF Tells
  <1>9. j > c => \E k \in hits : E[k].sequence = j
    <2> SUFFICES ASSUME j > c PROVE \E k \in hits : E[k].sequence = j
      OBVIOUS
    <2>1. j \in c + 1 .. n
      BY <1>5, <1>6
    <2>2. PICK k \in DOMAIN E : E[k].sequence = j
      BY <1>8, <2>1
    <2>3. E[k] = e
      BY <1>4, <1>8, <2>2
    <2>4. QED
      BY <1>3, <2>2, <2>3
  <1>10. CASE hits = {}
    <2>1. j <= c
      BY <1>5, <1>6, <1>9, <1>10
    <2>2. j \in 1..c /\ H[j].changeId = r
      BY <1>2, <1>4, <1>5, <1>6, <2>1
    <2>3. /\ LastHit(H, r) \in 0..Len(H)
          /\ \A i \in DOMAIN H : H[i].changeId = r => i <= LastHit(H, r)
      BY <1>2, LastHitIs
    <2>4. LastHit(H, r) >= j /\ LastHit(H, r) \in Nat
      BY <1>2, <2>2, <2>3
    <2>5. LastHit(H, r) + Retention > Len(H)
      BY <1>1, <1>2, <1>5, <1>6, <2>4, RetentionAssumption
    <2>6. s.appliedChangeIds[r] = LastHit(H, r)
      BY <1>1, <2>5 DEF StateOf, Remembers, AppliedBy
    <2>7. QED
      BY <1>7, <1>10, <2>4, <2>6 DEF s, hits
  <1>11. CASE hits # {}
    <2>1. Max(hits) \in hits /\ \A x \in hits : x <= Max(hits)
      <3>1. hits \in SUBSET (0..Len(E))
        BY <1>3, <1>8
      <3>2. QED
        BY <1>8, <1>11, <3>1, MaxIsIn
    <2>2. Max(hits) \in DOMAIN E
      BY <1>3, <2>1
    <2>3. E[Max(hits)].sequence \in c + 1 .. n
      BY <1>8, <2>2
    <2>4. E[Max(hits)].sequence >= j
      <3>1. CASE j <= c
        BY <1>5, <1>6, <2>3, <3>1
      <3>2. CASE j > c
        <4>1. PICK k \in hits : E[k].sequence = j
          BY <1>9, <3>2
        <4>2. k \in DOMAIN E /\ k <= Max(hits)
          BY <1>3, <2>1, <4>1
        <4>3. E[k].sequence <= E[Max(hits)].sequence
          BY <1>8, <2>2, <4>2
        <4>4. QED
          BY <1>5, <1>6, <2>3, <4>1, <4>3
      <3>3. QED
        BY <1>5, <1>6, <3>1, <3>2
    <2>5. QED
      BY <1>7, <1>11, <2>4 DEF E, hits
  <1>12. QED
    BY <1>10, <1>11

-----------------------------------------------------------------------------
\* What is restored, by sequence and by time.

LEMMA RestoredExactly ==
  ASSUME Sound, NEW n \in 0..state.lastSequence, Restorable(n)
  PROVE  LET r == Restored(n)
             kept == {r.changes[i] : i \in DOMAIN r.changes}
         IN /\ r.docs = ApplyEvents(Fresh(Self).docs, SubSeq(log, 1, n))
            /\ kept = {log[i] : i \in {j \in 1..n : \E e \in kept : e.sequence <= j}}
            /\ \A e \in kept : e.changeId \in RemoteIds => r.appliedChangeIds[e.changeId] >= e.sequence
  <1> DEFINE s == Base(n).state
             E == EventsAt(n)
             ids == [r \in RemoteIds |-> IF HitsAt(n, r) = {} THEN s.appliedChangeIds[r]
                                         ELSE E[Max(HitsAt(n, r))].sequence]
             t == [s EXCEPT !.docs = ApplyEvents(s.docs, E), !.sequence = n,
                            !.changes = s.changes \o E, !.appliedChangeIds = ids]
             d == Dropped(SubSeq(log, 1, Base(n).id.sequence))
             kept == KeptAt(n)
  <1>1. Restored(n) = t
    BY DEF Restored, EventsAt, HitsAt
  <1>2. s \in States
    BY BaseIs DEF StateOf
  <1> HIDE DEF s
  <1>3. /\ t.docs = ApplyEvents(s.docs, E) /\ t.changes = s.changes \o E
        /\ t.appliedChangeIds = ids
    <2> HIDE DEF ids, E
    <2>1. QED
      BY <1>2 DEF States
  <1>4. t.docs = ApplyEvents(Fresh(Self).docs, SubSeq(log, 1, n))
    BY <1>3, DocsRestored DEF s, Fresh, Blank
  <1>5. kept = {t.changes[i] : i \in DOMAIN t.changes}
    BY <1>3 DEF KeptAt, RestoredChanges, s
  <1>6. \A e \in kept : e.changeId \in RemoteIds => t.appliedChangeIds[e.changeId] >= e.sequence
    <2> SUFFICES ASSUME NEW e \in kept, e.changeId \in RemoteIds
                 PROVE  t.appliedChangeIds[e.changeId] >= e.sequence
      OBVIOUS
    <2>1. t.appliedChangeIds[e.changeId] =
            IF HitsAt(n, e.changeId) = {} THEN s.appliedChangeIds[e.changeId]
            ELSE E[Max(HitsAt(n, e.changeId))].sequence
      BY <1>3
    <2>2. QED
      BY <2>1, IdsRestored DEF s
  <1>7. kept = {log[i] : i \in {j \in 1..n : \E e \in kept : e.sequence <= j}}
    <2>1. /\ d \in Nat /\ kept = {log[j] : j \in d + 1 .. n} /\ n \in 0..Len(log)
          /\ Numbered(log) /\ log \in Seq(Events)
      <3>1. Base(n).id.sequence \in 0..n /\ n \in 0..Len(log)
        BY BaseIs
      <3>2. d \in 0..Base(n).id.sequence /\ kept = {log[j] : j \in d + 1 .. n}
        BY ChangesRestored
      <3> HIDE DEF d, kept
      <3>3. d \in Nat
        BY <3>1, <3>2
      <3>4. QED
        BY <3>1, <3>2, <3>3, HeldThen DEF Sound, EngineOK
    <2> HIDE DEF d, kept
    <2>2. n \in Nat /\ n <= Len(log) /\ Len(log) \in Nat
      BY <2>1
    <2>3. \A j \in d + 1 .. n : log[j].sequence = j /\ j \in 1..n
      BY <2>1, <2>2 DEF Numbered
    <2>4. \A j \in 1..n : (\E e \in kept : e.sequence <= j) <=> j \in d + 1 .. n
      <3> SUFFICES ASSUME NEW j \in 1..n
                   PROVE  (\E e \in kept : e.sequence <= j) <=> j \in d + 1 .. n
        OBVIOUS
      <3>1. ASSUME NEW e \in kept, e.sequence <= j PROVE j \in d + 1 .. n
        <4>1. PICK i \in d + 1 .. n : e = log[i]
          BY <2>1
        <4>2. e.sequence = i
          BY <2>3, <4>1
        <4>3. QED
          BY <2>1, <2>2, <3>1, <4>2
      <3>2. ASSUME j \in d + 1 .. n PROVE \E e \in kept : e.sequence <= j
        <4>1. log[j] \in kept /\ log[j].sequence = j
          BY <2>1, <2>3, <3>2
        <4>2. j <= j
          BY <2>2
        <4>3. QED
          BY <4>1, <4>2
      <3>3. QED
        BY <3>1, <3>2
    <2>5. {j \in 1..n : \E e \in kept : e.sequence <= j} = d + 1 .. n
      BY <2>3, <2>4
    <2>6. QED
      BY <2>1, <2>5
  <1> HIDE DEF t, kept
  <1>8. QED
    BY <1>1, <1>4, <1>5, <1>6, <1>7

LEMMA TimeRestored ==
  ASSUME Sound, NEW t \in 0..state.lastSequence, Restorable(t)
  PROVE  TargetOf(t) = t
  <1> DEFINE times == {journal[i].event.sequence : i \in DOMAIN journal} \cap 0..t
             W == Window(state.snapshots, t)
  <1>1. /\ state.snapshots \subseteq SnapshotIds(log) /\ Len(log) \in Nat
        /\ state.lastSequence \in 0..Len(log) /\ 1..state.lastSequence \subseteq Covered(journal)
    BY HeldThen DEF ManifestOK, Reached
  <1>2. t \in Nat
    BY <1>1
  <1>3. CASE t > 0
    <2>1. t \in Covered(journal) /\ t \in 0..t
      BY <1>1, <1>2, <1>3
    <2>2. t \in times /\ times \in SUBSET (0..t)
      BY <2>1 DEF Covered
    <2>3. Max(times) = t
      <3> HIDE DEF times
      <3>1. Max(times) \in times /\ \A x \in times : x <= Max(times)
        BY <1>2, <2>2, MaxIsIn
      <3>2. Max(times) \in 0..t /\ t <= Max(times)
        BY <2>2, <3>1
      <3>3. QED
        BY <1>2, <3>2
    <2>4. QED
      BY <2>2, <2>3 DEF TargetOf
  <1>4. CASE t = 0
    <2>1. times = {}
      <3>1. \A i \in DOMAIN journal : journal[i].event.sequence \in 1..Len(log)
        BY DEF Sound, JournalOK, Copied
      <3>2. 0..t = {0} /\ 0 \notin 1..Len(log)
        BY <1>1, <1>4
      <3>3. QED
        BY <3>1, <3>2
    <2>2. W \in SUBSET SnapshotIds(log) /\ W # {}
      BY <1>1 DEF Window, Restorable
    <2>3. First(W) \in W
      <3> HIDE DEF W
      <3>1. QED
        BY <1>1, <2>2, FirstIsOne
    <2>4. First(W).sequence \in 0..Len(log) /\ First(W).sequence <= t
      BY <2>2, <2>3 DEF Window, SnapshotIds
    <2>5. TargetOf(t) = First(W).sequence
      BY <2>1 DEF TargetOf
    <2>6. QED
      BY <1>1, <1>4, <2>4, <2>5
  <1>5. QED
    BY <1>2, <1>3, <1>4

\* What a restore gives, for any sequence or time the manager says it covers,
\* is the history up to there: the documents, a suffix of the changes ending
\* there, and the ids of the replicated changes among them - whatever was
\* interrupted, failed, appended twice or pruned (restoreToSequence, restoreToTime).
THEOREM RestoresExactly == Spec => []RestoreIsExact
  <1>1. Inductive => RestoreIsExact
    <2> SUFFICES ASSUME Inductive PROVE RestoreIsExact
      OBVIOUS
    <2>1. Sound
      BY DEF Inductive
    <2>2. RestoreExact
      BY <2>1, RestoredExactly DEF RestoreExact
    <2>3. TimeIsExact
      BY <2>1, TimeRestored DEF TimeIsExact
    <2>4. QED
      BY <2>2, <2>3 DEF RestoreIsExact
  <1>2. QED
    BY <1>1, InductiveHolds, PTL
=============================================================================
