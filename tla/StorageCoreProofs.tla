--------------------------- MODULE StorageCoreProofs ---------------------------
(***************************************************************************)
(* Proofs about StorageCore, for any records, buckets, programs, changes,  *)
(* bounds and faults.                                                      *)
(***************************************************************************)
EXTENDS StorageCore, FiniteSetTheorems, WellFoundedInduction, TLAPS
-----------------------------------------------------------------------------
\* The inductive invariant.

Values == Txns \cup {None}
Ops == [kind : Kinds, id : Ids]
Phases == InFlight \cup {"new", "done", "aborted", "durable", "lost"}
Partly(f, X) == DOMAIN f \subseteq Ids /\ f \in [DOMAIN f -> X]

\* A cache of the index: each bucket once, with an entry for each of its records.
Slot(s) ==
  /\ s = [bucket |-> s.bucket, entries |-> s.entries]
  /\ s.bucket \in ToSet(Buckets) /\ s.entries \in [In(s.bucket) -> Entries]
Listing(c) ==
  /\ c \in Seq(ToSet(c)) /\ Len(c) <= CacheBuckets
  /\ \A n \in DOMAIN c : Slot(c[n]) /\ \A m \in DOMAIN c : c[m].bucket = c[n].bucket => m = n

\* Changes that are remembered, each once.
AppliedIs(s) ==
  /\ s \in Seq(Changes) /\ Len(s) <= Remembered
  /\ \A m, n \in DOMAIN s : s[m] = s[n] => m = n

Meta(m) ==
  /\ m = [sequence |-> m.sequence, version |-> m.version, applied |-> m.applied]
  /\ m.sequence \in Nat /\ m.version = m.sequence /\ AppliedIs(m.applied)

Hots(h) == {i \in Ids : h[i] # None}

StoreTyped ==
  /\ disk \in [Ids -> Entries] /\ Listing(cache)
  /\ hot \in [Ids -> Values] /\ Cardinality(Hots(hot)) <= MaxHot
  /\ stored \in Nat /\ since \in Nat /\ faults \in 0..MaxFaults
  /\ moved \in BOOLEAN /\ refusing \in BOOLEAN /\ up \in BOOLEAN /\ harmed \in BOOLEAN
  /\ Meta(meta) /\ Meta(checkpoint) /\ checkpoint.sequence <= meta.sequence

JobTyped ==
  /\ job = [stage |-> job.stage, txn |-> job.txn, todo |-> job.todo, dirty |-> job.dirty]
  /\ job.stage \in {"idle", "apply", "compact"}
  /\ job.todo \in Seq(Ids) /\ DOMAIN job.dirty \subseteq ToSet(Buckets)
  /\ job.dirty = [b \in DOMAIN job.dirty |-> job.dirty[b]]
  /\ \A b \in DOMAIN job.dirty : job.dirty[b] \in [In(b) -> Entries]
  /\ moved \/ job.stage # "apply" => DOMAIN job.dirty = {}

Txn(r) ==
  /\ r = [phase |-> r.phase, todo |-> r.todo, program |-> r.program, reads |-> r.reads,
          seen |-> r.seen, scan |-> r.scan, before |-> r.before, after |-> r.after,
          attempt |-> r.attempt, renumbered |-> r.renumbered, rivals |-> r.rivals]
  /\ r.phase \in Phases /\ r.todo \in Seq(Ops) /\ r.program \in Seq(Ops)
  /\ Partly(r.reads, Nat) /\ Partly(r.seen, Values) /\ Partly(r.before, Values)
  /\ Partly(r.after, Values) /\ DOMAIN r.after \subseteq DOMAIN r.reads /\ r.scan \in Nat \cup {-1}
  /\ r.attempt \in 0..MaxRetries /\ r.renumbered \in BOOLEAN /\ r.rivals \subseteq Txns

\* A queued transaction is queued once.
TxnsTyped ==
  /\ DOMAIN tx = Txns /\ \A t \in Txns : Txn(tx[t])
  /\ queue \in Seq(Txns \cup {"checkpoint", "scheduled"})
  /\ \A n \in DOMAIN queue : queue[n] \in Txns =>
       /\ tx[queue[n]].phase = "queued"
       /\ \A m \in DOMAIN queue : queue[m] = queue[n] => m = n

Line(l) ==
  /\ l = [base |-> l.base, result |-> l.result, ids |-> l.ids, after |-> l.after, change |-> l.change]
  /\ l.base \in Nat /\ l.ids \in Seq(Ids) /\ Len(l.ids) > 0 /\ l.result = l.base + Len(l.ids)
  /\ Partly(l.after, Values) /\ ToSet(l.ids) \subseteq DOMAIN l.after
  /\ l.change \in Changes \cup {None}

Commit(h) ==
  /\ Partly(h.after, Values) /\ Partly(h.seen, Values) /\ h.change \in Changes \cup {None}
  /\ h.renumbered \in BOOLEAN /\ h.alone \in BOOLEAN /\ h.at \in Nat

\* A failed append may have left a whole line.
Left == tail.kind = "line"

LogTyped ==
  /\ wal \in Seq(ToSet(wal)) /\ history \in Seq(ToSet(history))
  /\ \A n \in DOMAIN wal : Line(wal[n])
  /\ \A n \in DOMAIN history : Commit(history[n])
  /\ told \in Seq(Changes)
  /\ \/ tail \in {Clean, Fragment, Unreadable}
     \/ Left /\ tail = Refused(tail.line, tail.commit) /\ Line(tail.line) /\ Commit(tail.commit)

\* The last line of the log has not been applied to the store, or only in part.
Unapplied == job.stage = "apply" \/ refusing

\* The log is a chain that ends with the metadata or goes one line further, and the
\* checkpoint is at one of its lines.  A line that was left would continue it.
LogOK ==
  /\ \A n \in 1..Len(wal) - 1 : wal[n + 1].base = wal[n].result
  /\ wal = <<>> => checkpoint.sequence = meta.sequence
  /\ wal # <<>> => \/ checkpoint.sequence = wal[1].base
                   \/ \E n \in DOMAIN wal : checkpoint.sequence = wal[n].result
  /\ up /\ Unapplied => wal # <<>> /\ Last(wal).base = meta.sequence
  /\ up /\ ~Unapplied /\ wal # <<>> => Last(wal).result = meta.sequence
  /\ job.stage = "compact" => checkpoint = meta
  /\ Left => up /\ ~Unapplied /\ tail.line.base = meta.sequence

\* A line of the log and the commit it stands for.
Describes(line, commit) ==
  /\ DOMAIN commit.after = ToSet(line.ids)
  /\ \A i \in ToSet(line.ids) : commit.after[i] = line.after[i]
  /\ commit.change = line.change

\* The log is the end of the history.
HistoryOK ==
  /\ Len(wal) <= Len(history)
  /\ \A n \in DOMAIN wal : Describes(wal[n], history[Len(history) - Len(wal) + n])
  /\ Left => Describes(tail.line, tail.commit)

JobOK ==
  /\ job.stage = "apply" =>
       /\ up /\ ~refusing /\ job.txn \in Txns /\ tx[job.txn].phase = "commit" /\ wal # <<>>
       /\ Last(wal).after = tx[job.txn].after /\ Last(wal).change = ChangeOf[job.txn]
       /\ ToSet(job.todo) \subseteq ToSet(Last(wal).ids)
  /\ ~up => /\ job = Idle /\ cache = <<>> /\ queue = <<>> /\ ~refusing /\ ~moved
            /\ meta = checkpoint /\ \A i \in Ids : hot[i] = None
            /\ \A t \in Txns : tx[t].phase \notin InFlight

Sound == StoreTyped /\ JobTyped /\ TxnsTyped /\ LogTyped /\ LogOK /\ HistoryOK /\ JobOK

-----------------------------------------------------------------------------
\* What the index says of a record, saved or not.
Current(i) ==
  IF BucketOf[i] \in DOMAIN job.dirty THEN job.dirty[BucketOf[i]][i] ELSE disk[i]

\* A cache has what the index says.
Fresh(c) == \A n \in DOMAIN c : \A i \in In(c[n].bucket) : c[n].entries[i] = Current(i)

\* The program names a record, other than by a scan.
Names(p, i) == \E n \in DOMAIN p : p[n].kind # "all" /\ p[n].id = i

\* The records a transaction has read are named by its program, and so are those to come.
Named(r) ==
  /\ ToSet(r.todo) \subseteq ToSet(r.program)
  /\ \A i \in DOMAIN r.reads : Names(r.program, i)

\* What a transaction saw is still so, or will be found to have changed.
ReadsOK(r) ==
  /\ Named(r)
  /\ r.scan <= meta.version /\ \A i \in DOMAIN r.reads : r.reads[i] <= stored
  /\ \A i \in DOMAIN r.seen :
       \/ i \in DOMAIN r.reads /\ (r.reads[i] = Current(i).version => r.seen[i] = Current(i).value)
       \/ r.scan # -1 /\ (r.scan = meta.version /\ job.stage # "apply" => r.seen[i] = Current(i).value)

Working(t) == tx[t].phase \in {"work", "queued"}

IndexOK ==
  up /\ ~refusing /\ ~harmed =>
    /\ Fresh(cache)
    /\ \A i \in Ids : hot[i] \in {None, Current(i).value} /\ Current(i).version <= stored
    /\ \A t \in Txns : Working(t) /\ ~tx[t].renumbered => ReadsOK(tx[t])

\* The records of which the saved index may be behind the commits.
Behind ==
  IF ~up THEN UNION {ToSet(Pending[n].ids) : n \in 1..Len(Pending)}
  ELSE IF Unapplied THEN ToSet(Last(wal).ids) ELSE {}

RecordsOK ==
  ~harmed =>
    /\ \A i \in Ids \ Behind : disk[i].value = Now[i]
    /\ job.stage = "apply" => \A i \in Ids \ ToSet(job.todo) : Current(i).value = Now[i]

\* What the transaction of a line that was left saw is still so.
LeftOK ==
  Left /\ ~harmed /\ ~tail.commit.renumbered =>
    \A i \in DOMAIN tail.commit.seen : tail.commit.seen[i] = Now[i]

Stored == IndexOK /\ RecordsOK /\ LeftOK /\ CommitsSerialize

-----------------------------------------------------------------------------
(* Numbers and sequences.                                                  *)

LEMMA Least ==
  ASSUME NEW T \in SUBSET Nat, T # {}
  PROVE  \E n \in T : \A m \in T : n <= m
  <1>1. PICK n \in T : \A m \in T : ~(<<m, n>> \in OpToRel(<, Nat))
    BY NatLessThanWellFounded, WFMin
  <1>2. ASSUME NEW m \in T PROVE n <= m
    <2>1. ~(m < n)
      BY <1>1 DEF OpToRel
    <2>2. QED
      BY <2>1
  <1>3. QED
    BY <1>2

\* Induction up to a bound.
LEMMA Upto ==
  ASSUME NEW N \in Nat, NEW S, 0 \in S, \A k \in 1..N : k - 1 \in S => k \in S
  PROVE  \A k \in 0..N : k \in S
  <1> DEFINE T == {n \in 0..N : n \notin S}
  <1> SUFFICES ASSUME T # {} PROVE FALSE
    OBVIOUS
  <1>1. PICK n \in T : \A m \in T : n <= m
    <2>1. T \in SUBSET Nat
      OBVIOUS
    <2> HIDE DEF T
    <2>2. QED
      BY <2>1, Least
  <1>2. n \in 0..N /\ n \notin S /\ n # 0
    BY <1>1
  <1>3. n - 1 \in 0..N /\ n \in 1..N /\ ~(n <= n - 1)
    BY <1>2
  <1>4. n - 1 \in S
    BY <1>1, <1>3
  <1>5. QED
    BY <1>2, <1>3, <1>4

\* A recursion up to a bound defines a function.
Iterates(f, a, N, F) == f[0] = a /\ \A k \in 1..N : f[k] = F[k][f[k - 1]]

LEMMA Recursion ==
  ASSUME NEW G, NEW a \in G, NEW N \in Nat, NEW F \in [1..N -> [G -> G]]
  PROVE  \E f \in [0..N -> G] : Iterates(f, a, N, F)
  <1> DEFINE Is(f, n) == f[0] = a /\ \A k \in 1..n : f[k] = F[k][f[k - 1]]
             S == {n \in 0..N : \E f \in [0..n -> G] : Is(f, n)}
  <1>1. 0 \in S
    <2> DEFINE f == [k \in 0..0 |-> a]
    <2>1. f \in [0..0 -> G] /\ Is(f, 0)
      OBVIOUS
    <2> HIDE DEF Is, f
    <2>2. QED
      BY <2>1
  <1>2. ASSUME NEW n \in 1..N, n - 1 \in S PROVE n \in S
    <2>1. PICK f \in [0..(n - 1) -> G] : Is(f, n - 1)
      <3> HIDE DEF Is
      <3>1. QED
        BY <1>2
    <2> DEFINE v == F[n][f[n - 1]]
               g == [k \in 0..n |-> IF k = n THEN v ELSE f[k]]
    <2>2. f[n - 1] \in G /\ v \in G /\ f[0] = a
      BY <1>2, <2>1
    <2> HIDE DEF v
    <2>3. g \in [0..n -> G]
      BY <1>2, <2>1, <2>2
    <2>4. ASSUME NEW k \in 1..n PROVE g[k] = F[k][g[k - 1]]
      <3>1. CASE k = n
        <4>1. g[k - 1] = f[n - 1] /\ g[k] = v
          BY <1>2, <3>1
        <4>2. QED
          BY <3>1, <4>1 DEF v
      <3>2. CASE k # n
        <4>1. k \in 1..(n - 1) /\ k - 1 \in 0..n /\ k - 1 # n /\ k \in 0..n
          BY <1>2, <3>2
        <4>2. f[k] = F[k][f[k - 1]]
          BY <2>1, <4>1
        <4>3. g[k] = f[k] /\ g[k - 1] = f[k - 1]
          BY <3>2, <4>1
        <4>4. QED
          BY <4>2, <4>3
      <3>3. QED
        BY <3>1, <3>2
    <2>5. g[0] = a
      BY <1>2, <2>2
    <2>6. Is(g, n)
      <3> HIDE DEF g
      <3>1. QED
        BY <2>4, <2>5
    <2> HIDE DEF Is, g
    <2>7. QED
      BY <2>3, <2>6
  <1> HIDE DEF S
  <1>3. \A k \in 0..N : k \in S
    BY <1>1, <1>2, Upto
  <1>4. N \in S
    BY <1>3
  <1>5. QED
    BY <1>4 DEF S, Iterates

LEMMA Greatest ==
  ASSUME NEW n \in Nat, NEW S \in SUBSET (0..n), S # {}
  PROVE  Max(S) \in S /\ \A x \in S : x <= Max(S)
  <1> DEFINE T == {y \in 0..n : n - y \in S}
  <1>1. PICK x \in S : TRUE
    OBVIOUS
  <1>2. n - x \in T /\ T \in SUBSET Nat
    BY <1>1
  <1>3. PICK m \in T : \A y \in T : m <= y
    BY <1>2, Least
  <1>4. n - m \in S
    BY <1>3
  <1>5. ASSUME NEW y \in S PROVE n - m >= y
    <2>1. n - y \in T /\ n - y \in Nat
      OBVIOUS
    <2>2. m <= n - y
      BY <1>3, <2>1
    <2>3. QED
      BY <1>2, <2>2
  <1>6. QED
    BY <1>4, <1>5 DEF Max

LEMMA MaxFits ==
  ASSUME NEW n \in Nat, NEW S \in SUBSET (1..n), S # {}
  PROVE  Max(S) \in S /\ Max(S) \in 1..n /\ \A x \in S : x <= Max(S)
  <1>1. S \in SUBSET (0..n)
    OBVIOUS
  <1>2. QED
    BY <1>1, Greatest

LEMMA BoundedUpto ==
  ASSUME NEW n \in Nat, NEW g \in [1..n -> Nat]
  PROVE  \E m \in Nat : \A j \in 1..n : g[j] <= m
  <1> DEFINE Within(k) == \E m \in Nat : \A j \in 1..k : g[j] <= m
             T == {k \in 0..n : ~Within(k)}
  <1>0. \A k \in 0..n : k \in T \/ Within(k)
    <2> HIDE DEF Within
    <2>1. QED
      OBVIOUS
  <1>1. CASE T = {}
    <2>1. n \in 0..n
      OBVIOUS
    <2> HIDE DEF T
    <2>2. Within(n)
      BY <1>0, <1>1, <2>1
    <2>3. QED
      BY <2>2
  <1>2. CASE T # {}
    <2>1. PICK k \in T : \A j \in T : k <= j
      <3>1. T \in SUBSET Nat
        OBVIOUS
      <3> HIDE DEF T
      <3>2. QED
        BY <1>2, <3>1, Least
    <2>2. k \in 0..n /\ ~Within(k)
      BY <2>1
    <2>3. k # 0
      <3>1. 0 \in Nat /\ \A j \in 1..0 : g[j] <= 0
        OBVIOUS
      <3>2. Within(0)
        BY <3>1
      <3>3. QED
        BY <2>2, <3>2
    <2>4. k - 1 \in 0..n /\ k \in 1..n /\ ~(k <= k - 1)
      BY <2>2, <2>3
    <2>5. Within(k - 1)
      BY <2>1, <2>4
    <2>6. PICK m \in Nat : \A j \in 1..(k - 1) : g[j] <= m
      BY <2>5
    <2>7. g[k] \in Nat
      BY <2>4
    <2> DEFINE top == IF g[k] <= m THEN m ELSE g[k]
    <2>8. top \in Nat /\ m <= top /\ g[k] <= top
      BY <2>7
    <2> HIDE DEF top
    <2>9. ASSUME NEW j \in 1..k PROVE g[j] <= top
      <3>1. CASE j = k
        BY <2>8, <3>1
      <3>2. CASE j # k
        <4>1. j \in 1..(k - 1) /\ j \in 1..n
          BY <2>4, <3>2
        <4>2. g[j] <= m /\ g[j] \in Nat
          BY <2>6, <4>1
        <4>3. QED
          BY <2>8, <4>2
      <3>3. QED
        BY <3>1, <3>2
    <2>10. Within(k)
      BY <2>8, <2>9
    <2>11. QED
      BY <2>2, <2>10
  <1>3. QED
    BY <1>1, <1>2

\* A finite set of values has a bound.
LEMMA Bounded ==
  ASSUME NEW S, IsFiniteSet(S), NEW f \in [S -> Nat]
  PROVE  \E m \in Nat : \A x \in S : f[x] <= m
  <1>1. PICK n \in Nat : \E g : g \in Bijection(1..n, S)
    BY FS_CardinalityType DEF ExistsBijection
  <1>2. PICK g \in Bijection(1..n, S) : TRUE
    BY <1>1
  <1>3. g \in [1..n -> S] /\ \A x \in S : \E k \in 1..n : g[k] = x
    BY <1>2 DEF Bijection, Surjection
  <1> DEFINE h == [k \in 1..n |-> f[g[k]]]
  <1>4. h \in [1..n -> Nat]
    BY <1>3
  <1>5. PICK m \in Nat : \A j \in 1..n : h[j] <= m
    <2> HIDE DEF h
    <2>1. QED
      BY <1>4, BoundedUpto
  <1>6. QED
    BY <1>3, <1>5

\* The greatest value of a function, 0 if it has none.
Top(f, S) == Max({0} \cup {f[x] : x \in S})

LEMMA Tops ==
  ASSUME NEW S, IsFiniteSet(S), NEW f \in [S -> Nat]
  PROVE  Top(f, S) \in Nat /\ \A x \in S : f[x] <= Top(f, S)
  <1> DEFINE T == {0} \cup {f[x] : x \in S}
  <1>1. PICK m \in Nat : \A x \in S : f[x] <= m
    BY Bounded
  <1>2. T \in SUBSET (0..m) /\ T # {} /\ \A x \in S : f[x] \in T
    BY <1>1
  <1>3. Max(T) \in T /\ \A x \in T : x <= Max(T)
    <2> HIDE DEF T
    <2>1. QED
      BY <1>1, <1>2, Greatest
  <1>4. QED
    BY <1>2, <1>3 DEF Top

LEMMA AppendIs ==
  ASSUME NEW D, NEW s \in Seq(D), NEW x \in D
  PROVE  /\ Append(s, x) \in Seq(D) /\ Len(s) \in Nat /\ Len(Append(s, x)) = Len(s) + 1
         /\ \A i \in 1..Len(s) : Append(s, x)[i] = s[i]
         /\ Append(s, x)[Len(s) + 1] = x
  OBVIOUS

LEMMA TailIs ==
  ASSUME NEW D, NEW s \in Seq(D), s # <<>>
  PROVE  /\ Head(s) = s[1] /\ Head(s) \in D /\ Tail(s) \in Seq(D)
         /\ Len(s) \in Nat \ {0} /\ Len(Tail(s)) = Len(s) - 1
         /\ \A i \in 1..Len(Tail(s)) : Tail(s)[i] = s[i + 1]
  OBVIOUS

LEMMA OwnSequence ==
  ASSUME NEW D, NEW s \in Seq(D)
  PROVE  /\ s \in Seq(ToSet(s)) /\ Len(s) \in Nat /\ DOMAIN s = 1..Len(s)
         /\ \A n \in 1..Len(s) : s[n] \in ToSet(s) /\ s[n] \in D
  <1>1. Len(s) \in Nat /\ DOMAIN s = 1..Len(s) /\ \A n \in 1..Len(s) : s[n] \in D
    OBVIOUS
  <1>2. \A n \in 1..Len(s) : s[n] \in ToSet(s)
    BY <1>1 DEF ToSet
  <1>3. s = [n \in 1..Len(s) |-> s[n]]
    BY <1>1
  <1> DEFINE T == ToSet(s)
  <1> HIDE DEF T
  <1>4. s \in Seq(T)
    BY <1>1, <1>2, <1>3 DEF T
  <1>5. QED
    BY <1>1, <1>2, <1>4 DEF T

LEMMA FormIs ==
  ASSUME NEW D, NEW n \in Nat, NEW f, f = [i \in 1..n |-> f[i]], \A i \in 1..n : f[i] \in D
  PROVE  f \in Seq(D) /\ Len(f) = n
  OBVIOUS

LEMMA EmptyPart == Partly(<<>>, Nat) /\ Partly(<<>>, Values)
  BY DEF Partly

-----------------------------------------------------------------------------
(* Elements at some places.                                                *)

Rank(S, i) == Cardinality({j \in S : j <= i})

LEMMA AtPlacesForm ==
  ASSUME NEW s, NEW S
  PROVE  AtPlaces(s, S) = [n \in 1..Cardinality(S) |-> s[CHOOSE i \in S : Rank(S, i) = n]]
  BY DEF AtPlaces, Rank

\* Each place of a set of places has its rank, and each rank is taken.
LEMMA RanksAre ==
  ASSUME NEW N \in Nat, NEW S \in SUBSET (1..N)
  PROVE  /\ IsFiniteSet(S) /\ Cardinality(S) \in Nat
         /\ \A n \in 1..Cardinality(S) : \E i \in S : Rank(S, i) = n
         /\ \A i \in S : Rank(S, i) \in 1..Cardinality(S)
         /\ \A i, j \in S : Rank(S, i) = Rank(S, j) => i = j
  <1> DEFINE K == Cardinality(S)
             f == [i \in S |-> Rank(S, i)]
  <1>1. IsFiniteSet(S) /\ K \in Nat /\ \A i \in S : i \in Nat
    <2>1. IsFiniteSet(1..N)
      BY FS_Interval
    <2>2. IsFiniteSet(S)
      BY <2>1, FS_Subset
    <2>3. QED
      BY <2>2, FS_CardinalityType
  <1>2. \A i \in S : Rank(S, i) \in 1..K
    <2> SUFFICES ASSUME NEW i \in S PROVE Rank(S, i) \in 1..K
      OBVIOUS
    <2> DEFINE U == {j \in S : j <= i}
    <2>1. U \in SUBSET S /\ i \in U
      BY <1>1
    <2> HIDE DEF U
    <2>2. IsFiniteSet(U) /\ Cardinality(U) <= K
      BY <1>1, <2>1, FS_Subset
    <2>3. Cardinality(U) \in Nat /\ Cardinality(U) # 0
      BY <2>1, <2>2, FS_CardinalityType, FS_EmptySet
    <2>4. Rank(S, i) = Cardinality(U)
      BY DEF Rank, U
    <2>5. QED
      BY <1>1, <2>2, <2>3, <2>4
  <1>3. \A i, j \in S : i < j => Rank(S, i) # Rank(S, j)
    <2> SUFFICES ASSUME NEW i \in S, NEW j \in S, i < j PROVE Rank(S, i) # Rank(S, j)
      OBVIOUS
    <2> DEFINE U == {k \in S : k <= i}
               V == {k \in S : k <= j}
    <2>0. i \in Nat /\ j \in Nat /\ \A k \in S : k \in Nat
      BY <1>1
    <2>1. U \in SUBSET V /\ j \in V /\ j \notin U /\ V \in SUBSET S
      <3>1. (\A k \in S : k <= i => k <= j) /\ j <= j /\ ~(j <= i)
        BY <2>0
      <3>2. QED
        BY <3>1
    <2> HIDE DEF U, V
    <2>2. IsFiniteSet(V)
      BY <1>1, <2>1, FS_Subset
    <2>3. Cardinality(U) # Cardinality(V)
      BY <2>1, <2>2, FS_Subset
    <2>4. QED
      BY <2>3 DEF Rank, U, V
  <1>4. \A i, j \in S : Rank(S, i) = Rank(S, j) => i = j
    BY <1>1, <1>3
  <1>5. f \in Injection(S, 1..K)
    <2>1. f \in [S -> 1..K] /\ \A i, j \in S : f[i] = f[j] => i = j
      BY <1>2, <1>4
    <2> HIDE DEF f
    <2>2. QED
      BY <2>1 DEF Injection, IsInjective
  <1>6. IsFiniteSet(1..K) /\ Cardinality(1..K) = K
    BY <1>1, FS_Interval
  <1>7. f \in Surjection(S, 1..K)
    <2> HIDE DEF f
    <2>1. QED
      BY <1>1, <1>5, <1>6, FS_Injection
  <1>8. QED
    BY <1>1, <1>2, <1>4, <1>7 DEF Surjection

LEMMA AtPlacesIs ==
  ASSUME NEW N \in Nat, NEW S \in SUBSET (1..N), NEW s, NEW D, \A i \in S : s[i] \in D
  PROVE  /\ AtPlaces(s, S) \in Seq(D) /\ Cardinality(S) \in Nat
         /\ Len(AtPlaces(s, S)) = Cardinality(S) /\ (S # {} => Cardinality(S) > 0)
         /\ \A n \in 1..Cardinality(S) : \E i \in S : AtPlaces(s, S)[n] = s[i]
  <1> DEFINE K == Cardinality(S)
             q == AtPlaces(s, S)
  <1>1. IsFiniteSet(S) /\ K \in Nat /\ \A n \in 1..K : \E i \in S : Rank(S, i) = n
    BY RanksAre
  <1>2. \A n \in 1..K : \E i \in S : q[n] = s[i]
    <2> SUFFICES ASSUME NEW n \in 1..K PROVE \E i \in S : q[n] = s[i]
      OBVIOUS
    <2>1. q[n] = s[CHOOSE i \in S : Rank(S, i) = n]
      BY AtPlacesForm
    <2>2. (CHOOSE i \in S : Rank(S, i) = n) \in S
      BY <1>1
    <2>3. QED
      BY <2>1, <2>2
  <1>3. q = [n \in 1..K |-> q[n]]
    <2>1. q = [n \in 1..K |-> s[CHOOSE i \in S : Rank(S, i) = n]]
      BY AtPlacesForm
    <2> HIDE DEF q
    <2>2. QED
      BY <2>1
  <1>4. q \in Seq(D) /\ Len(q) = K
    <2>1. \A n \in 1..K : q[n] \in D
      BY <1>2
    <2> HIDE DEF K, q
    <2>2. QED
      BY <1>1, <1>3, <2>1, FormIs
  <1>5. S # {} => K > 0
    <2>1. S # {} => K # 0
      BY <1>1, FS_EmptySet
    <2> HIDE DEF K
    <2>2. QED
      BY <1>1, <2>1
  <1>6. QED
    BY <1>1, <1>2, <1>4, <1>5

\* The elements after a place.
\* ... and every place is among them.
LEMMA AtEveryPlace ==
  ASSUME NEW N \in Nat, NEW S \in SUBSET (1..N), NEW s, NEW i \in S
  PROVE  \E n \in 1..Cardinality(S) : AtPlaces(s, S)[n] = s[i]
  <1> DEFINE n == Rank(S, i)
             q == AtPlaces(s, S)
  <1>1. n \in 1..Cardinality(S) /\ \A j \in S : Rank(S, j) = n => j = i
    BY RanksAre
  <1> HIDE DEF n
  <1>2. (CHOOSE j \in S : Rank(S, j) = n) = i
    BY <1>1 DEF n
  <1>3. q = [m \in 1..Cardinality(S) |-> s[CHOOSE j \in S : Rank(S, j) = m]]
    BY AtPlacesForm
  <1> HIDE DEF q
  <1>4. q[n] = s[CHOOSE j \in S : Rank(S, j) = n]
    BY <1>1, <1>3
  <1>5. QED
    BY <1>1, <1>2, <1>4 DEF q

LEMMA AtLastPlaces ==
  ASSUME NEW c \in Nat, NEW N \in Nat, c <= N, NEW s
  PROVE  AtPlaces(s, c + 1 .. N) = [n \in 1..(N - c) |-> s[c + n]]
  <1> DEFINE S == c + 1 .. N
  <1>1. Cardinality(S) = N - c
    <2>1. c + 1 \in Int /\ N \in Int
      OBVIOUS
    <2>2. Cardinality(S) = IF c + 1 > N THEN 0 ELSE N - (c + 1) + 1
      BY <2>1, FS_Interval
    <2>3. QED
      BY <2>2
  <1>2. ASSUME NEW i \in S PROVE Rank(S, i) = i - c
    <2>1. {j \in S : j <= i} = c + 1 .. i
      OBVIOUS
    <2>2. Cardinality(c + 1 .. i) = IF c + 1 > i THEN 0 ELSE i - (c + 1) + 1
      <3>1. c + 1 \in Int /\ i \in Int
        OBVIOUS
      <3>2. QED
        BY <3>1, FS_Interval
    <2>3. Rank(S, i) = Cardinality(c + 1 .. i)
      BY <2>1 DEF Rank
    <2>4. QED
      BY <2>2, <2>3
  <1>3. ASSUME NEW n \in 1..(N - c) PROVE (CHOOSE i \in S : Rank(S, i) = n) = c + n
    <2>1. c + n \in S /\ Rank(S, c + n) = n
      BY <1>2
    <2>2. \A i \in S : Rank(S, i) = n => i = c + n
      BY <1>2
    <2> HIDE DEF S
    <2>3. QED
      BY <2>1, <2>2
  <1>4. AtPlaces(s, S) = [n \in 1..Cardinality(S) |-> s[CHOOSE i \in S : Rank(S, i) = n]]
    BY AtPlacesForm
  <1> HIDE DEF S
  <1>5. AtPlaces(s, S) = [n \in 1..(N - c) |-> s[c + n]]
    BY <1>1, <1>3, <1>4
  <1>6. QED
    BY <1>5 DEF S

LEMMA SubSeqIs ==
  ASSUME NEW D, NEW s \in Seq(D), NEW i \in Nat, NEW j \in Nat, 1 <= i, i <= j + 1, j <= Len(s)
  PROVE  /\ SubSeq(s, i, j) \in Seq(D) /\ Len(SubSeq(s, i, j)) = j - i + 1
         /\ \A n \in 1..(j - i + 1) : SubSeq(s, i, j)[n] = s[i + n - 1]
  OBVIOUS

LEMMA RemoveIs ==
  ASSUME NEW D, NEW s \in Seq(D), NEW k \in 1..Len(s)
  PROVE  /\ RemoveAt(s, k) \in Seq(D) /\ Len(RemoveAt(s, k)) = Len(s) - 1
         /\ \A n \in 1..(Len(s) - 1) : RemoveAt(s, k)[n] = IF n < k THEN s[n] ELSE s[n + 1]
  <1> DEFINE L == Len(s)
             a == SubSeq(s, 1, k - 1)
             b == SubSeq(s, k + 1, L)
  <1>1. L \in Nat /\ k \in 1..L /\ k \in Nat
    OBVIOUS
  <1> HIDE DEF L
  <1>2. a \in Seq(D) /\ Len(a) = k - 1 /\ \A n \in 1..(k - 1) : a[n] = s[n]
    <2>1. 1 \in Nat /\ k - 1 \in Nat /\ 1 <= (k - 1) + 1 /\ k - 1 <= Len(s)
      BY <1>1 DEF L
    <2>2. a \in Seq(D) /\ Len(a) = (k - 1) - 1 + 1 /\ \A n \in 1..((k - 1) - 1 + 1) : a[n] = s[1 + n - 1]
      BY <2>1, SubSeqIs
    <2> HIDE DEF a
    <2>3. QED
      BY <1>1, <2>2
  <1>3. b \in Seq(D) /\ Len(b) = L - k /\ \A n \in 1..(L - k) : b[n] = s[k + n]
    <2>1. k + 1 \in Nat /\ L \in Nat /\ 1 <= k + 1 /\ k + 1 <= L + 1 /\ L <= Len(s)
      BY <1>1 DEF L
    <2>2. b \in Seq(D) /\ Len(b) = L - (k + 1) + 1 /\ \A n \in 1..(L - (k + 1) + 1) : b[n] = s[(k + 1) + n - 1]
      BY <2>1, SubSeqIs
    <2> HIDE DEF b
    <2>3. QED
      BY <1>1, <2>2
  <1>4. RemoveAt(s, k) = a \o b
    BY DEF RemoveAt, L
  <1> HIDE DEF a, b
  <1> DEFINE q == a \o b
  <1>5. /\ q \in Seq(D) /\ Len(q) = Len(a) + Len(b)
        /\ \A i \in 1..Len(a) : q[i] = a[i]
        /\ \A i \in 1..Len(b) : q[Len(a) + i] = b[i]
    <2>1. a \in Seq(D) /\ b \in Seq(D)
      BY <1>2, <1>3
    <2>2. QED
      BY <2>1
  <1> HIDE DEF q
  <1>6. \A n \in 1..(L - 1) : q[n] = IF n < k THEN s[n] ELSE s[n + 1]
    <2> SUFFICES ASSUME NEW n \in 1..(L - 1) PROVE q[n] = IF n < k THEN s[n] ELSE s[n + 1]
      OBVIOUS
    <2>1. CASE n < k
      BY <1>1, <1>2, <1>5, <2>1
    <2>2. CASE ~(n < k)
      <3>1. n - (k - 1) \in 1..(L - k)
        BY <1>1, <2>2
      <3>2. q[(k - 1) + (n - (k - 1))] = b[n - (k - 1)] /\ b[n - (k - 1)] = s[k + (n - (k - 1))]
        BY <1>2, <1>3, <1>5, <3>1
      <3>3. (k - 1) + (n - (k - 1)) = n /\ k + (n - (k - 1)) = n + 1
        BY <1>1
      <3>4. QED
        BY <2>2, <3>2, <3>3
    <2>3. QED
      BY <2>1, <2>2
  <1>7. QED
    BY <1>1, <1>2, <1>3, <1>4, <1>5, <1>6 DEF L, q

-----------------------------------------------------------------------------
(* The cache of the index.                                                 *)

LEMMA InIs == \A i \in Ids : i \in In(BucketOf[i]) /\ BucketOf[i] \in ToSet(Buckets)
  BY StorageAssumption DEF In

LEMMA SavedIs ==
  ASSUME disk \in [Ids -> Entries], NEW b
  PROVE  Saved(b) \in [In(b) -> Entries]
  <1>1. NoEntry \in Entries
    BY DEF NoEntry, Entries
  <1>2. \A i \in In(b) : disk[i] \in Entries
    BY DEF In
  <1>3. QED
    BY <1>1, <1>2 DEF Saved

\* A sequence of at most so many slots of distinct buckets.
LEMMA ListingIs ==
  ASSUME NEW c, Listing(c)
  PROVE  /\ c \in Seq(ToSet(c)) /\ Len(c) \in Nat /\ DOMAIN c = 1..Len(c)
         /\ c = [n \in 1..Len(c) |-> c[n]]
  <1>1. c \in Seq(ToSet(c))
    BY DEF Listing
  <1> DEFINE D == ToSet(c)
  <1> HIDE DEF D
  <1>2. c \in Seq(D)
    BY <1>1 DEF D
  <1>3. Len(c) \in Nat /\ DOMAIN c = 1..Len(c) /\ c = [n \in 1..Len(c) |-> c[n]]
    BY <1>2
  <1>4. QED
    BY <1>1, <1>3

LEMMA ListingForm ==
  ASSUME NEW n \in Nat, NEW c, c = [k \in 1..n |-> c[k]], n <= CacheBuckets,
         \A k \in 1..n : Slot(c[k]),
         \A k, m \in 1..n : c[m].bucket = c[k].bucket => m = k
  PROVE  Listing(c) /\ Len(c) = n
  <1> DEFINE D == {c[k] : k \in 1..n}
  <1>1. \A k \in 1..n : c[k] \in D
    OBVIOUS
  <1> HIDE DEF D
  <1>2. c \in Seq(D) /\ Len(c) = n /\ DOMAIN c = 1..n
    BY <1>1, FormIs
  <1>3. c \in Seq(ToSet(c))
    BY <1>2, OwnSequence
  <1>4. QED
    BY <1>2, <1>3 DEF Listing

\* Loading a bucket puts it last; what else is there was there before.
LEMMA LoadIs ==
  ASSUME disk \in [Ids -> Entries], NEW c, Listing(c), NEW b \in ToSet(Buckets)
  PROVE  LET r == Load(c, b) IN
         /\ Listing(r) /\ Len(r) > 0 /\ r[Len(r)].bucket = b
         /\ \A n \in 1..Len(r) : \/ \E m \in 1..Len(c) : r[n] = c[m]
                                 \/ Held(c, b) = {} /\ r[n] = [bucket |-> b, entries |-> Saved(b)]
         /\ Held(c, b) # {} \/ Len(c) < CacheBuckets =>
              \A m \in 1..Len(c) : \E n \in 1..Len(r) : r[n] = c[m]
  <1> DEFINE L == Len(c)
             r == Load(c, b)
             e == [bucket |-> b, entries |-> Saved(b)]
  <1>1. L \in Nat /\ DOMAIN c = 1..L /\ L <= CacheBuckets /\ c = [n \in 1..L |-> c[n]] /\ c \in Seq(ToSet(c))
    BY ListingIs DEF Listing
  <1>2. \A n \in 1..L : Slot(c[n]) /\ \A m \in 1..L : c[m].bucket = c[n].bucket => m = n
    BY <1>1 DEF Listing
  <1>3. CacheBuckets \in Nat \ {0}
    BY StorageAssumption
  <1>4. Slot(e) /\ e.bucket = b
    BY SavedIs DEF Slot
  <1>5. CASE Held(c, b) # {}
    <2> DEFINE k == CHOOSE n \in Held(c, b) : TRUE
               a == Append(RemoveAt(c, k), c[k])
    <2>1. k \in 1..L /\ c[k].bucket = b
      BY <1>1, <1>5 DEF Held
    <2> HIDE DEF k
    <2> DEFINE D == ToSet(c)
    <2>3. \A n \in 1..L : c[n] \in D
      BY <1>1 DEF ToSet
    <2> HIDE DEF D
    <2>4. /\ RemoveAt(c, k) \in Seq(D) /\ Len(RemoveAt(c, k)) = L - 1
          /\ \A n \in 1..(L - 1) : RemoveAt(c, k)[n] = IF n < k THEN c[n] ELSE c[n + 1]
      <3>1. c \in Seq(D)
        BY <1>1, <2>3
      <3>2. QED
        BY <2>1, <3>1, RemoveIs
    <2>5. a \in Seq(D) /\ a = [n \in 1..L |-> IF n = L THEN c[k] ELSE IF n < k THEN c[n] ELSE c[n + 1]]
      <3>1. a \in Seq(D) /\ Len(a) = L /\ a[L] = c[k] /\ \A n \in 1..(L - 1) : a[n] = RemoveAt(c, k)[n]
        <4>1. c[k] \in D /\ Len(RemoveAt(c, k)) + 1 = L
          BY <1>1, <2>1, <2>3, <2>4
        <4>2. QED
          BY <2>4, <4>1, AppendIs
      <3>2. a = [n \in 1..L |-> a[n]]
        BY <3>1
      <3>3. \A n \in 1..(L - 1) : a[n] = IF n < k THEN c[n] ELSE c[n + 1]
        BY <2>4, <3>1
      <3>4. \A n \in 1..L : a[n] = IF n = L THEN c[k] ELSE IF n < k THEN c[n] ELSE c[n + 1]
        BY <1>1, <3>1, <3>3
      <3>6. a \in Seq(D)
        BY <3>1
      <3> HIDE DEF a
      <3>5. QED
        BY <3>2, <3>4, <3>6
    <2>6. r = a
      <3>1. Len(a) = L
        <4> HIDE DEF a
        <4>1. DOMAIN a = 1..L /\ a \in Seq(D)
          BY <2>5
        <4>2. QED
          BY <1>1, <4>1
      <3>2. ~(Len(a) > CacheBuckets)
        BY <1>1, <1>3, <3>1
      <3>3. r = IF Len(a) > CacheBuckets THEN Tail(a) ELSE a
        BY <1>5 DEF Load, k
      <3> HIDE DEF a, r
      <3>4. QED
        BY <3>2, <3>3
    <2> HIDE DEF a, r
    <2> DEFINE at(n) == IF n = L THEN k ELSE IF n < k THEN n ELSE n + 1
    <2>7. \A n \in 1..L : at(n) \in 1..L /\ r[n] = c[at(n)]
      BY <1>1, <2>1, <2>5, <2>6
    <2>8. \A n, m \in 1..L : at(n) = at(m) => n = m
      BY <1>1, <2>1
    <2>9. r = [n \in 1..L |-> r[n]]
      BY <2>5, <2>6
    <2>10. \A m \in 1..L : \E n \in 1..L : at(n) = m
      <3> SUFFICES ASSUME NEW m \in 1..L PROVE \E n \in 1..L : at(n) = m
        OBVIOUS
      <3>1. CASE m = k
        <4>1. L \in 1..L /\ at(L) = m
          BY <1>1, <2>1, <3>1
        <4>2. QED
          BY <4>1
      <3>2. CASE m < k
        <4>1. m \in 1..L /\ at(m) = m
          BY <1>1, <2>1, <3>2
        <4>2. QED
          BY <4>1
      <3>3. CASE m > k
        <4>1. m - 1 \in 1..L /\ at(m - 1) = m
          BY <1>1, <2>1, <3>3
        <4>2. QED
          BY <4>1
      <3>4. QED
        BY <2>1, <3>1, <3>2, <3>3
    <2>11. Listing(r) /\ Len(r) = L
      <3>1. \A n \in 1..L : Slot(r[n])
        BY <1>2, <2>7
      <3>2. \A n, m \in 1..L : r[m].bucket = r[n].bucket => m = n
        <4> SUFFICES ASSUME NEW n \in 1..L, NEW m \in 1..L, r[m].bucket = r[n].bucket PROVE m = n
          OBVIOUS
        <4>1. at(m) = at(n)
          BY <1>2, <2>7
        <4> HIDE DEF at
        <4>2. QED
          BY <2>8, <4>1
      <3>3. QED
        BY <1>1, <2>9, <3>1, <3>2, ListingForm
    <2>12. L > 0 /\ r[L].bucket = b
      BY <1>1, <2>1, <2>7
    <2>13. \A m \in 1..L : \E n \in 1..L : r[n] = c[m]
      BY <2>7, <2>10
    <2>14. \A n \in 1..L : \E m \in 1..L : r[n] = c[m]
      <3> HIDE DEF at
      <3>1. QED
        BY <2>7
    <2>15. QED
      BY <1>5, <2>11, <2>12, <2>13, <2>14 DEF r
  <1>6. CASE Held(c, b) = {}
    <2> DEFINE a == Append(c, e)
               D == ToSet(c) \cup {e}
    <2>1. \A n \in 1..L : c[n] \in D /\ c[n].bucket # b
      BY <1>1, <1>6 DEF Held, ToSet
    <2>2. e \in D
      OBVIOUS
    <2> HIDE DEF D, e
    <2>3. c \in Seq(D)
      BY <1>1, <2>1
    <2>4. a \in Seq(D) /\ Len(a) = L + 1 /\ a[L + 1] = e /\ \A n \in 1..L : a[n] = c[n]
      BY <2>2, <2>3, AppendIs
    <2>5. r = IF L + 1 > CacheBuckets THEN Tail(a) ELSE a
      BY <1>6, <2>4 DEF Load, e
    <2>6. \A n \in 1..(L + 1) : Slot(a[n])
      BY <1>1, <1>2, <1>4, <2>4
    <2>7. \A n, m \in 1..(L + 1) : a[m].bucket = a[n].bucket => m = n
      <3> SUFFICES ASSUME NEW n \in 1..(L + 1), NEW m \in 1..(L + 1), a[m].bucket = a[n].bucket
                   PROVE  m = n
        OBVIOUS
      <3> HIDE DEF a
      <3>1. CASE n \in 1..L /\ m \in 1..L
        BY <1>2, <2>4, <3>1
      <3>2. CASE n \in 1..L /\ m = L + 1
        BY <1>4, <2>1, <2>4, <3>2
      <3>3. CASE m \in 1..L /\ n = L + 1
        BY <1>4, <2>1, <2>4, <3>3
      <3>4. QED
        BY <1>1, <3>1, <3>2, <3>3
    <2> HIDE DEF a, r
    <2>8. CASE L + 1 > CacheBuckets
      <3>1. r = Tail(a) /\ L = CacheBuckets /\ L > 0
        BY <1>1, <1>3, <2>5, <2>8
      <3>2. a # <<>>
        BY <1>1, <2>4
      <3>3. r \in Seq(D) /\ Len(r) = L /\ \A n \in 1..L : r[n] = a[n + 1]
        BY <1>1, <2>4, <3>1, <3>2, TailIs
      <3>4. r = [n \in 1..L |-> r[n]]
        BY <3>3
      <3>5. Listing(r)
        <4>1. \A n \in 1..L : Slot(r[n])
          BY <1>1, <2>6, <3>3
        <4>2. \A n, m \in 1..L : r[m].bucket = r[n].bucket => m = n
          <5> SUFFICES ASSUME NEW n \in 1..L, NEW m \in 1..L, r[m].bucket = r[n].bucket PROVE m = n
            OBVIOUS
          <5>1. n + 1 \in 1..(L + 1) /\ m + 1 \in 1..(L + 1)
            BY <1>1
          <5>2. a[m + 1].bucket = a[n + 1].bucket
            BY <3>3
          <5>3. m + 1 = n + 1
            BY <2>7, <5>1, <5>2
          <5>4. QED
            BY <5>3
        <4>3. QED
          BY <1>1, <3>4, <4>1, <4>2, ListingForm
      <3>6. r[L] = e
        BY <1>1, <2>4, <3>1, <3>3
      <3>7. \A n \in 1..L : (\E m \in 1..L : r[n] = c[m]) \/ r[n] = e
        <4> SUFFICES ASSUME NEW n \in 1..L, n # L PROVE \E m \in 1..L : r[n] = c[m]
          BY <3>6
        <4>1. n + 1 \in 1..L /\ r[n] = c[n + 1]
          BY <1>1, <2>4, <3>3
        <4>2. QED
          BY <4>1
      <3>8. ~(L < CacheBuckets)
        BY <1>1, <1>3, <3>1
      <3>9. QED
        BY <1>4, <1>6, <3>1, <3>3, <3>5, <3>6, <3>7, <3>8 DEF r, e
    <2>9. CASE ~(L + 1 > CacheBuckets)
      <3>1. r = a /\ L + 1 <= CacheBuckets
        BY <1>1, <1>3, <2>5, <2>9
      <3>2. r = [n \in 1..(L + 1) |-> r[n]]
        BY <1>1, <2>4, <3>1
      <3>3. Listing(r) /\ Len(r) = L + 1
        BY <1>1, <2>6, <2>7, <3>1, <3>2, ListingForm
      <3>4. \A n \in 1..(L + 1) : (\E m \in 1..L : r[n] = c[m]) \/ r[n] = e
        BY <1>1, <2>4, <3>1
      <3>5. \A m \in 1..L : \E n \in 1..(L + 1) : r[n] = c[m]
        BY <1>1, <2>4, <3>1
      <3>6. r[L + 1] = e
        BY <2>4, <3>1
      <3>7. L + 1 > 0
        BY <1>1
      <3>8. QED
        BY <1>4, <1>6, <3>3, <3>4, <3>5, <3>6, <3>7 DEF r, e
    <2>10. QED
      BY <2>8, <2>9
  <1>7. QED
    BY <1>5, <1>6

LEMMA BucketsAre == IsFiniteSet(ToSet(Buckets)) /\ Len(Buckets) \in Nat /\ DOMAIN Buckets = 1..Len(Buckets)
  <1> DEFINE n == Len(Buckets)
             S == ToSet(Buckets)
             f == [k \in 1..n |-> Buckets[k]]
  <1>1. n \in Nat /\ DOMAIN Buckets = 1..n
    <2> HIDE DEF S
    <2>1. Buckets \in Seq(S)
      BY StorageAssumption DEF S
    <2>2. QED
      BY <2>1
  <1>2. f \in Surjection(1..n, S)
    <2>1. \A k \in 1..n : f[k] \in S
      BY <1>1 DEF ToSet
    <2>2. \A b \in S : \E k \in 1..n : f[k] = b
      BY <1>1 DEF ToSet
    <2>3. f \in [1..n -> S]
      BY <2>1
    <2> HIDE DEF f, S
    <2>4. QED
      BY <2>2, <2>3 DEF Surjection
  <1>3. IsFiniteSet(1..n)
    BY <1>1, FS_Interval
  <1> HIDE DEF f, S
  <1>4. IsFiniteSet(S)
    BY <1>2, <1>3, FS_Surjection
  <1>5. QED
    BY <1>1, <1>4 DEF S

LEMMA EntryIs ==
  ASSUME disk \in [Ids -> Entries], NEW c, Listing(c), NEW i \in Ids
  PROVE  /\ Entry(c, i) \in Entries
         /\ LET b == BucketOf[i] IN
            \/ \E n \in 1..Len(c) : c[n].bucket = b /\ Entry(c, i) = c[n].entries[i]
            \/ Held(c, b) = {} /\ Entry(c, i) = Saved(b)[i]
  <1> DEFINE b == BucketOf[i]
             r == Load(c, b)
             s == r[Len(r)]
  <1>1. i \in In(b) /\ b \in ToSet(Buckets)
    BY InIs
  <1>2. /\ Listing(r) /\ Len(r) > 0 /\ r[Len(r)].bucket = b
        /\ \A n \in 1..Len(r) : \/ \E m \in 1..Len(c) : r[n] = c[m]
                                \/ Held(c, b) = {} /\ r[n] = [bucket |-> b, entries |-> Saved(b)]
    BY <1>1, LoadIs
  <1>3. Entry(c, i) = s.entries[i]
    BY DEF Entry, Last
  <1> HIDE DEF r
  <1>4. Len(r) \in 1..Len(r) /\ DOMAIN r = 1..Len(r)
    BY <1>2, ListingIs
  <1>5. Slot(s) /\ s.bucket = b
    BY <1>2, <1>4 DEF Listing
  <1>6. s.entries[i] \in Entries
    BY <1>1, <1>5 DEF Slot
  <1>7. QED
    BY <1>2, <1>3, <1>4, <1>5, <1>6

\* Entering an entry in its bucket.
LEMMA PutIs ==
  ASSUME disk \in [Ids -> Entries], NEW c, Listing(c), NEW i \in Ids, NEW e \in Entries
  PROVE  LET r == Load(c, BucketOf[i])
             p == Put(c, i, e)
         IN  /\ Listing(p) /\ Len(p) = Len(r) /\ Len(r) \in Nat \ {0}
             /\ \A n \in 1..(Len(r) - 1) : p[n] = r[n]
             /\ p[Len(r)].bucket = BucketOf[i]
             /\ p[Len(r)].entries = [r[Len(r)].entries EXCEPT ![i] = e]
             /\ Last(p).entries = [r[Len(r)].entries EXCEPT ![i] = e]
  <1> DEFINE b == BucketOf[i]
             r == Load(c, b)
             p == Put(c, i, e)
             L == Len(r)
             s == r[L]
             q == [bucket |-> b, entries |-> [s.entries EXCEPT ![i] = e]]
  <1>1. i \in In(b) /\ b \in ToSet(Buckets)
    BY InIs
  <1>2. Listing(r) /\ L > 0 /\ s.bucket = b
    BY <1>1, LoadIs
  <1>3. L \in Nat \ {0} /\ DOMAIN r = 1..L /\ r = [n \in 1..L |-> r[n]]
    BY <1>2, ListingIs
  <1>4. Slot(s) /\ s = [bucket |-> b, entries |-> s.entries]
    <2> HIDE DEF r
    <2>1. L \in DOMAIN r
      BY <1>3
    <2>2. Slot(s)
      BY <1>2, <2>1 DEF Listing
    <2> HIDE DEF s
    <2>3. s = [bucket |-> s.bucket, entries |-> s.entries]
      BY <2>2 DEF Slot
    <2>4. QED
      BY <1>2, <2>2, <2>3
  <1>5. Slot(q) /\ q.bucket = b /\ q.entries = [s.entries EXCEPT ![i] = e]
    BY <1>1, <1>2, <1>4 DEF Slot
  <1>6. p = [n \in 1..L |-> IF n = L THEN q ELSE r[n]]
    <2>1. p = [r EXCEPT ![L].entries[i] = e]
      BY DEF Put
    <2> HIDE DEF r, p, L
    <2>2. p = [r EXCEPT ![L] = [s EXCEPT !.entries = [s.entries EXCEPT ![i] = e]]]
      BY <2>1
    <2>3. [s EXCEPT !.entries = [s.entries EXCEPT ![i] = e]] = q
      <3> DEFINE es == s.entries
      <3>1. s = [bucket |-> b, entries |-> es]
        BY <1>4
      <3> HIDE DEF es, s
      <3>2. QED
        BY <3>1 DEF es
    <2> HIDE DEF q
    <2>4. QED
      BY <1>3, <2>2, <2>3
  <1> HIDE DEF r, p, q
  <1>7. L \in 1..L /\ p[L] = q /\ \A n \in 1..(L - 1) : p[n] = r[n]
    BY <1>3, <1>6
  <1>8. Listing(p) /\ Len(p) = L
    <2>1. \A n \in 1..L : Slot(p[n]) /\ p[n].bucket = r[n].bucket
      BY <1>2, <1>3, <1>5, <1>6 DEF Listing
    <2>2. \A n, m \in 1..L : p[m].bucket = p[n].bucket => m = n
      BY <1>2, <1>3, <2>1 DEF Listing
    <2>3. p = [n \in 1..L |-> p[n]]
      BY <1>6
    <2>4. L <= CacheBuckets
      BY <1>2 DEF Listing
    <2>5. QED
      BY <1>3, <2>1, <2>2, <2>3, <2>4, ListingForm
  <1>9. Last(p).entries = q.entries
    BY <1>7, <1>8 DEF Last
  <1>10. QED
    BY <1>3, <1>5, <1>7, <1>8, <1>9 DEF r, p

\* The caches on the way, when several buckets are loaded in turn.
LEMMA LoadsForm ==
  ASSUME NEW G, NEW c \in G, NEW bs, Len(bs) \in Nat,
         \A d \in G, k \in 1..Len(bs) : Load(d, bs[k]) \in G
  PROVE  LET h == Loads(c, bs) IN
         /\ h[0] = c /\ \A k \in 1..Len(bs) : h[k] = Load(h[k - 1], bs[k])
         /\ LoadEach(c, bs) = h[Len(bs)] /\ \A k \in 0..Len(bs) : h[k] \in G
  <1> DEFINE N == Len(bs)
             Is(g) == g = [k \in 0..N |-> IF k = 0 THEN c ELSE Load(g[k - 1], bs[k])]
             F == [k \in 1..N |-> [d \in G |-> Load(d, bs[k])]]
             h == CHOOSE g : Is(g)
  <1>1. F \in [1..N -> [G -> G]] /\ \A d \in G, k \in 1..N : F[k][d] = Load(d, bs[k])
    OBVIOUS
  <1>b. N \in Nat
    OBVIOUS
  <1> HIDE DEF F, N
  <1>c. PICK f \in [0..N -> G] : Iterates(f, c, N, F)
    BY <1>1, <1>b, Recursion
  <1>2. f[0] = c /\ \A k \in 1..N : f[k] = F[k][f[k - 1]]
    BY <1>c DEF Iterates
  <1>3. Is(f)
    <2>1. \A k \in 1..N : f[k] = Load(f[k - 1], bs[k])
      <3> SUFFICES ASSUME NEW k \in 1..N PROVE f[k] = Load(f[k - 1], bs[k])
        OBVIOUS
      <3>1. k - 1 \in 0..N
        BY <1>b
      <3>2. f[k - 1] \in G /\ f[k] = F[k][f[k - 1]]
        BY <1>2, <1>c, <3>1
      <3>3. QED
        BY <1>1, <3>2
    <2>2. f = [k \in 0..N |-> f[k]]
      OBVIOUS
    <2>3. \A k \in 0..N : f[k] = IF k = 0 THEN c ELSE Load(f[k - 1], bs[k])
      BY <1>2, <1>b, <2>1
    <2>4. QED
      BY <2>2, <2>3
  <1>4. Loads(c, bs) = h /\ LoadEach(c, bs) = h[N]
    BY DEF Loads, LoadEach, N
  <1>5. Is(h)
    <2> HIDE DEF Is
    <2>1. QED
      BY <1>3
  <1> HIDE DEF h
  <1>6. h[0] = c /\ \A k \in 1..N : h[k] = Load(h[k - 1], bs[k])
    BY <1>5, <1>b
  <1> DEFINE S == {k \in 0..N : h[k] \in G}
  <1>7. \A k \in 0..N : k \in S
    <2>1. 0 \in S
      BY <1>6, <1>b
    <2>2. \A k \in 1..N : k - 1 \in S => k \in S
      BY <1>6, <1>b DEF N
    <2> HIDE DEF S, Is
    <2>3. QED
      BY <2>1, <2>2, <1>b, Upto
  <1>8. QED
    BY <1>4, <1>6, <1>7 DEF N

Bins == UNION {[bucket : {b}, entries : [In(b) -> Entries]] : b \in ToSet(Buckets)}

LEMMA ListingIn == ASSUME NEW c, Listing(c) PROVE c \in Seq(Bins)
  <1>1. Len(c) \in Nat /\ DOMAIN c = 1..Len(c) /\ c = [n \in 1..Len(c) |-> c[n]]
    BY ListingIs
  <1>2. \A n \in 1..Len(c) : c[n] \in Bins
    <2> SUFFICES ASSUME NEW n \in 1..Len(c) PROVE c[n] \in Bins
      OBVIOUS
    <2>1. Slot(c[n])
      BY <1>1 DEF Listing
    <2>2. c[n] \in [bucket : {c[n].bucket}, entries : [In(c[n].bucket) -> Entries]]
      BY <2>1 DEF Slot
    <2>3. QED
      BY <2>1, <2>2 DEF Bins, Slot
  <1>3. QED
    BY <1>1, <1>2, FormIs

LEMMA LoadsAre ==
  ASSUME disk \in [Ids -> Entries], NEW c, Listing(c), NEW bs, Len(bs) \in Nat,
         \A k \in 1..Len(bs) : bs[k] \in ToSet(Buckets)
  PROVE  LET h == Loads(c, bs) IN
         /\ h[0] = c /\ \A k \in 1..Len(bs) : h[k] = Load(h[k - 1], bs[k])
         /\ LoadEach(c, bs) = h[Len(bs)] /\ \A k \in 0..Len(bs) : Listing(h[k])
  <1> DEFINE G == {d \in Seq(Bins) : Listing(d)}
             h == Loads(c, bs)
  <1>1. c \in G
    BY ListingIn
  <1>2. \A d \in G, k \in 1..Len(bs) : Load(d, bs[k]) \in G
    <2> SUFFICES ASSUME NEW d \in G, NEW k \in 1..Len(bs) PROVE Load(d, bs[k]) \in G
      OBVIOUS
    <2>1. Listing(Load(d, bs[k]))
      BY LoadIs
    <2>2. QED
      BY <2>1, ListingIn
  <1> HIDE DEF G, h
  <1>3. /\ h[0] = c /\ \A k \in 1..Len(bs) : h[k] = Load(h[k - 1], bs[k])
        /\ LoadEach(c, bs) = h[Len(bs)] /\ \A k \in 0..Len(bs) : h[k] \in G
    BY <1>1, <1>2, LoadsForm DEF h
  <1>4. \A k \in 0..Len(bs) : Listing(h[k])
    BY <1>3 DEF G
  <1>5. QED
    BY <1>3, <1>4 DEF h

LEMMA LoadEachListing ==
  ASSUME disk \in [Ids -> Entries], NEW c, Listing(c), NEW bs, Len(bs) \in Nat,
         \A k \in 1..Len(bs) : bs[k] \in ToSet(Buckets)
  PROVE  Listing(LoadEach(c, bs))
  <1>1. Len(bs) \in 0..Len(bs)
    OBVIOUS
  <1>2. QED
    BY <1>1, LoadsAre

LEMMA BucketsIn == Len(Buckets) \in Nat /\ \A k \in 1..Len(Buckets) : Buckets[k] \in ToSet(Buckets)
  BY BucketsAre DEF ToSet

\* A bucket comes once in the order of the buckets, or more often: the first of its places.
LEMMA PlaceIs ==
  ASSUME NEW i \in Ids
  PROVE  (CHOOSE n \in 1..Len(Buckets) : Buckets[n] = BucketOf[i]) \in 1..Len(Buckets)
         /\ Buckets[CHOOSE n \in 1..Len(Buckets) : Buckets[n] = BucketOf[i]] = BucketOf[i]
  <1>1. \E n \in 1..Len(Buckets) : Buckets[n] = BucketOf[i]
    BY InIs, BucketsAre DEF ToSet
  <1>2. QED
    BY <1>1

-----------------------------------------------------------------------------
(* Hot records and partial functions.                                      *)

LEMMA HotFits ==
  ASSUME NEW h \in [Ids -> Values], Cardinality(Hots(h)) <= MaxHot,
         NEW j \in Ids, NEW g \in [Ids -> Values], \A i \in Ids : i # j => g[i] = h[i], NEW r \in Trim(g)
  PROVE  /\ r \in [Ids -> Values] /\ Cardinality(Hots(r)) <= MaxHot
         /\ \A i \in Ids : r[i] = None \/ r[i] = g[i]
  <1> DEFINE old == Hots(h)
             held == Hots(g)
             now == Hots(r)
  <1>1. None \in Values
    BY DEF Values
  <1>2. IsFiniteSet(Ids) /\ MaxHot \in Nat
    BY StorageAssumption
  <1>3. IsFiniteSet(old) /\ Cardinality(old) \in Nat /\ old \in SUBSET Ids
    <2>1. old \in SUBSET Ids
      BY DEF Hots
    <2>2. QED
      BY <1>2, <2>1, FS_Subset, FS_CardinalityType
  <1>4. /\ Cardinality(old \cup {j}) <= MaxHot + 1 /\ IsFiniteSet(old \cup {j})
        /\ Cardinality(old \cup {j}) \in Nat
    <2>0. Cardinality(old) <= MaxHot
      OBVIOUS
    <2> HIDE DEF old
    <2>1. /\ IsFiniteSet(old \cup {j})
          /\ Cardinality(old \cup {j}) = IF j \in old THEN Cardinality(old) ELSE Cardinality(old) + 1
      BY <1>3, FS_AddElement
    <2>2. QED
      BY <1>2, <1>3, <2>0, <2>1
  <1>5. held \in SUBSET (old \cup {j})
    BY DEF Hots
  <1>6. IsFiniteSet(held) /\ Cardinality(held) \in Nat /\ Cardinality(held) <= MaxHot + 1
    <2> HIDE DEF old, held
    <2>1. IsFiniteSet(held) /\ Cardinality(held) <= Cardinality(old \cup {j})
      BY <1>4, <1>5, FS_Subset
    <2>2. Cardinality(held) \in Nat
      BY <2>1, FS_CardinalityType
    <2>3. QED
      BY <1>2, <1>4, <2>1, <2>2
  <1>7. r \in IF Cardinality(held) <= MaxHot THEN {g} ELSE {[g EXCEPT ![i] = None] : i \in held}
    BY DEF Trim, Hots
  <1>8. CASE Cardinality(held) <= MaxHot
    <2>1. r = g
      BY <1>7, <1>8
    <2>2. QED
      BY <1>1, <1>8, <2>1
  <1>9. CASE ~(Cardinality(held) <= MaxHot)
    <2>1. PICK i \in held : r = [g EXCEPT ![i] = None]
      <3> HIDE DEF held
      <3>1. QED
        BY <1>7, <1>9
    <2>2. r \in [Ids -> Values] /\ \A k \in Ids : r[k] = None \/ r[k] = g[k]
      BY <1>1, <2>1
    <2>3. now = held \ {i}
      BY <1>1, <2>1 DEF Hots
    <2> HIDE DEF held, now
    <2>4. Cardinality(held \ {i}) = Cardinality(held) - 1
      BY <1>6, <2>1, FS_RemoveElement
    <2>5. Cardinality(now) <= MaxHot
      BY <1>2, <1>6, <2>3, <2>4
    <2>6. QED
      BY <2>2, <2>5 DEF now
  <1>10. QED
    BY <1>8, <1>9

LEMMA EntryFields ==
  ASSUME NEW e \in Entries
  PROVE  e.version \in Nat /\ e.value \in Values /\ e = [version |-> e.version, value |-> e.value]
  BY DEF Entries, Values

\* What a scan finds is an entry, read when its bucket comes.
LEMMA ScanEntryIs ==
  ASSUME disk \in [Ids -> Entries], Listing(cache), NEW i \in Ids
  PROVE  /\ ScanEntry(i) \in Entries
         /\ \E n \in 1..Len(Buckets) : /\ Buckets[n] = BucketOf[i]
                                      /\ ScanEntry(i) = Entry(Loads(cache, Buckets)[n - 1], i)
                                      /\ Listing(Loads(cache, Buckets)[n - 1])
  <1> DEFINE h == Loads(cache, Buckets)
             n == CHOOSE n \in 1..Len(Buckets) : Buckets[n] = BucketOf[i]
  <1>1. n \in 1..Len(Buckets) /\ Buckets[n] = BucketOf[i] /\ Len(Buckets) \in Nat
    BY PlaceIs, BucketsIn
  <1>2. \A k \in 0..Len(Buckets) : Listing(h[k])
    BY BucketsIn, LoadsAre
  <1>3. ScanEntry(i) = Entry(h[n - 1], i)
    BY DEF ScanEntry
  <1> HIDE DEF n, h
  <1>4. n - 1 \in 0..Len(Buckets)
    BY <1>1
  <1>5. Listing(h[n - 1])
    BY <1>2, <1>4
  <1>6. ScanEntry(i) \in Entries
    BY <1>3, <1>5, EntryIs
  <1>7. QED
    BY <1>1, <1>3, <1>5, <1>6 DEF h

LEMMA ScanIs ==
  ASSUME disk \in [Ids -> Entries], Listing(cache), NEW r \in Scanned
  PROVE  /\ r \in [Ids -> Values] /\ Cardinality(Hots(r)) <= MaxHot
         /\ \A i \in Ids : r[i] = None \/ r[i] = ScanEntry(i).value
  <1> DEFINE live == {i \in Ids : ScanEntry(i).value # None}
             most == Min({MaxHot, Cardinality(live)})
             now == Hots(r)
  <1>1. \A i \in Ids : ScanEntry(i).value \in Values
    BY ScanEntryIs, EntryFields
  <1>2. PICK h \in SUBSET live : /\ Cardinality(h) = most
                                 /\ r = [i \in Ids |-> IF i \in h THEN ScanEntry(i).value ELSE None]
    BY DEF Scanned
  <1>3. None \in Values
    BY DEF Values
  <1>4. IsFiniteSet(Ids) /\ MaxHot \in Nat
    BY StorageAssumption
  <1>5. IsFiniteSet(live) /\ Cardinality(live) \in Nat
    BY <1>4, FS_Subset, FS_CardinalityType
  <1>6. most <= MaxHot
    <2> HIDE DEF live
    <2>1. \E x \in {MaxHot, Cardinality(live)} : \A y \in {MaxHot, Cardinality(live)} : x <= y
      BY <1>4, <1>5
    <2>2. \A y \in {MaxHot, Cardinality(live)} : most <= y
      BY <2>1 DEF Min
    <2>3. QED
      BY <2>2
  <1>7. now \in SUBSET h
    BY <1>2 DEF Hots
  <1>8. Cardinality(now) <= MaxHot
    <2>1. IsFiniteSet(h)
      BY <1>5, FS_Subset
    <2> HIDE DEF live, most, now
    <2>2. IsFiniteSet(now) /\ Cardinality(now) <= Cardinality(h)
      BY <1>7, <2>1, FS_Subset
    <2>3. Cardinality(now) \in Nat /\ Cardinality(h) \in Nat
      BY <2>1, <2>2, FS_CardinalityType
    <2>4. QED
      BY <1>2, <1>4, <1>6, <2>2, <2>3
  <1>9. r \in [Ids -> Values] /\ \A i \in Ids : r[i] = None \/ r[i] = ScanEntry(i).value
    BY <1>1, <1>2, <1>3
  <1>10. QED
    BY <1>8, <1>9

LEMMA ValueIs ==
  ASSUME disk \in [Ids -> Entries], Listing(cache), hot \in [Ids -> Values], NEW i \in Ids
  PROVE  Value(i) \in Values
  BY EntryIs, EntryFields DEF Value

LEMMA NoHot ==
  LET h == [i \in Ids |-> None]
  IN  h \in [Ids -> Values] /\ Cardinality(Hots(h)) <= MaxHot
  <1> DEFINE h == [i \in Ids |-> None]
  <1>1. h \in [Ids -> Values]
    BY DEF Values
  <1>2. Hots(h) = {}
    BY DEF Hots
  <1>3. Cardinality(Hots(h)) = 0
    BY <1>2, FS_EmptySet
  <1>4. QED
    BY <1>1, <1>3, StorageAssumption

LEMMA NoCache == Listing(<<>>)
  <1>1. \A n \in 1..0 : FALSE
    OBVIOUS
  <1>2. <<>> = [k \in 1..0 |-> <<>>[k]]
    OBVIOUS
  <1>3. 0 <= CacheBuckets
    BY StorageAssumption
  <1>4. QED
    BY <1>1, <1>2, <1>3, ListingForm

LEMMA PartIs ==
  ASSUME NEW X, NEW f, Partly(f, X)
  PROVE  DOMAIN f \in SUBSET Ids /\ \A i \in DOMAIN f : i \in Ids /\ f[i] \in X
  BY DEF Partly

\* Reading some buckets in turn, or one.
BucketSeq(bs) == Len(bs) \in Nat /\ \A k \in 1..Len(bs) : bs[k] \in ToSet(Buckets)

LEMMA ReadsAre ==
  ASSUME disk \in [Ids -> Entries], Listing(cache), harmed \in BOOLEAN, NEW bs, BucketSeq(bs), Reads(bs)
  PROVE  Listing(cache') /\ harmed' \in BOOLEAN /\ (harmed => harmed')
  BY LoadEachListing DEF Reads, BucketSeq, Amiss

LEMMA OneBucket ==
  ASSUME disk \in [Ids -> Entries], Listing(cache), NEW i \in Ids
  PROVE  /\ BucketSeq(<<BucketOf[i]>>) /\ LoadEach(cache, <<BucketOf[i]>>) = Load(cache, BucketOf[i])
         /\ Amiss(<<BucketOf[i]>>) =
              (Held(cache, BucketOf[i]) = {} /\ (moved \/ BucketOf[i] \in DOMAIN job.dirty))
  <1> DEFINE b == BucketOf[i]
             bs == <<b>>
             h == Loads(cache, bs)
  <1>1. b \in ToSet(Buckets)
    BY InIs
  <1>2. Len(bs) = 1 /\ bs[1] = b
    OBVIOUS
  <1> HIDE DEF b, bs, h
  <1>3. Len(bs) \in Nat /\ \A k \in 1..Len(bs) : bs[k] \in ToSet(Buckets)
    BY <1>1, <1>2
  <1>4. /\ h[0] = cache /\ \A k \in 1..Len(bs) : h[k] = Load(h[k - 1], bs[k])
        /\ LoadEach(cache, bs) = h[Len(bs)]
    BY <1>3, LoadsAre DEF h
  <1>5. LoadEach(cache, bs) = Load(cache, b)
    <2>1. h[1] = Load(h[1 - 1], bs[1]) /\ 1 - 1 = 0
      BY <1>2, <1>4
    <2>2. QED
      BY <1>2, <1>4, <2>1
  <1>6. Amiss(bs) = (Held(cache, b) = {} /\ (moved \/ b \in DOMAIN job.dirty))
    <2>1. Amiss(bs) = (Held(h[1 - 1], bs[1]) = {} /\ (moved \/ bs[1] \in DOMAIN job.dirty))
      <3>1. 1..Len(bs) = {1}
        BY <1>2
      <3>2. QED
        BY <3>1 DEF Amiss, h
    <2>2. 1 - 1 = 0
      OBVIOUS
    <2>3. QED
      BY <1>2, <1>4, <2>1, <2>2
  <1>7. QED
    BY <1>3, <1>5, <1>6 DEF BucketSeq, bs, b

\* What reading a record leaves in the caches.
LEMMA TouchIs ==
  ASSUME disk \in [Ids -> Entries], Listing(cache), hot \in [Ids -> Values], harmed \in BOOLEAN,
         Cardinality(Hots(hot)) <= MaxHot, NEW j \in Ids, Touch(j)
  PROVE  /\ Listing(cache') /\ harmed' \in BOOLEAN /\ hot' \in [Ids -> Values]
         /\ Cardinality(Hots(hot')) <= MaxHot
         /\ \A i \in Ids : hot'[i] = None \/ hot'[i] = hot[i] \/ (i = j /\ hot'[i] = Value(j))
  <1>1. BucketSeq(<<BucketOf[j]>>) /\ Reads(<<BucketOf[j]>>)
    BY OneBucket DEF Touch
  <1>2. Listing(cache') /\ harmed' \in BOOLEAN
    BY <1>1, ReadsAre
  <1>3. Value(j) \in Values /\ hot' \in Trim([hot EXCEPT ![j] = Value(j)])
    BY ValueIs DEF Touch
  <1>4. /\ hot' \in [Ids -> Values] /\ Cardinality(Hots(hot')) <= MaxHot
        /\ \A i \in Ids : hot'[i] = None \/ hot'[i] = hot[i] \/ (i = j /\ hot'[i] = Value(j))
    <2> DEFINE g == [hot EXCEPT ![j] = Value(j)]
    <2>1. g \in [Ids -> Values] /\ \A i \in Ids : IF i = j THEN g[i] = Value(j) ELSE g[i] = hot[i]
      BY <1>3
    <2>2. hot' \in Trim(g)
      BY <1>3
    <2> HIDE DEF g
    <2>3. /\ hot' \in [Ids -> Values] /\ Cardinality(Hots(hot')) <= MaxHot
          /\ \A i \in Ids : hot'[i] = None \/ hot'[i] = g[i]
      BY <2>1, <2>2, HotFits
    <2>4. QED
      BY <2>1, <2>3
  <1>5. QED
    BY <1>2, <1>4

-----------------------------------------------------------------------------
(* Transactions.                                                           *)

LEMMA MentionedIs ==
  ASSUME NEW t \in Txns, tx[t].program \in Seq(Ops), NEW ids \in SUBSET Ids
  PROVE  LET m == Mentioned(t, ids) IN
         m \in Seq(Ids) /\ Len(m) \in Nat /\ DOMAIN m = 1..Len(m) /\ \A n \in 1..Len(m) : m[n] \in ids
  <1> DEFINE ops == tx[t].program
             names(n, i) == ops[n].kind # "all" /\ ops[n].id = i
             firsts == {n \in DOMAIN ops : \E i \in ids : names(n, i) /\ \A k \in 1..(n - 1) : ~names(k, i)}
             s == [n \in DOMAIN ops |-> ops[n].id]
             m == Mentioned(t, ids)
  <1>1. Len(ops) \in Nat /\ DOMAIN ops = 1..Len(ops)
    OBVIOUS
  <1>2. m = AtPlaces(s, firsts)
    BY DEF Mentioned
  <1>3. firsts \in SUBSET (1..Len(ops)) /\ \A n \in firsts : s[n] \in ids
    BY <1>1
  <1> HIDE DEF firsts, s, ops
  <1>a. Len(ops) \in Nat /\ \A i \in firsts : s[i] \in ids
    BY <1>1, <1>3
  <1>b. firsts \in SUBSET (1..Len(ops))
    BY <1>3
  <1>4. /\ m \in Seq(ids) /\ Cardinality(firsts) \in Nat /\ Len(m) = Cardinality(firsts)
    <2> DEFINE K == Len(ops)
    <2>1. K \in Nat /\ firsts \in SUBSET (1..K)
      BY <1>a, <1>b
    <2> HIDE DEF K, m
    <2>2. /\ AtPlaces(s, firsts) \in Seq(ids) /\ Cardinality(firsts) \in Nat
          /\ Len(AtPlaces(s, firsts)) = Cardinality(firsts)
      BY <1>a, <2>1, AtPlacesIs
    <2>3. QED
      BY <1>2, <2>2
  <1> HIDE DEF m
  <1>5. m \in Seq(Ids) /\ DOMAIN m = 1..Len(m) /\ Len(m) \in Nat /\ \A n \in 1..Len(m) : m[n] \in ids
    BY <1>4
  <1>6. QED
    BY <1>5 DEF m

\* A record that the program names is mentioned.
LEMMA MentionedAll ==
  ASSUME NEW t \in Txns, tx[t].program \in Seq(Ops), NEW ids \in SUBSET Ids, NEW i \in ids,
         Names(tx[t].program, i)
  PROVE  \E n \in DOMAIN Mentioned(t, ids) : Mentioned(t, ids)[n] = i
  <1> DEFINE ops == tx[t].program
             names(n, j) == ops[n].kind # "all" /\ ops[n].id = j
             firsts == {n \in DOMAIN ops : \E j \in ids : names(n, j) /\ \A k \in 1..(n - 1) : ~names(k, j)}
             s == [n \in DOMAIN ops |-> ops[n].id]
             m == Mentioned(t, ids)
             K == Len(ops)
             T == {n \in 1..K : names(n, i)}
  <1>1. K \in Nat /\ DOMAIN ops = 1..K
    OBVIOUS
  <1>2. m = AtPlaces(s, firsts)
    BY DEF Mentioned
  <1>3. firsts \in SUBSET (1..K)
    BY <1>1
  <1>4. PICK f \in T : \A n \in T : f <= n
    <2>1. T # {}
      BY <1>1 DEF Names
    <2>2. T \in SUBSET Nat
      BY <1>1
    <2> HIDE DEF T
    <2>3. QED
      BY <2>1, <2>2, Least
  <1>5. f \in 1..K /\ names(f, i) /\ \A k \in 1..(f - 1) : ~names(k, i)
    <2>1. f \in 1..K /\ names(f, i)
      BY <1>4
    <2>2. \A k \in 1..(f - 1) : k \in 1..K /\ ~(f <= k)
      BY <1>1, <2>1
    <2>3. QED
      BY <1>4, <2>1, <2>2
  <1>6. f \in firsts /\ s[f] = i
    BY <1>1, <1>5
  <1>7. DOMAIN m = 1..Cardinality(firsts)
    <2> HIDE DEF firsts, s
    <2>1. QED
      BY <1>2, AtPlacesForm
  <1> HIDE DEF firsts, s, K, m
  <1>8. \E n \in 1..Cardinality(firsts) : AtPlaces(s, firsts)[n] = s[f]
    BY <1>1, <1>3, <1>6, AtEveryPlace
  <1>9. QED
    BY <1>2, <1>6, <1>7, <1>8 DEF m

\* Without a conflict, validate reads the bucket of every record that was read.
LEMMA ValidatesAll ==
  ASSUME NEW t \in Txns, Txn(tx[t]), ~Conflicts(t), Named(tx[t]), NEW i \in DOMAIN tx[t].reads
  PROVE  \E k \in 1..Len(Validates(t)) : Validates(t)[k] = BucketOf[i]
  <1> DEFINE ids == Mentioned(t, DOMAIN tx[t].reads)
             stale == {n \in DOMAIN ids : Entry(cache, ids[n]).version # tx[t].reads[ids[n]]}
             N == Len(ids)
             bs == [k \in 1..N |-> BucketOf[ids[k]]]
  <1>1. tx[t].program \in Seq(Ops) /\ DOMAIN tx[t].reads \in SUBSET Ids
    BY DEF Txn, Partly
  <1>2. /\ N \in Nat /\ DOMAIN ids = 1..N /\ \A n \in 1..N : ids[n] \in DOMAIN tx[t].reads
    BY <1>1, MentionedIs
  <1>3. \E n \in DOMAIN ids : ids[n] = i
    BY <1>1, MentionedAll DEF Named
  <1>4. stale = {}
    BY <1>2 DEF Conflicts
  <1>5. Min(stale \cup {N}) = N
    <2> DEFINE S == {N}
    <2>1. stale \cup {N} = S
      BY <1>4
    <2>2. N \in S /\ \A x \in S : N <= x
      BY <1>2
    <2> HIDE DEF S
    <2>3. \A x \in S : x = N
      BY DEF S
    <2>4. Min(S) = N
      BY <2>2, <2>3 DEF Min
    <2>5. QED
      BY <2>1, <2>4
  <1>6. Validates(t) = bs
    BY <1>5 DEF Validates
  <1> HIDE DEF ids, stale
  <1>7. Len(bs) = N
    <2>1. bs = [k \in 1..N |-> bs[k]] /\ \A k \in 1..N : bs[k] \in {bs[j] : j \in 1..N}
      OBVIOUS
    <2> HIDE DEF bs
    <2>2. QED
      BY <1>2, <2>1, FormIs
  <1>8. QED
    BY <1>2, <1>3, <1>6, <1>7

LEMMA ValidatesIs ==
  ASSUME disk \in [Ids -> Entries], Listing(cache), NEW t \in Txns, Txn(tx[t])
  PROVE  BucketSeq(Validates(t))
  <1> DEFINE ids == Mentioned(t, DOMAIN tx[t].reads)
             stale == {n \in DOMAIN ids : Entry(cache, ids[n]).version # tx[t].reads[ids[n]]}
             n == Min(stale \cup {Len(ids)})
             bs == [k \in 1..n |-> BucketOf[ids[k]]]
  <1>1. tx[t].program \in Seq(Ops) /\ DOMAIN tx[t].reads \in SUBSET Ids
    BY DEF Txn, Partly
  <1>2. ids \in Seq(Ids) /\ Len(ids) \in Nat /\ DOMAIN ids = 1..Len(ids)
    BY <1>1, MentionedIs
  <1> HIDE DEF ids
  <1>3. n \in 0..Len(ids)
    <2>1. stale \cup {Len(ids)} \in SUBSET Nat
      BY <1>2
    <2> DEFINE S == stale \cup {Len(ids)}
    <2>2. S # {} /\ Len(ids) \in S
      OBVIOUS
    <2>3. PICK m \in S : \A k \in S : m <= k
      <3> HIDE DEF stale
      <3>1. S \in SUBSET Nat
        BY <2>1
      <3> HIDE DEF S
      <3>2. QED
        BY <2>2, <3>1, Least
    <2>4. n \in S /\ \A k \in S : n <= k
      <3> HIDE DEF S, stale
      <3>1. QED
        BY <2>3 DEF Min, S
    <2>5. QED
      <3>1. n \in Nat /\ n <= Len(ids)
        <4> HIDE DEF n
        <4>1. n \in Nat
          BY <2>1, <2>4
        <4>2. n <= Len(ids)
          BY <2>2, <2>4
        <4>3. QED
          BY <4>1, <4>2
      <3> HIDE DEF n
      <3>2. QED
        BY <1>2, <3>1
  <1>4. \A k \in 1..n : BucketOf[ids[k]] \in ToSet(Buckets)
    BY <1>2, <1>3, InIs
  <1>5. Validates(t) = bs
    BY DEF Validates, ids
  <1> HIDE DEF n, stale
  <1>6. Len(bs) = n /\ n \in Nat /\ \A k \in 1..n : bs[k] \in ToSet(Buckets)
    <2>1. n \in Nat
      BY <1>2, <1>3
    <2>2. \A k \in 1..n : bs[k] \in ToSet(Buckets)
      BY <1>4
    <2>3. bs = [k \in 1..n |-> bs[k]]
      OBVIOUS
    <2> HIDE DEF bs
    <2>4. QED
      BY <2>1, <2>2, <2>3, FormIs
  <1>7. QED
    BY <1>5, <1>6 DEF BucketSeq

-----------------------------------------------------------------------------
(* The log.                                                                *)

LEMMA LogIs ==
  ASSUME LogTyped
  PROVE  /\ Len(wal) \in Nat /\ DOMAIN wal = 1..Len(wal) /\ (wal = <<>> <=> Len(wal) = 0)
         /\ \A n \in 1..Len(wal) :
              /\ wal[n].base \in Nat /\ wal[n].result \in Nat /\ wal[n].result > wal[n].base
              /\ wal[n].ids \in Seq(Ids) /\ Partly(wal[n].after, Values)
              /\ ToSet(wal[n].ids) \subseteq DOMAIN wal[n].after /\ wal[n].change \in Changes \cup {None}
              /\ Line(wal[n]) /\ wal[n] \in ToSet(wal)
         /\ Len(history) \in Nat /\ DOMAIN history = 1..Len(history)
  <1> DEFINE D == ToSet(wal)
             E == ToSet(history)
  <1>1. wal \in Seq(D) /\ history \in Seq(E)
    BY DEF LogTyped
  <1> HIDE DEF D, E
  <1>2. /\ Len(wal) \in Nat /\ DOMAIN wal = 1..Len(wal) /\ (wal = <<>> <=> Len(wal) = 0)
        /\ Len(history) \in Nat /\ DOMAIN history = 1..Len(history)
    BY <1>1
  <1>3. \A n \in 1..Len(wal) : Line(wal[n]) /\ wal[n] \in ToSet(wal)
    BY <1>2 DEF LogTyped, ToSet
  <1>4. ASSUME NEW n \in 1..Len(wal)
        PROVE  /\ wal[n].base \in Nat /\ wal[n].result \in Nat /\ wal[n].result > wal[n].base
               /\ wal[n].ids \in Seq(Ids) /\ Partly(wal[n].after, Values)
               /\ ToSet(wal[n].ids) \subseteq DOMAIN wal[n].after /\ wal[n].change \in Changes \cup {None}
    <2> DEFINE l == wal[n]
    <2>1. Line(l)
      BY <1>3
    <2> HIDE DEF l
    <2>2. /\ l.base \in Nat /\ l.ids \in Seq(Ids) /\ Len(l.ids) > 0 /\ l.result = l.base + Len(l.ids)
          /\ Partly(l.after, Values) /\ ToSet(l.ids) \subseteq DOMAIN l.after
          /\ l.change \in Changes \cup {None}
      BY <2>1 DEF Line
    <2>3. Len(l.ids) \in Nat
      BY <2>2
    <2>4. l.result \in Nat /\ l.result > l.base
      BY <2>2, <2>3
    <2>5. QED
      BY <2>2, <2>4 DEF l
  <1>5. QED
    BY <1>2, <1>3, <1>4

\* Every line begins where an earlier one ends, or later.
LEMMA ChainIs ==
  ASSUME LogTyped, LogOK
  PROVE  \A m, n \in 1..Len(wal) : m < n => wal[m].result <= wal[n].base
  <1>1. Len(wal) \in Nat /\ \A n \in 1..Len(wal) : wal[n].base \in Nat /\ wal[n].result \in Nat /\ wal[n].result > wal[n].base
    BY LogIs
  <1>2. \A n \in 1..Len(wal) - 1 : wal[n + 1].base = wal[n].result
    BY DEF LogOK
  <1> SUFFICES ASSUME NEW m \in 1..Len(wal)
               PROVE  \A n \in 1..Len(wal) : m < n => wal[m].result <= wal[n].base
    OBVIOUS
  <1> DEFINE T == {n \in 1..Len(wal) : m < n /\ ~(wal[m].result <= wal[n].base)}
  <1>3. CASE T = {}
    BY <1>3
  <1>4. CASE T # {}
    <2>1. PICK n \in T : \A k \in T : n <= k
      <3>1. T \in SUBSET Nat
        OBVIOUS
      <3> HIDE DEF T
      <3>2. QED
        BY <1>4, <3>1, Least
    <2>2. n \in 1..Len(wal) /\ m < n /\ ~(wal[m].result <= wal[n].base)
      BY <2>1
    <2>3. n - 1 \in 1..Len(wal) - 1 /\ n - 1 \in 1..Len(wal) /\ ~(n <= n - 1) /\ (n - 1) + 1 = n
      BY <1>1, <2>2
    <2>4. wal[n].base = wal[n - 1].result
      BY <1>2, <2>3
    <2>5. CASE n - 1 = m
      BY <1>1, <2>2, <2>4, <2>5
    <2>6. CASE n - 1 # m
      <3>1. m < n - 1
        BY <1>1, <2>2, <2>3, <2>6
      <3>2. wal[m].result <= wal[n - 1].base
        BY <2>1, <2>3, <3>1
      <3>3. QED
        BY <1>1, <2>2, <2>3, <2>4, <3>2
    <2>7. QED
      BY <2>5, <2>6
  <1>5. QED
    BY <1>3, <1>4

\* The checkpoint cuts the log: the lines after a place are the pending ones.
CutAt(k) ==
  /\ k \in 0..Len(wal)
  /\ Pending \in Seq(ToSet(wal)) /\ Len(Pending) = Len(wal) - k
  /\ \A n \in 1..(Len(wal) - k) : Pending[n] = wal[k + n]
  /\ \A n \in 1..Len(wal) : wal[n].result > checkpoint.sequence <=> n > k
  /\ k = 0 /\ wal # <<>> => wal[1].base = checkpoint.sequence
  /\ k > 0 => wal[k].result = checkpoint.sequence

LEMMA PendingIs ==
  ASSUME LogTyped, LogOK, Meta(checkpoint)
  PROVE  \E k \in 0..Len(wal) : CutAt(k)
  <1> DEFINE s == checkpoint.sequence
             N == Len(wal)
  <1>0. s \in Nat
    BY DEF Meta
  <1>1. /\ N \in Nat /\ DOMAIN wal = 1..N /\ (wal = <<>> <=> N = 0)
        /\ \A n \in 1..N : /\ wal[n].base \in Nat /\ wal[n].result \in Nat
                           /\ wal[n].result > wal[n].base /\ wal[n] \in ToSet(wal)
    BY LogIs
  <1>2. \A m, n \in 1..N : m < n => wal[m].result <= wal[n].base
    BY ChainIs
  <1> HIDE DEF s, N
  <1>3. PICK k \in 0..N : /\ \A n \in 1..N : wal[n].result > s <=> n > k
                          /\ k = 0 /\ wal # <<>> => wal[1].base = s
                          /\ k > 0 => wal[k].result = s
    <2>1. CASE wal = <<>>
      <3>1. 0 \in 0..N /\ N = 0
        BY <1>1, <2>1
      <3>2. QED
        BY <2>1, <3>1
    <2>2. CASE wal # <<>> /\ s = wal[1].base
      <3>1. 0 \in 0..N /\ 1 \in 1..N
        BY <1>1, <2>2
      <3>2. ASSUME NEW n \in 1..N PROVE wal[n].result > s
        <4>1. CASE n = 1
          BY <1>1, <2>2, <4>1
        <4>2. CASE n # 1
          <5>1. 1 < n
            BY <1>1, <4>2
          <5>2. wal[1].result <= wal[n].base
            BY <1>2, <3>1, <5>1
          <5>3. wal[1].base \in Nat /\ wal[1].result \in Nat /\ wal[1].result > wal[1].base
            BY <1>1, <3>1
          <5>4. wal[n].base \in Nat /\ wal[n].result \in Nat /\ wal[n].result > wal[n].base
            BY <1>1
          <5>5. QED
            BY <2>2, <5>2, <5>3, <5>4
        <4>3. QED
          BY <4>1, <4>2
      <3>3. \A n \in 1..N : n > 0
        BY <1>1
      <3>4. QED
        BY <2>2, <3>1, <3>2, <3>3
    <2>3. CASE \E n \in 1..N : s = wal[n].result
      <3>1. PICK k \in 1..N : s = wal[k].result
        BY <2>3
      <3>2. ASSUME NEW n \in 1..N PROVE wal[n].result > s <=> n > k
        <4>1. /\ wal[n].base \in Nat /\ wal[n].result \in Nat /\ wal[n].result > wal[n].base
              /\ wal[k].base \in Nat /\ wal[k].result \in Nat /\ wal[k].result > wal[k].base
              /\ n \in Nat /\ k \in Nat
          BY <1>1, <3>1
        <4>2. CASE n > k
          <5>1. wal[k].result <= wal[n].base
            BY <1>2, <4>1, <4>2
          <5>2. QED
            BY <3>1, <4>1, <4>2, <5>1
        <4>3. CASE n = k
          BY <3>1, <4>1, <4>3
        <4>4. CASE n < k
          <5>1. wal[n].result <= wal[k].base
            BY <1>2, <4>1, <4>4
          <5>2. QED
            BY <3>1, <4>1, <4>4, <5>1
        <4>5. QED
          BY <4>1, <4>2, <4>3, <4>4
      <3>3. k \in 0..N /\ k # 0
        BY <1>1
      <3>4. QED
        BY <3>1, <3>2, <3>3
    <2>4. QED
      BY <1>1, <2>1, <2>2, <2>3 DEF LogOK, s
  <1>4. Pending = AtPlaces(wal, {m \in 1..N : wal[m].result > s})
    BY <1>1 DEF Pending, After, s
  <1>5. {m \in 1..N : wal[m].result > s} = k + 1 .. N
    BY <1>1, <1>3
  <1>6. k \in Nat /\ k <= N
    BY <1>1, <1>3
  <1>7. Pending = [n \in 1..(N - k) |-> wal[k + n]]
    <2> DEFINE S == {m \in 1..N : wal[m].result > s}
    <2>1. S = k + 1 .. N /\ Pending = AtPlaces(wal, S)
      BY <1>4, <1>5
    <2> HIDE DEF S
    <2>2. AtPlaces(wal, k + 1 .. N) = [n \in 1..(N - k) |-> wal[k + n]]
      BY <1>1, <1>6, AtLastPlaces
    <2>3. QED
      BY <2>1, <2>2
  <1> DEFINE D == ToSet(wal)
  <1>8. \A n \in 1..(N - k) : wal[k + n] \in D
    BY <1>1, <1>6
  <1> HIDE DEF D
  <1>9. Pending \in Seq(D) /\ Len(Pending) = N - k /\ \A n \in 1..(N - k) : Pending[n] = wal[k + n]
    BY <1>1, <1>6, <1>7, <1>8
  <1>10. QED
    BY <1>3, <1>9 DEF CutAt, N, s, D

LEMMA CutIs ==
  ASSUME LogTyped, NEW k, CutAt(k)
  PROVE  /\ k \in Nat /\ k <= Len(wal) /\ Len(Pending) \in Nat /\ DOMAIN Pending = 1..Len(Pending)
         /\ Len(Pending) = Len(wal) - k /\ (Pending = <<>> <=> Len(Pending) = 0)
         /\ \A n \in 1..Len(Pending) : k + n \in 1..Len(wal) /\ Pending[n] = wal[k + n]
  <1> DEFINE D == ToSet(wal)
  <1>1. Len(wal) \in Nat
    BY LogIs
  <1>2. Pending \in Seq(D) /\ Len(Pending) = Len(wal) - k /\ k \in 0..Len(wal)
        /\ \A n \in 1..(Len(wal) - k) : Pending[n] = wal[k + n]
    BY DEF CutAt
  <1> HIDE DEF D
  <1>3. Len(Pending) \in Nat /\ DOMAIN Pending = 1..Len(Pending) /\ (Pending = <<>> <=> Len(Pending) = 0)
    BY <1>2
  <1>4. QED
    BY <1>1, <1>2, <1>3

\* The log continues the checkpoint: open accepts it.
LEMMA LogContinues ==
  ASSUME LogTyped, LogOK, Meta(checkpoint)
  PROVE  Recoverable
  <1>1. PICK k \in 0..Len(wal) : CutAt(k)
    BY PendingIs
  <1>2. /\ k \in Nat /\ k <= Len(wal) /\ Len(Pending) \in Nat /\ Len(Pending) = Len(wal) - k
        /\ \A n \in 1..Len(Pending) : k + n \in 1..Len(wal) /\ Pending[n] = wal[k + n]
    BY <1>1, CutIs
  <1>3. Len(wal) \in Nat /\ (wal = <<>> <=> Len(wal) = 0)
    BY LogIs
  <1>4. \A n \in 1..Len(wal) - 1 : wal[n + 1].base = wal[n].result
    BY DEF LogOK
  <1> SUFFICES ASSUME NEW n \in 1..Len(Pending)
               PROVE  Pending[n].base = IF n = 1 THEN checkpoint.sequence ELSE Pending[n - 1].result
    BY DEF Recoverable
  <1>5. CASE n = 1 /\ k = 0
    <2>1. Pending[n] = wal[1] /\ wal # <<>>
      BY <1>2, <1>3, <1>5
    <2>2. wal[1].base = checkpoint.sequence
      BY <1>1, <1>5, <2>1 DEF CutAt
    <2>3. QED
      BY <1>5, <2>1, <2>2
  <1>6. CASE n = 1 /\ k > 0
    <2>1. Pending[n] = wal[k + 1] /\ k \in 1..Len(wal) - 1
      BY <1>2, <1>3, <1>6
    <2>2. wal[k].result = checkpoint.sequence
      BY <1>1, <1>6 DEF CutAt
    <2>3. QED
      BY <1>4, <1>6, <2>1, <2>2
  <1>7. CASE n # 1
    <2>1. n - 1 \in 1..Len(Pending) /\ k + (n - 1) \in 1..Len(wal) - 1 /\ (k + (n - 1)) + 1 = k + n
      BY <1>2, <1>3, <1>7
    <2>2. wal[k + n].base = wal[k + (n - 1)].result
      BY <1>4, <2>1
    <2>3. Pending[n] = wal[k + n] /\ Pending[n - 1] = wal[k + (n - 1)]
      BY <1>2, <2>1
    <2>4. QED
      BY <1>7, <2>2, <2>3
  <1>8. QED
    BY <1>2, <1>5, <1>6, <1>7

LEMMA ContainsIs ==
  ASSUME NEW D, NEW s \in Seq(D), NEW x
  PROVE  Contains(s, x) <=> x \in ToSet(s)
  <1>1. DOMAIN s = 1..Len(s)
    OBVIOUS
  <1>2. QED
    BY <1>1 DEF Contains, ToSet

\* Recovery writes entries.
LEMMA RecoveredTyped ==
  ASSUME LogTyped, LogOK, Meta(checkpoint), disk \in [Ids -> Entries]
  PROVE  Recovered \in [Ids -> Entries]
  <1> DEFINE top == Max({0} \cup {disk[i].version : i \in Ids})
             again(line, i) == [version |-> top + line.base - checkpoint.sequence
                                       + (CHOOSE n \in DOMAIN line.ids : line.ids[n] = i),
                         value |-> line.after[i]]
  <1>1. PICK k \in 0..Len(wal) : CutAt(k)
    BY PendingIs
  <1>2. /\ k \in Nat /\ k <= Len(wal) /\ Len(Pending) \in Nat /\ Len(Pending) = Len(wal) - k
        /\ \A n \in 1..Len(Pending) : k + n \in 1..Len(wal) /\ Pending[n] = wal[k + n]
    BY <1>1, CutIs
  <1>3. top \in Nat
    <2> DEFINE f == [i \in Ids |-> disk[i].version]
    <2>1. f \in [Ids -> Nat] /\ IsFiniteSet(Ids)
      BY EntryFields, StorageAssumption
    <2>2. {disk[i].version : i \in Ids} = {f[i] : i \in Ids}
      OBVIOUS
    <2> HIDE DEF f
    <2>3. Top(f, Ids) \in Nat
      BY <2>1, Tops
    <2>4. QED
      BY <2>2, <2>3 DEF Top
  <1> HIDE DEF top
  <1>4. ASSUME NEW i \in Ids, Appends(i) # {}
        PROVE  again(Pending[Max(Appends(i))], i) \in Entries
    <2>1. Appends(i) \in SUBSET (1..Len(Pending)) /\ \A m \in Appends(i) : Contains(Pending[m].ids, i)
      BY DEF Appends, Writes
    <2> DEFINE m == Max(Appends(i))
               l == Pending[m]
    <2>2. m \in Appends(i) /\ m \in 1..Len(Pending)
      BY <1>2, <1>4, <2>1, MaxFits
    <2> HIDE DEF m
    <2>3. k + m \in 1..Len(wal) /\ l = wal[k + m]
      BY <1>2, <2>2
    <2>4. /\ l.base \in Nat /\ l.ids \in Seq(Ids) /\ Partly(l.after, Values)
          /\ ToSet(l.ids) \subseteq DOMAIN l.after
      BY <2>3, LogIs
    <2>5. Contains(l.ids, i) /\ i \in ToSet(l.ids)
      BY <2>1, <2>2, <2>4, ContainsIs
    <2>6. l.after[i] \in Values
      BY <2>4, <2>5, PartIs
    <2>7. l.base >= checkpoint.sequence /\ checkpoint.sequence \in Nat
      <3>1. checkpoint.sequence \in Nat
        BY DEF Meta
      <3>2. Len(wal) \in Nat /\ wal # <<>> /\ 1 \in 1..Len(wal)
        BY <2>3, LogIs
      <3>3. \A j, n \in 1..Len(wal) : j < n => wal[j].result <= wal[n].base
        BY ChainIs
      <3>4. CASE k > 0
        <4>1. k \in 1..Len(wal) /\ k < k + m
          BY <1>2, <2>2, <2>3, <3>4
        <4>2. wal[k].result <= wal[k + m].base /\ wal[k].result = checkpoint.sequence
          BY <1>1, <2>3, <3>3, <3>4, <4>1 DEF CutAt
        <4>3. QED
          BY <2>3, <2>4, <3>1, <4>2
      <3>5. CASE k = 0
        <4>1. wal[1].base = checkpoint.sequence
          BY <1>1, <3>2, <3>5 DEF CutAt
        <4>2. CASE m = 1
          <5>1. k + m = 1
            BY <3>5, <4>2
          <5>2. QED
            BY <2>3, <3>1, <4>1, <5>1
        <4>3. CASE m # 1
          <5>1. 1 < k + m
            BY <1>2, <2>2, <3>5, <4>3
          <5>2. wal[1].result <= wal[k + m].base
            BY <2>3, <3>2, <3>3, <5>1
          <5>3. wal[1].result > wal[1].base /\ wal[1].result \in Nat /\ wal[1].base \in Nat
            BY <3>2, LogIs
          <5>4. QED
            BY <2>3, <2>4, <3>1, <4>1, <5>2, <5>3
        <4>4. QED
          BY <4>2, <4>3
      <3>6. QED
        BY <1>2, <3>1, <3>4, <3>5
    <2> DEFINE p == CHOOSE n \in DOMAIN l.ids : l.ids[n] = i
    <2>8. p \in Nat
      <3>1. \E n \in DOMAIN l.ids : l.ids[n] = i
        BY <2>5 DEF ToSet
      <3>2. p \in DOMAIN l.ids
        BY <3>1
      <3>3. DOMAIN l.ids = 1..Len(l.ids) /\ Len(l.ids) \in Nat
        BY <2>4
      <3> HIDE DEF p, l
      <3>4. QED
        BY <3>2, <3>3
    <2>9. again(l, i) = [version |-> top + l.base - checkpoint.sequence + p, value |-> l.after[i]]
      OBVIOUS
    <2> HIDE DEF p, l, again
    <2>10. top + l.base - checkpoint.sequence + p \in Nat
      BY <1>3, <2>4, <2>7, <2>8
    <2>11. again(l, i) \in Entries
      BY <2>6, <2>9, <2>10 DEF Entries, Values
    <2>12. QED
      BY <2>11 DEF l, m
  <1>5. Recovered = [i \in Ids |-> IF Appends(i) = {} THEN disk[i] ELSE again(Pending[Max(Appends(i))], i)]
    BY DEF Recovered, top
  <1> HIDE DEF again
  <1>6. QED
    BY <1>4, <1>5

\* What a list is once a change is remembered.
LEMMA RememberingIs ==
  ASSUME NEW s, AppliedIs(s), NEW c \in Changes \cup {None}
  PROVE  /\ AppliedIs(Remembering(s, c))
         /\ c = None \/ c \in ToSet(s) => Remembering(s, c) = s
         /\ c # None /\ c \notin ToSet(s) =>
              \E d \in {0, 1} :
                LET r == Remembering(s, c) IN
                /\ d = 1 <=> Len(s) = Remembered
                /\ Len(r) = Len(s) + 1 - d /\ Len(r) \in Nat \ {0} /\ r[Len(r)] = c
                /\ \A n \in 1..(Len(r) - 1) : r[n] = s[n + d]
  <1> DEFINE L == Len(s)
             a == Append(s, c)
             r == Remembering(s, c)
  <1>1. s \in Seq(Changes) /\ L \in Nat /\ DOMAIN s = 1..L /\ L <= Remembered
        /\ \A m, n \in 1..L : s[m] = s[n] => m = n
    BY DEF AppliedIs
  <1>2. Remembered \in Nat \ {0} /\ None \notin Changes
    BY StorageAssumption
  <1>3. Contains(s, c) <=> c \in ToSet(s)
    BY <1>1, ContainsIs
  <1>4. CASE c = None \/ c \in ToSet(s)
    BY <1>3, <1>4 DEF Remembering
  <1>5. CASE c # None /\ c \notin ToSet(s)
    <2>1. c \in Changes /\ \A n \in 1..L : s[n] # c
      BY <1>1, <1>5 DEF ToSet
    <2>2. /\ a \in Seq(Changes) /\ Len(a) = L + 1 /\ a[L + 1] = c
          /\ \A n \in 1..L : a[n] = s[n]
      BY <1>1, <2>1, AppendIs
    <2>3. r = IF Len(a) > Remembered THEN Tail(a) ELSE a
      BY <1>3, <1>5 DEF Remembering
    <2> HIDE DEF a, r, L
    <2>4. \E d \in {0, 1} :
            /\ d = 1 <=> L = Remembered
            /\ r \in Seq(Changes) /\ Len(r) = L + 1 - d /\ Len(r) \in Nat \ {0} /\ r[Len(r)] = c
            /\ \A n \in 1..(Len(r) - 1) : r[n] = s[n + d]
            /\ Len(r) <= Remembered
      <3>1. CASE L = Remembered
        <4>1. r = Tail(a) /\ a # <<>>
          BY <1>1, <1>2, <2>2, <2>3, <3>1
        <4>2. r \in Seq(Changes) /\ Len(r) = L /\ \A n \in 1..L : r[n] = a[n + 1]
          BY <1>1, <2>2, <4>1, TailIs
        <4>3. \A n \in 1..(L - 1) : r[n] = s[n + 1]
          <5> SUFFICES ASSUME NEW n \in 1..(L - 1) PROVE r[n] = s[n + 1]
            OBVIOUS
          <5>1. n \in 1..L /\ n + 1 \in 1..L
            BY <1>1
          <5>2. QED
            BY <2>2, <4>2, <5>1
        <4>4. r[L] = c /\ L \in Nat \ {0}
          BY <1>1, <1>2, <2>2, <3>1, <4>2
        <4>5. /\ 1 = 1 <=> L = Remembered
              /\ Len(r) = L + 1 - 1 /\ Len(r) \in Nat \ {0} /\ r[Len(r)] = c
              /\ \A n \in 1..(Len(r) - 1) : r[n] = s[n + 1]
              /\ Len(r) <= Remembered
          BY <1>1, <1>2, <3>1, <4>2, <4>3, <4>4
        <4>6. QED
          BY <4>2, <4>5
      <3>2. CASE L # Remembered
        <4>1. r = a
          BY <1>1, <1>2, <2>2, <2>3, <3>2
        <4>2. \A n \in 1..(Len(r) - 1) : r[n] = s[n + 0]
          BY <1>1, <2>2, <4>1
        <4>3. /\ 0 = 1 <=> L = Remembered
              /\ Len(r) = L + 1 - 0 /\ Len(r) \in Nat \ {0} /\ r[Len(r)] = c
              /\ Len(r) <= Remembered
          BY <1>1, <1>2, <2>2, <3>2, <4>1
        <4>4. QED
          BY <2>2, <4>1, <4>2, <4>3
      <3>3. QED
        BY <3>1, <3>2
    <2>5. PICK d \in {0, 1} :
            /\ d = 1 <=> L = Remembered
            /\ r \in Seq(Changes) /\ Len(r) = L + 1 - d /\ Len(r) \in Nat \ {0} /\ r[Len(r)] = c
            /\ \A n \in 1..(Len(r) - 1) : r[n] = s[n + d]
            /\ Len(r) <= Remembered
      BY <2>4
    <2>6. ASSUME NEW m \in 1..Len(r), NEW n \in 1..Len(r), r[m] = r[n] PROVE m = n
      <3>1. \A k \in 1..(Len(r) - 1) : k + d \in 1..L
        BY <1>1, <2>5
      <3>2. \A k \in 1..(Len(r) - 1) : r[k] # c
        BY <2>1, <2>5, <3>1 DEF L
      <3>3. CASE m = Len(r) \/ n = Len(r)
        <4>1. m \in 1..(Len(r) - 1) \/ m = Len(r)
          BY <2>5
        <4>2. n \in 1..(Len(r) - 1) \/ n = Len(r)
          BY <2>5
        <4>3. QED
          BY <2>5, <2>6, <3>2, <3>3, <4>1, <4>2
      <3>4. CASE m # Len(r) /\ n # Len(r)
        <4>1. m \in 1..(Len(r) - 1) /\ n \in 1..(Len(r) - 1)
          BY <2>5, <3>4
        <4>2. r[m] = s[m + d] /\ r[n] = s[n + d] /\ m + d \in 1..L /\ n + d \in 1..L
          BY <2>5, <3>1, <4>1
        <4>3. m + d = n + d
          BY <1>1, <2>6, <4>2
        <4>4. QED
          BY <2>5, <4>3
      <3>5. QED
        BY <3>3, <3>4
    <2>7. DOMAIN r = 1..Len(r)
      BY <2>5
    <2>8. AppliedIs(r)
      BY <2>5, <2>6, <2>7 DEF AppliedIs
    <2>9. QED
      BY <1>5, <2>5, <2>8 DEF r, L
  <1>6. QED
    BY <1>4, <1>5

\* The lists on the way, when those of several lines are remembered.
LEMMA RememberingForm ==
  ASSUME NEW s, AppliedIs(s), NEW w, Len(w) \in Nat, \A n \in 1..Len(w) : w[n].change \in Changes \cup {None}
  PROVE  \E h : /\ h[0] = s /\ \A k \in 1..Len(w) : h[k] = Remembering(h[k - 1], w[k].change)
                /\ RememberingEach(s, w) = h[Len(w)] /\ \A k \in 0..Len(w) : AppliedIs(h[k])
  <1> DEFINE N == Len(w)
             G == {a \in Seq(Changes) : AppliedIs(a)}
             Is(g) == g = [k \in 0..N |-> IF k = 0 THEN s ELSE Remembering(g[k - 1], w[k].change)]
             F == [k \in 1..N |-> [d \in G |-> Remembering(d, w[k].change)]]
             h == CHOOSE g : Is(g)
  <1>0. \A a \in G, k \in 1..N : Remembering(a, w[k].change) \in G
    <2> SUFFICES ASSUME NEW a \in G, NEW k \in 1..N PROVE Remembering(a, w[k].change) \in G
      OBVIOUS
    <2>1. AppliedIs(Remembering(a, w[k].change))
      BY RememberingIs
    <2>2. QED
      BY <2>1 DEF AppliedIs
  <1>a. s \in G
    BY DEF AppliedIs
  <1> HIDE DEF G
  <1>1. F \in [1..N -> [G -> G]] /\ \A d \in G, k \in 1..N : F[k][d] = Remembering(d, w[k].change)
    BY <1>0
  <1>b. N \in Nat
    OBVIOUS
  <1> HIDE DEF F, N
  <1>c. PICK f \in [0..N -> G] : Iterates(f, s, N, F)
    BY <1>a, <1>1, <1>b, Recursion
  <1>2. f[0] = s /\ \A k \in 1..N : f[k] = F[k][f[k - 1]]
    BY <1>c DEF Iterates
  <1>3. Is(f)
    <2>1. \A k \in 1..N : f[k] = Remembering(f[k - 1], w[k].change)
      <3> SUFFICES ASSUME NEW k \in 1..N PROVE f[k] = Remembering(f[k - 1], w[k].change)
        OBVIOUS
      <3>1. k - 1 \in 0..N
        BY <1>b
      <3>2. f[k - 1] \in G /\ f[k] = F[k][f[k - 1]]
        BY <1>2, <1>c, <3>1
      <3>3. QED
        BY <1>1, <3>2
    <2>2. f = [k \in 0..N |-> f[k]]
      OBVIOUS
    <2>3. \A k \in 0..N : f[k] = IF k = 0 THEN s ELSE Remembering(f[k - 1], w[k].change)
      BY <1>2, <1>b, <2>1
    <2>4. QED
      BY <2>2, <2>3
  <1>4. RememberingEach(s, w) = h[N]
    BY DEF RememberingEach, N
  <1>5. Is(h)
    <2> HIDE DEF Is
    <2>1. QED
      BY <1>3
  <1> HIDE DEF h
  <1>6. h[0] = s /\ \A k \in 1..N : h[k] = Remembering(h[k - 1], w[k].change)
    BY <1>5, <1>b
  <1> DEFINE S == {k \in 0..N : h[k] \in G}
  <1>7. \A k \in 0..N : k \in S
    <2>1. 0 \in S
      BY <1>a, <1>6, <1>b
    <2>2. \A k \in 1..N : k - 1 \in S => k \in S
      BY <1>0, <1>6, <1>b
    <2> HIDE DEF S, Is
    <2>3. QED
      BY <2>1, <2>2, <1>b, Upto
  <1>8. \A k \in 0..N : AppliedIs(h[k])
    BY <1>7 DEF G
  <1>9. QED
    BY <1>4, <1>6, <1>8 DEF N

LEMMA RememberingNone ==
  ASSUME NEW s, AppliedIs(s), NEW w, Len(w) = 0
  PROVE  RememberingEach(s, w) = s
  <1>1. Len(w) \in Nat /\ \A n \in 1..Len(w) : w[n].change \in Changes \cup {None}
    OBVIOUS
  <1>2. PICK h : /\ h[0] = s /\ \A k \in 1..Len(w) : h[k] = Remembering(h[k - 1], w[k].change)
                 /\ RememberingEach(s, w) = h[Len(w)] /\ \A k \in 0..Len(w) : AppliedIs(h[k])
    BY <1>1, RememberingForm
  <1>3. QED
    BY <1>2

LEMMA RecordedIs ==
  ASSUME NEW m, Meta(m), NEW w, Len(w) \in Nat, w = <<>> <=> Len(w) = 0, DOMAIN w = 1..Len(w),
         \A n \in 1..Len(w) : Line(w[n])
  PROVE  LET r == Recorded(m, w) IN
         /\ Meta(r) /\ r.sequence = IF w = <<>> THEN m.sequence ELSE w[Len(w)].result
         /\ w # <<>> => r.applied = RememberingEach(m.applied, w)
  <1> DEFINE r == Recorded(m, w)
  <1>1. CASE w = <<>>
    <2>1. r = m
      BY <1>1 DEF Recorded
    <2>2. QED
      BY <1>1, <2>1
  <1>2. CASE w # <<>>
    <2>1. Len(w) \in 1..Len(w)
      BY <1>2
    <2> DEFINE s == w[Len(w)].result
               a == RememberingEach(m.applied, w)
    <2>2. r = [sequence |-> s, version |-> s, applied |-> a]
      BY <1>2 DEF Recorded, Last
    <2>3. s \in Nat
      <3> DEFINE l == w[Len(w)]
      <3>1. Line(l)
        BY <2>1
      <3> HIDE DEF l
      <3>2. l.base \in Nat /\ l.ids \in Seq(Ids) /\ l.result = l.base + Len(l.ids)
        BY <3>1 DEF Line
      <3>3. Len(l.ids) \in Nat
        BY <3>2
      <3>4. QED
        BY <3>2, <3>3 DEF l
    <2>4. AppliedIs(m.applied) /\ \A n \in 1..Len(w) : w[n].change \in Changes \cup {None}
      BY DEF Meta, Line
    <2>5. PICK h : a = h[Len(w)] /\ \A k \in 0..Len(w) : AppliedIs(h[k])
      BY <2>4, RememberingForm
    <2>6. AppliedIs(a)
      BY <2>1, <2>5
    <2> HIDE DEF s, a
    <2>7. r.sequence = s /\ r.version = s /\ r.applied = a
      BY <2>2
    <2>8. Meta(r)
      BY <2>2, <2>3, <2>6, <2>7 DEF Meta
    <2>9. QED
      BY <1>2, <2>7, <2>8 DEF s, a
  <1>3. QED
    BY <1>1, <1>2

-----------------------------------------------------------------------------
(* Steps that leave a part of the state as it was.                         *)

LEMMA StoreFrame ==
  ASSUME StoreTyped, UNCHANGED <<disk, cache, hot, stored, moved, meta, checkpoint, since, refusing, up, faults, harmed>>
  PROVE  StoreTyped'
  BY DEF StoreTyped

LEMMA JobFrame ==
  ASSUME JobTyped, UNCHANGED <<job, moved>>
  PROVE  JobTyped'
  BY DEF JobTyped

LEMMA TxnsFrame ==
  ASSUME TxnsTyped, UNCHANGED <<tx, queue>>
  PROVE  TxnsTyped'
  BY DEF TxnsTyped

LEMMA LogTypedFrame ==
  ASSUME LogTyped, UNCHANGED <<wal, tail, history, told>>
  PROVE  LogTyped'
  BY DEF LogTyped, Left

LEMMA LogFrame ==
  ASSUME LogOK, UNCHANGED <<wal, tail, checkpoint, meta, up, refusing>>, job'.stage = job.stage
  PROVE  LogOK'
  BY DEF LogOK, Unapplied, Left

LEMMA HistoryFrame ==
  ASSUME HistoryOK, UNCHANGED <<wal, tail, history>>
  PROVE  HistoryOK'
  BY DEF HistoryOK, Left

\* A step of a transaction other than the one whose commit is being applied.
LEMMA JobOKFrame ==
  ASSUME JobOK, up, UNCHANGED <<wal, job, up, refusing>>,
         \A u \in Txns : tx[u].phase = "commit" => tx'[u] = tx[u]
  PROVE  JobOK'
  BY DEF JobOK

LEMMA JobOKIdle ==
  ASSUME up', job'.stage # "apply"
  PROVE  JobOK'
  BY DEF JobOK

LEMMA IdleIs ==
  /\ Idle.stage = "idle" /\ Idle.todo = <<>> /\ DOMAIN Idle.dirty = {}
  /\ Idle = [stage |-> Idle.stage, txn |-> Idle.txn, todo |-> Idle.todo, dirty |-> Idle.dirty]
  /\ Idle.dirty = [b \in DOMAIN Idle.dirty |-> Idle.dirty[b]] /\ Idle.dirty = <<>>
  BY DEF Idle

\* A free store, or one that compacts the log.
LEMMA FreeJob ==
  ASSUME \/ job' = Idle
         \/ job' = [Idle EXCEPT !.stage = "compact"]
  PROVE  JobTyped' /\ job'.stage \in {"idle", "compact"} /\ (job' = Idle => job'.stage = "idle")
  <1>1. PICK s \in {"idle", "compact"} : job' = [stage |-> s, txn |-> None, todo |-> <<>>, dirty |-> <<>>]
    BY DEF Idle
  <1>2. DOMAIN <<>> = {} /\ <<>> = [b \in {} |-> <<>>[b]] /\ <<>> \in Seq(Ids)
    OBVIOUS
  <1>3. job' = Idle => job'.stage = "idle"
    BY IdleIs
  <1>4. JobTyped'
    BY <1>1, <1>2 DEF JobTyped
  <1>5. QED
    BY <1>1, <1>3, <1>4

LEMMA TxnSet ==
  ASSUME TxnsTyped, NEW t \in Txns, NEW r, Txn(r), tx' = [tx EXCEPT ![t] = r]
  PROVE  /\ DOMAIN tx' = Txns /\ \A u \in Txns : Txn(tx'[u])
         /\ tx'[t] = r /\ \A u \in Txns : u # t => tx'[u] = tx[u]
  BY DEF TxnsTyped

\* A step of a transaction that is not queued.
LEMMA TxnsSet ==
  ASSUME TxnsTyped, NEW t \in Txns, tx[t].phase # "queued", NEW r, Txn(r), tx' = [tx EXCEPT ![t] = r], queue' = queue
  PROVE  TxnsTyped'
  <1>1. /\ DOMAIN tx' = Txns /\ \A u \in Txns : Txn(tx'[u])
        /\ \A u \in Txns : u # t => tx'[u] = tx[u]
    BY TxnSet
  <1>2. \A n \in DOMAIN queue : queue[n] \in Txns => tx'[queue[n]] = tx[queue[n]]
    BY <1>1 DEF TxnsTyped
  <1>3. QED
    BY <1>1, <1>2 DEF TxnsTyped

Jobs == Txns \cup {"checkpoint", "scheduled"}

\* The first of the queue leaves it.
LEMMA TxnsPop ==
  ASSUME TxnsTyped, NEW t \in Txns, queue # <<>>, Head(queue) = t, NEW r, Txn(r),
         tx' = [tx EXCEPT ![t] = r], queue' = Tail(queue)
  PROVE  TxnsTyped'
  <1>1. /\ DOMAIN tx' = Txns /\ \A u \in Txns : Txn(tx'[u])
        /\ \A u \in Txns : u # t => tx'[u] = tx[u]
    BY TxnSet
  <1>2. queue \in Seq(Jobs)
    BY DEF TxnsTyped, Jobs
  <1>3. /\ Head(queue) = queue[1] /\ queue' \in Seq(Jobs) /\ Len(queue) \in Nat \ {0}
        /\ Len(queue') = Len(queue) - 1 /\ \A i \in 1..Len(queue') : queue'[i] = queue[i + 1]
    BY <1>2, TailIs
  <1>4. DOMAIN queue' = 1..Len(queue') /\ DOMAIN queue = 1..Len(queue)
    BY <1>2, <1>3
  <1>5. \A n \in DOMAIN queue : queue[n] \in Txns =>
          /\ tx[queue[n]].phase = "queued"
          /\ \A m \in DOMAIN queue : queue[m] = queue[n] => m = n
    BY DEF TxnsTyped
  <1>6. \A n \in DOMAIN queue' : queue'[n] \in Txns =>
          /\ tx'[queue'[n]].phase = "queued"
          /\ \A m \in DOMAIN queue' : queue'[m] = queue'[n] => m = n
    <2> SUFFICES ASSUME NEW n \in DOMAIN queue', queue'[n] \in Txns
                 PROVE  /\ tx'[queue'[n]].phase = "queued"
                        /\ \A m \in DOMAIN queue' : queue'[m] = queue'[n] => m = n
      OBVIOUS
    <2>1. n + 1 \in DOMAIN queue /\ n + 1 # 1 /\ 1 \in DOMAIN queue /\ queue'[n] = queue[n + 1] /\ n \in Nat
      BY <1>3, <1>4
    <2>2. queue[n + 1] # t
      BY <1>3, <1>5, <2>1
    <2>3. tx'[queue'[n]].phase = "queued"
      BY <1>1, <1>5, <2>1, <2>2
    <2>4. ASSUME NEW m \in DOMAIN queue', queue'[m] = queue'[n] PROVE m = n
      <3>1. m + 1 \in DOMAIN queue /\ queue'[m] = queue[m + 1] /\ m \in Nat
        BY <1>3, <1>4
      <3>2. m + 1 = n + 1
        BY <1>5, <2>1, <2>4, <3>1
      <3>3. QED
        BY <2>1, <3>1, <3>2
    <2>5. QED
      BY <2>3, <2>4
  <1>7. QED
    BY <1>1, <1>3, <1>6 DEF TxnsTyped, Jobs

\* A transaction that is not queued joins the queue.
LEMMA TxnsPush ==
  ASSUME TxnsTyped, NEW t \in Txns, tx[t].phase # "queued", NEW r, Txn(r), r.phase = "queued",
         tx' = [tx EXCEPT ![t] = r], queue' = Append(queue, t)
  PROVE  TxnsTyped'
  <1>1. /\ DOMAIN tx' = Txns /\ \A u \in Txns : Txn(tx'[u])
        /\ tx'[t] = r /\ \A u \in Txns : u # t => tx'[u] = tx[u]
    BY TxnSet
  <1>2. queue \in Seq(Jobs) /\ t \in Jobs
    BY DEF TxnsTyped, Jobs
  <1>3. /\ queue' \in Seq(Jobs) /\ Len(queue) \in Nat /\ Len(queue') = Len(queue) + 1
        /\ \A i \in 1..Len(queue) : queue'[i] = queue[i]
        /\ queue'[Len(queue) + 1] = t
    BY <1>2, AppendIs
  <1>4. DOMAIN queue' = 1..(Len(queue) + 1) /\ DOMAIN queue = 1..Len(queue)
    BY <1>2, <1>3
  <1>5. \A n \in DOMAIN queue : queue[n] \in Txns =>
          /\ tx[queue[n]].phase = "queued" /\ queue[n] # t
          /\ \A m \in DOMAIN queue : queue[m] = queue[n] => m = n
    BY DEF TxnsTyped
  <1>6. \A n \in DOMAIN queue' : n \in DOMAIN queue \/ n = Len(queue) + 1
    BY <1>3, <1>4
  <1>7. \A n \in DOMAIN queue' : queue'[n] \in Txns =>
          /\ tx'[queue'[n]].phase = "queued"
          /\ \A m \in DOMAIN queue' : queue'[m] = queue'[n] => m = n
    BY <1>1, <1>3, <1>4, <1>5, <1>6
  <1>8. QED
    BY <1>1, <1>3, <1>7 DEF TxnsTyped, Jobs

\* Checkpoints join and leave the queue.
LEMMA TxnsPushJob ==
  ASSUME TxnsTyped, NEW j \in {"checkpoint", "scheduled"}, queue' = Append(queue, j),
         DOMAIN tx' = Txns, \A u \in Txns : Txn(tx'[u]) /\ (tx[u].phase = "queued" => tx'[u].phase = "queued")
  PROVE  TxnsTyped'
  <1>1. queue \in Seq(Jobs) /\ j \in Jobs /\ j \notin Txns
    BY StorageAssumption DEF TxnsTyped, Jobs
  <1>2. /\ queue' \in Seq(Jobs) /\ Len(queue) \in Nat /\ Len(queue') = Len(queue) + 1
        /\ \A i \in 1..Len(queue) : queue'[i] = queue[i]
        /\ queue'[Len(queue) + 1] = j
    BY <1>1, AppendIs
  <1>3. DOMAIN queue' = 1..(Len(queue) + 1) /\ DOMAIN queue = 1..Len(queue)
    BY <1>1, <1>2
  <1>4. \A n \in DOMAIN queue' : queue'[n] \in Txns => n \in DOMAIN queue /\ queue'[n] = queue[n]
    BY <1>1, <1>2, <1>3
  <1>5. \A n \in DOMAIN queue : queue[n] \in Txns =>
          /\ tx[queue[n]].phase = "queued"
          /\ \A m \in DOMAIN queue : queue[m] = queue[n] => m = n
    BY DEF TxnsTyped
  <1>6. \A n \in DOMAIN queue' : queue'[n] \in Txns =>
          /\ tx'[queue'[n]].phase = "queued"
          /\ \A m \in DOMAIN queue' : queue'[m] = queue'[n] => m = n
    BY <1>4, <1>5
  <1>7. QED
    BY <1>2, <1>6 DEF TxnsTyped, Jobs

LEMMA TxnsPopJob ==
  ASSUME TxnsTyped, queue # <<>>, queue' = Tail(queue), tx' = tx
  PROVE  TxnsTyped'
  <1>1. queue \in Seq(Jobs)
    BY DEF TxnsTyped, Jobs
  <1>2. /\ queue' \in Seq(Jobs) /\ Len(queue) \in Nat \ {0}
        /\ Len(queue') = Len(queue) - 1 /\ \A i \in 1..Len(queue') : queue'[i] = queue[i + 1]
    BY <1>1, TailIs
  <1>3. DOMAIN queue' = 1..Len(queue') /\ DOMAIN queue = 1..Len(queue)
    BY <1>1, <1>2
  <1>4. \A n \in DOMAIN queue' : n + 1 \in DOMAIN queue /\ queue'[n] = queue[n + 1] /\ n \in Nat
    BY <1>2, <1>3
  <1>5. \A n \in DOMAIN queue : queue[n] \in Txns =>
          /\ tx[queue[n]].phase = "queued"
          /\ \A m \in DOMAIN queue : queue[m] = queue[n] => m = n
    BY DEF TxnsTyped
  <1>6. \A n \in DOMAIN queue' : queue'[n] \in Txns =>
          /\ tx[queue'[n]].phase = "queued"
          /\ \A m \in DOMAIN queue' : queue'[m] = queue'[n] => m = n
    <2> SUFFICES ASSUME NEW n \in DOMAIN queue', queue'[n] \in Txns
                 PROVE  /\ tx[queue'[n]].phase = "queued"
                        /\ \A m \in DOMAIN queue' : queue'[m] = queue'[n] => m = n
      OBVIOUS
    <2>1. tx[queue'[n]].phase = "queued"
      BY <1>4, <1>5
    <2>2. ASSUME NEW m \in DOMAIN queue', queue'[m] = queue'[n] PROVE m = n
      <3>1. m + 1 = n + 1
        BY <1>4, <1>5, <2>2
      <3>2. QED
        BY <1>4, <3>1
    <2>3. QED
      BY <2>1, <2>2
  <1>7. QED
    BY <1>2, <1>6 DEF TxnsTyped, Jobs

LEMMA TxnPhase ==
  ASSUME NEW r, Txn(r), NEW p \in Phases
  PROVE  LET q == [r EXCEPT !.phase = p] IN
         /\ Txn(q) /\ q.phase = p /\ q.todo = r.todo /\ q.program = r.program /\ q.reads = r.reads
         /\ q.seen = r.seen /\ q.scan = r.scan /\ q.before = r.before /\ q.after = r.after
         /\ q.attempt = r.attempt /\ q.renumbered = r.renumbered /\ q.rivals = r.rivals
  BY DEF Txn

\* A transaction at the start of its work.
Starting(r, p, b) ==
  /\ Txn(r) /\ r.phase = "work" /\ r.scan = -1 /\ DOMAIN r.reads = {} /\ DOMAIN r.seen = {}
  /\ DOMAIN r.after = {} /\ r.rivals = b /\ r.program = p /\ r.todo = p

LEMMA Started ==
  ASSUME NEW p \in Seq(Ops), NEW a \in 0..MaxRetries, NEW b \in SUBSET Txns, NEW r,
         r = [phase |-> "work", todo |-> p, program |-> p, reads |-> <<>>, seen |-> <<>>, scan |-> -1,
              before |-> <<>>, after |-> <<>>, attempt |-> a, renumbered |-> FALSE, rivals |-> b]
  PROVE  Starting(r, p, b)
  <1>1. "work" \in Phases /\ Partly(<<>>, Nat) /\ Partly(<<>>, Values) /\ DOMAIN <<>> = {}
    BY EmptyPart DEF Phases, InFlight
  <1>2. /\ r.phase = "work" /\ r.todo = p /\ r.program = p /\ r.reads = <<>> /\ r.seen = <<>>
        /\ r.scan = -1 /\ r.before = <<>> /\ r.after = <<>> /\ r.attempt = a
    OBVIOUS
  <1>3. r.renumbered \in BOOLEAN /\ r.rivals = b /\ b \subseteq Txns
    OBVIOUS
  <1>4. Txn(r)
    BY <1>1, <1>2, <1>3 DEF Txn
  <1>5. QED
    BY <1>1, <1>2, <1>3, <1>4 DEF Starting

LEMMA Start ==
  ASSUME NEW p \in Seq(Ops), NEW a \in 0..MaxRetries, NEW b \in SUBSET Txns
  PROVE  /\ Starting([New EXCEPT !.phase = "work", !.program = p, !.todo = p, !.attempt = a, !.rivals = b], p, b)
         /\ Starting([New EXCEPT !.phase = "work", !.program = p, !.todo = p, !.rivals = b], p, b)
  <1> DEFINE e == <<>>
             m == -1
             f == FALSE
             g == {}
             n0 == New
             n1 == [n0 EXCEPT !.phase = "work"]
             n2 == [n1 EXCEPT !.program = p]
             n3 == [n2 EXCEPT !.todo = p]
             n4 == [n3 EXCEPT !.attempt = a]
             n5 == [n4 EXCEPT !.rivals = b]
             n6 == [n3 EXCEPT !.rivals = b]
             r == [New EXCEPT !.phase = "work", !.program = p, !.todo = p, !.attempt = a, !.rivals = b]
             s == [New EXCEPT !.phase = "work", !.program = p, !.todo = p, !.rivals = b]
  <1>1. r = n5 /\ s = n6
    OBVIOUS
  <1> HIDE DEF r, s, n5, n6
  <1>2. n0 = [phase |-> "new", todo |-> e, program |-> e, reads |-> e, seen |-> e, scan |-> m,
              before |-> e, after |-> e, attempt |-> 0, renumbered |-> f, rivals |-> g]
    BY DEF New
  <1> HIDE DEF n0, e, m, f, g
  <1>3. n1 = [phase |-> "work", todo |-> e, program |-> e, reads |-> e, seen |-> e, scan |-> m,
              before |-> e, after |-> e, attempt |-> 0, renumbered |-> f, rivals |-> g]
    BY <1>2
  <1> HIDE DEF n1
  <1>4. n2 = [phase |-> "work", todo |-> e, program |-> p, reads |-> e, seen |-> e, scan |-> m,
              before |-> e, after |-> e, attempt |-> 0, renumbered |-> f, rivals |-> g]
    BY <1>3
  <1> HIDE DEF n2
  <1>5. n3 = [phase |-> "work", todo |-> p, program |-> p, reads |-> e, seen |-> e, scan |-> m,
              before |-> e, after |-> e, attempt |-> 0, renumbered |-> f, rivals |-> g]
    BY <1>4
  <1> HIDE DEF n3
  <1>6. n6 = [phase |-> "work", todo |-> p, program |-> p, reads |-> e, seen |-> e, scan |-> m,
              before |-> e, after |-> e, attempt |-> 0, renumbered |-> f, rivals |-> b]
    BY <1>5 DEF n6
  <1>7. n4 = [phase |-> "work", todo |-> p, program |-> p, reads |-> e, seen |-> e, scan |-> m,
              before |-> e, after |-> e, attempt |-> a, renumbered |-> f, rivals |-> g]
    BY <1>5
  <1> HIDE DEF n4
  <1>8. n5 = [phase |-> "work", todo |-> p, program |-> p, reads |-> e, seen |-> e, scan |-> m,
              before |-> e, after |-> e, attempt |-> a, renumbered |-> f, rivals |-> b]
    BY <1>7 DEF n5
  <1>9. /\ n5 = [phase |-> "work", todo |-> p, program |-> p, reads |-> <<>>, seen |-> <<>>, scan |-> -1,
                before |-> <<>>, after |-> <<>>, attempt |-> a, renumbered |-> FALSE, rivals |-> b]
        /\ n6 = [phase |-> "work", todo |-> p, program |-> p, reads |-> <<>>, seen |-> <<>>, scan |-> -1,
                before |-> <<>>, after |-> <<>>, attempt |-> 0, renumbered |-> FALSE, rivals |-> b]
    BY <1>6, <1>8 DEF e, m, f
  <1>10. 0 \in 0..MaxRetries
    BY StorageAssumption
  <1>11. Starting(n5, p, b)
    BY <1>9, Started
  <1>12. Starting(n6, p, b)
    BY <1>9, <1>10, Started
  <1>13. QED
    BY <1>1, <1>11, <1>12 DEF r, s

LEMMA NewIs == Txn(New) /\ New.phase = "new"
  <1>1. "new" \in Phases /\ Partly(<<>>, Nat) /\ Partly(<<>>, Values) /\ <<>> \in Seq(Ops)
    BY EmptyPart DEF Phases
  <1>2. 0 \in 0..MaxRetries
    BY StorageAssumption
  <1>3. QED
    BY <1>1, <1>2 DEF Txn, New

-----------------------------------------------------------------------------
(* Sound holds at first, and every step keeps it.                          *)

LEMMA EmptyIs == Empty \in [Ids -> Entries]
  <1>1. NoEntry \in Entries
    BY DEF NoEntry, Entries
  <1>2. QED
    BY <1>1 DEF Empty

LEMMA SoundAtFirst == Init => Sound
  <1> SUFFICES ASSUME Init PROVE Sound
    OBVIOUS
  <1>1. StoreTyped
    <2>1. disk \in [Ids -> Entries]
      BY EmptyIs DEF Init
    <2>2. hot \in [Ids -> Values] /\ Cardinality(Hots(hot)) <= MaxHot
      BY NoHot DEF Init
    <2>3. Meta(meta) /\ checkpoint = meta
      <3>1. AppliedIs(<<>>)
        BY StorageAssumption DEF AppliedIs
      <3>2. QED
        BY <3>1 DEF Init, Meta
    <2>4. 0 \in 0..MaxFaults
      BY StorageAssumption
    <2>5. meta.sequence <= meta.sequence
      BY <2>3 DEF Meta
    <2>6. QED
      BY <2>1, <2>2, <2>3, <2>4, <2>5, NoCache DEF Init, StoreTyped
  <1>2. JobTyped
    BY IdleIs DEF Init, JobTyped
  <1>3. TxnsTyped
    <2>1. \A t \in Txns : Txn(tx[t])
      BY NewIs DEF Init
    <2>2. DOMAIN tx = Txns /\ queue = <<>>
      BY DEF Init
    <2>3. QED
      BY <2>1, <2>2 DEF TxnsTyped
  <1>4. LogTyped /\ HistoryOK
    <2>1. wal = <<>> /\ history = <<>> /\ told = <<>> /\ tail = Clean /\ ~Left
      BY DEF Init, Left, Clean
    <2>2. DOMAIN <<>> = {} /\ Len(<<>>) = 0
      OBVIOUS
    <2>3. QED
      BY <2>1, <2>2 DEF LogTyped, HistoryOK, ToSet
  <1>5. LogOK
    <2>1. wal = <<>> /\ checkpoint = meta /\ ~refusing /\ job.stage = "idle" /\ ~Left
      BY IdleIs DEF Init, Left, Clean
    <2>2. \A n \in 1..Len(<<>>) - 1 : FALSE
      OBVIOUS
    <2>3. QED
      BY <2>1, <2>2 DEF LogOK, Unapplied
  <1>6. JobOK
    BY IdleIs DEF Init, JobOK
  <1>7. QED
    BY <1>1, <1>2, <1>3, <1>4, <1>5, <1>6 DEF Sound

\* Steps of one transaction that only move it on, and may read: caches, hot records.
LEMMA SoundTxn ==
  ASSUME Sound, up, NEW t \in Txns, tx[t].phase \notin {"queued", "commit"}, NEW r, Txn(r),
         tx' = [tx EXCEPT ![t] = r], queue' = queue,
         UNCHANGED <<disk, stored, moved, logVars, meta, since, refusing, up, job, faults, history, told>>,
         Listing(cache'), harmed' \in BOOLEAN, hot' \in [Ids -> Values], Cardinality(Hots(hot')) <= MaxHot
  PROVE  Sound'
  <1>1. StoreTyped'
    BY DEF Sound, StoreTyped, logVars
  <1>2. TxnsTyped'
    BY TxnsSet DEF Sound
  <1>3. JobTyped' /\ LogTyped' /\ LogOK' /\ HistoryOK'
    BY JobFrame, LogTypedFrame, LogFrame, HistoryFrame DEF Sound, logVars
  <1>4. \A u \in Txns : u # t => tx'[u] = tx[u]
    BY TxnSet DEF Sound
  <1>5. JobOK'
    BY <1>4, JobOKFrame DEF Sound, logVars
  <1>6. QED
    BY <1>1, <1>2, <1>3, <1>5 DEF Sound

LEMMA PhaseIs ==
  ASSUME Sound, NEW t \in Txns
  PROVE  Txn(tx[t]) /\ tx[t].phase \in Phases /\ ChangeOf[t] \in Changes \cup {None}
  BY StorageAssumption DEF Sound, TxnsTyped, Txn

\* Nobody works while the store is down.
LEMMA UpIs ==
  ASSUME Sound, NEW t \in Txns, tx[t].phase \in InFlight
  PROVE  up
  BY DEF Sound, JobOK

LEMMA SoundBegin ==
  ASSUME Sound, NEW t \in Txns, NEW p \in Programs[t], Begin(t, p)
  PROVE  Sound'
  <1> DEFINE b == Rivals(t)
             r == [New EXCEPT !.phase = "work", !.program = p, !.todo = p, !.rivals = b]
  <1>1. p \in Seq(Ops)
    BY StorageAssumption DEF Ops
  <1>2. b \in SUBSET Txns /\ 0 \in 0..MaxRetries
    BY StorageAssumption DEF Rivals
  <1> HIDE DEF b
  <1>3. Txn(r)
    BY <1>1, <1>2, Start DEF Starting
  <1>4. tx' = [tx EXCEPT ![t] = r]
    BY DEF Begin, b
  <1> HIDE DEF r
  <1>5. Listing(cache') /\ harmed' \in BOOLEAN /\ hot' \in [Ids -> Values] /\ Cardinality(Hots(hot')) <= MaxHot
    BY DEF Begin, Sound, StoreTyped, storeVars
  <1>6. QED
    BY <1>3, <1>4, <1>5, SoundTxn DEF Begin, storeVars

\* The rest of a transaction stays as it was.
Same(q, r) ==
  /\ q.program = r.program /\ q.scan = r.scan /\ q.attempt = r.attempt
  /\ q.renumbered = r.renumbered /\ q.rivals = r.rivals

LEMMA HeadTail ==
  ASSUME NEW S, NEW s \in Seq(S), s # <<>>
  PROVE  Tail(s) \in Seq(S) /\ Head(s) \in ToSet(s) /\ ToSet(Tail(s)) \subseteq ToSet(s)
  <1>1. /\ Tail(s) \in Seq(S) /\ Len(s) \in Nat \ {0} /\ Len(Tail(s)) = Len(s) - 1
        /\ \A k \in 1..Len(Tail(s)) : Tail(s)[k] = s[k + 1]
        /\ Head(s) = s[1] /\ DOMAIN s = 1..Len(s) /\ DOMAIN Tail(s) = 1..Len(Tail(s))
    OBVIOUS
  <1> DEFINE u == Tail(s)
             n == Len(s)
  <1> HIDE DEF u, n
  <1>2. \A k \in 1..Len(u) : k + 1 \in 1..n /\ u[k] = s[k + 1]
    BY <1>1 DEF u, n
  <1>3. 1 \in 1..n
    BY <1>1 DEF n
  <1>4. DOMAIN s = 1..n /\ DOMAIN u = 1..Len(u)
    BY <1>1 DEF u, n
  <1>5. ToSet(u) \subseteq ToSet(s) /\ Head(s) \in ToSet(s)
    BY <1>1, <1>2, <1>3, <1>4 DEF ToSet
  <1>6. QED
    BY <1>1, <1>5 DEF u

LEMMA TxnTodo ==
  ASSUME NEW r, Txn(r), r.todo # <<>>
  PROVE  LET q == [r EXCEPT !.todo = Tail(@)] IN
         /\ Txn(q) /\ Same(q, r) /\ q.phase = r.phase /\ q.reads = r.reads /\ q.seen = r.seen
         /\ q.before = r.before /\ q.after = r.after /\ ToSet(q.todo) \subseteq ToSet(r.todo)
  <1>1. Tail(r.todo) \in Seq(Ops) /\ ToSet(Tail(r.todo)) \subseteq ToSet(r.todo)
    <2>1. r.todo \in Seq(Ops)
      BY DEF Txn
    <2>2. QED
      BY <2>1, HeadTail
  <1> DEFINE u == Tail(r.todo)
  <1> HIDE DEF u
  <1>2. /\ u \in Seq(Ops) /\ [r EXCEPT !.todo = Tail(@)] = [r EXCEPT !.todo = u]
        /\ ToSet(u) \subseteq ToSet(r.todo)
    BY <1>1 DEF u
  <1> DEFINE q == [r EXCEPT !.todo = u]
  <1>3. /\ Txn(q) /\ Same(q, r) /\ q.phase = r.phase /\ q.reads = r.reads /\ q.seen = r.seen
        /\ q.before = r.before /\ q.after = r.after /\ q.todo = u
    BY <1>2 DEF Txn, Same
  <1> HIDE DEF q
  <1>4. QED
    BY <1>2, <1>3 DEF q

LEMMA TxnReads ==
  ASSUME NEW r, Txn(r), NEW f, Partly(f, Nat), DOMAIN r.after \subseteq DOMAIN f
  PROVE  LET q == [r EXCEPT !.reads = f] IN
         /\ Txn(q) /\ Same(q, r) /\ q.reads = f /\ q.phase = r.phase /\ q.todo = r.todo
         /\ q.seen = r.seen /\ q.before = r.before /\ q.after = r.after
  <1> DEFINE q == [r EXCEPT !.reads = f]
  <1>1. /\ q = [phase |-> q.phase, todo |-> q.todo, program |-> q.program, reads |-> q.reads,
                seen |-> q.seen, scan |-> q.scan, before |-> q.before, after |-> q.after,
                attempt |-> q.attempt, renumbered |-> q.renumbered, rivals |-> q.rivals]
        /\ q.phase = r.phase /\ q.todo = r.todo /\ q.program = r.program /\ q.reads = f
        /\ q.seen = r.seen /\ q.scan = r.scan /\ q.before = r.before /\ q.after = r.after
        /\ q.attempt = r.attempt /\ q.renumbered = r.renumbered /\ q.rivals = r.rivals
    BY DEF Txn
  <1> HIDE DEF q
  <1>2. Txn(q) /\ Same(q, r)
    BY <1>1 DEF Txn, Same
  <1>3. QED
    BY <1>1, <1>2 DEF q

LEMMA TxnSeen ==
  ASSUME NEW r, Txn(r), NEW f, Partly(f, Values)
  PROVE  LET q == [r EXCEPT !.seen = f] IN
         /\ Txn(q) /\ Same(q, r) /\ q.seen = f /\ q.phase = r.phase /\ q.todo = r.todo
         /\ q.reads = r.reads /\ q.before = r.before /\ q.after = r.after
  BY DEF Txn, Same

LEMMA TxnBefore ==
  ASSUME NEW r, Txn(r), NEW f, Partly(f, Values)
  PROVE  LET q == [r EXCEPT !.before = f] IN
         /\ Txn(q) /\ Same(q, r) /\ q.before = f /\ q.phase = r.phase /\ q.todo = r.todo
         /\ q.reads = r.reads /\ q.seen = r.seen /\ q.after = r.after
  BY DEF Txn, Same

LEMMA TxnAfter ==
  ASSUME NEW r, Txn(r), NEW f, Partly(f, Values), DOMAIN f \subseteq DOMAIN r.reads
  PROVE  LET q == [r EXCEPT !.after = f] IN
         /\ Txn(q) /\ Same(q, r) /\ q.after = f /\ q.phase = r.phase /\ q.todo = r.todo
         /\ q.reads = r.reads /\ q.seen = r.seen /\ q.before = r.before
  BY DEF Txn, Same

\* What an access to a record makes of its transaction: it may note the version of the record,
\* with the value it saw, or without one.
Accessed(r, q, i) ==
  /\ Txn(q) /\ Same(q, r) /\ q.phase \in {"work", "aborted"} /\ ToSet(q.todo) \subseteq ToSet(r.todo)
  /\ \A j \in DOMAIN q.reads : \/ j \in DOMAIN r.reads /\ q.reads[j] = r.reads[j]
                               \/ j = i /\ i \notin DOMAIN r.after /\ q.reads[i] = Entry(cache, i).version
  /\ \A j \in DOMAIN q.seen :
       \/ /\ j \in DOMAIN r.seen /\ q.seen[j] = r.seen[j]
          /\ j \in DOMAIN r.reads => j \in DOMAIN q.reads /\ q.reads[j] = r.reads[j]
       \/ /\ j = i /\ i \notin DOMAIN r.after
          /\ i \in DOMAIN q.reads /\ q.reads[i] = Entry(cache, i).version /\ q.seen[i] = Value(i)

LEMMA AccessIs ==
  ASSUME disk \in [Ids -> Entries], Listing(cache), hot \in [Ids -> Values], DOMAIN tx = Txns,
         NEW t \in Txns, Txn(tx[t]), Access(t)
  PROVE  LET i == Head(tx[t].todo).id IN
         /\ i \in Ids /\ (IF i \in DOMAIN tx[t].after THEN UNCHANGED <<cache, hot, harmed>> ELSE Touch(i))
         /\ Head(tx[t].todo) \in ToSet(tx[t].todo) /\ Head(tx[t].todo).kind # "all"
         /\ \E q : Accessed(tx[t], q, i) /\ tx' = [tx EXCEPT ![t] = q]
  <1> DEFINE r == tx[t]
             op == Head(r.todo)
             i == op.id
             e == Entry(cache, i)
             own == i \in DOMAIN r.after
             now == IF own THEN r.after[i] ELSE Value(i)
             next == [r EXCEPT !.todo = Tail(@)]
             read == IF own THEN next
                     ELSE [next EXCEPT !.reads = With(@, i, e.version), !.seen = With(@, i, now)]
             before == IF own THEN r.before ELSE With(r.before, i, now)
             noted(q) == IF i \in DOMAIN q.reads THEN q.reads ELSE With(q.reads, i, e.version)
             write(q, v) == [q EXCEPT !.reads = noted(q), !.before = before, !.after = With(@, i, v)]
  <1>1. r.phase = "work" /\ r.todo # <<>> /\ IF own THEN UNCHANGED <<cache, hot, harmed>> ELSE Touch(i)
    BY DEF Access
  <1>16. own => i \in DOMAIN r.reads
    BY DEF Txn
  <1>2. op \in Ops /\ i \in Ids /\ op.kind \in Kinds /\ op.kind # "all" /\ op \in ToSet(r.todo)
    <2>1. r.todo \in Seq(Ops)
      BY DEF Txn
    <2>2. op \in Ops /\ op \in ToSet(r.todo)
      BY <1>1, <2>1, TailIs, HeadTail
    <2>3. op.kind # "all"
      BY DEF Access
    <2>4. QED
      BY <2>2, <2>3 DEF Ops
  <1>3. e.version \in Nat /\ Value(i) \in Values /\ Partly(r.reads, Nat) /\ Partly(r.seen, Values)
        /\ Partly(r.before, Values) /\ Partly(r.after, Values)
    BY <1>2, EntryIs, EntryFields, ValueIs DEF Txn
  <1>4. now \in Values /\ (~own => now = Value(i))
    BY <1>3, PartIs
  <1>5. Partly(before, Values)
    BY <1>2, <1>3, <1>4 DEF With, Partly
  <1>6. /\ Txn(next) /\ Same(next, r) /\ next.phase = "work" /\ next.reads = r.reads /\ next.seen = r.seen
        /\ next.before = r.before /\ next.after = r.after /\ ToSet(next.todo) \subseteq ToSet(r.todo)
    BY <1>1, TxnTodo
  <1>7. tx' = [tx EXCEPT ![t] =
                CASE op.kind = "get" -> read
                  [] op.kind = "put" -> write(next, t)
                  [] op.kind = "insert" /\ now = None -> write(read, t)
                  [] op.kind = "insert" /\ now # None -> [r EXCEPT !.phase = "aborted"]
                  [] op.kind = "remove" /\ now # None -> write(next, None)
                  [] op.kind = "remove" /\ now = None -> [next EXCEPT !.reads = noted(r)]]
    BY DEF Access, Noted
  <1>15. Txn(r)
    OBVIOUS
  <1> HIDE DEF op, now, before, i, r
  <1>17. DOMAIN r.after \subseteq DOMAIN r.reads
    BY <1>15 DEF Txn
  <1>8. Accessed(r, next, i)
    BY <1>6 DEF Accessed
  <1>9. Accessed(r, read, i) /\ read.phase = "work" /\ read.after = r.after
    <2>1. CASE own
      BY <1>6, <1>8, <2>1
    <2>2. CASE ~own
      <3> DEFINE f == With(next.reads, i, e.version)
                 g == With(next.seen, i, now)
                 p == [next EXCEPT !.reads = f]
                 q == [p EXCEPT !.seen = g]
      <3>9. read = q
        BY <2>2
      <3> HIDE DEF e, next, read
      <3>10. Partly(next.reads, Nat) /\ Partly(next.seen, Values)
        BY <1>3, <1>6
      <3>1. /\ Partly(f, Nat) /\ DOMAIN f = DOMAIN next.reads \cup {i} /\ DOMAIN f = DOMAIN r.reads \cup {i}
            /\ f[i] = e.version
            /\ \A j \in DOMAIN r.reads : j # i => f[j] = r.reads[j]
        BY <1>2, <1>3, <1>6, <3>10 DEF With, Partly
      <3>2. /\ Partly(g, Values) /\ DOMAIN g = DOMAIN r.seen \cup {i} /\ g[i] = Value(i)
            /\ \A j \in DOMAIN r.seen : j # i => g[j] = r.seen[j]
        BY <1>2, <1>3, <1>4, <1>6, <2>2, <3>10 DEF With, Partly
      <3> HIDE DEF f, g
      <3>11. DOMAIN next.after \subseteq DOMAIN f
        BY <1>6, <3>1 DEF Txn
      <3>3. Txn(p) /\ Same(p, next) /\ p.phase = next.phase /\ p.reads = f /\ p.after = next.after /\ p.todo = next.todo
        BY <1>6, <3>1, <3>11, TxnReads
      <3> HIDE DEF p
      <3>4. Txn(q) /\ Same(q, p) /\ q.phase = p.phase /\ q.reads = p.reads /\ q.seen = g /\ q.after = p.after /\ q.todo = p.todo
        BY <3>2, <3>3, TxnSeen
      <3> HIDE DEF q
      <3>5. /\ Txn(q) /\ Same(q, r) /\ q.phase = "work" /\ q.after = r.after /\ q.reads = f /\ q.seen = g
            /\ ToSet(q.todo) \subseteq ToSet(r.todo)
        BY <1>6, <3>3, <3>4 DEF Same
      <3>6. \A j \in DOMAIN q.reads : \/ j \in DOMAIN r.reads /\ q.reads[j] = r.reads[j]
                                      \/ j = i /\ q.reads[i] = e.version
        BY <3>1, <3>5
      <3>7. \A j \in DOMAIN q.seen :
              \/ /\ j \in DOMAIN r.seen /\ q.seen[j] = r.seen[j]
                 /\ j \in DOMAIN r.reads => j \in DOMAIN q.reads /\ q.reads[j] = r.reads[j]
              \/ j = i /\ i \in DOMAIN q.reads /\ q.reads[i] = e.version /\ q.seen[i] = Value(i)
        BY <3>1, <3>2, <3>5
      <3>8. QED
        BY <2>2, <3>9, <3>5, <3>6, <3>7 DEF Accessed, e
    <2>3. QED
      BY <2>1, <2>2
  <1>10. ASSUME NEW q \in {next, read}, NEW v \in Values
         PROVE  Accessed(r, write(q, v), i)
    <2> DEFINE f == noted(q)
               h == With(q.after, i, v)
               m == [q EXCEPT !.reads = f]
               n == [m EXCEPT !.before = before]
               s == [n EXCEPT !.after = h]
    <2>1. Accessed(r, q, i) /\ q.phase = "work" /\ q.after = r.after
      BY <1>6, <1>8, <1>9
    <2>14. own => i \in DOMAIN q.reads
      BY <1>6, <1>16
    <2> HIDE DEF next, read, e
    <2>2. Txn(q) /\ Partly(q.reads, Nat)
      BY <2>1 DEF Accessed, Txn
    <2>3. /\ Partly(f, Nat) /\ DOMAIN f = DOMAIN q.reads \cup {i}
          /\ \A j \in DOMAIN q.reads : f[j] = q.reads[j]
          /\ i \notin DOMAIN q.reads => f[i] = e.version
      <3>1. CASE i \in DOMAIN q.reads
        BY <2>2, <3>1
      <3>2. CASE i \notin DOMAIN q.reads
        <4>1. \A j \in DOMAIN q.reads : j # i
          BY <3>2
        <4>2. f = With(q.reads, i, e.version)
          BY <3>2
        <4> HIDE DEF f
        <4>3. QED
          BY <1>2, <1>3, <2>2, <3>2, <4>1, <4>2 DEF With, Partly
      <3>3. QED
        BY <3>1, <3>2
    <2>4. Partly(h, Values) /\ DOMAIN h = DOMAIN q.after \cup {i}
      BY <1>2, <1>3, <2>1 DEF With, Partly
    <2>15. DOMAIN q.after \subseteq DOMAIN f /\ DOMAIN h \subseteq DOMAIN f
      <3>1. DOMAIN q.after \subseteq DOMAIN q.reads /\ i \in DOMAIN f
        BY <2>2, <2>3 DEF Txn
      <3> HIDE DEF f, h
      <3>2. QED
        BY <2>3, <2>4, <3>1
    <2> HIDE DEF f, h
    <2>6. write(q, v) = s
      BY DEF f, h
    <2>11. Txn(m) /\ Same(m, q) /\ m.phase = q.phase /\ m.reads = f /\ m.seen = q.seen /\ m.todo = q.todo
      BY <2>2, <2>3, <2>15, TxnReads
    <2> HIDE DEF m
    <2>12. Txn(n) /\ Same(n, m) /\ n.phase = m.phase /\ n.reads = m.reads /\ n.seen = m.seen /\ n.todo = m.todo
      BY <1>5, <2>11, TxnBefore
    <2> HIDE DEF n
    <2>13. Txn(s) /\ Same(s, n) /\ s.phase = n.phase /\ s.reads = n.reads /\ s.seen = n.seen /\ s.todo = n.todo
      BY <2>4, <2>11, <2>12, <2>15, TxnAfter
    <2> HIDE DEF s, write
    <2>5. Txn(s) /\ Same(s, q) /\ s.phase = q.phase /\ s.reads = f /\ s.seen = q.seen /\ s.todo = q.todo
      BY <2>11, <2>12, <2>13 DEF Same
    <2>7. Txn(s) /\ Same(s, r) /\ s.phase = "work" /\ ToSet(s.todo) \subseteq ToSet(r.todo)
      BY <2>1, <2>5 DEF Accessed, Same
    <2>8. \A j \in DOMAIN s.reads : \/ j \in DOMAIN r.reads /\ s.reads[j] = r.reads[j]
                                    \/ j = i /\ ~own /\ s.reads[i] = e.version
      BY <2>1, <2>3, <2>5, <2>14 DEF Accessed, e
    <2>9. \A j \in DOMAIN s.seen :
            \/ /\ j \in DOMAIN r.seen /\ s.seen[j] = r.seen[j]
               /\ j \in DOMAIN r.reads => j \in DOMAIN s.reads /\ s.reads[j] = r.reads[j]
            \/ j = i /\ ~own /\ i \in DOMAIN s.reads /\ s.reads[i] = e.version /\ s.seen[i] = Value(i)
      BY <2>1, <2>3, <2>5, <2>14 DEF Accessed, e
    <2>10. QED
      BY <2>6, <2>7, <2>8, <2>9 DEF Accessed, e
  <1>11. Accessed(r, [r EXCEPT !.phase = "aborted"], i)
    <2> DEFINE q == [r EXCEPT !.phase = "aborted"]
    <2>1. "aborted" \in Phases
      BY DEF Phases
    <2>2. Txn(q) /\ Same(q, r) /\ q.phase = "aborted" /\ q.reads = r.reads /\ q.seen = r.seen /\ q.todo = r.todo
      BY <1>15, <2>1, TxnPhase DEF Same
    <2> HIDE DEF q
    <2>3. Accessed(r, q, i)
      BY <2>2 DEF Accessed
    <2>4. QED
      BY <2>3 DEF q
  <1>12. Accessed(r, [next EXCEPT !.reads = noted(r)], i)
    <2> DEFINE f == noted(r)
               q == [next EXCEPT !.reads = f]
    <2> HIDE DEF next, e
    <2>1. /\ Partly(f, Nat) /\ DOMAIN f = DOMAIN r.reads \cup {i}
          /\ \A j \in DOMAIN r.reads : f[j] = r.reads[j]
          /\ i \notin DOMAIN r.reads => f[i] = e.version
      <3>1. CASE i \in DOMAIN r.reads
        BY <1>3, <3>1
      <3>2. CASE i \notin DOMAIN r.reads
        <4>1. \A j \in DOMAIN r.reads : j # i
          BY <3>2
        <4>2. f = With(r.reads, i, e.version)
          BY <3>2
        <4> HIDE DEF f
        <4>3. QED
          BY <1>2, <1>3, <3>2, <4>1, <4>2 DEF With, Partly
      <3>3. QED
        BY <3>1, <3>2
    <2> HIDE DEF f
    <2>6. DOMAIN next.after \subseteq DOMAIN f
      BY <1>6, <2>1 DEF Txn
    <2>2. /\ Txn(q) /\ Same(q, next) /\ q.phase = next.phase /\ q.reads = f /\ q.seen = next.seen
          /\ q.todo = next.todo
      BY <1>6, <2>1, <2>6, TxnReads
    <2> HIDE DEF q
    <2>3. Txn(q) /\ Same(q, r) /\ q.phase = "work" /\ q.seen = r.seen /\ ToSet(q.todo) \subseteq ToSet(r.todo)
      BY <1>6, <2>2 DEF Same
    <2>4. Accessed(r, q, i)
      BY <1>16, <2>1, <2>2, <2>3 DEF Accessed, e
    <2>5. QED
      BY <2>4 DEF q, f
  <1> HIDE DEF write, read, next, e
  <1>13. t \in Values /\ None \in Values
    BY DEF Values
  <1>14. QED
    <2> DEFINE w ==
         CASE op.kind = "get" -> read
                  [] op.kind = "put" -> write(next, t)
                  [] op.kind = "insert" /\ now = None -> write(read, t)
                  [] op.kind = "insert" /\ now # None -> [r EXCEPT !.phase = "aborted"]
                  [] op.kind = "remove" /\ now # None -> write(next, None)
                  [] op.kind = "remove" /\ now = None -> [next EXCEPT !.reads = noted(r)]
    <2>1. Accessed(r, w, i)
      <3> HIDE DEF Accessed
      <3>1. CASE op.kind = "get"
        BY <1>9, <3>1
      <3>2. CASE op.kind = "put"
        BY <1>10, <1>13, <3>2
      <3>3. CASE op.kind = "insert" /\ now = None
        BY <1>10, <1>13, <3>3
      <3>4. CASE op.kind = "insert" /\ now # None
        BY <1>11, <3>4
      <3>5. CASE op.kind = "remove" /\ now # None
        BY <1>10, <1>13, <3>5
      <3>6. CASE op.kind = "remove" /\ now = None
        BY <1>12, <3>6
      <3>7. op.kind \in {"get", "put", "insert", "remove"}
        BY <1>2 DEF Kinds
      <3>8. QED
        BY <3>1, <3>2, <3>3, <3>4, <3>5, <3>6, <3>7
    <2>2. tx' = [tx EXCEPT ![t] = w]
      BY <1>7
    <2> HIDE DEF w
    <2>3. QED
      BY <1>1, <1>2, <2>1, <2>2 DEF op, i, r

LEMMA SoundAccess ==
  ASSUME Sound, NEW t \in Txns, Access(t)
  PROVE  Sound'
  <1> DEFINE i == Head(tx[t].todo).id
  <1>1. /\ disk \in [Ids -> Entries] /\ Listing(cache) /\ hot \in [Ids -> Values]
        /\ Cardinality(Hots(hot)) <= MaxHot /\ Txn(tx[t]) /\ DOMAIN tx = Txns
    BY DEF Sound, StoreTyped, TxnsTyped
  <1>2. /\ i \in Ids /\ IF i \in DOMAIN tx[t].after THEN UNCHANGED <<cache, hot, harmed>> ELSE Touch(i)
        /\ \E q : Accessed(tx[t], q, i) /\ tx' = [tx EXCEPT ![t] = q]
    BY <1>1, AccessIs
  <1>3. PICK q : Accessed(tx[t], q, i) /\ tx' = [tx EXCEPT ![t] = q]
    BY <1>2
  <1>4. /\ Listing(cache') /\ harmed' \in BOOLEAN /\ hot' \in [Ids -> Values]
        /\ Cardinality(Hots(hot')) <= MaxHot
    <2>1. harmed \in BOOLEAN
      BY DEF Sound, StoreTyped
    <2>2. CASE i \in DOMAIN tx[t].after
      BY <1>1, <1>2, <2>1, <2>2
    <2>3. CASE i \notin DOMAIN tx[t].after
      BY <1>1, <1>2, <2>1, <2>3, TouchIs
    <2>4. QED
      BY <2>2, <2>3
  <1>5. tx[t].phase = "work" /\ up
    BY UpIs DEF Access, InFlight
  <1>6. Txn(q)
    BY <1>3 DEF Accessed
  <1>7. QED
    BY <1>3, <1>4, <1>5, <1>6, SoundTxn DEF Access

LEMMA TxnScan ==
  ASSUME NEW r, Txn(r), NEW f \in Nat \cup {-1}
  PROVE  LET q == [r EXCEPT !.scan = f] IN
         /\ Txn(q) /\ q.scan = f /\ q.phase = r.phase /\ q.todo = r.todo /\ q.program = r.program
         /\ q.reads = r.reads /\ q.seen = r.seen /\ q.before = r.before /\ q.after = r.after
         /\ q.attempt = r.attempt /\ q.renumbered = r.renumbered /\ q.rivals = r.rivals
  BY DEF Txn

\* What a scan makes of its transaction.
LEMMA ScanTxn ==
  ASSUME Sound, NEW t \in Txns, ScanAll(t)
  PROVE  \E q : /\ Txn(q) /\ tx' = [tx EXCEPT ![t] = q] /\ q.phase = "work" /\ q.scan = meta.version
                /\ q.renumbered = tx[t].renumbered /\ q.rivals = tx[t].rivals /\ q.program = tx[t].program
                /\ ToSet(q.todo) \subseteq ToSet(tx[t].todo)
                /\ q.reads = tx[t].reads /\ DOMAIN q.seen = Ids \ DOMAIN tx[t].after
                /\ \A i \in DOMAIN q.seen : q.seen[i] = ScanEntry(i).value
  <1> DEFINE r == tx[t]
             v == meta.version
             g == [i \in Ids \ DOMAIN r.after |-> ScanEntry(i).value]
             m == [r EXCEPT !.todo = Tail(@)]
             n == [m EXCEPT !.scan = v]
             q == [n EXCEPT !.seen = g]
             x == [tx EXCEPT ![t].todo = Tail(@)]
             y == [x EXCEPT ![t].scan = v]
             z == [y EXCEPT ![t].seen = g]
  <1>1. Txn(r) /\ r.phase = "work" /\ r.todo # <<>> /\ DOMAIN tx = Txns
    BY PhaseIs DEF ScanAll, Sound, TxnsTyped
  <1>2. v \in Nat /\ disk \in [Ids -> Entries] /\ Listing(cache)
    BY DEF Sound, StoreTyped, Meta
  <1>3. /\ Partly(g, Values) /\ DOMAIN g = Ids \ DOMAIN r.after
        /\ \A i \in DOMAIN g : g[i] = ScanEntry(i).value
    <2>1. \A i \in Ids : ScanEntry(i).value \in Values
      BY <1>2, ScanEntryIs, EntryFields
    <2>2. QED
      BY <2>1 DEF Partly
  <1>4. tx' = z
    BY DEF ScanAll
  <1> HIDE DEF g, v
  <1>5. x = [tx EXCEPT ![t] = m]
    OBVIOUS
  <1>6. /\ Txn(m) /\ Same(m, r) /\ m.phase = r.phase /\ m.reads = r.reads /\ m.after = r.after
        /\ ToSet(m.todo) \subseteq ToSet(r.todo)
    BY <1>1, TxnTodo
  <1>7. x[t] = m /\ DOMAIN x = Txns
    BY <1>1, <1>5
  <1>8. y = [tx EXCEPT ![t] = n]
    <2> HIDE DEF m, x, r
    <2>1. y = [x EXCEPT ![t] = n]
      BY <1>7
    <2> HIDE DEF y, n
    <2>2. QED
      BY <1>1, <1>5, <2>1
  <1> HIDE DEF x, m, r
  <1>9. /\ Txn(n) /\ n.scan = v /\ n.phase = "work" /\ n.reads = r.reads
        /\ n.renumbered = r.renumbered /\ n.rivals = r.rivals /\ n.program = r.program
        /\ ToSet(n.todo) \subseteq ToSet(r.todo)
    <2>1. v \in Nat \cup {-1} /\ Txn(m)
      BY <1>2, <1>6
    <2>2. /\ Txn(n) /\ n.scan = v /\ n.phase = m.phase /\ n.reads = m.reads
          /\ n.renumbered = m.renumbered /\ n.rivals = m.rivals /\ n.program = m.program /\ n.todo = m.todo
      BY <2>1, TxnScan
    <2> HIDE DEF n
    <2>3. QED
      BY <1>1, <1>6, <2>2 DEF Same
  <1>10. y[t] = n /\ DOMAIN y = Txns
    <2> HIDE DEF y, n
    <2>1. QED
      BY <1>1, <1>8
  <1> HIDE DEF n
  <1>11. /\ Txn(q) /\ Same(q, n) /\ q.phase = "work" /\ q.reads = r.reads /\ q.seen = g /\ q.todo = n.todo
    BY <1>3, <1>9, TxnSeen
  <1>12. z = [y EXCEPT ![t] = q]
    <2> HIDE DEF y
    <2>1. QED
      BY <1>10
  <1> HIDE DEF y, z, q
  <1>13. tx' = [tx EXCEPT ![t] = q]
    BY <1>1, <1>4, <1>8, <1>12
  <1>14. QED
    BY <1>3, <1>9, <1>11, <1>13 DEF Same, v, r

LEMMA SoundScanAll ==
  ASSUME Sound, NEW t \in Txns, ScanAll(t)
  PROVE  Sound'
  <1>1. PICK q : Txn(q) /\ tx' = [tx EXCEPT ![t] = q]
    BY ScanTxn
  <1>2. disk \in [Ids -> Entries] /\ Listing(cache) /\ harmed \in BOOLEAN
    BY DEF Sound, StoreTyped
  <1>3. Listing(cache') /\ harmed' \in BOOLEAN
    BY <1>2, BucketsIn, ReadsAre DEF ScanAll, BucketSeq
  <1>4. hot' \in [Ids -> Values] /\ Cardinality(Hots(hot')) <= MaxHot
    <2>1. hot' \in Scanned
      BY DEF ScanAll
    <2>2. QED
      BY <1>2, <2>1, ScanIs
  <1>5. tx[t].phase = "work" /\ up
    BY UpIs DEF ScanAll, InFlight
  <1>6. QED
    BY <1>1, <1>3, <1>4, <1>5, SoundTxn DEF ScanAll

\* Setting the phase of a transaction.
LEMMA PhaseSet ==
  ASSUME Sound, NEW t \in Txns, NEW p \in Phases, tx' = [tx EXCEPT ![t].phase = p]
  PROVE  LET q == [tx[t] EXCEPT !.phase = p] IN
         /\ tx' = [tx EXCEPT ![t] = q] /\ Txn(q) /\ tx'[t] = q /\ q.phase = p /\ q.after = tx[t].after
         /\ \A u \in Txns : u # t => tx'[u] = tx[u]
  <1> DEFINE q == [tx[t] EXCEPT !.phase = p]
  <1>1. Txn(q) /\ q.phase = p /\ q.after = tx[t].after
    BY PhaseIs, TxnPhase
  <1>2. tx' = [tx EXCEPT ![t] = q]
    OBVIOUS
  <1>3. DOMAIN tx = Txns
    BY DEF Sound, TxnsTyped
  <1> HIDE DEF q
  <1>4. tx'[t] = q /\ \A u \in Txns : u # t => tx'[u] = tx[u]
    BY <1>2, <1>3
  <1>5. QED
    BY <1>1, <1>2, <1>4 DEF q

LEMMA SoundAccessFails ==
  ASSUME Sound, NEW t \in Txns, AccessFails(t)
  PROVE  Sound'
  <1> DEFINE q == [tx[t] EXCEPT !.phase = "aborted"]
  <1>1. "aborted" \in Phases
    BY DEF Phases
  <1>2. tx' = [tx EXCEPT ![t] = q] /\ Txn(q)
    <2>1. tx' = [tx EXCEPT ![t].phase = "aborted"]
      BY DEF AccessFails
    <2>2. QED
      BY <1>1, <2>1, PhaseSet
  <1>3. tx[t].phase = "work" /\ up
    BY UpIs DEF AccessFails, InFlight
  <1>4. Listing(cache') /\ harmed' \in BOOLEAN /\ hot' \in [Ids -> Values] /\ Cardinality(Hots(hot')) <= MaxHot
    BY DEF AccessFails, Sound, StoreTyped, storeVars
  <1> HIDE DEF q
  <1>5. QED
    BY <1>2, <1>3, <1>4, SoundTxn DEF AccessFails, storeVars

LEMMA SoundSubmit ==
  ASSUME Sound, NEW t \in Txns, Submit(t)
  PROVE  Sound'
  <1> DEFINE last == ~Wrote(t) /\ (ChangeOf[t] = None \/ Contains(meta.applied, ChangeOf[t]))
             p == IF last THEN "done" ELSE "queued"
             q == [tx[t] EXCEPT !.phase = p]
  <1>1. tx[t].phase = "work" /\ up
    BY UpIs DEF Submit, InFlight
  <1>2. tx' = [tx EXCEPT ![t].phase = p] /\ queue' = IF last THEN queue ELSE Append(queue, t)
    BY DEF Submit
  <1>3. p \in Phases
    BY DEF Phases, InFlight
  <1> HIDE DEF last
  <1>4. /\ tx' = [tx EXCEPT ![t] = q] /\ Txn(q) /\ q.phase = p
        /\ \A u \in Txns : u # t => tx'[u] = tx[u]
    BY <1>2, <1>3, PhaseSet
  <1> HIDE DEF q
  <1>5. TxnsTyped'
    <2>1. CASE last
      BY <1>1, <1>2, <1>4, <2>1, TxnsSet DEF Sound
    <2>2. CASE ~last
      BY <1>1, <1>2, <1>4, <2>2, TxnsPush DEF Sound
    <2>3. QED
      BY <2>1, <2>2
  <1>6. StoreTyped'
    BY StoreFrame DEF Submit, Sound, storeVars, logVars
  <1>7. JobTyped' /\ LogTyped' /\ LogOK' /\ HistoryOK'
    BY JobFrame, LogTypedFrame, LogFrame, HistoryFrame DEF Submit, Sound, logVars, storeVars
  <1>8. JobOK'
    BY <1>1, <1>4, JobOKFrame DEF Submit, Sound, logVars
  <1>9. QED
    BY <1>5, <1>6, <1>7, <1>8 DEF Sound

-----------------------------------------------------------------------------
\* The queue.

LEMMA SoundPop ==
  ASSUME Sound, NEW t \in Txns, Next1(t), NEW r, Txn(r), tx' = [tx EXCEPT ![t] = r], queue' = Tail(queue),
         UNCHANGED <<disk, hot, stored, moved, logVars, meta, since, refusing, up, job, faults, history, told>>,
         Listing(cache'), harmed' \in BOOLEAN
  PROVE  Sound'
  <1>1. up /\ job = Idle /\ queue # <<>> /\ Head(queue) = t
    BY DEF Next1
  <1>2. StoreTyped'
    BY DEF Sound, StoreTyped, logVars
  <1>3. TxnsTyped'
    BY <1>1, TxnsPop DEF Sound
  <1>4. JobTyped' /\ LogTyped' /\ LogOK' /\ HistoryOK'
    BY JobFrame, LogTypedFrame, LogFrame, HistoryFrame DEF Sound, logVars
  <1>5. JobOK'
    BY <1>1, JobOKIdle, IdleIs
  <1>6. QED
    BY <1>2, <1>3, <1>4, <1>5 DEF Sound

LEMMA QueuedIs ==
  ASSUME Sound, NEW t \in Txns, Next1(t)
  PROVE  tx[t].phase = "queued" /\ up /\ job = Idle /\ queue # <<>>
  <1>1. queue # <<>> /\ Head(queue) = t /\ up /\ job = Idle
    BY DEF Next1
  <1>2. queue \in Seq(Jobs)
    BY DEF Sound, TxnsTyped, Jobs
  <1>3. Len(queue) \in Nat \ {0} /\ Head(queue) = queue[1] /\ DOMAIN queue = 1..Len(queue)
    BY <1>1, <1>2
  <1>4. 1 \in DOMAIN queue
    BY <1>3
  <1>5. tx[t].phase = "queued"
    BY <1>1, <1>3, <1>4 DEF Sound, TxnsTyped
  <1>6. QED
    BY <1>1, <1>5

LEMMA SoundRefuse ==
  ASSUME Sound, NEW t \in Txns, Refuse(t)
  PROVE  Sound'
  <1> DEFINE q == [tx[t] EXCEPT !.phase = "aborted"]
  <1>1. "aborted" \in Phases
    BY DEF Phases
  <1>2. tx' = [tx EXCEPT ![t] = q] /\ Txn(q)
    <2>1. tx' = [tx EXCEPT ![t].phase = "aborted"]
      BY DEF Refuse
    <2>2. QED
      BY <1>1, <2>1, PhaseSet
  <1>3. Listing(cache') /\ harmed' \in BOOLEAN
    BY DEF Refuse, Sound, StoreTyped, storeVars
  <1> HIDE DEF q
  <1>4. QED
    BY <1>2, <1>3, SoundPop DEF Refuse, storeVars

LEMMA ValidatedIs ==
  ASSUME Sound, NEW t \in Txns, Reads(Validates(t))
  PROVE  Listing(cache') /\ harmed' \in BOOLEAN /\ (harmed => harmed')
  <1>1. disk \in [Ids -> Entries] /\ Listing(cache) /\ harmed \in BOOLEAN
    BY DEF Sound, StoreTyped
  <1>2. Txn(tx[t])
    BY PhaseIs
  <1>3. BucketSeq(Validates(t))
    BY <1>1, <1>2, ValidatesIs
  <1>4. QED
    BY <1>1, <1>3, ReadsAre

\* What a conflict makes of its transaction.
LEMMA ConflictTxn ==
  ASSUME Sound, NEW t \in Txns, Conflict(t)
  PROVE  \E q : /\ Txn(q) /\ tx' = [tx EXCEPT ![t] = q] /\ q.phase \in {"work", "aborted"} /\ q.rivals = tx[t].rivals
                /\ q.phase = "work" => /\ DOMAIN q.reads = {} /\ DOMAIN q.seen = {} /\ q.scan = -1
                                       /\ DOMAIN q.after = {} /\ q.todo = q.program
  <1> DEFINE r == tx[t]
             a == [r EXCEPT !.phase = "aborted"]
             w == [New EXCEPT !.phase = "work", !.program = r.program, !.todo = r.program,
                              !.attempt = r.attempt + 1, !.rivals = r.rivals]
  <1>1. Txn(r)
    BY PhaseIs
  <1>2. tx' = [tx EXCEPT ![t] = IF r.attempt = MaxRetries THEN a ELSE w]
    BY DEF Conflict
  <1>3. CASE r.attempt = MaxRetries
    <2>1. "aborted" \in Phases
      BY DEF Phases
    <2>2. Txn(a) /\ a.phase = "aborted" /\ a.rivals = r.rivals
      BY <1>1, <2>1, TxnPhase
    <2>3. tx' = [tx EXCEPT ![t] = a]
      BY <1>2, <1>3
    <2> HIDE DEF a
    <2>4. QED
      BY <2>2, <2>3
  <1>4. CASE r.attempt # MaxRetries
    <2>1. r.program \in Seq(Ops) /\ r.attempt + 1 \in 0..MaxRetries /\ r.rivals \in SUBSET Txns
      <3>1. r.program \in Seq(Ops) /\ r.attempt \in 0..MaxRetries /\ r.rivals \in SUBSET Txns
        BY <1>1 DEF Txn
      <3>2. MaxRetries \in Nat
        BY StorageAssumption
      <3>3. QED
        BY <1>4, <3>1, <3>2
    <2> DEFINE p == r.program
               c == r.attempt + 1
               b == r.rivals
    <2>2. p \in Seq(Ops) /\ c \in 0..MaxRetries /\ b \in SUBSET Txns
      BY <2>1
    <2>3. tx' = [tx EXCEPT ![t] = [New EXCEPT !.phase = "work", !.program = p, !.todo = p, !.attempt = c, !.rivals = b]]
      BY <1>2, <1>4
    <2> HIDE DEF p, c, b
    <2> DEFINE q == [New EXCEPT !.phase = "work", !.program = p, !.todo = p, !.attempt = c, !.rivals = b]
    <2>4. Starting(q, p, b)
      BY <2>2, Start
    <2> HIDE DEF q
    <2>5. tx' = [tx EXCEPT ![t] = q]
      BY <2>3 DEF q
    <2>6. QED
      BY <2>4, <2>5 DEF Starting, b
  <1>5. QED
    BY <1>3, <1>4

LEMMA SoundConflict ==
  ASSUME Sound, NEW t \in Txns, Conflict(t)
  PROVE  Sound'
  <1>1. PICK q : Txn(q) /\ tx' = [tx EXCEPT ![t] = q]
    BY ConflictTxn
  <1>2. Listing(cache') /\ harmed' \in BOOLEAN
    BY ValidatedIs DEF Conflict
  <1>3. QED
    BY <1>1, <1>2, SoundPop DEF Conflict

\* The checkpoint stays where it is or is put where the metadata is.
LEMMA LogMark ==
  ASSUME LogTyped, LogOK, up, up', UNCHANGED <<wal, tail, refusing>>, meta'.sequence = meta.sequence,
         job'.stage = "apply" <=> job.stage = "apply",
         checkpoint'.sequence = checkpoint.sequence \/ checkpoint'.sequence = meta.sequence,
         job'.stage = "compact" => checkpoint' = meta'
  PROVE  LogOK'
  <1> DEFINE L == Len(wal)
  <1>1. L \in Nat /\ DOMAIN wal = 1..L /\ (wal = <<>> <=> L = 0)
    BY LogIs
  <1>2. Last(wal) = wal[L]
    BY DEF Last
  <1>3. Unapplied' <=> Unapplied
    BY DEF Unapplied
  <1>4. wal # <<>> => \/ checkpoint'.sequence = wal[1].base
                      \/ \E n \in DOMAIN wal : checkpoint'.sequence = wal[n].result
    <2> SUFFICES ASSUME wal # <<>>, checkpoint'.sequence = meta.sequence
                 PROVE  \/ checkpoint'.sequence = wal[1].base
                        \/ \E n \in DOMAIN wal : checkpoint'.sequence = wal[n].result
      BY DEF LogOK
    <2> HIDE DEF L
    <2>1. CASE Unapplied
      <3>1. wal[L].base = meta.sequence
        BY <1>2, <2>1 DEF LogOK
      <3>2. CASE L = 1
        BY <3>1, <3>2
      <3>3. CASE L # 1
        <4>1. L - 1 \in 1..L - 1 /\ L - 1 \in DOMAIN wal /\ (L - 1) + 1 = L
          BY <1>1, <3>3
        <4>2. \A n \in 1..L - 1 : wal[n + 1].base = wal[n].result
          BY DEF LogOK, L
        <4>3. wal[(L - 1) + 1].base = wal[L - 1].result
          BY <4>1, <4>2
        <4>4. checkpoint'.sequence = wal[L - 1].result
          BY <3>1, <4>1, <4>3
        <4>5. QED
          BY <4>1, <4>4
      <3>4. QED
        BY <3>2, <3>3
    <2>2. CASE ~Unapplied
      <3>1. wal[L].result = meta.sequence
        BY <1>2, <2>2 DEF LogOK
      <3>2. L \in DOMAIN wal
        BY <1>1
      <3>3. QED
        BY <3>1, <3>2
    <2>3. QED
      BY <2>1, <2>2
  <1>5. wal = <<>> => checkpoint'.sequence = meta'.sequence
    BY DEF LogOK
  <1>6. Left' => up' /\ ~Unapplied' /\ tail'.line.base = meta'.sequence
    BY <1>3 DEF LogOK, Left
  <1>7. QED
    BY <1>3, <1>4, <1>5, <1>6 DEF LogOK

\* What noting a change leaves of the state.
LEMMA NotingIs ==
  ASSUME Sound, NEW t \in Txns, Noting(t)
  PROVE  /\ Meta(meta') /\ meta'.sequence = meta.sequence /\ meta'.version = meta.version
         /\ meta'.applied = Remembering(meta.applied, ChangeOf[t])
         /\ told' \in Seq(Changes) /\ Listing(cache') /\ harmed' \in BOOLEAN /\ (harmed => harmed')
         /\ up /\ job = Idle /\ queue # <<>> /\ Head(queue) = t
         /\ meta' # meta => ChangeOf[t] \in Changes /\ told' = Append(told, ChangeOf[t])
  <1> DEFINE c == ChangeOf[t]
             a == Remembering(meta.applied, c)
  <1>1. Meta(meta) /\ AppliedIs(meta.applied) /\ c \in Changes \cup {None} /\ harmed \in BOOLEAN
    BY PhaseIs DEF Sound, StoreTyped, Meta
  <1>2. AppliedIs(a) /\ (c = None => a = meta.applied)
    BY <1>1, RememberingIs
  <1>3. meta' = [meta EXCEPT !.applied = a] /\ told' = IF meta' = meta THEN told ELSE Append(told, c)
    BY DEF Noting
  <1> HIDE DEF a
  <1>4. /\ Meta(meta') /\ meta'.sequence = meta.sequence /\ meta'.version = meta.version
        /\ meta'.applied = a
    BY <1>1, <1>2, <1>3 DEF Meta
  <1>5. meta' # meta => c \in Changes
    <2>1. a = meta.applied => meta' = meta
      BY <1>1, <1>3 DEF Meta
    <2>2. QED
      BY <1>1, <1>2, <2>1
  <1>6. told \in Seq(Changes)
    BY DEF Sound, LogTyped
  <1>7. told' \in Seq(Changes)
    <2>1. CASE meta' = meta
      BY <1>3, <1>6, <2>1
    <2>2. CASE meta' # meta
      <3>1. told' = Append(told, c) /\ c \in Changes
        BY <1>3, <1>5, <2>2
      <3>2. QED
        BY <1>6, <3>1, AppendIs
    <2>3. QED
      BY <2>1, <2>2
  <1>8. Listing(cache') /\ harmed' \in BOOLEAN /\ (harmed => harmed')
    <2>1. CASE Wrote(t)
      BY <2>1, ValidatedIs DEF Noting
    <2>2. CASE ~Wrote(t)
      BY <1>1, <2>2 DEF Noting, Sound, StoreTyped
    <2>3. QED
      BY <2>1, <2>2
  <1>9. up /\ job = Idle /\ queue # <<>> /\ Head(queue) = t
    BY DEF Noting, Next1
  <1>10. QED
    BY <1>3, <1>4, <1>5, <1>7, <1>8, <1>9 DEF a

LEMMA SoundNoting ==
  ASSUME Sound, NEW t \in Txns, Noting(t), NEW p \in {"done", "aborted"}, tx' = [tx EXCEPT ![t].phase = p],
         faults' \in 0..MaxFaults, checkpoint' \in {checkpoint, meta'}
  PROVE  Sound'
  <1> DEFINE q == [tx[t] EXCEPT !.phase = p]
  <1>1. p \in Phases
    BY DEF Phases
  <1>2. tx' = [tx EXCEPT ![t] = q] /\ Txn(q)
    BY <1>1, PhaseSet
  <1> HIDE DEF q
  <1>3. Listing(cache') /\ harmed' \in BOOLEAN /\ told' \in Seq(Changes)
    BY NotingIs
  <1>4. up /\ job = Idle /\ queue # <<>> /\ Head(queue) = t
    BY NotingIs
  <1>5. Meta(meta) /\ Meta(checkpoint) /\ checkpoint.sequence <= meta.sequence
    BY DEF Sound, StoreTyped
  <1>6. Meta(meta') /\ meta'.sequence = meta.sequence
    BY NotingIs
  <1>7. Meta(checkpoint') /\ checkpoint'.sequence <= meta'.sequence
    <2>1. meta'.sequence \in Nat
      BY <1>6 DEF Meta
    <2>2. QED
      BY <1>5, <1>6, <2>1
  <1>8. UNCHANGED <<disk, hot, stored, moved, wal, tail, since, refusing, up, job, history>> /\ queue' = Tail(queue)
    BY DEF Noting
  <1>9. StoreTyped'
    BY <1>3, <1>6, <1>7, <1>8 DEF Sound, StoreTyped
  <1>10. TxnsTyped'
    BY <1>2, <1>4, <1>8, TxnsPop DEF Sound
  <1>11. JobTyped' /\ HistoryOK'
    BY <1>8, JobFrame, HistoryFrame DEF Sound
  <1>12. LogTyped'
    BY <1>3, <1>8 DEF Sound, LogTyped, Left
  <1>13. LogOK'
    <2>1. checkpoint'.sequence = checkpoint.sequence \/ checkpoint'.sequence = meta.sequence
      BY <1>6
    <2>2. job'.stage = job.stage /\ job'.stage # "compact"
      BY <1>4, <1>8, IdleIs
    <2>3. QED
      BY <1>4, <1>6, <1>8, <2>1, <2>2, LogMark DEF Sound
  <1>14. JobOK'
    BY <1>4, <1>8, JobOKIdle, IdleIs
  <1>15. QED
    BY <1>9, <1>10, <1>11, <1>12, <1>13, <1>14 DEF Sound

LEMMA FaultIs ==
  ASSUME Sound, NEW kind, Fault(kind)
  PROVE  faults' \in 0..MaxFaults
  <1>1. MaxFaults \in Nat
    BY StorageAssumption
  <1>2. QED
    BY <1>1 DEF Fault, Sound, StoreTyped

LEMMA SoundRemember ==
  ASSUME Sound, NEW t \in Txns, Remember(t)
  PROVE  Sound'
  <1>1. checkpoint' \in {checkpoint, meta'}
    BY DEF Remember
  <1>2. faults' \in 0..MaxFaults
    BY DEF Remember, Sound, StoreTyped
  <1>3. Noting(t) /\ tx' = [tx EXCEPT ![t].phase = "done"]
    BY DEF Remember
  <1>4. QED
    BY <1>1, <1>2, <1>3, SoundNoting

LEMMA SoundRememberFails ==
  ASSUME Sound, NEW t \in Txns, RememberFails(t)
  PROVE  Sound'
  <1>1. checkpoint' \in {checkpoint, meta'} /\ Fault("checkpoint")
    BY DEF RememberFails
  <1>2. Noting(t) /\ tx' = [tx EXCEPT ![t].phase = "aborted"]
    BY DEF RememberFails
  <1>3. QED
    BY <1>1, <1>2, FaultIs, SoundNoting

\* The line and the commit that AppendCommit adds.
LEMMA ChangedIs ==
  ASSUME Sound, NEW t \in Txns
  PROVE  /\ Changed(t) \in Seq(Ids) /\ Len(Changed(t)) \in Nat /\ DOMAIN Changed(t) = 1..Len(Changed(t))
         /\ ToSet(Changed(t)) \subseteq Ids /\ (Changed(t) # <<>> => Len(Changed(t)) > 0)
         /\ \A i \in ToSet(Changed(t)) : i \in DOMAIN tx[t].after /\ tx[t].before[i] # tx[t].after[i]
  <1> DEFINE D == {i \in DOMAIN tx[t].after : tx[t].before[i] # tx[t].after[i]}
             m == Mentioned(t, D)
  <1>1. Txn(tx[t])
    BY PhaseIs
  <1>2. tx[t].program \in Seq(Ops) /\ D \in SUBSET Ids
    BY <1>1 DEF Txn, Partly
  <1>3. m \in Seq(Ids) /\ Len(m) \in Nat /\ DOMAIN m = 1..Len(m) /\ \A n \in 1..Len(m) : m[n] \in D
    <2> HIDE DEF D
    <2>1. QED
      BY <1>2, MentionedIs
  <1>4. Changed(t) = m
    BY DEF Changed
  <1>5. ToSet(m) \subseteq D
    BY <1>3 DEF ToSet
  <1>6. m # <<>> => Len(m) > 0
    <2> HIDE DEF m
    <2>1. QED
      BY <1>3
  <1> HIDE DEF m
  <1>7. QED
    BY <1>2, <1>3, <1>4, <1>5, <1>6

LEMMA LineIs ==
  ASSUME Sound, NEW t \in Txns, Changed(t) # <<>>
  PROVE  LET line == LineOf(t)
             commit == CommitOf(t) IN
         /\ Line(line) /\ line.base = meta.sequence /\ line.ids = Changed(t) /\ line.after = tx[t].after
         /\ line.change = ChangeOf[t] /\ line.result = meta.sequence + Len(Changed(t))
         /\ Commit(commit) /\ Describes(line, commit) /\ commit.change = ChangeOf[t] /\ commit.seen = tx[t].seen
         /\ commit.renumbered = tx[t].renumbered /\ commit.alone = Alone(t) /\ commit.at = Len(told)
  <1> DEFINE ids == Changed(t)
             f == tx[t].after
             line == LineOf(t)
             g == [i \in ToSet(ids) |-> f[i]]
             n == Len(told)
             e == Alone(t)
             commit == CommitOf(t)
  <1>1. meta.sequence \in Nat /\ n \in Nat
    BY DEF Sound, StoreTyped, Meta, LogTyped
  <1>2. /\ ids \in Seq(Ids) /\ Len(ids) \in Nat /\ DOMAIN ids = 1..Len(ids) /\ Len(ids) > 0
        /\ ToSet(ids) \subseteq Ids /\ ToSet(ids) \subseteq DOMAIN f
    BY ChangedIs
  <1>3. /\ Partly(f, Values) /\ Partly(tx[t].seen, Values) /\ ChangeOf[t] \in Changes \cup {None}
        /\ tx[t].renumbered \in BOOLEAN
    BY PhaseIs DEF Txn
  <1>4. e \in BOOLEAN
    BY DEF Alone
  <1>5. line = [base |-> meta.sequence, result |-> meta.sequence + Len(ids), ids |-> ids,
                after |-> f, change |-> ChangeOf[t]]
    BY DEF LineOf
  <1>6. commit = [txn |-> t, after |-> g, seen |-> tx[t].seen, change |-> ChangeOf[t],
                  renumbered |-> tx[t].renumbered, alone |-> e, at |-> n]
    BY DEF CommitOf
  <1> HIDE DEF ids, f, line, commit, n, e
  <1>7. /\ Line(line) /\ line.base = meta.sequence /\ line.ids = ids /\ line.after = f
        /\ line.change = ChangeOf[t] /\ line.result = meta.sequence + Len(ids)
    BY <1>1, <1>2, <1>3, <1>5 DEF Line
  <1>8. Partly(g, Values) /\ DOMAIN g = ToSet(ids) /\ \A i \in ToSet(ids) : g[i] = f[i]
    BY <1>2, <1>3 DEF Partly
  <1> HIDE DEF g
  <1>9. /\ Commit(commit) /\ commit.after = g /\ commit.change = ChangeOf[t] /\ commit.seen = tx[t].seen
        /\ commit.renumbered = tx[t].renumbered /\ commit.alone = e /\ commit.at = n
    BY <1>1, <1>3, <1>4, <1>6, <1>8 DEF Commit
  <1>10. Describes(line, commit)
    BY <1>7, <1>8, <1>9 DEF Describes
  <1>11. QED
    BY <1>7, <1>9, <1>10 DEF ids, f, line, commit, n, e

\* The log and the history, one line and its commit longer.
LEMMA Grows ==
  ASSUME Sound, up, ~Unapplied, NEW line, Line(line), line.base = meta.sequence,
         NEW commit, Commit(commit), Describes(line, commit),
         wal' = Append(wal, line), history' = Append(history, commit)
  PROVE  /\ wal' \in Seq(ToSet(wal')) /\ Len(wal') = Len(wal) + 1 /\ DOMAIN wal' = 1..(Len(wal) + 1)
         /\ history' \in Seq(ToSet(history')) /\ Len(history') = Len(history) + 1
         /\ DOMAIN history' = 1..(Len(history) + 1)
         /\ (\A n \in 1..Len(wal) : wal'[n] = wal[n]) /\ wal'[Len(wal) + 1] = line
         /\ (\A n \in 1..Len(history) : history'[n] = history[n]) /\ history'[Len(history) + 1] = commit
         /\ (\A n \in DOMAIN wal' : Line(wal'[n])) /\ (\A n \in DOMAIN history' : Commit(history'[n]))
         /\ wal' # <<>> /\ Last(wal') = line
         /\ \A n \in 1..Len(wal') - 1 : wal'[n + 1].base = wal'[n].result
         /\ \/ checkpoint.sequence = wal'[1].base
            \/ \E n \in DOMAIN wal' : checkpoint.sequence = wal'[n].result
         /\ Len(wal') <= Len(history')
         /\ \A n \in DOMAIN wal' : Describes(wal'[n], history'[Len(history') - Len(wal') + n])
  <1> DEFINE L == Len(wal)
             H == Len(history)
  <1>1. /\ L \in Nat /\ DOMAIN wal = 1..L /\ (wal = <<>> <=> L = 0) /\ wal \in Seq(ToSet(wal))
        /\ H \in Nat /\ DOMAIN history = 1..H /\ history \in Seq(ToSet(history))
    BY LogIs DEF Sound, LogTyped
  <1>2. /\ wal' \in Seq(ToSet(wal) \cup {line}) /\ Len(wal') = L + 1
        /\ \A n \in 1..L : wal'[n] = wal[n]
        /\ wal'[L + 1] = line
    <2>1. wal \in Seq(ToSet(wal) \cup {line}) /\ line \in ToSet(wal) \cup {line}
      BY <1>1
    <2>2. QED
      BY <2>1, AppendIs
  <1>3. /\ history' \in Seq(ToSet(history) \cup {commit}) /\ Len(history') = H + 1
        /\ \A n \in 1..H : history'[n] = history[n]
        /\ history'[H + 1] = commit
    <2>1. history \in Seq(ToSet(history) \cup {commit}) /\ commit \in ToSet(history) \cup {commit}
      BY <1>1
    <2>2. QED
      BY <2>1, AppendIs
  <1> HIDE DEF L, H
  <1>4. /\ wal' \in Seq(ToSet(wal')) /\ DOMAIN wal' = 1..(L + 1)
        /\ history' \in Seq(ToSet(history')) /\ DOMAIN history' = 1..(H + 1)
    BY <1>2, <1>3, OwnSequence
  <1>5. (\A n \in 1..L : Line(wal[n])) /\ (\A n \in 1..H : Commit(history[n]))
    BY <1>1 DEF Sound, LogTyped
  <1>6. \A n \in DOMAIN wal' : Line(wal'[n])
    <2>1. \A n \in 1..(L + 1) : n \in 1..L \/ n = L + 1
      BY <1>1
    <2>2. QED
      BY <1>2, <1>4, <1>5, <2>1
  <1>7. \A n \in DOMAIN history' : Commit(history'[n])
    <2>1. \A n \in 1..(H + 1) : n \in 1..H \/ n = H + 1
      BY <1>1
    <2>2. QED
      BY <1>3, <1>4, <1>5, <2>1
  <1>8. Last(wal') = line /\ wal' # <<>>
    <2>1. wal' # <<>>
      BY <1>1, <1>2, <1>4
    <2>2. QED
      BY <1>2, <2>1 DEF Last
  <1>9. \A n \in 1..Len(wal') - 1 : wal'[n + 1].base = wal'[n].result
    <2>1. wal # <<>> => wal[L].result = meta.sequence
      BY DEF LogOK, Sound, Last, L
    <2>2. \A n \in 1..L - 1 : wal[n + 1].base = wal[n].result
      BY DEF LogOK, Sound, L
    <2> SUFFICES ASSUME NEW n \in 1..L PROVE wal'[n + 1].base = wal'[n].result
      BY <1>1, <1>2
    <2>3. CASE n = L
      BY <1>1, <1>2, <2>1, <2>3
    <2>4. CASE n # L
      <3>1. n \in 1..L - 1 /\ n + 1 \in 1..L
        BY <1>1, <2>4
      <3>2. QED
        BY <1>2, <2>2, <3>1
    <2>5. QED
      BY <2>3, <2>4
  <1>10. \/ checkpoint.sequence = wal'[1].base
         \/ \E n \in DOMAIN wal' : checkpoint.sequence = wal'[n].result
    <2>1. CASE wal = <<>>
      <3>1. checkpoint.sequence = meta.sequence /\ L = 0
        BY <1>1, <2>1 DEF Sound, LogOK
      <3>2. wal'[1] = line
        BY <1>2, <3>1
      <3>3. QED
        BY <3>1, <3>2
    <2>2. CASE wal # <<>>
      <3>1. \A n \in 1..L : n \in DOMAIN wal' /\ wal'[n] = wal[n]
        BY <1>1, <1>2, <1>4
      <3>2. 1 \in 1..L
        BY <1>1, <2>2
      <3>3. \/ checkpoint.sequence = wal[1].base
            \/ \E n \in 1..L : checkpoint.sequence = wal[n].result
        BY <1>1, <2>2 DEF Sound, LogOK
      <3>4. QED
        BY <3>1, <3>2, <3>3
    <2>3. QED
      BY <2>1, <2>2
  <1>11. L <= H
    BY DEF Sound, HistoryOK, L, H
  <1>12. Len(wal') <= Len(history')
    BY <1>1, <1>2, <1>3, <1>11
  <1>13. ASSUME NEW n \in 1..(L + 1)
         PROVE  Describes(wal'[n], history'[Len(history') - Len(wal') + n])
    <2>1. Len(history') - Len(wal') + n = H - L + n
      BY <1>1, <1>2, <1>3
    <2>2. CASE n = L + 1
      <3>1. H - L + n = H + 1
        BY <1>1, <2>2
      <3>2. history'[Len(history') - Len(wal') + n] = commit /\ wal'[n] = line
        BY <1>2, <1>3, <2>1, <2>2, <3>1
      <3>3. QED
        BY <3>2
    <2>3. CASE n # L + 1
      <3>1. n \in 1..L /\ H - L + n \in 1..H
        BY <1>1, <1>11, <2>3
      <3>2. history'[Len(history') - Len(wal') + n] = history[H - L + n] /\ wal'[n] = wal[n]
        BY <1>2, <1>3, <2>1, <3>1
      <3>3. n \in DOMAIN wal
        BY <1>1, <3>1
      <3>4. QED
        BY <3>2, <3>3 DEF Sound, HistoryOK, L, H
    <2>4. QED
      BY <2>2, <2>3
  <1>14. QED
    BY <1>2, <1>3, <1>4, <1>6, <1>7, <1>8, <1>9, <1>10, <1>12, <1>13 DEF L, H

\* The changes that are noted, one more or none.
LEMMA TellingIs ==
  ASSUME Sound, NEW c \in Changes \cup {None}
  PROVE  Telling(c) \in Seq(Changes)
  <1>1. told \in Seq(Changes)
    BY DEF Sound, LogTyped
  <1>2. c # None => Append(told, c) \in Seq(Changes)
    BY <1>1, AppendIs
  <1>3. QED
    BY <1>1, <1>2 DEF Telling

LEMMA SoundAppendCommit ==
  ASSUME Sound, NEW t \in Txns, AppendCommit(t)
  PROVE  Sound'
  <1> DEFINE ids == Changed(t)
             line == LineOf(t)
             commit == CommitOf(t)
             q == [tx[t] EXCEPT !.phase = "commit"]
  <1>1. /\ wal' = Append(wal, line) /\ history' = Append(history, commit)
        /\ job' = [stage |-> "apply", txn |-> t, todo |-> ids, dirty |-> <<>>]
        /\ queue' = Tail(queue) /\ tx' = [tx EXCEPT ![t].phase = "commit"]
        /\ UNCHANGED <<disk, hot, stored, moved, meta, checkpoint, since, refusing, up, faults>>
        /\ Reads(Validates(t)) /\ told' = Telling(ChangeOf[t])
    BY DEF AppendCommit
  <1>2. tail' = Clean \/ tail' = Unreadable
    BY DEF AppendCommit
  <1>3. up /\ job = Idle /\ queue # <<>> /\ Head(queue) = t /\ ~refusing /\ ids # <<>>
    BY DEF AppendCommit, Appending, Next1
  <1>4. /\ Line(line) /\ line.base = meta.sequence /\ line.ids = ids /\ line.after = tx[t].after
        /\ line.change = ChangeOf[t] /\ Commit(commit) /\ Describes(line, commit)
    BY <1>3, LineIs
  <1>5. ids \in Seq(Ids) /\ ChangeOf[t] \in Changes \cup {None}
    BY ChangedIs, PhaseIs
  <1> HIDE DEF ids, line, commit
  <1>6. ~Unapplied
    BY <1>3, IdleIs DEF Unapplied
  <1>7. "commit" \in Phases
    BY DEF Phases, InFlight
  <1>8. /\ tx' = [tx EXCEPT ![t] = q] /\ Txn(q) /\ tx'[t] = q /\ q.phase = "commit" /\ q.after = tx[t].after
    BY <1>1, <1>7, PhaseSet
  <1> HIDE DEF q
  <1>9. StoreTyped'
    <2>1. Listing(cache') /\ harmed' \in BOOLEAN
      BY <1>1, ValidatedIs
    <2>2. QED
      BY <1>1, <2>1 DEF Sound, StoreTyped
  <1>10. TxnsTyped'
    BY <1>1, <1>3, <1>8, TxnsPop DEF Sound
  <1>11. JobTyped' /\ job'.stage = "apply" /\ job'.txn = t /\ job'.todo = ids
    <2>1. DOMAIN <<>> = {} /\ <<>> = [b \in DOMAIN <<>> |-> <<>>[b]]
      OBVIOUS
    <2>2. QED
      BY <1>1, <1>5, <2>1 DEF JobTyped
  <1>12. /\ wal' \in Seq(ToSet(wal')) /\ history' \in Seq(ToSet(history'))
         /\ (\A n \in DOMAIN wal' : Line(wal'[n])) /\ (\A n \in DOMAIN history' : Commit(history'[n]))
         /\ wal' # <<>> /\ Last(wal') = line
         /\ \A n \in 1..Len(wal') - 1 : wal'[n + 1].base = wal'[n].result
         /\ \/ checkpoint.sequence = wal'[1].base
            \/ \E n \in DOMAIN wal' : checkpoint.sequence = wal'[n].result
         /\ Len(wal') <= Len(history')
         /\ \A n \in DOMAIN wal' : Describes(wal'[n], history'[Len(history') - Len(wal') + n])
    BY <1>1, <1>3, <1>4, <1>6, Grows
  <1>13. ~Left' /\ tail' \in {Clean, Fragment, Unreadable}
    BY <1>2 DEF Left, Clean, Unreadable
  <1>14. LogTyped'
    <2>1. told' \in Seq(Changes)
      BY <1>1, <1>5, TellingIs
    <2>2. QED
      BY <1>12, <1>13, <2>1 DEF LogTyped
  <1>15. LogOK'
    <2>1. Unapplied' /\ job'.stage # "compact"
      BY <1>11 DEF Unapplied
    <2>2. Last(wal').base = meta'.sequence /\ checkpoint' = checkpoint
      BY <1>1, <1>4, <1>12
    <2>3. QED
      BY <1>12, <1>13, <2>1, <2>2 DEF LogOK
  <1>16. HistoryOK'
    BY <1>12, <1>13 DEF HistoryOK
  <1>17. JobOK'
    <2>1. ToSet(job'.todo) \subseteq ToSet(Last(wal').ids)
      BY <1>4, <1>11, <1>12
    <2>2. QED
      BY <1>1, <1>3, <1>4, <1>8, <1>11, <1>12, <2>1 DEF JobOK
  <1>18. QED
    BY <1>9, <1>10, <1>11, <1>14, <1>15, <1>16, <1>17 DEF Sound

\* What a failed append leaves of its line, if it leaves all of it.
LEMMA FailsTail ==
  ASSUME NEW t \in Txns, AppendFails(t)
  PROVE  (~Left' /\ tail' \in {Clean, Fragment, Unreadable}) \/ tail' = tail
         \/ tail' = Refused(LineOf(t), CommitOf(t))
  <1>1. tail' \in IF tail = Clean THEN {Clean, Fragment, Refused(LineOf(t), CommitOf(t))} ELSE {tail, Unreadable}
    BY DEF AppendFails
  <1>2. tail' = Clean \/ tail' = Fragment \/ tail' = Unreadable => ~Left'
    BY DEF Left, Clean, Fragment, Unreadable
  <1>3. QED
    BY <1>1, <1>2

LEMMA SoundAppendFails ==
  ASSUME Sound, NEW t \in Txns, AppendFails(t)
  PROVE  Sound'
  <1> DEFINE q == [tx[t] EXCEPT !.phase = "aborted"]
             line == LineOf(t)
             commit == CommitOf(t)
  <1>1. "aborted" \in Phases
    BY DEF Phases
  <1>2. tx' = [tx EXCEPT ![t] = q] /\ Txn(q)
    <2>1. tx' = [tx EXCEPT ![t].phase = "aborted"]
      BY DEF AppendFails
    <2>2. QED
      BY <1>1, <2>1, PhaseSet
  <1> HIDE DEF q
  <1>3. Listing(cache') /\ harmed' \in BOOLEAN
    BY ValidatedIs DEF AppendFails
  <1>4. up /\ job = Idle /\ queue # <<>> /\ Head(queue) = t /\ ~refusing /\ Changed(t) # <<>>
    BY DEF AppendFails, Appending, Next1
  <1>5. Fault("append") /\ queue' = Tail(queue)
        /\ UNCHANGED <<disk, hot, stored, moved, wal, checkpoint, meta, since, refusing, up, job, history, told>>
    BY DEF AppendFails
  <1>6. faults' \in 0..MaxFaults
    BY <1>5, FaultIs
  <1>7. StoreTyped'
    BY <1>3, <1>5, <1>6 DEF Sound, StoreTyped
  <1>8. TxnsTyped'
    BY <1>2, <1>4, <1>5, TxnsPop DEF Sound
  <1>9. JobTyped'
    BY <1>5, JobFrame DEF Sound
  <1>10. ~Unapplied /\ ~Unapplied'
    BY <1>4, <1>5, IdleIs DEF Unapplied
  <1>11. Line(line) /\ line.base = meta.sequence /\ Commit(commit) /\ Describes(line, commit)
    BY <1>4, LineIs
  <1>12. \/ ~Left' /\ tail' \in {Clean, Fragment, Unreadable}
         \/ tail' = tail
         \/ tail' = Refused(line, commit)
    BY FailsTail
  <1> HIDE DEF line, commit
  <1>13. tail' = Refused(line, commit) =>
           Left' /\ tail'.line = line /\ tail'.commit = commit
    BY DEF Left, Refused
  <1>14. LogTyped'
    BY <1>5, <1>11, <1>12, <1>13 DEF Sound, LogTyped, Left
  <1>15. LogOK'
    <2>1. Left' => up' /\ ~Unapplied' /\ tail'.line.base = meta'.sequence
      BY <1>4, <1>5, <1>10, <1>11, <1>12, <1>13 DEF Sound, LogOK, Left
    <2>2. QED
      BY <1>5, <2>1 DEF Sound, LogOK, Unapplied
  <1>16. HistoryOK'
    <2>1. Left' => Describes(tail'.line, tail'.commit)
      BY <1>11, <1>12, <1>13 DEF Sound, HistoryOK, Left
    <2>2. QED
      BY <1>5, <2>1 DEF Sound, HistoryOK
  <1>17. JobOK'
    BY <1>4, <1>5, JobOKIdle, IdleIs
  <1>18. QED
    BY <1>7, <1>8, <1>9, <1>14, <1>15, <1>16, <1>17 DEF Sound

-----------------------------------------------------------------------------
\* The commit that is being applied.

\* The operation it is at: a record of the last line, and the value it gives it.
LEMMA OpIs ==
  ASSUME Sound, job.stage = "apply", job.todo # <<>>
  PROVE  LET i == Head(job.todo) IN
         /\ i \in Ids /\ BucketOf[i] \in ToSet(Buckets) /\ i \in In(BucketOf[i])
         /\ i \in ToSet(Last(wal).ids) /\ i \in DOMAIN tx[job.txn].after
         /\ tx[job.txn].after = Last(wal).after /\ tx[job.txn].after[i] \in Values
         /\ Tail(job.todo) \in Seq(Ids) /\ ToSet(Tail(job.todo)) \subseteq ToSet(job.todo)
         /\ \A j \in ToSet(job.todo) : j = i \/ j \in ToSet(Tail(job.todo))
  <1> DEFINE i == Head(job.todo)
             s == job.todo
             u == Tail(job.todo)
  <1>1. s \in Seq(Ids) /\ s # <<>>
    BY DEF Sound, JobTyped
  <1>2. /\ i = s[1] /\ i \in Ids /\ u \in Seq(Ids) /\ Len(s) \in Nat \ {0} /\ Len(u) = Len(s) - 1
        /\ \A k \in 1..Len(u) : u[k] = s[k + 1]
    BY <1>1, TailIs
  <1>3. DOMAIN s = 1..Len(s) /\ DOMAIN u = 1..Len(u)
    BY <1>1, <1>2, OwnSequence
  <1> HIDE DEF s, u
  <1>4. 1 \in DOMAIN s
    BY <1>2, <1>3
  <1>5. i \in ToSet(s)
    BY <1>2, <1>4 DEF ToSet
  <1>6. ToSet(u) \subseteq ToSet(s)
    <2>1. \A k \in 1..Len(u) : k + 1 \in DOMAIN s /\ u[k] = s[k + 1]
      BY <1>2, <1>3
    <2>2. QED
      BY <1>3, <2>1 DEF ToSet
  <1>7. \A j \in ToSet(s) : j = i \/ j \in ToSet(u)
    <2> SUFFICES ASSUME NEW k \in DOMAIN s, s[k] # i PROVE s[k] \in ToSet(u)
      BY DEF ToSet
    <2>1. k - 1 \in DOMAIN u /\ (k - 1) + 1 = k /\ k - 1 \in 1..Len(u)
      BY <1>2, <1>3
    <2>2. u[k - 1] = s[k]
      BY <1>2, <2>1
    <2>3. QED
      BY <2>1, <2>2 DEF ToSet
  <1>8. /\ ToSet(s) \subseteq ToSet(Last(wal).ids) /\ Last(wal).after = tx[job.txn].after /\ wal # <<>>
    BY DEF Sound, JobOK, s
  <1>9. Partly(Last(wal).after, Values) /\ ToSet(Last(wal).ids) \subseteq DOMAIN Last(wal).after
    <2>1. Len(wal) \in 1..Len(wal)
      BY <1>8, LogIs DEF Sound
    <2>2. QED
      BY <2>1, LogIs DEF Sound, Last
  <1>10. i \in ToSet(Last(wal).ids) /\ i \in DOMAIN tx[job.txn].after /\ tx[job.txn].after[i] \in Values
    BY <1>5, <1>8, <1>9, PartIs
  <1>11. BucketOf[i] \in ToSet(Buckets) /\ i \in In(BucketOf[i])
    BY <1>2, InIs
  <1> HIDE DEF i
  <1>12. QED
    BY <1>2, <1>6, <1>7, <1>8, <1>10, <1>11 DEF i, s, u

LEMMA SoundApplyOp ==
  ASSUME Sound, ApplyOp
  PROVE  Sound'
  <1> DEFINE i == Head(job.todo)
             b == BucketOf[i]
             v == tx[job.txn].after[i]
             e == [version |-> stored + 1, value |-> v]
             idle == v = None /\ Entry(cache, i).value = None
             c == Put(cache, i, e)
             d == IF idle THEN job.dirty ELSE With(job.dirty, b, Last(c).entries)
             g == [hot EXCEPT ![i] = v]
             u == Tail(job.todo)
  <1>1. /\ up /\ job.stage = "apply" /\ job.todo # <<>> /\ ~moved
        /\ stored' = (IF idle THEN stored ELSE stored + 1)
        /\ cache' = (IF idle THEN Load(cache, b) ELSE c)
        /\ hot' \in Trim(g)
        /\ job' = [job EXCEPT !.todo = u, !.dirty = d]
        /\ UNCHANGED <<disk, moved, wal, tail, checkpoint, meta, since, refusing, up, queue, tx, faults,
                       history, told>>
        /\ harmed' = (harmed \/ Amiss(<<b>>))
    BY DEF ApplyOp, logVars
  <1>2. /\ i \in Ids /\ b \in ToSet(Buckets) /\ i \in In(b) /\ v \in Values
        /\ u \in Seq(Ids) /\ ToSet(u) \subseteq ToSet(job.todo)
    BY <1>1, OpIs
  <1>3. /\ disk \in [Ids -> Entries] /\ Listing(cache) /\ hot \in [Ids -> Values]
        /\ Cardinality(Hots(hot)) <= MaxHot /\ stored \in Nat
    BY DEF Sound, StoreTyped
  <1> HIDE DEF v, i
  <1>4. e \in Entries
    BY <1>2, <1>3 DEF Entries, Values
  <1> HIDE DEF e
  <1>5. Listing(Load(cache, b)) /\ Len(Load(cache, b)) > 0 /\ Load(cache, b)[Len(Load(cache, b))].bucket = b
    BY <1>2, <1>3, LoadIs
  <1>6. Listing(c) /\ Last(c).entries \in [In(b) -> Entries]
    <2> DEFINE r == Load(cache, b)
    <2>1. Listing(c) /\ Last(c).entries = [r[Len(r)].entries EXCEPT ![i] = e]
      BY <1>2, <1>3, <1>4, PutIs
    <2>2. Len(r) \in DOMAIN r
      BY <1>5, ListingIs
    <2>3. r[Len(r)].entries \in [In(b) -> Entries]
      BY <1>5, <2>2 DEF Listing, Slot
    <2> HIDE DEF c, r
    <2>4. QED
      BY <1>4, <2>1, <2>3
  <1>7. hot' \in [Ids -> Values] /\ Cardinality(Hots(hot')) <= MaxHot
    <2>1. g \in [Ids -> Values] /\ \A j \in Ids : j # i => g[j] = hot[j]
      BY <1>2, <1>3
    <2> HIDE DEF g
    <2>2. QED
      BY <1>1, <1>2, <1>3, <2>1, HotFits
  <1> HIDE DEF c, idle, g
  <1>8. StoreTyped'
    <2>1. stored' \in Nat /\ Listing(cache')
      BY <1>1, <1>3, <1>5, <1>6
    <2>2. harmed' \in BOOLEAN
      BY <1>1 DEF Sound, StoreTyped, Amiss
    <2>3. QED
      BY <1>1, <1>7, <2>1, <2>2 DEF Sound, StoreTyped
  <1>9. /\ DOMAIN d \subseteq ToSet(Buckets) /\ d = [k \in DOMAIN d |-> d[k]]
        /\ \A k \in DOMAIN d : d[k] \in [In(k) -> Entries]
    <2>1. /\ DOMAIN job.dirty \subseteq ToSet(Buckets) /\ job.dirty = [k \in DOMAIN job.dirty |-> job.dirty[k]]
          /\ \A k \in DOMAIN job.dirty : job.dirty[k] \in [In(k) -> Entries]
      BY DEF Sound, JobTyped
    <2>2. CASE idle
      BY <2>1, <2>2
    <2>3. CASE ~idle
      <3> DEFINE x == Last(c).entries
      <3> HIDE DEF x
      <3>1. x \in [In(b) -> Entries] /\ d = With(job.dirty, b, x)
        BY <1>6, <2>3 DEF x
      <3> HIDE DEF d, b
      <3>2. QED
        BY <1>2, <2>1, <3>1 DEF With
    <2>4. QED
      BY <2>2, <2>3
  <1> HIDE DEF d, u, b
  <1>10. /\ job' = [stage |-> job.stage, txn |-> job.txn, todo |-> u, dirty |-> d]
         /\ job'.stage = "apply" /\ job'.txn = job.txn /\ job'.todo = u /\ job'.dirty = d
    BY <1>1 DEF Sound, JobTyped
  <1>11. JobTyped'
    BY <1>1, <1>2, <1>9, <1>10 DEF JobTyped
  <1>12. TxnsTyped' /\ LogTyped' /\ HistoryOK'
    BY <1>1, TxnsFrame, LogTypedFrame, HistoryFrame DEF Sound
  <1>13. LogOK'
    BY <1>1, <1>10, LogFrame DEF Sound
  <1>14. JobOK'
    BY <1>1, <1>2, <1>10 DEF Sound, JobOK
  <1>15. QED
    BY <1>8, <1>11, <1>12, <1>13, <1>14 DEF Sound

LEMMA SoundSaveBucket ==
  ASSUME Sound, NEW b \in ToSet(Buckets), SaveBucket(b)
  PROVE  Sound'
  <1> DEFINE d == [c \in DOMAIN job.dirty \ {b} |-> job.dirty[c]]
  <1>1. /\ up /\ job.stage = "apply" /\ b \in DOMAIN job.dirty
        /\ disk' = [i \in Ids |-> IF BucketOf[i] = b THEN job.dirty[b][i] ELSE disk[i]]
        /\ job' = [job EXCEPT !.dirty = d]
        /\ UNCHANGED <<cache, hot, stored, moved, wal, tail, checkpoint, meta, since, refusing, up, queue, tx,
                       faults, history, told, harmed>>
    BY DEF SaveBucket, logVars
  <1>2. disk' \in [Ids -> Entries]
    <2>1. job.dirty[b] \in [In(b) -> Entries]
      BY <1>1 DEF Sound, JobTyped
    <2>2. \A i \in Ids : BucketOf[i] = b => i \in In(b)
      BY DEF In
    <2>3. disk \in [Ids -> Entries]
      BY DEF Sound, StoreTyped
    <2>4. QED
      BY <1>1, <2>1, <2>2, <2>3
  <1>3. StoreTyped'
    BY <1>1, <1>2 DEF Sound, StoreTyped
  <1>4. /\ DOMAIN d = DOMAIN job.dirty \ {b} /\ d = [k \in DOMAIN d |-> d[k]]
        /\ \A k \in DOMAIN d : d[k] = job.dirty[k]
    OBVIOUS
  <1> HIDE DEF d
  <1>5. /\ job' = [stage |-> job.stage, txn |-> job.txn, todo |-> job.todo, dirty |-> d]
        /\ job'.stage = job.stage /\ job'.txn = job.txn /\ job'.todo = job.todo /\ job'.dirty = d
    BY <1>1 DEF Sound, JobTyped
  <1>6. JobTyped'
    BY <1>1, <1>4, <1>5 DEF Sound, JobTyped
  <1>7. TxnsTyped' /\ LogTyped' /\ HistoryOK'
    BY <1>1, TxnsFrame, LogTypedFrame, HistoryFrame DEF Sound
  <1>8. LogOK'
    BY <1>1, <1>5, LogFrame DEF Sound
  <1>9. JobOK'
    BY <1>1, <1>5 DEF Sound, JobOK
  <1>10. QED
    BY <1>3, <1>6, <1>7, <1>8, <1>9 DEF Sound

\* What a commit that is applied adds to the metadata.
LEMMA CommittedMeta ==
  ASSUME Sound, Committed
  PROVE  /\ Meta(meta') /\ meta'.sequence = Last(wal).result /\ meta'.sequence > meta.sequence
         /\ meta.sequence \in Nat /\ wal # <<>> /\ Line(Last(wal)) /\ ~refusing
         /\ job.txn \in Txns /\ tx[job.txn].phase = "commit"
         /\ meta'.applied = Remembering(meta.applied, Last(wal).change)
  <1>1. up /\ job.stage = "apply" /\ meta' = Recorded(meta, <<Last(wal)>>)
    BY DEF Committed
  <1>2. wal # <<>> /\ Last(wal).base = meta.sequence /\ ~refusing /\ job.txn \in Txns /\ tx[job.txn].phase = "commit"
    BY <1>1 DEF Sound, LogOK, JobOK, Unapplied
  <1>3. Line(Last(wal)) /\ Last(wal).result > Last(wal).base
    <2>1. Len(wal) \in 1..Len(wal)
      BY <1>2, LogIs DEF Sound
    <2>2. QED
      BY <2>1, LogIs DEF Sound, Last
  <1>4. Meta(meta) /\ meta.sequence \in Nat
    BY DEF Sound, StoreTyped, Meta
  <1> DEFINE l == Last(wal)
             w == <<l>>
  <1> HIDE DEF l
  <1>5. /\ Len(w) = 1 /\ w[1] = l /\ DOMAIN w = 1..1 /\ w # <<>>
    OBVIOUS
  <1> HIDE DEF w
  <1>6. /\ Len(w) \in Nat /\ (w = <<>> <=> Len(w) = 0) /\ DOMAIN w = 1..Len(w)
        /\ \A n \in 1..Len(w) : Line(w[n])
    BY <1>3, <1>5 DEF l
  <1> DEFINE r == Recorded(meta, w)
  <1>7. /\ Meta(r) /\ r.sequence = IF w = <<>> THEN meta.sequence ELSE w[Len(w)].result
        /\ r.applied = RememberingEach(meta.applied, w)
    BY <1>4, <1>5, <1>6, RecordedIs
  <1>8. meta' = r
    BY <1>1 DEF w, l
  <1> HIDE DEF r
  <1>9. r.sequence = l.result
    BY <1>5, <1>7
  <1>10. r.applied = Remembering(meta.applied, l.change)
    <2>1. AppliedIs(meta.applied) /\ \A n \in 1..Len(w) : w[n].change \in Changes \cup {None}
      BY <1>4, <1>6 DEF Meta, Line
    <2> DEFINE a == meta.applied
    <2>a. AppliedIs(a) /\ Len(w) \in Nat
      BY <1>6, <2>1
    <2> HIDE DEF a
    <2>b. \E h : /\ h[0] = a /\ \A k \in 1..Len(w) : h[k] = Remembering(h[k - 1], w[k].change)
                 /\ RememberingEach(a, w) = h[Len(w)] /\ \A k \in 0..Len(w) : AppliedIs(h[k])
      BY <2>a, <2>1, RememberingForm
    <2>2. PICK h : /\ h[0] = a /\ \A k \in 1..Len(w) : h[k] = Remembering(h[k - 1], w[k].change)
                   /\ RememberingEach(a, w) = h[Len(w)]
      BY <2>b
    <2>3. 1 \in 1..Len(w) /\ 1 - 1 = 0
      BY <1>5
    <2>4. h[1] = Remembering(h[0], w[1].change)
      BY <2>2, <2>3
    <2>5. QED
      BY <1>5, <1>7, <2>2, <2>4 DEF a
  <1>11. QED
    BY <1>2, <1>3, <1>4, <1>7, <1>8, <1>9, <1>10 DEF l

LEMMA SoundCommitted ==
  ASSUME Sound, Committed
  PROVE  Sound'
  <1> DEFINE t == job.txn
             q == [tx[t] EXCEPT !.phase = "done"]
  <1>1. /\ up /\ job.stage = "apply" /\ job' = Idle /\ since' = since + 1
        /\ queue' = (IF since' >= CheckpointEvery THEN Append(queue, "scheduled") ELSE queue)
        /\ tx' = [tx EXCEPT ![t].phase = "done"]
        /\ UNCHANGED <<disk, cache, hot, stored, moved, wal, tail, checkpoint, refusing, up, faults,
                       history, told, harmed>>
    BY DEF Committed, storeVars, logVars
  <1>2. /\ Meta(meta') /\ meta'.sequence = Last(wal).result /\ meta'.sequence > meta.sequence
        /\ meta.sequence \in Nat /\ wal # <<>> /\ ~refusing /\ t \in Txns /\ tx[t].phase = "commit"
    BY CommittedMeta
  <1>3. "done" \in Phases
    BY DEF Phases
  <1> HIDE DEF t
  <1>4. /\ tx' = [tx EXCEPT ![t] = q] /\ Txn(q) /\ tx'[t] = q /\ q.phase = "done"
        /\ \A u \in Txns : u # t => tx'[u] = tx[u]
    BY <1>1, <1>2, <1>3, PhaseSet
  <1> HIDE DEF q
  <1>5. StoreTyped'
    <2>1. since' \in Nat
      BY <1>1 DEF Sound, StoreTyped
    <2>2. checkpoint'.sequence <= meta'.sequence /\ Meta(checkpoint')
      <3>1. checkpoint.sequence <= meta.sequence /\ Meta(checkpoint) /\ checkpoint.sequence \in Nat /\ meta'.sequence \in Nat
        BY <1>2 DEF Sound, StoreTyped, Meta
      <3>2. QED
        BY <1>1, <1>2, <3>1
    <2>3. QED
      BY <1>1, <1>2, <2>1, <2>2 DEF Sound, StoreTyped
  <1>6. TxnsTyped'
    <2>1. CASE since' >= CheckpointEvery
      <3>1. DOMAIN tx' = Txns /\ \A u \in Txns : Txn(tx'[u])
        BY <1>2, <1>4, TxnSet DEF Sound
      <3>2. \A u \in Txns : tx[u].phase = "queued" => tx'[u].phase = "queued"
        BY <1>2, <1>4
      <3>3. QED
        BY <1>1, <2>1, <3>1, <3>2, TxnsPushJob DEF Sound
    <2>2. CASE ~(since' >= CheckpointEvery)
      BY <1>1, <1>2, <1>4, <2>2, TxnsSet DEF Sound
    <2>3. QED
      BY <2>1, <2>2
  <1>7. JobTyped' /\ job'.stage = "idle"
    BY <1>1, FreeJob
  <1>8. LogTyped' /\ HistoryOK'
    BY <1>1, LogTypedFrame, HistoryFrame DEF Sound
  <1>9. LogOK'
    <2>1. ~Unapplied'
      BY <1>1, <1>2, <1>7 DEF Unapplied
    <2>2. Last(wal)' = Last(wal) /\ ~Left'
      <3>1. Last(wal') = Last(wal)
        BY <1>1
      <3>2. ~Left
        BY <1>1 DEF Sound, LogOK, Unapplied
      <3>3. QED
        BY <1>1, <3>1, <3>2 DEF Left
    <2>3. QED
      BY <1>1, <1>2, <1>7, <2>1, <2>2 DEF Sound, LogOK
  <1>10. JobOK'
    BY <1>1, <1>7, JobOKIdle
  <1>11. QED
    BY <1>5, <1>6, <1>7, <1>8, <1>9, <1>10 DEF Sound

-----------------------------------------------------------------------------
\* Checkpoints and compaction.

LEMMA SoundRequestCheckpoint ==
  ASSUME Sound, RequestCheckpoint
  PROVE  Sound'
  <1>1. /\ up /\ queue' = Append(queue, "checkpoint")
        /\ UNCHANGED <<disk, cache, hot, stored, moved, wal, tail, checkpoint, meta, since, refusing, up, job, tx,
                       faults, history, told, harmed>>
    BY DEF RequestCheckpoint, storeVars, logVars
  <1>2. TxnsTyped'
    <2>1. DOMAIN tx' = Txns /\ \A u \in Txns : Txn(tx'[u]) /\ (tx[u].phase = "queued" => tx'[u].phase = "queued")
      BY <1>1 DEF Sound, TxnsTyped
    <2>2. QED
      BY <1>1, <2>1, TxnsPushJob DEF Sound
  <1>3. StoreTyped' /\ JobTyped' /\ LogTyped' /\ HistoryOK'
    BY <1>1, StoreFrame, JobFrame, LogTypedFrame, HistoryFrame DEF Sound
  <1>4. LogOK'
    BY <1>1, LogFrame DEF Sound
  <1>5. JobOK'
    BY <1>1, JobOKFrame DEF Sound
  <1>6. QED
    BY <1>2, <1>3, <1>4, <1>5 DEF Sound

LEMMA SoundNextCheckpoint ==
  ASSUME Sound, NextCheckpoint, faults' \in 0..MaxFaults,
         \/ checkpoint' = checkpoint /\ job' = job
         \/ checkpoint' = meta /\ job' = [Idle EXCEPT !.stage = "compact"]
  PROVE  Sound'
  <1>1. /\ up /\ job = Idle /\ queue # <<>> /\ queue' = Tail(queue)
        /\ UNCHANGED <<disk, cache, hot, stored, moved, wal, tail, meta, since, refusing, up, tx,
                       history, told, harmed>>
        /\ \/ checkpoint' = checkpoint /\ job' = Idle
           \/ checkpoint' = meta /\ job' = [Idle EXCEPT !.stage = "compact"]
    BY DEF NextCheckpoint, storeVars
  <1>2. JobTyped' /\ job'.stage \in {"idle", "compact"} /\ (job' = Idle => job'.stage = "idle")
    BY <1>1, FreeJob
  <1>3. StoreTyped'
    <2>1. Meta(meta) /\ Meta(checkpoint) /\ checkpoint.sequence <= meta.sequence /\ meta.sequence \in Nat
      BY DEF Sound, StoreTyped, Meta
    <2>2. Meta(checkpoint') /\ checkpoint'.sequence <= meta.sequence
      BY <1>1, <2>1
    <2>3. QED
      BY <1>1, <2>2 DEF Sound, StoreTyped
  <1>4. TxnsTyped' /\ LogTyped' /\ HistoryOK'
    BY <1>1, TxnsPopJob, LogTypedFrame, HistoryFrame DEF Sound
  <1>5. LogOK'
    <2>1. job.stage # "apply" /\ job'.stage # "apply"
      BY <1>1, <1>2, IdleIs
    <2>2. job'.stage = "compact" => checkpoint' = meta'
      BY <1>1, <1>2
    <2>3. checkpoint'.sequence = checkpoint.sequence \/ checkpoint'.sequence = meta.sequence
      BY <1>1
    <2>4. QED
      BY <1>1, <2>1, <2>2, <2>3, LogMark DEF Sound
  <1>6. JobOK'
    BY <1>1, <1>2, JobOKIdle
  <1>7. QED
    BY <1>2, <1>3, <1>4, <1>5, <1>6 DEF Sound

LEMMA SoundSaveMeta ==
  ASSUME Sound, SaveMeta
  PROVE  Sound'
  <1>1. faults' \in 0..MaxFaults /\ NextCheckpoint
    BY DEF SaveMeta, Sound, StoreTyped
  <1>2. \/ checkpoint' = checkpoint /\ job' = job
        \/ checkpoint' = meta /\ job' = [Idle EXCEPT !.stage = "compact"]
    BY DEF SaveMeta
  <1>3. QED
    BY <1>1, <1>2, SoundNextCheckpoint

LEMMA SoundSaveMetaFails ==
  ASSUME Sound, SaveMetaFails
  PROVE  Sound'
  <1>1. faults' \in 0..MaxFaults /\ NextCheckpoint
    BY FaultIs DEF SaveMetaFails
  <1>2. checkpoint' = checkpoint /\ job' = job
    BY DEF SaveMetaFails
  <1>3. QED
    BY <1>1, <1>2, SoundNextCheckpoint

\* The log once it is cut at the checkpoint.
LEMMA CutLog ==
  ASSUME Sound, NEW k, CutAt(k), wal' = Pending, tail' = Clean, UNCHANGED <<checkpoint, meta, history, told>>
  PROVE  /\ LogTyped' /\ HistoryOK'
         /\ Len(wal') = Len(wal) - k /\ Len(wal) \in Nat /\ k \in 0..Len(wal)
         /\ (wal' = <<>> <=> Len(wal') = 0) /\ DOMAIN wal' = 1..Len(wal')
         /\ \A n \in 1..Len(wal') : k + n \in 1..Len(wal) /\ wal'[n] = wal[k + n]
         /\ \A n \in 1..Len(wal') - 1 : wal'[n + 1].base = wal'[n].result
         /\ wal' # <<>> => wal'[1].base = checkpoint.sequence /\ Last(wal') = Last(wal)
  <1> DEFINE L == Len(wal)
             N == Len(wal')
             H == Len(history)
  <1>1. /\ k \in Nat /\ k <= L /\ N \in Nat /\ DOMAIN wal' = 1..N /\ N = L - k /\ (wal' = <<>> <=> N = 0)
        /\ \A n \in 1..N : k + n \in 1..L /\ wal'[n] = wal[k + n]
    BY CutIs DEF Sound
  <1>2. L \in Nat /\ DOMAIN wal = 1..L /\ (wal = <<>> <=> L = 0) /\ H \in Nat
    BY LogIs DEF Sound
  <1>3. wal' \in Seq(ToSet(wal))
    BY DEF CutAt
  <1>4. LogTyped'
    <2>1. wal' \in Seq(ToSet(wal'))
      BY <1>3, OwnSequence
    <2>2. \A n \in DOMAIN wal' : Line(wal'[n])
      BY <1>1, <1>2 DEF Sound, LogTyped
    <2>3. QED
      BY <2>1, <2>2 DEF Sound, LogTyped
  <1>0. ~Left'
    BY DEF Left, Clean
  <1>5. \A n \in 1..L - 1 : wal[n + 1].base = wal[n].result
    BY DEF Sound, LogOK
  <1>6. L <= H
    BY DEF Sound, HistoryOK
  <1>7. \A n \in DOMAIN wal : Describes(wal[n], history[H - L + n])
    BY DEF Sound, HistoryOK
  <1>10. /\ k = 0 /\ wal # <<>> => wal[1].base = checkpoint.sequence
         /\ k > 0 => wal[k].result = checkpoint.sequence
    BY DEF CutAt
  <1>11. wal' # <<>> => Last(wal') = wal'[N] /\ Last(wal) = wal[L]
    BY DEF Last
  <1>14. N <= H' /\ H' = H
    BY <1>1, <1>2, <1>6
  <1> HIDE DEF L, N, H
  <1>8. \A n \in DOMAIN wal' : Describes(wal'[n], history[H - N + n])
    <2> SUFFICES ASSUME NEW n \in 1..N PROVE Describes(wal'[n], history[H - N + n])
      BY <1>1
    <2>1. k + n \in DOMAIN wal /\ wal'[n] = wal[k + n] /\ H - L + (k + n) = H - N + n
      BY <1>1, <1>2
    <2> DEFINE m == k + n
    <2>2. m \in DOMAIN wal /\ wal'[n] = wal[m] /\ H - L + m = H - N + n
      BY <2>1
    <2> HIDE DEF m
    <2>3. QED
      BY <1>7, <2>2
  <1>9. HistoryOK'
    BY <1>0, <1>8, <1>14 DEF HistoryOK, N, H
  <1>12. \A n \in 1..N - 1 : wal'[n + 1].base = wal'[n].result
    <2> SUFFICES ASSUME NEW n \in 1..N - 1 PROVE wal'[n + 1].base = wal'[n].result
      OBVIOUS
    <2>1. /\ n \in 1..N /\ n + 1 \in 1..N /\ k + n \in 1..L - 1 /\ k + (n + 1) = (k + n) + 1
      BY <1>1, <1>2
    <2>2. wal'[n + 1] = wal[(k + n) + 1] /\ wal'[n] = wal[k + n]
      BY <1>1, <2>1
    <2>3. QED
      BY <1>5, <2>1, <2>2
  <1>13. wal' # <<>> => wal'[1].base = checkpoint.sequence /\ wal'[N] = wal[L]
    <2> SUFFICES ASSUME wal' # <<>> PROVE wal'[1].base = checkpoint.sequence /\ wal'[N] = wal[L]
      OBVIOUS
    <2>1. 1 \in 1..N /\ N \in 1..N /\ k + N = L /\ wal'[1] = wal[k + 1] /\ wal # <<>>
      BY <1>1, <1>2
    <2>2. CASE k = 0
      BY <1>1, <1>10, <2>1, <2>2
    <2>3. CASE k > 0
      <3>1. k \in 1..L - 1
        BY <1>1, <1>2, <2>1, <2>3
      <3>2. QED
        BY <1>1, <1>5, <1>10, <2>1, <2>3, <3>1
    <2>4. QED
      BY <1>1, <2>2, <2>3
  <1>15. k \in 0..L
    BY <1>1, <1>2
  <1>16. wal' # <<>> => wal'[1].base = checkpoint.sequence /\ Last(wal') = Last(wal)
    BY <1>11, <1>13
  <1>17. QED
    BY <1>1, <1>2, <1>4, <1>9, <1>12, <1>15, <1>16 DEF L, N

LEMMA SoundCut ==
  ASSUME Sound, up, job.stage = "compact", wal' = After(wal, meta.sequence), tail' = Clean, job' = Idle,
         since' \in Nat, faults' \in 0..MaxFaults,
         UNCHANGED <<storeVars, meta, checkpoint, refusing, up, queue, tx, history, told, harmed>>
  PROVE  Sound'
  <1>1. /\ up /\ job.stage = "compact" /\ job' = Idle /\ wal' = After(wal, meta.sequence)
        /\ UNCHANGED <<disk, cache, hot, stored, moved, meta, checkpoint, refusing, up, queue, tx,
                       history, told, harmed>>
    BY DEF storeVars
  <1>2. checkpoint = meta /\ Meta(checkpoint)
    BY <1>1 DEF Sound, LogOK, StoreTyped
  <1>3. wal' = Pending
    BY <1>1, <1>2 DEF Pending
  <1>4. PICK k \in 0..Len(wal) : CutAt(k)
    BY <1>2, PendingIs DEF Sound
  <1>5. /\ LogTyped' /\ HistoryOK'
        /\ Len(wal') = Len(wal) - k /\ Len(wal) \in Nat /\ k \in 0..Len(wal)
        /\ (wal' = <<>> <=> Len(wal') = 0) /\ DOMAIN wal' = 1..Len(wal')
        /\ \A n \in 1..Len(wal') - 1 : wal'[n + 1].base = wal'[n].result
        /\ wal' # <<>> => wal'[1].base = checkpoint.sequence /\ Last(wal') = Last(wal)
    BY <1>1, <1>3, <1>4, CutLog
  <1>6. JobTyped' /\ job'.stage = "idle"
    BY <1>1, FreeJob
  <1>7. StoreTyped'
    BY <1>1 DEF Sound, StoreTyped
  <1>8. TxnsTyped'
    BY <1>1, TxnsFrame DEF Sound
  <1>9. LogOK'
    <2>1. refusing => wal' # <<>> /\ Last(wal').base = meta.sequence
      <3> SUFFICES ASSUME refusing PROVE wal' # <<>> /\ Last(wal').base = meta.sequence
        OBVIOUS
      <3>1. wal # <<>> /\ Last(wal).base = meta.sequence
        BY <1>1 DEF Sound, LogOK, Unapplied
      <3>2. Len(wal) \in 1..Len(wal) /\ Last(wal).result > Last(wal).base
        <4>1. Len(wal) \in 1..Len(wal)
          BY <3>1, LogIs DEF Sound
        <4>2. QED
          BY <4>1, LogIs DEF Sound, Last
      <3>3. Last(wal).result > checkpoint.sequence
        BY <1>2, <3>1, <3>2
      <3>4. Len(wal) > k
        BY <3>2, <3>3, <1>4 DEF CutAt, Last
      <3>5. QED
        BY <1>5, <3>1, <3>4
    <2>2. ~refusing /\ wal' # <<>> => Last(wal').result = meta.sequence
      <3> SUFFICES ASSUME ~refusing, wal' # <<>> PROVE Last(wal').result = meta.sequence
        OBVIOUS
      <3>1. wal # <<>>
        BY <1>5, LogIs DEF Sound
      <3>2. ~Unapplied
        BY <1>1 DEF Unapplied
      <3>3. QED
        BY <1>1, <1>5, <3>1, <3>2 DEF Sound, LogOK
    <2>3. Unapplied' <=> refusing
      BY <1>1, <1>6 DEF Unapplied
    <2>4. ~Left'
      BY DEF Left, Clean
    <2>5. QED
      BY <1>1, <1>2, <1>5, <1>6, <2>1, <2>2, <2>3, <2>4 DEF LogOK
  <1>10. JobOK'
    BY <1>1, <1>6, JobOKIdle
  <1>11. QED
    BY <1>5, <1>6, <1>7, <1>8, <1>9, <1>10 DEF Sound

LEMMA SoundCompactLog ==
  ASSUME Sound, CompactLog
  PROVE  Sound'
  <1>1. since' \in Nat /\ faults' \in 0..MaxFaults
    BY DEF CompactLog, Sound, StoreTyped
  <1>2. QED
    BY <1>1, SoundCut DEF CompactLog

LEMMA SoundMoveAway ==
  ASSUME Sound, MoveAway
  PROVE  Sound'
  <1>1. /\ up /\ job.stage # "apply" /\ moved' = TRUE /\ Reads(Buckets) /\ hot' \in Scanned
        /\ UNCHANGED <<disk, stored, wal, tail, checkpoint, meta, since, refusing, up, queue, job, tx, faults,
                       history, told>>
    BY DEF MoveAway, logVars
  <1>2. disk \in [Ids -> Entries] /\ Listing(cache) /\ harmed \in BOOLEAN
    BY DEF Sound, StoreTyped
  <1>3. Listing(cache') /\ harmed' \in BOOLEAN
    BY <1>1, <1>2, BucketsIn, ReadsAre DEF BucketSeq
  <1>4. hot' \in [Ids -> Values] /\ Cardinality(Hots(hot')) <= MaxHot
    BY <1>1, <1>2, ScanIs
  <1>5. StoreTyped'
    BY <1>1, <1>3, <1>4 DEF Sound, StoreTyped
  <1>6. JobTyped'
    BY <1>1 DEF Sound, JobTyped
  <1>7. TxnsTyped' /\ LogTyped' /\ HistoryOK'
    BY <1>1, TxnsFrame, LogTypedFrame, HistoryFrame DEF Sound
  <1>8. LogOK'
    BY <1>1, LogFrame DEF Sound
  <1>9. JobOK'
    BY <1>1, JobOKFrame DEF Sound
  <1>10. QED
    BY <1>5, <1>6, <1>7, <1>8, <1>9 DEF Sound

\* Work that a compaction went by is marked, and nothing else of it changes.
LEMMA RenumberedIs ==
  ASSUME Sound, MoveIn, NEW t \in Txns
  PROVE  /\ DOMAIN tx' = Txns /\ Txn(tx'[t]) /\ tx'[t].phase = tx[t].phase /\ tx'[t].reads = tx[t].reads
         /\ tx'[t].seen = tx[t].seen /\ tx'[t].scan = tx[t].scan /\ tx'[t].rivals = tx[t].rivals
         /\ tx'[t].after = tx[t].after
         /\ (~Working(t) => tx'[t] = tx[t]) /\ (Working(t) => tx'[t].renumbered)
  <1> DEFINE q == [tx[t] EXCEPT !.renumbered = TRUE]
  <1>1. tx' = [u \in Txns |-> IF Working(u) THEN [tx[u] EXCEPT !.renumbered = TRUE] ELSE tx[u]]
    <2>1. \A u \in Txns : u \in {x \in Txns : tx[x].phase \in {"work", "queued"}} <=> Working(u)
      BY DEF Working
    <2>2. QED
      BY <2>1 DEF MoveIn
  <1>2. tx'[t] = (IF Working(t) THEN q ELSE tx[t]) /\ DOMAIN tx' = Txns
    BY <1>1
  <1>3. Txn(tx[t])
    BY PhaseIs
  <1>4. /\ Txn(q) /\ q.phase = tx[t].phase /\ q.reads = tx[t].reads /\ q.seen = tx[t].seen
        /\ q.scan = tx[t].scan /\ q.rivals = tx[t].rivals /\ q.after = tx[t].after /\ q.renumbered
    <2> DEFINE r == tx[t]
    <2>1. Txn(r)
      BY <1>3
    <2> HIDE DEF r
    <2> DEFINE b == TRUE
    <2>2. q = [r EXCEPT !.renumbered = b] /\ b \in BOOLEAN
      BY DEF r
    <2>3. b
      OBVIOUS
    <2> HIDE DEF q, b
    <2>4. q = [phase |-> r.phase, todo |-> r.todo, program |-> r.program, reads |-> r.reads,
               seen |-> r.seen, scan |-> r.scan, before |-> r.before, after |-> r.after,
               attempt |-> r.attempt, renumbered |-> b, rivals |-> r.rivals]
      BY <2>1, <2>2 DEF Txn
    <2>5. /\ q.phase = r.phase /\ q.todo = r.todo /\ q.program = r.program
          /\ q.reads = r.reads /\ q.seen = r.seen /\ q.before = r.before /\ q.after = r.after
          /\ q.attempt = r.attempt /\ q.scan = r.scan /\ q.rivals = r.rivals
      BY <2>4
    <2>6. q.renumbered = b
      BY <2>4
    <2>7. q.renumbered
      BY <2>3, <2>6
    <2>8. Txn(q)
      <3>1. q = [phase |-> q.phase, todo |-> q.todo, program |-> q.program, reads |-> q.reads,
               seen |-> q.seen, scan |-> q.scan, before |-> q.before, after |-> q.after,
               attempt |-> q.attempt, renumbered |-> q.renumbered, rivals |-> q.rivals]
        BY <2>4
      <3>2. QED
        BY <2>1, <2>2, <2>5, <2>6, <3>1 DEF Txn
    <2>9. QED
      BY <2>5, <2>7, <2>8 DEF r
  <1> HIDE DEF q
  <1>5. QED
    BY <1>2, <1>3, <1>4

\* The records the copy has: those on disk, and some of a batch that failed.
LEMMA MoveInDisk ==
  ASSUME Sound, MoveIn
  PROVE  /\ disk' \in [Ids -> Entries] /\ stored' \in Nat /\ \A i \in Ids : disk'[i].version <= stored'
         /\ \A i \in Ids : disk'[i].value = disk[i].value \/ (refusing /\ i \in ToSet(Last(wal).ids))
  <1>1. disk \in [Ids -> Entries]
    BY DEF Sound, StoreTyped
  <1>2. PICK late \in SUBSET IF refusing THEN ToSet(Last(wal).ids) ELSE {} :
          LET value(i) == IF i \in late THEN Last(wal).after[i] ELSE disk[i].value
              live == {i \in Ids : value(i) # None}
              n == Cardinality(live)
              working == {t \in Txns : tx[t].phase \in {"work", "queued"}} IN
          /\ up /\ moved
          /\ \E order \in [live -> 1..n] :
               /\ \A i, j \in live : order[i] = order[j] => i = j
               /\ disk' = [i \in Ids |-> IF i \in live THEN [version |-> order[i], value |-> value(i)] ELSE NoEntry]
          /\ stored' = n
          /\ moved' = FALSE
          /\ cache' = <<>> /\ hot' = [i \in Ids |-> None]
          /\ tx' = [t \in Txns |-> IF t \in working THEN [tx[t] EXCEPT !.renumbered = TRUE] ELSE tx[t]]
          /\ UNCHANGED <<logVars, meta, since, refusing, up, queue, job, faults, history, told, harmed>>
    BY DEF MoveIn
  <1> DEFINE value(i) == IF i \in late THEN Last(wal).after[i] ELSE disk[i].value
             live == {i \in Ids : value(i) # None}
             n == Cardinality(live)
  <1>3. n \in Nat
    <2>1. IsFiniteSet(live)
      BY StorageAssumption, FS_Subset
    <2>2. QED
      BY <2>1, FS_CardinalityType
  <1>4. PICK order \in [live -> 1..n] :
          disk' = [i \in Ids |-> IF i \in live THEN [version |-> order[i], value |-> value(i)] ELSE NoEntry]
    BY <1>2
  <1>5. stored' = n
    BY <1>2
  <1>6. \A i \in Ids : value(i) \in Values
    <2> SUFFICES ASSUME NEW i \in Ids PROVE value(i) \in Values
      OBVIOUS
    <2>1. CASE i \in late
      <3>1. refusing /\ up /\ i \in ToSet(Last(wal).ids)
        BY <1>2, <2>1 DEF MoveIn
      <3>2. wal # <<>>
        BY <3>1 DEF Sound, LogOK, Unapplied
      <3>3. Len(wal) \in 1..Len(wal)
        BY <3>2, LogIs DEF Sound
      <3>4. Partly(Last(wal).after, Values) /\ ToSet(Last(wal).ids) \subseteq DOMAIN Last(wal).after
        BY <3>3, LogIs DEF Sound, Last
      <3>5. Last(wal).after[i] \in Values
        BY <3>1, <3>4, PartIs
      <3>6. QED
        BY <2>1, <3>5
    <2>2. CASE i \notin late
      BY <1>1, <2>2, EntryFields
    <2>3. QED
      BY <2>1, <2>2
  <1>7. \A i \in Ids : value(i) = disk[i].value \/ (refusing /\ i \in ToSet(Last(wal).ids))
    BY <1>2
  <1> HIDE DEF n, value
  <1>8. ASSUME NEW i \in Ids
        PROVE  disk'[i] \in Entries /\ disk'[i].value = value(i) /\ disk'[i].version <= stored'
    <2>1. CASE i \in live
      <3>1. order[i] \in 1..n
        BY <2>1
      <3> DEFINE o == order[i]
                 v == value(i)
      <3>2. o \in Nat /\ o <= n /\ v \in Values
        BY <1>3, <1>6, <3>1
      <3>3. disk'[i] = [version |-> o, value |-> v]
        BY <1>4, <2>1
      <3> HIDE DEF o, v, live
      <3>4. disk'[i] \in Entries /\ disk'[i].value = v /\ disk'[i].version <= stored'
        BY <1>5, <3>2, <3>3 DEF Entries, Values
      <3>5. QED
        BY <3>4 DEF v
    <2>2. CASE i \notin live
      <3>1. disk'[i] = NoEntry /\ value(i) = None
        BY <1>4, <2>2
      <3>2. NoEntry \in Entries /\ NoEntry.value = None /\ NoEntry.version = 0
        BY DEF NoEntry, Entries
      <3>3. QED
        BY <1>3, <1>5, <3>1, <3>2
    <2>3. QED
      BY <2>1, <2>2
  <1>9. disk' = [i \in Ids |-> disk'[i]]
    BY <1>4
  <1>10. QED
    BY <1>3, <1>5, <1>7, <1>8, <1>9

LEMMA SoundMoveIn ==
  ASSUME Sound, MoveIn
  PROVE  Sound'
  <1>1. /\ up /\ moved /\ moved' = FALSE /\ cache' = <<>> /\ hot' = [i \in Ids |-> None]
        /\ UNCHANGED <<wal, tail, checkpoint, meta, since, refusing, up, queue, job, faults, history, told, harmed>>
    BY DEF MoveIn, logVars
  <1>2. disk' \in [Ids -> Entries] /\ stored' \in Nat
    BY MoveInDisk
  <1>3. StoreTyped'
    BY <1>1, <1>2, NoHot, NoCache DEF Sound, StoreTyped
  <1>4. JobTyped'
    BY <1>1 DEF Sound, JobTyped
  <1>5. TxnsTyped'
    <2>1. DOMAIN tx' = Txns
      BY DEF MoveIn
    <2>2. \A t \in Txns : Txn(tx'[t]) /\ tx'[t].phase = tx[t].phase
      BY RenumberedIs
    <2>3. QED
      BY <1>1, <2>1, <2>2 DEF Sound, TxnsTyped
  <1>6. LogTyped' /\ HistoryOK'
    BY <1>1, LogTypedFrame, HistoryFrame DEF Sound
  <1>7. LogOK'
    BY <1>1, LogFrame DEF Sound
  <1>8. JobOK'
    <2>1. \A u \in Txns : tx[u].phase = "commit" => tx'[u] = tx[u]
      BY RenumberedIs DEF Working
    <2>2. QED
      BY <1>1, <2>1, JobOKFrame DEF Sound
  <1>9. QED
    BY <1>3, <1>4, <1>5, <1>6, <1>7, <1>8 DEF Sound

-----------------------------------------------------------------------------
\* Failures and recovery.

LEMMA SoundStoreFails ==
  ASSUME Sound, StoreFails
  PROVE  Sound'
  <1> DEFINE t == job.txn
             q == [tx[t] EXCEPT !.phase = "durable"]
  <1>1. /\ up /\ job.stage = "apply" /\ refusing' = TRUE /\ job' = Idle /\ tx' = [tx EXCEPT ![t].phase = "durable"]
        /\ Fault("store")
        /\ UNCHANGED <<disk, cache, hot, stored, moved, wal, tail, checkpoint, meta, since, up, queue,
                       history, told, harmed>>
    BY DEF StoreFails, storeVars, logVars
  <1>2. t \in Txns /\ tx[t].phase = "commit"
    BY <1>1 DEF Sound, JobOK
  <1>3. "durable" \in Phases
    BY DEF Phases
  <1> HIDE DEF t
  <1>4. tx' = [tx EXCEPT ![t] = q] /\ Txn(q)
    BY <1>1, <1>2, <1>3, PhaseSet
  <1> HIDE DEF q
  <1>5. StoreTyped'
    BY <1>1, FaultIs DEF Sound, StoreTyped
  <1>6. TxnsTyped'
    BY <1>1, <1>2, <1>4, TxnsSet DEF Sound
  <1>7. JobTyped' /\ job'.stage = "idle"
    BY <1>1, FreeJob
  <1>8. LogTyped' /\ HistoryOK'
    BY <1>1, LogTypedFrame, HistoryFrame DEF Sound
  <1>9. LogOK'
    <2>1. Unapplied /\ Unapplied'
      BY <1>1 DEF Unapplied
    <2>2. Last(wal)' = Last(wal) /\ ~Left'
      <3>1. Last(wal') = Last(wal)
        BY <1>1
      <3>2. ~Left
        BY <2>1 DEF Sound, LogOK
      <3>3. QED
        BY <1>1, <3>1, <3>2 DEF Left
    <2>3. QED
      BY <1>1, <1>7, <2>1, <2>2 DEF Sound, LogOK
  <1>10. JobOK'
    BY <1>1, <1>7, JobOKIdle
  <1>11. QED
    BY <1>5, <1>6, <1>7, <1>8, <1>9, <1>10 DEF Sound

LEMMA SoundCheckpointFails ==
  ASSUME Sound, CheckpointFails
  PROVE  Sound'
  <1>1. /\ up /\ job.stage = "compact" /\ job' = Idle /\ Fault("checkpoint")
        /\ UNCHANGED <<disk, cache, hot, stored, moved, checkpoint, meta, since, refusing, up, queue, tx,
                       history, told, harmed>>
    BY DEF CheckpointFails, storeVars
  <1>2. faults' \in 0..MaxFaults /\ since' \in Nat
    BY <1>1, FaultIs DEF Sound, StoreTyped
  <1>3. CASE UNCHANGED <<wal, tail>>
    <2>1. StoreTyped'
      BY <1>1, <1>2 DEF Sound, StoreTyped
    <2>2. TxnsTyped' /\ LogTyped' /\ HistoryOK'
      BY <1>1, <1>3, TxnsFrame, LogTypedFrame, HistoryFrame DEF Sound
    <2>3. JobTyped' /\ job'.stage = "idle"
      BY <1>1, FreeJob
    <2>4. LogOK'
      BY <1>1, <1>3, <2>3, LogMark DEF Sound
    <2>5. JobOK'
      BY <1>1, <2>3, JobOKIdle
    <2>6. QED
      BY <2>1, <2>2, <2>3, <2>4, <2>5 DEF Sound
  <1>4. CASE wal' = After(wal, meta.sequence) /\ tail' = Clean
    BY <1>1, <1>2, <1>4, SoundCut DEF storeVars
  <1>5. QED
    BY <1>3, <1>4 DEF CheckpointFails

\* A crash: what was under way is lost.
LEMMA LostIs ==
  ASSUME Sound, Crash, NEW t \in Txns
  PROVE  /\ DOMAIN tx' = Txns /\ Txn(tx'[t]) /\ tx'[t].phase \notin InFlight /\ tx'[t].rivals = tx[t].rivals
  <1> DEFINE q == [tx[t] EXCEPT !.phase = "lost"]
  <1>1. tx' = [u \in Txns |-> IF tx[u].phase \in InFlight THEN [tx[u] EXCEPT !.phase = "lost"] ELSE tx[u]]
    BY DEF Crash
  <1>2. tx'[t] = (IF tx[t].phase \in InFlight THEN q ELSE tx[t]) /\ DOMAIN tx' = Txns
    BY <1>1
  <1>3. Txn(tx[t])
    BY PhaseIs
  <1>4. "lost" \in Phases /\ "lost" \notin InFlight
    BY DEF Phases, InFlight
  <1>5. Txn(q) /\ q.phase = "lost" /\ q.rivals = tx[t].rivals
    BY <1>3, <1>4, TxnPhase
  <1> HIDE DEF q
  <1>6. QED
    BY <1>2, <1>3, <1>4, <1>5

\* A crash makes a line that was left the last of the log.
LEMMA CrashLog ==
  ASSUME Sound, Crash
  PROVE  /\ ~Left' /\ tail' \in {Clean, Fragment, Unreadable}
         /\ ~Left => UNCHANGED <<wal, history, told>>
         /\ Left => /\ up /\ ~Unapplied /\ tail.line.base = meta.sequence
                    /\ Line(tail.line) /\ Commit(tail.commit) /\ Describes(tail.line, tail.commit)
                    /\ wal' = Append(wal, tail.line) /\ history' = Append(history, tail.commit)
                    /\ told' = Telling(tail.line.change)
  <1>1. tail \in {Clean, Fragment, Unreadable} => ~Left
    BY DEF Left, Clean, Fragment, Unreadable
  <1>2. Left => /\ up /\ ~Unapplied /\ tail.line.base = meta.sequence
                /\ Line(tail.line) /\ Commit(tail.commit) /\ Describes(tail.line, tail.commit)
    BY <1>1 DEF Sound, LogOK, LogTyped, HistoryOK
  <1>3. /\ wal' = (IF Left THEN Append(wal, tail.line) ELSE wal)
        /\ history' = (IF Left THEN Append(history, tail.commit) ELSE history)
        /\ told' = (IF Left THEN Telling(tail.line.change) ELSE told)
        /\ tail' = (IF Left THEN Clean ELSE tail) \/ tail' = Fragment
    BY DEF Crash, Left
  <1>4. ~Left => tail \in {Clean, Fragment, Unreadable}
    BY DEF Sound, LogTyped
  <1>5. tail' \in {Clean, Fragment, Unreadable}
    BY <1>3, <1>4
  <1>6. ~Left'
    BY <1>5 DEF Left, Clean, Fragment, Unreadable
  <1>7. QED
    BY <1>2, <1>3, <1>5, <1>6

LEMMA SoundCrash ==
  ASSUME Sound, Crash
  PROVE  Sound'
  <1>1. /\ up' = FALSE /\ disk' = (IF moved THEN Empty ELSE disk) /\ harmed' = (harmed \/ moved)
        /\ moved' = FALSE /\ cache' = <<>> /\ hot' = [i \in Ids |-> None] /\ stored' = 0
        /\ meta' = checkpoint /\ since' = 0 /\ refusing' = FALSE /\ queue' = <<>> /\ job' = Idle
        /\ checkpoint' = checkpoint /\ Fault("crash")
    BY DEF Crash
  <1>2. disk' \in [Ids -> Entries]
    BY <1>1, EmptyIs DEF Sound, StoreTyped
  <1>3. StoreTyped'
    <2>1. Meta(checkpoint) /\ checkpoint.sequence \in Nat
      BY DEF Sound, StoreTyped, Meta
    <2>2. checkpoint'.sequence <= meta'.sequence
      BY <1>1, <2>1
    <2>3. harmed' \in BOOLEAN
      BY <1>1 DEF Sound, StoreTyped
    <2>4. QED
      BY <1>1, <1>2, <2>1, <2>2, <2>3, FaultIs, NoHot, NoCache DEF StoreTyped
  <1>4. JobTyped' /\ job'.stage = "idle"
    BY <1>1, FreeJob
  <1>5. TxnsTyped'
    <2>1. DOMAIN tx' = Txns
      BY DEF Crash
    <2>2. \A t \in Txns : Txn(tx'[t])
      BY LostIs
    <2>3. QED
      BY <1>1, <2>1, <2>2 DEF TxnsTyped
  <1>6. LogTyped' /\ HistoryOK' /\ LogOK'
    <2>1. ~Left' /\ tail' \in {Clean, Fragment, Unreadable}
      BY CrashLog
    <2>2. CASE ~Left
      <3>1. UNCHANGED <<wal, history, told>>
        BY <2>2, CrashLog
      <3>2. LogTyped'
        BY <2>1, <3>1 DEF Sound, LogTyped
      <3>3. HistoryOK'
        BY <2>1, <3>1 DEF Sound, HistoryOK
      <3>4. LogOK'
        BY <1>1, <1>4, <2>1, <3>1 DEF Sound, LogOK
      <3>5. QED
        BY <3>2, <3>3, <3>4
    <2>3. CASE Left
      <3>1. /\ up /\ ~Unapplied /\ tail.line.base = meta.sequence
            /\ Line(tail.line) /\ Commit(tail.commit) /\ Describes(tail.line, tail.commit)
            /\ wal' = Append(wal, tail.line) /\ history' = Append(history, tail.commit)
            /\ told' = Telling(tail.line.change)
        BY <2>3, CrashLog
      <3>2. /\ wal' \in Seq(ToSet(wal')) /\ history' \in Seq(ToSet(history'))
            /\ (\A n \in DOMAIN wal' : Line(wal'[n])) /\ (\A n \in DOMAIN history' : Commit(history'[n]))
            /\ wal' # <<>>
            /\ \A n \in 1..Len(wal') - 1 : wal'[n + 1].base = wal'[n].result
            /\ \/ checkpoint.sequence = wal'[1].base
               \/ \E n \in DOMAIN wal' : checkpoint.sequence = wal'[n].result
            /\ Len(wal') <= Len(history')
            /\ \A n \in DOMAIN wal' : Describes(wal'[n], history'[Len(history') - Len(wal') + n])
        <4> DEFINE line == tail.line
                   commit == tail.commit
        <4>1. /\ up /\ ~Unapplied /\ line.base = meta.sequence /\ Line(line) /\ Commit(commit)
              /\ Describes(line, commit) /\ wal' = Append(wal, line) /\ history' = Append(history, commit)
          BY <3>1
        <4> HIDE DEF line, commit
        <4>2. QED
          BY <4>1, Grows
      <3>3. told' \in Seq(Changes)
        BY <3>1, TellingIs DEF Line
      <3>4. LogTyped'
        BY <2>1, <3>2, <3>3 DEF LogTyped
      <3>5. HistoryOK'
        BY <2>1, <3>2 DEF HistoryOK
      <3>6. LogOK'
        BY <1>1, <1>4, <2>1, <3>2 DEF LogOK
      <3>7. QED
        BY <3>4, <3>5, <3>6
    <2>4. QED
      BY <2>2, <2>3
  <1>8. JobOK'
    <2>1. \A t \in Txns : tx'[t].phase \notin InFlight
      BY LostIs
    <2>2. \A i \in Ids : hot'[i] = None
      BY <1>1
    <2>3. QED
      BY <1>1, <1>4, <2>1, <2>2 DEF JobOK
  <1>9. QED
    BY <1>3, <1>4, <1>5, <1>6, <1>8 DEF Sound

\* The metadata that open finds, and the sequence the store goes on from.
LEMMA OpenIs ==
  ASSUME Sound, Open
  PROVE  /\ disk' \in [Ids -> Entries] /\ stored' \in Nat /\ \A i \in Ids : disk'[i].version <= stored'
         /\ Meta(meta') /\ checkpoint' = meta'
         /\ meta'.applied = OnDisk
         /\ Pending = <<>> => meta' = checkpoint /\ UNCHANGED <<wal, tail>>
         /\ Pending # <<>> => wal' = <<>> /\ tail' = Clean
  <1> DEFINE f == [i \in Ids |-> Recovered[i].version]
  <1>1. Meta(checkpoint) /\ disk \in [Ids -> Entries]
    BY DEF Sound, StoreTyped
  <1>2. Recovered \in [Ids -> Entries]
    BY <1>1, RecoveredTyped DEF Sound
  <1>3. /\ disk' = Recovered /\ stored' = Max({0} \cup {Recovered[i].version : i \in Ids})
        /\ meta' = Recorded(checkpoint, Pending) /\ checkpoint' = meta'
        /\ IF Pending = <<>> THEN UNCHANGED <<wal, tail>> ELSE wal' = <<>> /\ tail' = Clean
    BY DEF Open
  <1>4. f \in [Ids -> Nat] /\ \A i \in Ids : f[i] = Recovered[i].version
    BY <1>2, EntryFields
  <1>5. {Recovered[i].version : i \in Ids} = {f[i] : i \in Ids}
    BY <1>4
  <1> HIDE DEF f
  <1>6. Top(f, Ids) \in Nat /\ \A x \in Ids : f[x] <= Top(f, Ids)
    BY <1>4, StorageAssumption, Tops
  <1>15. stored' = Top(f, Ids)
    BY <1>3, <1>5 DEF Top
  <1>7. stored' \in Nat /\ \A i \in Ids : disk'[i].version <= stored'
    BY <1>3, <1>4, <1>6, <1>15
  <1>8. PICK k \in 0..Len(wal) : CutAt(k)
    BY <1>1, PendingIs DEF Sound
  <1>9. /\ Len(Pending) \in Nat /\ DOMAIN Pending = 1..Len(Pending) /\ (Pending = <<>> <=> Len(Pending) = 0)
        /\ \A n \in 1..Len(Pending) : Line(Pending[n])
    <2>1. /\ Len(Pending) \in Nat /\ DOMAIN Pending = 1..Len(Pending) /\ (Pending = <<>> <=> Len(Pending) = 0)
          /\ \A n \in 1..Len(Pending) : k + n \in 1..Len(wal) /\ Pending[n] = wal[k + n]
      BY <1>8, CutIs DEF Sound
    <2>2. \A m \in 1..Len(wal) : Line(wal[m])
      BY LogIs DEF Sound
    <2>3. QED
      BY <2>1, <2>2
  <1> DEFINE p == Pending
             r == Recorded(checkpoint, p)
  <1>10. Pending = p
    OBVIOUS
  <1> HIDE DEF p
  <1>11. /\ Meta(r) /\ r.sequence = IF p = <<>> THEN checkpoint.sequence ELSE p[Len(p)].result
         /\ p # <<>> => r.applied = RememberingEach(checkpoint.applied, p)
    BY <1>1, <1>9, <1>10, RecordedIs
  <1>12. meta' = r
    BY <1>3, <1>10
  <1>14. p = <<>> => r = checkpoint
    BY DEF Recorded
  <1>16. p = <<>> => RememberingEach(checkpoint.applied, p) = checkpoint.applied
    <2> SUFFICES ASSUME p = <<>> PROVE RememberingEach(checkpoint.applied, p) = checkpoint.applied
      OBVIOUS
    <2> DEFINE a == checkpoint.applied
    <2>1. AppliedIs(a) /\ Len(p) = 0
      BY <1>1 DEF Meta
    <2> HIDE DEF a
    <2>2. RememberingEach(a, p) = a
      BY <2>1, RememberingNone
    <2>3. QED
      BY <2>2 DEF a
  <1>17. OnDisk = RememberingEach(checkpoint.applied, p)
    BY <1>10 DEF OnDisk
  <1> HIDE DEF r
  <1>13. QED
    BY <1>2, <1>3, <1>7, <1>10, <1>11, <1>12, <1>14, <1>16, <1>17

LEMMA SoundOpen ==
  ASSUME Sound, Open
  PROVE  Sound'
  <1>1. /\ ~up /\ up' = TRUE /\ checkpoint' = meta'
        /\ UNCHANGED <<cache, hot, moved, since, refusing, queue, job, tx, faults, history, told, harmed>>
    BY DEF Open
  <1>2. job = Idle /\ meta = checkpoint /\ ~refusing
    BY <1>1 DEF Sound, JobOK
  <1>3. disk' \in [Ids -> Entries] /\ stored' \in Nat /\ Meta(meta')
    BY OpenIs
  <1>4. StoreTyped'
    <2>1. meta'.sequence <= meta'.sequence
      BY <1>3 DEF Meta
    <2>2. up' \in BOOLEAN
      BY <1>1
    <2>3. QED
      BY <1>1, <1>3, <2>1, <2>2 DEF Sound, StoreTyped
  <1>5. JobTyped' /\ TxnsTyped'
    BY <1>1, JobFrame, TxnsFrame DEF Sound
  <1>6. job'.stage = "idle"
    BY <1>1, <1>2, IdleIs
  <1>0. ~Left
    BY <1>1 DEF Sound, LogOK
  <1>7. LogTyped' /\ HistoryOK' /\ LogOK'
    <2>1. CASE Pending = <<>>
      <3>1. wal' = wal /\ tail' = tail /\ meta' = meta /\ checkpoint' = checkpoint
        BY <1>1, <1>2, <2>1, OpenIs
      <3>0. ~Left'
        BY <1>0, <3>1 DEF Left
      <3>2. LogTyped' /\ HistoryOK'
        BY <1>1, <3>1, LogTypedFrame, HistoryFrame DEF Sound
      <3>3. wal # <<>> => Last(wal).result = meta.sequence
        <4> SUFFICES ASSUME wal # <<>> PROVE Last(wal).result = meta.sequence
          OBVIOUS
        <4>1. PICK k \in 0..Len(wal) : CutAt(k)
          BY PendingIs DEF Sound, StoreTyped
        <4>2. k \in Nat /\ Len(Pending) = Len(wal) - k /\ Len(Pending) = 0 /\ Len(wal) \in Nat /\ Len(wal) # 0
          BY <2>1, <4>1, CutIs, LogIs DEF Sound
        <4>3. k = Len(wal) /\ k > 0
          BY <4>2
        <4>4. QED
          BY <1>2, <4>1, <4>3 DEF CutAt, Last
      <3>4. ~Unapplied' /\ ~Unapplied
        BY <1>1, <1>2, <1>6 DEF Unapplied
      <3>5. LogOK'
        BY <1>6, <3>0, <3>1, <3>3, <3>4 DEF Sound, LogOK
      <3>6. QED
        BY <3>2, <3>5
    <2>2. CASE Pending # <<>>
      <3>1. wal' = <<>> /\ tail' = Clean
        BY <2>2, OpenIs
      <3>0. ~Left'
        BY <3>1 DEF Left, Clean
      <3>2. DOMAIN <<>> = {} /\ Len(<<>>) = 0 /\ \A n \in 1..Len(<<>>) - 1 : FALSE
        OBVIOUS
      <3>3. history' \in Seq(ToSet(history')) /\ Len(history') \in Nat /\ \A n \in DOMAIN history' : Commit(history'[n])
        BY <1>1, LogIs DEF Sound, LogTyped
      <3>4. <<>> \in Seq(ToSet(<<>>))
        OBVIOUS
      <3>5. LogTyped' /\ HistoryOK'
        <4>1. told' \in Seq(Changes)
          BY <1>1 DEF Sound, LogTyped
        <4>2. QED
          BY <3>0, <3>1, <3>2, <3>3, <3>4, <4>1 DEF LogTyped, HistoryOK
      <3>6. ~Unapplied'
        BY <1>1, <1>2, <1>6 DEF Unapplied
      <3>7. LogOK'
        BY <1>1, <1>6, <3>0, <3>1, <3>2, <3>6 DEF LogOK
      <3>8. QED
        BY <3>5, <3>7
    <2>3. QED
      BY <2>1, <2>2
  <1>8. JobOK'
    BY <1>1, <1>6, JobOKIdle
  <1>9. QED
    BY <1>4, <1>5, <1>7, <1>8 DEF Sound

LEMMA SoundFrame ==
  ASSUME Sound, UNCHANGED vars
  PROVE  Sound'
  <1>1. StoreTyped' /\ JobTyped' /\ TxnsTyped' /\ LogTyped' /\ HistoryOK' /\ LogOK'
    BY StoreFrame, JobFrame, TxnsFrame, LogTypedFrame, HistoryFrame, LogFrame DEF Sound, vars
  <1>2. JobOK'
    BY DEF Sound, JobOK, vars
  <1>3. QED
    BY <1>1, <1>2 DEF Sound

LEMMA SoundStep == Sound /\ [Next]_vars => Sound'
  <1> SUFFICES ASSUME Sound, [Next]_vars PROVE Sound'
    OBVIOUS
  <1>1. CASE UNCHANGED vars
    BY <1>1, SoundFrame
  <1>2. CASE Next
    <2>1. CASE \E t \in Txns : \/ Access(t) \/ ScanAll(t) \/ AccessFails(t) \/ Submit(t)
                     \/ Refuse(t) \/ Conflict(t) \/ Remember(t) \/ RememberFails(t)
                     \/ AppendCommit(t) \/ AppendFails(t)
                     \/ \E p \in Programs[t] : Begin(t, p)
      BY <2>1, SoundAccess, SoundScanAll, SoundAccessFails, SoundSubmit, SoundRefuse, SoundConflict, SoundRemember,
         SoundRememberFails, SoundAppendCommit, SoundAppendFails, SoundBegin
    <2>2. CASE ApplyOp \/ (\E b \in ToSet(Buckets) : SaveBucket(b)) \/ Committed
      BY <2>2, SoundApplyOp, SoundSaveBucket, SoundCommitted
    <2>3. CASE RequestCheckpoint \/ SaveMeta \/ SaveMetaFails \/ CompactLog \/ MoveAway \/ MoveIn
      BY <2>3, SoundRequestCheckpoint, SoundSaveMeta, SoundSaveMetaFails, SoundCompactLog, SoundMoveAway, SoundMoveIn
    <2>4. CASE StoreFails \/ CheckpointFails \/ Crash \/ Open
      BY <2>4, SoundStoreFails, SoundCheckpointFails, SoundCrash, SoundOpen
    <2>5. QED
      BY <1>2, <2>1, <2>2, <2>3, <2>4 DEF Next
  <1>3. QED
    BY <1>1, <1>2

\* What Sound says of the properties.
LEMMA SoundIsTyped == Sound => TypeOK /\ OpensAgain
  <1> SUFFICES ASSUME Sound PROVE TypeOK /\ OpensAgain
    OBVIOUS
  <1>1. OpensAgain
    BY LogContinues DEF Sound, StoreTyped, OpensAgain
  <1>2. /\ disk \in [Ids -> Entries] /\ hot \in [Ids -> Values] /\ Listing(cache)
        /\ Cardinality({i \in Ids : hot[i] # None}) <= MaxHot
        /\ stored \in Nat /\ since \in Nat /\ faults \in 0..MaxFaults
        /\ {moved, refusing, up, harmed} \subseteq BOOLEAN
        /\ meta.sequence \in Nat /\ AppliedIs(meta.applied) /\ checkpoint.sequence <= meta.sequence
    BY DEF Sound, StoreTyped, Meta, Hots
  <1>3. Len(cache) <= CacheBuckets /\ \A n \in 1..Len(cache) :
           /\ cache[n].bucket \in ToSet(Buckets)
           /\ cache[n].entries \in [In(cache[n].bucket) -> Entries]
           /\ \A m \in 1..Len(cache) : cache[m].bucket = cache[n].bucket => m = n
    <2>1. DOMAIN cache = 1..Len(cache)
      BY <1>2, ListingIs
    <2>2. QED
      BY <1>2, <2>1 DEF Listing, Slot
  <1>4. job.stage \in {"idle", "apply", "compact"} /\ (moved => DOMAIN job.dirty = {})
    BY DEF Sound, JobTyped
  <1>5. ToSet(queue) \subseteq Txns \cup {"checkpoint", "scheduled"}
    <2>1. queue \in Seq(Jobs)
      BY DEF Sound, TxnsTyped, Jobs
    <2>2. QED
      BY <2>1 DEF ToSet, Jobs
  <1>6. \A t \in Txns : tx[t].attempt \in 0..MaxRetries
    BY PhaseIs DEF Txn
  <1>7. Len(meta.applied) <= Remembered /\ ToSet(meta.applied) \subseteq Changes
    BY <1>2 DEF AppliedIs, ToSet
  <1>8. tail.kind \in {"clean", "fragment", "line", "unreadable"} /\ ToSet(told) \subseteq Changes
    BY DEF Sound, LogTyped, Left, Clean, Fragment, Unreadable, ToSet
  <1>9. QED
    BY <1>1, <1>2, <1>3, <1>4, <1>5, <1>6, <1>7, <1>8 DEF TypeOK, Values

\* The log, the checkpoint and the metadata are of one sequence, the caches keep within their
\* bounds, and the log continues the checkpoint at every moment, through failed and torn
\* appends, unless its end was written over (OpensAgain), however small the caches are.
THEOREM StorageTyped == Spec => [](TypeOK /\ OpensAgain)
  <1>1. Init => Sound
    BY SoundAtFirst
  <1>2. Sound /\ [Next]_vars => Sound'
    BY SoundStep
  <1>3. Sound => TypeOK /\ OpensAgain
    BY SoundIsTyped
  <1>4. QED
    BY <1>1, <1>2, <1>3, PTL DEF Spec

-----------------------------------------------------------------------------
(* What the index says: Stored, while nothing is read amiss.               *)

\* A bucket is cached, or its file says what the index does.
Readable(c, b) == Held(c, b) = {} => ~moved /\ b \notin DOMAIN job.dirty

LEMMA SavedCurrent ==
  ASSUME NEW b, ~moved, b \notin DOMAIN job.dirty, NEW i \in In(b)
  PROVE  Saved(b)[i] = Current(i)
  <1>1. i \in Ids /\ BucketOf[i] = b
    BY DEF In
  <1>2. Saved(b)[i] = disk[i]
    BY DEF Saved
  <1>3. QED
    BY <1>1, <1>2 DEF Current

LEMMA EntryFresh ==
  ASSUME disk \in [Ids -> Entries], NEW c, Listing(c), Fresh(c), NEW i \in Ids, Readable(c, BucketOf[i])
  PROVE  Entry(c, i) = Current(i)
  <1> DEFINE b == BucketOf[i]
  <1>1. i \in In(b) /\ b \in ToSet(Buckets)
    BY InIs
  <1>2. \/ \E n \in 1..Len(c) : c[n].bucket = b /\ Entry(c, i) = c[n].entries[i]
        \/ Held(c, b) = {} /\ Entry(c, i) = Saved(b)[i]
    BY EntryIs
  <1>3. DOMAIN c = 1..Len(c)
    BY ListingIs
  <1>4. CASE \E n \in 1..Len(c) : c[n].bucket = b /\ Entry(c, i) = c[n].entries[i]
    BY <1>1, <1>3, <1>4 DEF Fresh
  <1>5. CASE Held(c, b) = {} /\ Entry(c, i) = Saved(b)[i]
    <2>1. ~moved /\ b \notin DOMAIN job.dirty
      BY <1>5 DEF Readable
    <2> HIDE DEF b
    <2>2. QED
      BY <1>1, <1>5, <2>1, SavedCurrent
  <1>6. QED
    BY <1>2, <1>4, <1>5

LEMMA LoadFresh ==
  ASSUME disk \in [Ids -> Entries], NEW c, Listing(c), Fresh(c), NEW b \in ToSet(Buckets), Readable(c, b)
  PROVE  Listing(Load(c, b)) /\ Fresh(Load(c, b))
  <1> DEFINE r == Load(c, b)
  <1>1. /\ Listing(r)
        /\ \A n \in 1..Len(r) : \/ \E m \in 1..Len(c) : r[n] = c[m]
                                \/ Held(c, b) = {} /\ r[n] = [bucket |-> b, entries |-> Saved(b)]
    BY LoadIs
  <1> HIDE DEF r
  <1>3. DOMAIN r = 1..Len(r) /\ DOMAIN c = 1..Len(c)
    BY <1>1, ListingIs
  <1>4. ASSUME NEW n \in DOMAIN r, NEW i \in In(r[n].bucket)
        PROVE  r[n].entries[i] = Current(i)
    <2>1. CASE \E m \in 1..Len(c) : r[n] = c[m]
      BY <1>3, <1>4, <2>1 DEF Fresh
    <2>2. CASE Held(c, b) = {} /\ r[n] = [bucket |-> b, entries |-> Saved(b)]
      <3>1. ~moved /\ b \notin DOMAIN job.dirty /\ r[n].bucket = b /\ r[n].entries = Saved(b)
        BY <2>2 DEF Readable
      <3>2. QED
        BY <1>4, <3>1, SavedCurrent
    <2>3. QED
      BY <1>1, <1>3, <2>1, <2>2
  <1>5. QED
    BY <1>1, <1>4 DEF Fresh, r

\* Buckets are loaded in turn, none of them amiss.
LEMMA LoadsFresh ==
  ASSUME disk \in [Ids -> Entries], Listing(cache), Fresh(cache), NEW bs, BucketSeq(bs), ~Amiss(bs)
  PROVE  /\ Fresh(LoadEach(cache, bs))
         /\ \A k \in 1..Len(bs) : Fresh(Loads(cache, bs)[k - 1]) /\ Readable(Loads(cache, bs)[k - 1], bs[k])
  <1> DEFINE h == Loads(cache, bs)
             N == Len(bs)
             S == {k \in 0..N : Fresh(h[k])}
  <1>1. N \in Nat /\ \A k \in 1..N : bs[k] \in ToSet(Buckets)
    BY DEF BucketSeq
  <1>2. /\ h[0] = cache /\ \A k \in 1..N : h[k] = Load(h[k - 1], bs[k])
        /\ LoadEach(cache, bs) = h[N] /\ \A k \in 0..N : Listing(h[k])
    BY <1>1, LoadsAre
  <1>3. \A k \in 1..N : Readable(h[k - 1], bs[k])
    BY DEF Amiss, Readable
  <1> HIDE DEF h, N
  <1>4. \A k \in 0..N : k \in S
    <2>1. 0 \in S
      BY <1>1, <1>2
    <2>2. ASSUME NEW k \in 1..N, k - 1 \in S PROVE k \in S
      <3>1. k - 1 \in 0..N /\ Fresh(h[k - 1]) /\ k \in 0..N
        BY <1>1, <2>2
      <3>2. h[k] = Load(h[k - 1], bs[k]) /\ Listing(h[k - 1]) /\ Readable(h[k - 1], bs[k]) /\ bs[k] \in ToSet(Buckets)
        BY <1>1, <1>2, <1>3, <3>1
      <3>3. Fresh(h[k])
        BY <3>1, <3>2, LoadFresh
      <3>4. QED
        BY <3>1, <3>3
    <2> HIDE DEF S
    <2>3. QED
      BY <1>1, <2>1, <2>2, Upto
  <1>5. N \in 0..N /\ \A k \in 1..N : k - 1 \in 0..N
    BY <1>1
  <1>6. QED
    BY <1>2, <1>3, <1>4, <1>5 DEF h, N

\* What is loaded among them was there already or could be read: nothing but a load brings a
\* bucket into the cache.
LEMMA LoadsReadable ==
  ASSUME disk \in [Ids -> Entries], Listing(cache), NEW bs, BucketSeq(bs), ~Amiss(bs), NEW k \in 1..Len(bs)
  PROVE  Readable(cache, bs[k])
  <1> DEFINE h == Loads(cache, bs)
             N == Len(bs)
             b == bs[k]
             T == {n \in 1..N : bs[n] = b}
             S == {n \in 0..N : Held(h[n], b) # {} => n > 0 /\ \E m \in 1..n : bs[m] = b}
  <1>1. N \in Nat /\ \A n \in 1..N : bs[n] \in ToSet(Buckets)
    BY DEF BucketSeq
  <1>2. /\ h[0] = cache /\ \A n \in 1..N : h[n] = Load(h[n - 1], bs[n])
        /\ \A n \in 0..N : Listing(h[n])
    BY <1>1, LoadsAre
  <1>3. \A n \in 1..N : Readable(h[n - 1], bs[n])
    BY DEF Amiss, Readable
  <1> SUFFICES ASSUME Held(cache, b) = {} PROVE ~moved /\ b \notin DOMAIN job.dirty
    BY DEF Readable
  <1>4. PICK f \in T : \A n \in T : f <= n
    <2>1. T \in SUBSET Nat /\ k \in T
      BY <1>1
    <2> HIDE DEF T
    <2>2. QED
      BY <2>1, Least
  <1>5. f \in 1..N /\ bs[f] = b /\ f \in Nat
    BY <1>1, <1>4
  <1> HIDE DEF h, N
  <1>6. \A n \in 0..N : n \in S
    <2>1. 0 \in S
      BY <1>1, <1>2
    <2>2. ASSUME NEW n \in 1..N, n - 1 \in S PROVE n \in S
      <3>1. n - 1 \in 0..N /\ n \in 0..N /\ n > 0
        BY <1>1
      <3> SUFFICES ASSUME Held(h[n], b) # {} PROVE \E m \in 1..n : bs[m] = b
        BY <3>1
      <3>2. CASE bs[n] = b
        <4>1. n \in 1..n
          BY <1>1
        <4>2. QED
          BY <3>2, <4>1
      <3>3. CASE bs[n] # b
        <4>1. h[n] = Load(h[n - 1], bs[n]) /\ Listing(h[n - 1]) /\ Listing(h[n]) /\ bs[n] \in ToSet(Buckets)
          BY <1>1, <1>2, <3>1
        <4>2. \A x \in 1..Len(h[n]) : \/ \E y \in 1..Len(h[n - 1]) : h[n][x] = h[n - 1][y]
                                      \/ h[n][x] = [bucket |-> bs[n], entries |-> Saved(bs[n])]
          <5> DEFINE c == h[n - 1]
                     d == bs[n]
          <5>1. h[n] = Load(c, d) /\ Listing(c) /\ d \in ToSet(Buckets)
            BY <4>1
          <5> HIDE DEF c, d
          <5>2. \A x \in 1..Len(h[n]) : \/ \E y \in 1..Len(c) : h[n][x] = c[y]
                                        \/ h[n][x] = [bucket |-> d, entries |-> Saved(d)]
            BY <5>1, LoadIs
          <5>3. QED
            BY <5>2 DEF c, d
        <4>3. DOMAIN h[n] = 1..Len(h[n]) /\ DOMAIN h[n - 1] = 1..Len(h[n - 1])
          BY <4>1, ListingIs
        <4>4. PICK x \in 1..Len(h[n]) : h[n][x].bucket = b
          BY <4>3 DEF Held
        <4>5. PICK y \in 1..Len(h[n - 1]) : h[n][x] = h[n - 1][y]
          BY <3>3, <4>2, <4>4
        <4>6. Held(h[n - 1], b) # {}
          BY <4>3, <4>4, <4>5 DEF Held
        <4>7. PICK m \in 1..(n - 1) : bs[m] = b
          BY <2>2, <4>6
        <4>8. m \in 1..n
          BY <1>1, <3>1
        <4>9. QED
          BY <4>7, <4>8
      <3>4. QED
        BY <3>2, <3>3
    <2> HIDE DEF S
    <2>3. QED
      BY <1>1, <2>1, <2>2, Upto
  <1>7. Held(h[f - 1], b) = {}
    <2> SUFFICES ASSUME Held(h[f - 1], b) # {} PROVE FALSE
      OBVIOUS
    <2>1. f - 1 \in 0..N
      BY <1>1, <1>5
    <2>2. PICK m \in 1..(f - 1) : bs[m] = b
      BY <1>6, <2>1
    <2>3. m \in 1..N /\ ~(f <= m)
      BY <1>1, <1>5, <2>2
    <2>4. QED
      BY <1>4, <2>2, <2>3 DEF N
  <1>8. QED
    BY <1>3, <1>5, <1>7 DEF Readable

\* A scan finds what the index says.
LEMMA ScanFresh ==
  ASSUME disk \in [Ids -> Entries], Listing(cache), Fresh(cache), ~Amiss(Buckets), NEW i \in Ids
  PROVE  ScanEntry(i) = Current(i)
  <1>1. PICK n \in 1..Len(Buckets) : /\ Buckets[n] = BucketOf[i]
                                      /\ ScanEntry(i) = Entry(Loads(cache, Buckets)[n - 1], i)
                                      /\ Listing(Loads(cache, Buckets)[n - 1])
    BY ScanEntryIs
  <1>2. BucketSeq(Buckets)
    BY BucketsIn DEF BucketSeq
  <1>3. Fresh(Loads(cache, Buckets)[n - 1]) /\ Readable(Loads(cache, Buckets)[n - 1], Buckets[n])
    BY <1>2, LoadsFresh
  <1>4. QED
    BY <1>1, <1>3, EntryFresh

\* Reading some buckets keeps the cache fresh, if nothing is amiss after it.
LEMMA ReadsFresh ==
  ASSUME disk \in [Ids -> Entries], Listing(cache), Fresh(cache), NEW bs, BucketSeq(bs), Reads(bs), ~harmed'
  PROVE  ~harmed /\ ~Amiss(bs) /\ Fresh(cache')
  <1>1. ~harmed /\ ~Amiss(bs)
    BY DEF Reads
  <1>2. QED
    BY <1>1, LoadsFresh DEF Reads

LEMMA ValidatedFresh ==
  ASSUME Sound, Fresh(cache), NEW t \in Txns, Reads(Validates(t)), ~harmed'
  PROVE  ~harmed /\ ~Amiss(Validates(t)) /\ Fresh(cache')
  <1>1. disk \in [Ids -> Entries] /\ Listing(cache) /\ Txn(tx[t])
    BY PhaseIs DEF Sound, StoreTyped
  <1>2. BucketSeq(Validates(t))
    BY <1>1, ValidatesIs
  <1>3. QED
    BY <1>1, <1>2, ReadsFresh

\* A record is read from the hot records or from the index: they agree.
LEMMA ValueCurrent ==
  ASSUME Sound, Fresh(cache), NEW i \in Ids, hot[i] \in {None, Current(i).value}, Readable(cache, BucketOf[i])
  PROVE  Value(i) = Current(i).value
  <1>1. Entry(cache, i) = Current(i)
    BY EntryFresh DEF Sound, StoreTyped
  <1>2. QED
    BY <1>1 DEF Value

LEMMA CurrentIs ==
  ASSUME Sound, NEW i \in Ids
  PROVE  Current(i) \in Entries /\ Current(i).version \in Nat /\ (DOMAIN job.dirty = {} => Current(i) = disk[i])
  <1>1. i \in In(BucketOf[i])
    BY InIs
  <1>2. disk[i] \in Entries /\ \A b \in DOMAIN job.dirty : job.dirty[b] \in [In(b) -> Entries]
    BY DEF Sound, StoreTyped, JobTyped
  <1>3. Current(i) \in Entries
    BY <1>1, <1>2 DEF Current
  <1>4. QED
    BY <1>3, EntryFields DEF Current

-----------------------------------------------------------------------------
\* What the first n commits of a history leave of a record.
Outcome(h, i, n) ==
  LET W == {m \in 1..n : i \in DOMAIN h[m].after}
  IN  IF W = {} THEN None ELSE h[Max(W)].after[i]

LEMMA StateIs ==
  ASSUME NEW i \in Ids
  PROVE  /\ \A n : State(n)[i] = Outcome(history, i, n)
         /\ Now[i] = Outcome(history, i, Len(history))
  BY DEF State, Now, Writers, Outcome

LEMMA NextStateIs ==
  ASSUME NEW i \in Ids
  PROVE  Now'[i] = Outcome(history', i, Len(history'))
  BY DEF State, Now, Writers, Outcome

\* A later commit changes nothing of the records before it ...
LEMMA OutcomeKept ==
  ASSUME NEW g, NEW h, NEW n \in Nat, NEW i, \A m \in 1..n : g[m] = h[m]
  PROVE  Outcome(g, i, n) = Outcome(h, i, n)
  <1> DEFINE V == {m \in 1..n : i \in DOMAIN g[m].after}
             W == {m \in 1..n : i \in DOMAIN h[m].after}
  <1>1. V = W /\ W \in SUBSET (1..n)
    OBVIOUS
  <1>2. Outcome(g, i, n) = (IF V = {} THEN None ELSE g[Max(V)].after[i])
    BY DEF Outcome
  <1>3. Outcome(h, i, n) = (IF W = {} THEN None ELSE h[Max(W)].after[i])
    BY DEF Outcome
  <1> HIDE DEF V, W
  <1>4. W # {} => Max(W) \in 1..n
    BY <1>1, MaxFits
  <1>5. QED
    BY <1>1, <1>2, <1>3, <1>4

\* ... and the last commit to write a record decides what it is.
LEMMA OutcomeWritten ==
  ASSUME NEW h, NEW n \in Nat, NEW i, NEW m \in 1..n, i \in DOMAIN h[m].after,
         \A k \in 1..n : i \in DOMAIN h[k].after => k <= m
  PROVE  Outcome(h, i, n) = h[m].after[i]
  <1> DEFINE W == {k \in 1..n : i \in DOMAIN h[k].after}
  <1>1. W \in SUBSET (1..n) /\ m \in W /\ \A k \in W : k <= m
    OBVIOUS
  <1>2. Outcome(h, i, n) = (IF W = {} THEN None ELSE h[Max(W)].after[i])
    BY DEF Outcome
  <1> HIDE DEF W
  <1>3. Max(W) \in W /\ Max(W) \in 1..n /\ \A k \in W : k <= Max(W)
    BY <1>1, MaxFits
  <1>4. Max(W) = m
    BY <1>1, <1>3
  <1>5. QED
    BY <1>1, <1>2, <1>4

LEMMA OutcomeUnwritten ==
  ASSUME NEW h, NEW n \in Nat, NEW i, i \notin DOMAIN h[n + 1].after
  PROVE  Outcome(h, i, n + 1) = Outcome(h, i, n)
  <1> DEFINE V == {k \in 1..(n + 1) : i \in DOMAIN h[k].after}
             W == {k \in 1..n : i \in DOMAIN h[k].after}
  <1>1. \A k \in 1..(n + 1) : k = n + 1 \/ k \in 1..n
    OBVIOUS
  <1>2. 1..n \subseteq 1..(n + 1)
    OBVIOUS
  <1>3. V = W
    BY <1>1, <1>2
  <1> HIDE DEF V, W
  <1>4. Outcome(h, i, n + 1) = (IF V = {} THEN None ELSE h[Max(V)].after[i])
    BY DEF Outcome, V
  <1>5. Outcome(h, i, n) = (IF W = {} THEN None ELSE h[Max(W)].after[i])
    BY DEF Outcome, W
  <1>6. QED
    BY <1>3, <1>4, <1>5

\* Where the log is in the history: the lines after the checkpoint are its end.
LEMMA PendingCommits ==
  ASSUME Sound
  PROVE  LET N == Len(Pending)
             H == Len(history) IN
         /\ N \in Nat /\ H \in Nat /\ N <= H /\ DOMAIN Pending = 1..N
         /\ \A n \in 1..N :
              /\ H - N + n \in 1..H /\ Line(Pending[n])
              /\ DOMAIN history[H - N + n].after = ToSet(Pending[n].ids)
              /\ \A i \in ToSet(Pending[n].ids) : history[H - N + n].after[i] = Pending[n].after[i]
  <1> DEFINE L == Len(wal)
             N == Len(Pending)
             H == Len(history)
  <1>1. PICK k \in 0..L : CutAt(k)
    BY PendingIs DEF Sound, StoreTyped
  <1>2. /\ k \in Nat /\ k <= L /\ N \in Nat /\ DOMAIN Pending = 1..N /\ N = L - k
        /\ \A n \in 1..N : k + n \in 1..L /\ Pending[n] = wal[k + n]
    BY <1>1, CutIs DEF Sound
  <1>3. /\ L \in Nat /\ DOMAIN wal = 1..L /\ H \in Nat /\ \A n \in 1..L : Line(wal[n])
    BY LogIs DEF Sound
  <1>4. /\ L <= H
        /\ \A n \in 1..L :
             LET commit == history[H - L + n] IN
             /\ DOMAIN commit.after = ToSet(wal[n].ids)
             /\ \A i \in ToSet(wal[n].ids) : commit.after[i] = wal[n].after[i]
    BY <1>3 DEF Sound, HistoryOK, Describes
  <1> HIDE DEF L, N, H
  <1>5. ASSUME NEW n \in 1..N
        PROVE  /\ H - N + n \in 1..H /\ Line(Pending[n])
               /\ DOMAIN history[H - N + n].after = ToSet(Pending[n].ids)
               /\ \A i \in ToSet(Pending[n].ids) : history[H - N + n].after[i] = Pending[n].after[i]
    <2> DEFINE m == k + n
    <2>1. m \in 1..L /\ Pending[n] = wal[m] /\ H - L + m = H - N + n /\ H - N + n \in 1..H
      BY <1>2, <1>3, <1>4
    <2> HIDE DEF m
    <2>2. QED
      BY <1>3, <1>4, <2>1
  <1>6. N <= H
    BY <1>2, <1>3, <1>4
  <1>7. QED
    BY <1>2, <1>3, <1>5, <1>6 DEF N, H

LEMMA WritesIs ==
  ASSUME Sound, NEW i \in Ids, NEW n \in 0..Len(Pending)
  PROVE  /\ Writes(i, n) \in SUBSET (1..n) /\ n \in Nat /\ n <= Len(Pending) /\ Len(Pending) \in Nat
         /\ \A m \in 1..n : m \in Writes(i, n) <=> i \in ToSet(Pending[m].ids)
  <1>1. /\ Len(Pending) \in Nat /\ \A m \in 1..Len(Pending) : Line(Pending[m])
    BY PendingCommits
  <1>2. n \in Nat /\ n <= Len(Pending) /\ 1..n \subseteq 1..Len(Pending)
    BY <1>1
  <1>3. \A m \in 1..n : Pending[m].ids \in Seq(Ids)
    BY <1>1, <1>2 DEF Line
  <1>4. \A m \in 1..n : Contains(Pending[m].ids, i) <=> i \in ToSet(Pending[m].ids)
    BY <1>3, ContainsIs
  <1>5. QED
    BY <1>1, <1>2, <1>4 DEF Writes

\* What the log says of a record it writes is what the commits left there.
LEMMA WrittenIsNow ==
  ASSUME Sound, NEW i \in Ids, Writes(i, Len(Pending)) # {}
  PROVE  ValueAfter(i, Len(Pending)) = Now[i]
  <1> DEFINE N == Len(Pending)
             H == Len(history)
             W == Writes(i, N)
             m == Max(W)
  <1>1. /\ N \in Nat /\ H \in Nat /\ N <= H
        /\ \A n \in 1..N :
              /\ H - N + n \in 1..H /\ Line(Pending[n])
              /\ DOMAIN history[H - N + n].after = ToSet(Pending[n].ids)
              /\ \A j \in ToSet(Pending[n].ids) : history[H - N + n].after[j] = Pending[n].after[j]
    BY PendingCommits
  <1>2. W \in SUBSET (1..N) /\ \A n \in 1..N : n \in W <=> i \in ToSet(Pending[n].ids)
    <2>1. N \in 0..N
      BY <1>1
    <2>2. QED
      BY <2>1, WritesIs
  <1>3. ValueAfter(i, N) = Pending[m].after[i]
    BY DEF ValueAfter
  <1>4. W # {}
    OBVIOUS
  <1> HIDE DEF N, H, W
  <1>5. m \in W /\ m \in 1..N /\ \A x \in W : x <= m
    BY <1>1, <1>2, <1>4, MaxFits
  <1> HIDE DEF m
  <1>6. i \in ToSet(Pending[m].ids)
    BY <1>2, <1>5
  <1> DEFINE c == H - N + m
  <1>7. c \in 1..H /\ i \in DOMAIN history[c].after /\ history[c].after[i] = Pending[m].after[i]
    BY <1>1, <1>5, <1>6
  <1>8. ASSUME NEW k \in 1..H, i \in DOMAIN history[k].after PROVE k <= c
    <2> SUFFICES ASSUME ~(k <= c) PROVE FALSE
      OBVIOUS
    <2> DEFINE n == k - (H - N)
    <2>1. n \in 1..N /\ H - N + n = k /\ ~(n <= m)
      BY <1>1, <1>5, <1>8
    <2> HIDE DEF n
    <2>2. n \in W
      BY <1>1, <1>2, <1>8, <2>1
    <2>3. QED
      BY <1>5, <2>1, <2>2
  <1> HIDE DEF c
  <1>9. Outcome(history, i, H) = history[c].after[i]
    BY <1>1, <1>7, <1>8, OutcomeWritten
  <1>10. Now[i] = Outcome(history, i, H)
    BY StateIs DEF H
  <1>11. QED
    BY <1>3, <1>7, <1>9, <1>10 DEF N

\* Applying the log again, appending only where there is something to say, gives every record
\* the value the last line to write it gives it.
LEMMA RecoveredValue ==
  ASSUME Sound, NEW i \in Ids
  PROVE  Recovered[i].value = ValueAfter(i, Len(Pending))
  <1> DEFINE N == Len(Pending)
             W == Writes(i, N)
             A == Appends(i)
             w == Max(W)
  <1>1. N \in Nat /\ N \in 0..N
    BY PendingCommits
  <1>2. W \in SUBSET (1..N)
    BY <1>1, WritesIs
  <1>3. A = {m \in W : Pending[m].after[i] # None \/ ValueAfter(i, m - 1) # None}
    BY DEF Appends
  <1>4. Recovered[i].value = IF A = {} THEN disk[i].value ELSE Pending[Max(A)].after[i]
    BY DEF Recovered
  <1>5. ValueAfter(i, N) = IF W = {} THEN disk[i].value ELSE Pending[w].after[i]
    BY DEF ValueAfter
  <1>13. \A n \in 0..N : /\ Writes(i, n) = {m \in W : m <= n}
                         /\ ValueAfter(i, n) = IF Writes(i, n) = {} THEN disk[i].value
                                               ELSE Pending[Max(Writes(i, n))].after[i]
    <2> SUFFICES ASSUME NEW n \in 0..N
                 PROVE  /\ Writes(i, n) = {m \in W : m <= n}
                        /\ ValueAfter(i, n) = IF Writes(i, n) = {} THEN disk[i].value
                                              ELSE Pending[Max(Writes(i, n))].after[i]
      OBVIOUS
    <2>1. \A m \in 1..N : m \in 1..n <=> m <= n
      BY <1>1
    <2>2. 1..n \subseteq 1..N
      BY <1>1
    <2>3. QED
      BY <2>1, <2>2 DEF Writes, ValueAfter
  <1>6. CASE W = {}
    BY <1>3, <1>4, <1>5, <1>6
  <1>7. CASE W # {}
    <2> HIDE DEF N, W, A
    <2>1. w \in W /\ w \in 1..N /\ \A x \in W : x <= w
      BY <1>1, <1>2, <1>7, MaxFits
    <2>2. A \in SUBSET (1..N) /\ A \subseteq W
      BY <1>2, <1>3
    <2>3. A # {} => Max(A) \in A /\ Max(A) \in 1..N /\ \A x \in A : x <= Max(A)
      BY <1>1, <2>2, MaxFits
    <2> HIDE DEF w
    <2>4. CASE w \in A
      <3>1. Max(A) = w
        BY <2>1, <2>2, <2>3, <2>4
      <3>2. QED
        BY <1>4, <1>5, <1>7, <2>4, <3>1 DEF N
    <2>5. CASE w \notin A
      <3> DEFINE a == IF A = {} THEN 0 ELSE Max(A)
                 S == {m \in W : m > a}
      <3>1. a \in 0..N /\ \A x \in A : x <= a
        BY <1>1, <2>3
      <3>2. w > a
        BY <1>1, <2>1, <2>2, <2>3, <2>5
      <3> HIDE DEF a
      <3>3. PICK m \in S : \A x \in S : m <= x
        <4>1. w \in S
          BY <2>1, <3>2
        <4>3. S \in SUBSET Nat
          <5>1. \A x \in 1..N : x \in Nat
            BY <1>1
          <5>2. QED
            BY <1>2, <5>1
        <4> HIDE DEF S
        <4>2. QED
          BY <4>1, <4>3, Least
      <3>4. m \in W /\ m > a /\ m \in 1..N /\ m - 1 \in 0..N
        BY <1>1, <1>2, <3>3
      <3>5. m \notin A
        BY <1>1, <3>1, <3>4
      <3>6. ValueAfter(i, m - 1) = None
        BY <1>3, <3>4, <3>5
      <3>7. Pending[w].after[i] = None
        BY <1>3, <2>1, <2>5
      <3>8. Writes(i, m - 1) = {x \in W : x <= a}
        <4>1. \A x \in W : x <= m - 1 <=> x <= a
          <5> SUFFICES ASSUME NEW x \in W PROVE x <= m - 1 <=> x <= a
            OBVIOUS
          <5>1. x \in 1..N
            BY <1>2
          <5>2. x > a => m <= x
            BY <3>3
          <5>3. QED
            BY <1>1, <3>1, <3>4, <5>1, <5>2
        <4>2. QED
          BY <1>13, <3>4, <4>1
      <3>9. CASE A = {}
        <4>1. a = 0
          BY <3>9 DEF a
        <4>5. \A x \in 1..N : ~(x <= 0)
          BY <1>1
        <4>2. {x \in W : x <= a} = {}
          BY <1>2, <4>1, <4>5
        <4>3. disk[i].value = None
          BY <1>13, <3>4, <3>6, <3>8, <4>2
        <4>4. QED
          BY <1>4, <1>5, <1>7, <3>7, <3>9, <4>3 DEF N
      <3>10. CASE A # {}
        <4>1. a = Max(A) /\ a \in A
          BY <2>3, <3>10 DEF a
        <4> DEFINE V == {x \in W : x <= a}
        <4>2. V \in SUBSET (1..N) /\ a \in V /\ \A x \in V : x <= a
          BY <1>2, <2>2, <3>1, <4>1
        <4>6. Writes(i, m - 1) = V
          BY <3>8
        <4> HIDE DEF V
        <4>3. Max(V) \in V /\ Max(V) \in 1..N /\ \A x \in V : x <= Max(V)
          BY <1>1, <4>2, MaxFits
        <4>4. Max(V) = a
          BY <3>1, <4>2, <4>3
        <4>5. Pending[a].after[i] = None
          BY <1>13, <3>4, <3>6, <4>2, <4>4, <4>6
        <4>7. QED
          BY <1>4, <1>5, <1>7, <3>7, <3>10, <4>1, <4>5 DEF N
      <3>11. QED
        BY <3>9, <3>10
    <2>6. QED
      BY <2>4, <2>5
  <1>8. QED
    BY <1>6, <1>7

\* The saved index is behind only where the log goes on.
LEMMA BehindIsPending ==
  ASSUME Sound, NEW i \in Ids, Writes(i, Len(Pending)) = {}
  PROVE  i \notin Behind
  <1> DEFINE N == Len(Pending)
  <1>1. N \in Nat /\ N \in 0..N
    BY PendingCommits
  <1>2. \A m \in 1..N : i \notin ToSet(Pending[m].ids)
    BY <1>1, WritesIs
  <1>3. CASE ~up
    BY <1>2, <1>3 DEF Behind
  <1>4. CASE up /\ Unapplied
    <2> DEFINE L == Len(wal)
    <2>1. wal # <<>> /\ Last(wal).base = meta.sequence
      BY <1>4 DEF Sound, LogOK
    <2>2. checkpoint.sequence \in Nat /\ meta.sequence \in Nat /\ checkpoint.sequence <= meta.sequence
      BY DEF Sound, StoreTyped, Meta
    <2>3. L \in Nat /\ L \in 1..L /\ wal[L].result > wal[L].base /\ wal[L].base \in Nat /\ wal[L].result \in Nat /\ Last(wal) = wal[L]
      <3>1. L \in Nat /\ L \in 1..L
        BY <2>1, LogIs DEF Sound
      <3>2. QED
        BY <3>1, LogIs DEF Sound, Last
    <2>4. wal[L].result > checkpoint.sequence
      BY <2>1, <2>2, <2>3
    <2>5. PICK k \in 0..L : CutAt(k)
      BY PendingIs DEF Sound, StoreTyped
    <2>6. L > k
      BY <2>3, <2>4, <2>5 DEF CutAt
    <2>7. /\ k \in Nat /\ N = L - k /\ \A n \in 1..N : Pending[n] = wal[k + n]
      BY <2>5, CutIs DEF Sound
    <2>8. L - k \in 1..N /\ k + (L - k) = L
      BY <2>3, <2>6, <2>7
    <2>9. Pending[L - k] = wal[L]
      BY <2>7, <2>8
    <2>10. i \notin ToSet(wal[L].ids)
      BY <1>2, <2>8, <2>9
    <2>11. QED
      BY <1>4, <2>3, <2>10 DEF Behind
  <1>5. CASE up /\ ~Unapplied
    BY <1>5 DEF Behind
  <1>6. QED
    BY <1>3, <1>4, <1>5

LEMMA RecoveryFromRecords ==
  ASSUME Sound, RecordsOK, ~harmed, NEW i \in Ids
  PROVE  Recovered[i].value = Now[i]
  <1>1. Recovered[i].value = ValueAfter(i, Len(Pending))
    BY RecoveredValue
  <1>2. CASE Writes(i, Len(Pending)) = {}
    <2>1. disk[i].value = Now[i]
      BY <1>2, BehindIsPending DEF RecordsOK
    <2>2. QED
      BY <1>1, <1>2, <2>1 DEF ValueAfter
  <1>3. CASE Writes(i, Len(Pending)) # {}
    BY <1>1, <1>3, WrittenIsNow
  <1>4. QED
    BY <1>2, <1>3

\* The last line of the log is the last commit.
LEMMA LastIsNow ==
  ASSUME Sound, wal # <<>>, NEW i \in Ids
  PROVE  i \in ToSet(Last(wal).ids) => Now[i] = Last(wal).after[i]
  <1> DEFINE L == Len(wal)
             H == Len(history)
  <1> SUFFICES ASSUME i \in ToSet(Last(wal).ids) PROVE Now[i] = Last(wal).after[i]
    OBVIOUS
  <1>1. L \in Nat /\ L # 0 /\ DOMAIN wal = 1..L /\ H \in Nat /\ Last(wal) = wal[L]
    BY LogIs DEF Sound, Last
  <1>2. L <= H
    BY DEF Sound, HistoryOK
  <1>3. L \in DOMAIN wal /\ H - L + L = H /\ H \in 1..H
    BY <1>1, <1>2
  <1>4. LET c == history[H - L + L] IN
        DOMAIN c.after = ToSet(wal[L].ids) /\ \A j \in ToSet(wal[L].ids) : c.after[j] = wal[L].after[j]
    BY <1>3 DEF Sound, HistoryOK, Describes
  <1>5. i \in DOMAIN history[H].after /\ history[H].after[i] = Last(wal).after[i]
    BY <1>1, <1>3, <1>4
  <1> HIDE DEF L, H
  <1>6. \A k \in 1..H : k <= H
    BY <1>1
  <1>7. Outcome(history, i, H) = history[H].after[i]
    BY <1>1, <1>3, <1>5, <1>6, OutcomeWritten
  <1>8. Now[i] = Outcome(history, i, H)
    BY StateIs DEF H
  <1>9. QED
    BY <1>5, <1>7, <1>8

-----------------------------------------------------------------------------
\* The steps that leave the store alone keep Stored.

\* A commit, the n-th of a history, saw what the ones before it left.
Serial(h, n) ==
  ~h[n].renumbered => \A i \in DOMAIN h[n].seen : h[n].seen[i] = Outcome(h, i, n - 1)

LEMMA SerialIs ==
  ASSUME LogTyped
  PROVE  CommitsSerialize <=> (~harmed => \A n \in 1..Len(history) : Serial(history, n))
  <1>1. \A n \in 1..Len(history) : Commit(history[n])
    BY LogIs DEF LogTyped
  <1>2. \A n \in 1..Len(history) : DOMAIN history[n].seen \subseteq Ids
    BY <1>1 DEF Commit, Partly
  <1>3. \A n \in 1..Len(history) : \A i \in DOMAIN history[n].seen : State(n - 1)[i] = Outcome(history, i, n - 1)
    BY <1>2, StateIs
  <1>4. QED
    BY <1>3 DEF CommitsSerialize, SerializableCommits, Serial

LEMMA NextSerialIs ==
  ASSUME LogTyped'
  PROVE  CommitsSerialize' <=> (~harmed' => \A n \in 1..Len(history') : Serial(history', n))
  <1>1. \A n \in DOMAIN history' : Commit(history'[n])
    BY DEF LogTyped
  <1>2. DOMAIN history' = 1..Len(history')
    BY DEF LogTyped
  <1>3. \A n \in 1..Len(history') : DOMAIN history'[n].seen \subseteq Ids
    BY <1>1, <1>2 DEF Commit, Partly
  <1>4. \A n : \A i \in Ids : State(n)'[i] = Outcome(history', i, n)
    BY DEF State, Writers, Outcome
  <1>5. \A n \in 1..Len(history') : \A i \in DOMAIN history'[n].seen : State(n - 1)'[i] = Outcome(history', i, n - 1)
    BY <1>3, <1>4
  <1>6. QED
    BY <1>5 DEF CommitsSerialize, SerializableCommits, Serial

LEMMA SerialFrame ==
  ASSUME LogTyped, LogTyped', CommitsSerialize, history' = history, harmed => harmed'
  PROVE  CommitsSerialize'
  BY SerialIs, NextSerialIs

LEMMA SameNow ==
  ASSUME history' = history
  PROVE  \A i \in Ids : Now'[i] = Now[i]
  BY StateIs, NextStateIs

\* The line that was left is the same, or there is none.
LEMMA LeftFrame ==
  ASSUME LogTyped, LeftOK, history' = history, harmed => harmed', tail' = tail \/ ~Left'
  PROVE  LeftOK'
  <1>1. CASE ~Left' \/ harmed'
    BY <1>1 DEF LeftOK
  <1>2. CASE Left' /\ ~harmed'
    <2>1. tail' = tail /\ Left /\ ~harmed
      BY <1>2 DEF Left
    <2>2. DOMAIN tail.commit.seen \subseteq Ids
      <3>1. Commit(tail.commit)
        BY <2>1 DEF LogTyped, Left, Clean, Fragment, Unreadable
      <3>2. QED
        BY <3>1 DEF Commit, Partly
    <2>3. \A i \in Ids : Now'[i] = Now[i]
      BY SameNow
    <2>4. QED
      BY <2>1, <2>2, <2>3 DEF LeftOK
  <1>3. QED
    BY <1>1, <1>2

\* The index says the same, and transactions are where they were or saw what it says.
LEMMA IndexFrame ==
  ASSUME Sound, TxnsTyped', IndexOK, stored' = stored, harmed => harmed', up' => up, refusing => refusing',
         \A i \in Ids : Current(i)' = Current(i),
         meta'.version \in Nat,
         \/ meta'.version > meta.version
         \/ meta'.version = meta.version /\ (job.stage = "apply" => job'.stage = "apply"),
         up /\ ~refusing /\ ~harmed' =>
           /\ Fresh(cache') /\ \A i \in Ids : hot'[i] \in {None, hot[i], Current(i).value}
           /\ \A t \in Txns : tx'[t].phase \in {"work", "queued"} /\ ~tx'[t].renumbered =>
                \/ Working(t) /\ tx'[t] = tx[t]
                \/ ReadsOK(tx'[t])
  PROVE  IndexOK'
  <1> SUFFICES ASSUME up', ~refusing', ~harmed' PROVE IndexOK'
    BY DEF IndexOK
  <1>1. up /\ ~refusing /\ ~harmed
    OBVIOUS
  <1>2. /\ Fresh(cache)
        /\ \A i \in Ids : hot[i] \in {None, Current(i).value} /\ Current(i).version <= stored
        /\ \A t \in Txns : Working(t) /\ ~tx[t].renumbered => ReadsOK(tx[t])
    BY <1>1 DEF IndexOK
  <1>3. Fresh(cache)'
    <2>1. \A n \in DOMAIN cache' : \A i \in In(cache'[n].bucket) : cache'[n].entries[i] = Current(i)'
      <3>1. \A b : \A i \in In(b) : i \in Ids
        BY DEF In
      <3>2. QED
        BY <1>1, <3>1 DEF Fresh
    <2>2. QED
      BY <2>1 DEF Fresh
  <1>4. \A i \in Ids : hot'[i] \in {None, Current(i)'.value} /\ Current(i)'.version <= stored'
    BY <1>1, <1>2
  <1>5. ASSUME NEW t \in Txns, tx'[t].phase \in {"work", "queued"}, ~tx'[t].renumbered
        PROVE  ReadsOK(tx[t])'
    <2>1. PICK r : r = tx'[t]
      OBVIOUS
    <2>2. ReadsOK(r)
      BY <1>1, <1>2, <1>5, <2>1
    <2>3. DOMAIN r.seen \subseteq Ids /\ r.scan \in Nat \cup {-1}
      <3>1. Txn(r)
        BY <2>1 DEF TxnsTyped
      <3>2. QED
        BY <3>1 DEF Txn, Partly
    <2>4. meta.version \in Nat
      BY DEF Sound, StoreTyped, Meta
    <2>5. r.scan <= meta'.version /\ (r.scan = meta'.version => r.scan = meta.version /\ (job'.stage # "apply" => job.stage # "apply"))
      BY <2>2, <2>3, <2>4 DEF ReadsOK
    <2>6. Named(r) /\ \A i \in DOMAIN r.reads : r.reads[i] <= stored'
      BY <2>2 DEF ReadsOK
    <2>7. \A i \in DOMAIN r.seen :
             \/ i \in DOMAIN r.reads /\ (r.reads[i] = Current(i)'.version => r.seen[i] = Current(i)'.value)
             \/ r.scan # -1 /\ (r.scan = meta'.version /\ job'.stage # "apply" => r.seen[i] = Current(i)'.value)
      BY <2>2, <2>3, <2>5 DEF ReadsOK
    <2>8. QED
      BY <2>1, <2>5, <2>6, <2>7 DEF ReadsOK, Named
  <1>6. QED
    BY <1>3, <1>4, <1>5 DEF IndexOK, Working

\* The saved index, the log and the commits are the same.
LEMMA RecordsFrame ==
  ASSUME Sound, Sound', RecordsOK, CommitsSerialize, UNCHANGED <<disk, history>>, harmed => harmed', up, up',
         Unapplied' = Unapplied, Unapplied => Last(wal)' = Last(wal),
         job'.stage = "apply" => job.stage = "apply" /\ job'.todo = job.todo,
         \A i \in Ids : Current(i)' = Current(i)
  PROVE  RecordsOK' /\ CommitsSerialize'
  <1>1. \A i \in Ids : Now'[i] = Now[i]
    BY SameNow
  <1>2. Behind' = Behind
    BY DEF Behind
  <1>3. CommitsSerialize'
    BY SerialFrame DEF Sound
  <1>4. RecordsOK'
    BY <1>1, <1>2 DEF RecordsOK
  <1>5. QED
    BY <1>3, <1>4

LEMMA CurrentFrame ==
  ASSUME disk' = disk, job'.dirty = job.dirty \/ (DOMAIN job'.dirty = {} /\ DOMAIN job.dirty = {})
  PROVE  \A i \in Ids : Current(i)' = Current(i)
  BY DEF Current

\* One transaction goes on; what may be left of a line is another matter.
LEMMA TxnGoesOn ==
  ASSUME Sound, Sound', Stored, up, NEW t \in Txns, NEW q, Txn(q), tx' = [tx EXCEPT ![t] = q],
         UNCHANGED <<disk, stored, wal, refusing, up, job, history>>, harmed => harmed',
         meta'.version = meta.version,
         ~refusing /\ ~harmed' =>
           /\ Fresh(cache') /\ \A i \in Ids : hot'[i] \in {None, hot[i], Current(i).value}
           /\ (q.phase \in {"work", "queued"} /\ ~q.renumbered => ReadsOK(q))
  PROVE  IndexOK' /\ RecordsOK' /\ CommitsSerialize'
  <1>1. tx'[t] = q /\ \A u \in Txns : u # t => tx'[u] = tx[u]
    BY TxnSet DEF Sound
  <1>2. \A i \in Ids : Current(i)' = Current(i)
    BY CurrentFrame
  <1>3. IndexOK'
    <2>1. meta'.version \in Nat
      BY DEF Sound, StoreTyped, Meta
    <2>2. ~refusing /\ ~harmed' => \A u \in Txns : tx'[u].phase \in {"work", "queued"} /\ ~tx'[u].renumbered =>
                \/ Working(u) /\ tx'[u] = tx[u]
                \/ ReadsOK(tx'[u])
      BY <1>1 DEF Working
    <2>3. TxnsTyped' /\ IndexOK
      BY DEF Sound, Stored
    <2>4. QED
      BY <1>2, <2>1, <2>2, <2>3, IndexFrame
  <1>4. RecordsOK' /\ CommitsSerialize'
    <2>1. Unapplied' = Unapplied /\ Last(wal)' = Last(wal)
      BY DEF Unapplied
    <2>2. QED
      BY <1>2, <2>1, RecordsFrame DEF Stored
  <1>5. QED
    BY <1>3, <1>4

LEMMA StoredTxn ==
  ASSUME Sound, Sound', Stored, up, NEW t \in Txns, NEW q, Txn(q), tx' = [tx EXCEPT ![t] = q],
         UNCHANGED <<disk, stored, wal, tail, refusing, up, job, history>>, harmed => harmed',
         meta'.version = meta.version,
         ~refusing /\ ~harmed' =>
           /\ Fresh(cache') /\ \A i \in Ids : hot'[i] \in {None, hot[i], Current(i).value}
           /\ (q.phase \in {"work", "queued"} /\ ~q.renumbered => ReadsOK(q))
  PROVE  Stored'
  <1>1. IndexOK' /\ RecordsOK' /\ CommitsSerialize'
    BY TxnGoesOn
  <1>2. LeftOK'
    BY LeftFrame DEF Sound, Stored
  <1>3. QED
    BY <1>1, <1>2 DEF Stored

\* Nothing is read, or what validate reads.
Validating(t) == UNCHANGED <<cache, harmed>> \/ Reads(Validates(t))

\* Only the phase of one changes.
LEMMA PhaseGoesOn ==
  ASSUME Sound, Sound', Stored, up, NEW t \in Txns, NEW p \in Phases, tx' = [tx EXCEPT ![t].phase = p],
         Working(t) \/ p \notin {"work", "queued"},
         UNCHANGED <<disk, hot, stored, wal, refusing, up, job, history>>,
         meta'.version = meta.version, Validating(t)
  PROVE  IndexOK' /\ RecordsOK' /\ CommitsSerialize' /\ (harmed => harmed')
  <1> DEFINE q == [tx[t] EXCEPT !.phase = p]
  <1>1. tx' = [tx EXCEPT ![t] = q] /\ Txn(q) /\ q.phase = p
    BY PhaseSet
  <1>2. Txn(tx[t])
    BY PhaseIs
  <1>3. /\ q.reads = tx[t].reads /\ q.seen = tx[t].seen /\ q.scan = tx[t].scan
        /\ q.renumbered = tx[t].renumbered /\ q.program = tx[t].program /\ q.todo = tx[t].todo
    BY <1>2, TxnPhase
  <1> HIDE DEF q
  <1>4. harmed => harmed'
    BY ValidatedIs DEF Validating
  <1>5. ASSUME ~refusing, ~harmed'
        PROVE  /\ Fresh(cache') /\ \A i \in Ids : hot'[i] \in {None, hot[i], Current(i).value}
               /\ (q.phase \in {"work", "queued"} /\ ~q.renumbered => ReadsOK(q))
    <2>1. /\ Fresh(cache) /\ \A i \in Ids : hot[i] \in {None, Current(i).value}
          /\ Working(t) /\ ~tx[t].renumbered => ReadsOK(tx[t])
      BY <1>4, <1>5 DEF Stored, IndexOK
    <2>2. Fresh(cache')
      BY <1>5, <2>1, ValidatedFresh DEF Validating
    <2>3. q.phase \in {"work", "queued"} /\ ~q.renumbered => ReadsOK(q)
      BY <1>1, <1>3, <2>1 DEF ReadsOK, Named
    <2>4. QED
      BY <2>2, <2>3
  <1>6. IndexOK' /\ RecordsOK' /\ CommitsSerialize'
    BY <1>1, <1>4, <1>5, TxnGoesOn
  <1>7. QED
    BY <1>4, <1>6

LEMMA StoredPhase ==
  ASSUME Sound, Sound', Stored, up, NEW t \in Txns, NEW p \in Phases, tx' = [tx EXCEPT ![t].phase = p],
         Working(t) \/ p \notin {"work", "queued"},
         UNCHANGED <<disk, hot, stored, wal, tail, refusing, up, job, history>>,
         meta'.version = meta.version, Validating(t)
  PROVE  Stored'
  <1>1. IndexOK' /\ RecordsOK' /\ CommitsSerialize' /\ (harmed => harmed')
    BY PhaseGoesOn
  <1>2. LeftOK'
    BY <1>1, LeftFrame DEF Sound, Stored
  <1>3. QED
    BY <1>1, <1>2 DEF Stored

\* Work that has read nothing.
LEMMA NothingRead ==
  ASSUME Sound, NEW r, r.scan = -1, DOMAIN r.reads = {}, DOMAIN r.seen = {}, r.todo = r.program
  PROVE  ReadsOK(r)
  <1>1. meta.version \in Nat
    BY DEF Sound, StoreTyped, Meta
  <1>2. -1 <= meta.version
    BY <1>1
  <1>3. QED
    BY <1>2 DEF ReadsOK, Named

LEMMA StoredBegin ==
  ASSUME Sound, Sound', Stored, NEW t \in Txns, NEW p \in Programs[t], Begin(t, p)
  PROVE  Stored'
  <1> DEFINE b == Rivals(t)
             q == [New EXCEPT !.phase = "work", !.program = p, !.todo = p, !.rivals = b]
  <1>1. /\ up /\ UNCHANGED <<disk, cache, hot, stored, wal, tail, meta, refusing, up, job, history, harmed>>
    BY DEF Begin, logVars, storeVars
  <1>2. p \in Seq(Ops)
    BY StorageAssumption DEF Ops
  <1>9. 0 \in 0..MaxRetries
    BY StorageAssumption
  <1>3. tx' = [tx EXCEPT ![t] = q]
    BY DEF Begin
  <1>4. b \in SUBSET Txns
    BY DEF Rivals
  <1> HIDE DEF b
  <1>5. Starting(q, p, b)
    BY <1>2, <1>4, <1>9, Start
  <1> HIDE DEF q
  <1>6. Txn(q) /\ ReadsOK(q)
    BY <1>5, NothingRead DEF Starting
  <1>7. ~refusing /\ ~harmed' => Fresh(cache') /\ \A i \in Ids : hot'[i] \in {None, hot[i], Current(i).value}
    BY <1>1 DEF Stored, IndexOK
  <1>8. QED
    BY <1>1, <1>3, <1>6, <1>7, StoredTxn

LEMMA StoredAccess ==
  ASSUME Sound, Sound', Stored, NEW t \in Txns, Access(t)
  PROVE  Stored'
  <1> DEFINE i == Head(tx[t].todo).id
             r == tx[t]
             own == i \in DOMAIN r.after
  <1>1. /\ disk \in [Ids -> Entries] /\ Listing(cache) /\ hot \in [Ids -> Values] /\ harmed \in BOOLEAN
        /\ Cardinality(Hots(hot)) <= MaxHot /\ Txn(r) /\ DOMAIN tx = Txns
    BY DEF Sound, StoreTyped, TxnsTyped
  <1>2. /\ i \in Ids /\ (IF own THEN UNCHANGED <<cache, hot, harmed>> ELSE Touch(i))
        /\ Head(r.todo) \in ToSet(r.todo) /\ Head(r.todo).kind # "all"
        /\ \E q : Accessed(r, q, i) /\ tx' = [tx EXCEPT ![t] = q]
    BY <1>1, AccessIs
  <1>3. PICK q : Accessed(r, q, i) /\ tx' = [tx EXCEPT ![t] = q]
    BY <1>2
  <1>4. r.phase = "work" /\ up
    BY UpIs DEF Access, InFlight
  <1>5. UNCHANGED <<disk, stored, wal, tail, meta, refusing, up, job, history>>
    BY DEF Access, logVars
  <1>6. Txn(q) /\ q.renumbered = r.renumbered /\ q.scan = r.scan /\ q.program = r.program /\ ToSet(q.todo) \subseteq ToSet(r.todo)
    BY <1>3 DEF Accessed, Same
  <1>11. Head(r.todo).id = i
    OBVIOUS
  <1>12. BucketSeq(<<BucketOf[i]>>) /\ LoadEach(cache, <<BucketOf[i]>>) = Load(cache, BucketOf[i])
         /\ Amiss(<<BucketOf[i]>>) = (Held(cache, BucketOf[i]) = {} /\ (moved \/ BucketOf[i] \in DOMAIN job.dirty))
    BY <1>1, <1>2, OneBucket
  <1>7. \A j \in Ids : hot'[j] = None \/ hot'[j] = hot[j] \/ (j = i /\ ~own /\ hot'[j] = Value(i))
    <2>1. CASE own
      BY <1>2, <2>1
    <2>2. CASE ~own
      BY <1>1, <1>2, <2>2, TouchIs
    <2>3. QED
      BY <2>1, <2>2
  <1>8. (harmed => harmed') /\ (own => cache' = cache /\ harmed' = harmed) /\ (~own => Reads(<<BucketOf[i]>>))
    <2>1. CASE own
      BY <1>2, <2>1
    <2>2. CASE ~own
      BY <1>2, <2>2 DEF Touch, Reads
    <2>3. QED
      BY <2>1, <2>2
  <1> HIDE DEF i, r
  <1>9. ASSUME ~refusing, ~harmed'
        PROVE  /\ Fresh(cache') /\ \A j \in Ids : hot'[j] \in {None, hot[j], Current(j).value}
               /\ (q.phase \in {"work", "queued"} /\ ~q.renumbered => ReadsOK(q))
    <2>1. /\ Fresh(cache) /\ \A j \in Ids : hot[j] \in {None, Current(j).value} /\ Current(j).version <= stored
          /\ (~r.renumbered => ReadsOK(r))
      BY <1>4, <1>8, <1>9 DEF Stored, IndexOK, Working, r
    <2>2. Fresh(cache') /\ (~own => Readable(cache, BucketOf[i]))
      <3>1. CASE own
        BY <1>8, <2>1, <3>1
      <3>2. CASE ~own
        <4>1. ~Amiss(<<BucketOf[i]>>) /\ Fresh(cache')
          BY <1>1, <1>8, <1>9, <1>12, <2>1, <3>2, ReadsFresh
        <4>2. QED
          BY <1>12, <4>1 DEF Readable
      <3>3. QED
        BY <3>1, <3>2
    <2>3. ~own => Value(i) = Current(i).value
      BY <1>2, <2>1, <2>2, ValueCurrent
    <2>4. ~own => Entry(cache, i) = Current(i)
      BY <1>1, <1>2, <2>1, <2>2, EntryFresh
    <2>5. ASSUME ~q.renumbered PROVE ReadsOK(q)
      <3>1. ReadsOK(r)
        BY <1>6, <2>1, <2>5
      <3>2. /\ q.scan <= meta.version /\ \A j \in DOMAIN r.reads : r.reads[j] <= stored
            /\ \A j \in DOMAIN r.seen :
                 \/ j \in DOMAIN r.reads /\ (r.reads[j] = Current(j).version => r.seen[j] = Current(j).value)
                 \/ q.scan # -1 /\ (q.scan = meta.version /\ job.stage # "apply" => r.seen[j] = Current(j).value)
        BY <1>6, <3>1 DEF ReadsOK
      <3>3. Current(i).version <= stored
        BY <1>2, <2>1
      <3>4. \A j \in DOMAIN q.reads : q.reads[j] <= stored
        BY <1>3, <2>4, <3>2, <3>3 DEF Accessed
      <3>5. ASSUME NEW j \in DOMAIN q.seen
            PROVE  \/ j \in DOMAIN q.reads /\ (q.reads[j] = Current(j).version => q.seen[j] = Current(j).value)
                   \/ q.scan # -1 /\ (q.scan = meta.version /\ job.stage # "apply" => q.seen[j] = Current(j).value)
        <4>1. \/ /\ j \in DOMAIN r.seen /\ q.seen[j] = r.seen[j]
                 /\ j \in DOMAIN r.reads => j \in DOMAIN q.reads /\ q.reads[j] = r.reads[j]
              \/ /\ j = i /\ ~own
                 /\ i \in DOMAIN q.reads /\ q.reads[i] = Entry(cache, i).version /\ q.seen[i] = Value(i)
          BY <1>3, <3>5 DEF Accessed
        <4>2. QED
          BY <2>3, <3>2, <4>1
      <3>6. Named(q)
        <4>1. Named(r)
          BY <3>1 DEF ReadsOK
        <4>2. Names(r.program, i)
          <5>1. Head(r.todo) \in ToSet(r.program)
            BY <1>2, <4>1 DEF Named
          <5>2. PICK n \in DOMAIN r.program : r.program[n] = Head(r.todo)
            BY <5>1 DEF ToSet
          <5>3. QED
            BY <1>2, <1>11, <5>2 DEF Names
        <4>3. \A j \in DOMAIN q.reads : j \in DOMAIN r.reads \/ j = i
          BY <1>3 DEF Accessed
        <4>4. QED
          BY <1>6, <4>1, <4>2, <4>3 DEF Named
      <3>7. QED
        BY <3>2, <3>4, <3>5, <3>6 DEF ReadsOK
    <2>6. QED
      BY <1>7, <2>2, <2>3, <2>5
  <1>10. QED
    BY <1>3, <1>4, <1>5, <1>6, <1>8, <1>9, StoredTxn

\* What a scan finds is what the index says.
LEMMA StoredScanAll ==
  ASSUME Sound, Sound', Stored, NEW t \in Txns, ScanAll(t)
  PROVE  Stored'
  <1> DEFINE r == tx[t]
  <1>1. disk \in [Ids -> Entries] /\ Listing(cache) /\ BucketSeq(Buckets)
    BY BucketsIn DEF Sound, StoreTyped, BucketSeq
  <1>2. PICK q : /\ Txn(q) /\ tx' = [tx EXCEPT ![t] = q] /\ q.phase = "work" /\ q.scan = meta.version
                 /\ q.renumbered = tx[t].renumbered /\ q.rivals = tx[t].rivals /\ q.program = tx[t].program
                 /\ ToSet(q.todo) \subseteq ToSet(tx[t].todo)
                 /\ q.reads = tx[t].reads /\ DOMAIN q.seen = Ids \ DOMAIN tx[t].after
                 /\ \A i \in DOMAIN q.seen : q.seen[i] = ScanEntry(i).value
    BY ScanTxn
  <1>3. r.phase = "work" /\ up
    BY UpIs DEF ScanAll, InFlight
  <1>4. UNCHANGED <<disk, stored, wal, tail, meta, refusing, up, job, history>>
    BY DEF ScanAll, logVars
  <1>5. Reads(Buckets) /\ hot' \in Scanned
    BY DEF ScanAll
  <1>6. \A i \in Ids : hot'[i] = None \/ hot'[i] = ScanEntry(i).value
    BY <1>1, <1>5, ScanIs
  <1>9. harmed => harmed'
    BY <1>5 DEF Reads
  <1>7. ASSUME ~refusing, ~harmed'
        PROVE  /\ Fresh(cache') /\ \A j \in Ids : hot'[j] \in {None, hot[j], Current(j).value}
               /\ (q.phase \in {"work", "queued"} /\ ~q.renumbered => ReadsOK(q))
    <2>1. Fresh(cache) /\ (~r.renumbered => ReadsOK(r))
      BY <1>3, <1>7, <1>9 DEF Stored, IndexOK, Working
    <2>2. Fresh(cache') /\ ~Amiss(Buckets)
      BY <1>1, <1>5, <1>7, <2>1, ReadsFresh
    <2>3. \A i \in Ids : ScanEntry(i) = Current(i)
      BY <1>1, <2>1, <2>2, ScanFresh
    <2>4. DOMAIN q.seen \subseteq Ids
      BY <1>2 DEF Txn, Partly
    <2>5. meta.version \in Nat
      BY DEF Sound, StoreTyped, Meta
    <2>6. q.scan <= meta.version /\ q.scan # -1
      BY <1>2, <2>5
    <2>7. \A i \in DOMAIN q.seen : q.seen[i] = Current(i).value
      BY <1>2, <2>3, <2>4
    <2>8. ~r.renumbered => Named(q) /\ \A j \in DOMAIN q.reads : q.reads[j] <= stored
      BY <1>2, <2>1 DEF ReadsOK, Named
    <2>9. q.phase \in {"work", "queued"} /\ ~q.renumbered => ReadsOK(q)
      BY <1>2, <2>6, <2>7, <2>8 DEF ReadsOK
    <2>10. QED
      BY <1>6, <2>2, <2>3, <2>9
  <1>8. QED
    BY <1>2, <1>3, <1>4, <1>7, <1>9, StoredTxn

LEMMA StoredPhases ==
  ASSUME Sound, Sound', Stored, NEW t \in Txns,
         AccessFails(t) \/ Submit(t) \/ Refuse(t) \/ Remember(t) \/ RememberFails(t)
  PROVE  Stored'
  <1>1. /\ UNCHANGED <<disk, hot, stored, wal, tail, refusing, up, job, history>>
        /\ Validating(t) /\ meta'.version = meta.version
    <2>1. CASE AccessFails(t) \/ Submit(t) \/ Refuse(t)
      BY <2>1 DEF AccessFails, Submit, Refuse, logVars, storeVars, Validating
    <2>2. CASE Remember(t) \/ RememberFails(t)
      <3>1. Noting(t)
        BY <2>2 DEF Remember, RememberFails
      <3>2. meta'.version = meta.version
        BY <3>1, NotingIs
      <3>3. Validating(t)
        BY <3>1 DEF Noting, Validating
      <3>4. QED
        BY <3>1, <3>2, <3>3 DEF Noting
    <2>3. QED
      BY <2>1, <2>2
  <1>2. Working(t) /\ up
    <2>1. CASE AccessFails(t) \/ Submit(t)
      BY <2>1, UpIs DEF AccessFails, Submit, Working, InFlight
    <2>2. CASE Refuse(t) \/ Remember(t) \/ RememberFails(t)
      <3>1. Next1(t)
        BY <2>2 DEF Refuse, Remember, RememberFails, Noting
      <3>2. QED
        BY <3>1, QueuedIs DEF Working
    <2>3. QED
      BY <2>1, <2>2
  <1>3. \E p \in Phases : tx' = [tx EXCEPT ![t].phase = p]
    <2>1. {"aborted", "done", "queued"} \subseteq Phases
      BY DEF Phases, InFlight
    <2>2. CASE Submit(t)
      <3> DEFINE p == IF ~Wrote(t) /\ (ChangeOf[t] = None \/ Contains(meta.applied, ChangeOf[t])) THEN "done" ELSE "queued"
      <3>1. tx' = [tx EXCEPT ![t].phase = p]
        BY <2>2 DEF Submit
      <3>2. p \in Phases
        BY <2>1
      <3>3. QED
        BY <3>1, <3>2
    <2>3. CASE AccessFails(t) \/ Refuse(t) \/ Remember(t) \/ RememberFails(t)
      BY <2>1, <2>3 DEF AccessFails, Refuse, Remember, RememberFails
    <2>4. QED
      BY <2>2, <2>3
  <1>4. PICK p \in Phases : tx' = [tx EXCEPT ![t].phase = p]
    BY <1>3
  <1>5. QED
    BY <1>1, <1>2, <1>4, StoredPhase

LEMMA StoredConflict ==
  ASSUME Sound, Sound', Stored, NEW t \in Txns, Conflict(t)
  PROVE  Stored'
  <1>1. PICK q : /\ Txn(q) /\ tx' = [tx EXCEPT ![t] = q] /\ q.phase \in {"work", "aborted"} /\ q.rivals = tx[t].rivals
                 /\ q.phase = "work" => /\ DOMAIN q.reads = {} /\ DOMAIN q.seen = {} /\ q.scan = -1
                                        /\ DOMAIN q.after = {} /\ q.todo = q.program
    BY ConflictTxn
  <1>2. up /\ ~refusing /\ Reads(Validates(t))
    BY DEF Conflict, Next1
  <1>3. UNCHANGED <<disk, hot, stored, wal, tail, meta, refusing, up, job, history>>
    BY DEF Conflict, logVars
  <1>4. harmed => harmed'
    BY <1>2, ValidatedIs
  <1>5. ~harmed' => Fresh(cache') /\ \A i \in Ids : hot'[i] \in {None, hot[i], Current(i).value}
    <2> SUFFICES ASSUME ~harmed' PROVE Fresh(cache') /\ \A i \in Ids : hot'[i] \in {None, hot[i], Current(i).value}
      OBVIOUS
    <2>1. Fresh(cache)
      BY <1>2, <1>4 DEF Stored, IndexOK
    <2>2. QED
      BY <1>2, <1>3, <2>1, ValidatedFresh
  <1>6. q.phase \in {"work", "queued"} /\ ~q.renumbered => ReadsOK(q)
    BY <1>1, NothingRead
  <1>7. QED
    BY <1>1, <1>2, <1>3, <1>4, <1>5, <1>6, StoredTxn

-----------------------------------------------------------------------------
\* A commit keeps Stored.

\* What is validated in the queue is what the commits left.
LEMMA SeenIsNow ==
  ASSUME Sound, Stored, NEW t \in Txns, Appending(t), Reads(Validates(t)), ~harmed', ~tx[t].renumbered,
         NEW i \in DOMAIN tx[t].seen
  PROVE  tx[t].seen[i] = Now[i]
  <1> DEFINE r == tx[t]
  <1>1. up /\ job = Idle /\ ~refusing /\ ~Conflicts(t) /\ r.phase = "queued"
    BY QueuedIs DEF Appending, Next1
  <1>2. job.stage = "idle" /\ DOMAIN job.dirty = {}
    BY <1>1, IdleIs
  <1>3. ~harmed
    BY ValidatedIs
  <1>4. Fresh(cache) /\ ReadsOK(r)
    BY <1>1, <1>3 DEF Stored, IndexOK, Working
  <1>5. ~Amiss(Validates(t))
    BY <1>4, ValidatedFresh
  <1>6. /\ disk \in [Ids -> Entries] /\ Listing(cache) /\ Txn(r)
        /\ DOMAIN r.reads \subseteq Ids /\ DOMAIN r.seen \subseteq Ids
    <2>1. Txn(r)
      BY PhaseIs
    <2>2. QED
      BY <2>1 DEF Txn, Partly, Sound, StoreTyped
  <1>7. ASSUME NEW j \in DOMAIN r.reads PROVE Current(j).version = r.reads[j]
    <2>1. PICK k \in 1..Len(Validates(t)) : Validates(t)[k] = BucketOf[j]
      BY <1>1, <1>4, <1>6, ValidatesAll DEF ReadsOK
    <2>2. Readable(cache, BucketOf[j])
      BY <1>5, <1>6, <2>1, ValidatesIs, LoadsReadable
    <2>3. Entry(cache, j) = Current(j)
      BY <1>4, <1>6, <2>2, EntryFresh
    <2>4. QED
      BY <1>1, <2>3 DEF Conflicts
  <1>8. r.scan \in {-1, meta.version}
    BY <1>1 DEF Conflicts
  <1>9. r.seen[i] = Current(i).value
    BY <1>2, <1>4, <1>7, <1>8 DEF ReadsOK
  <1>10. i \in Ids /\ Current(i) = disk[i]
    BY <1>2, <1>6, CurrentIs
  <1>11. Behind = {}
    BY <1>1, <1>2 DEF Behind, Unapplied
  <1>12. disk[i].value = Now[i]
    BY <1>3, <1>10, <1>11 DEF Stored, RecordsOK
  <1>13. QED
    BY <1>9, <1>10, <1>12


\* An append that fails changes no record; a line it leaves saw what the commits left.
LEMMA StoredAppendFails ==
  ASSUME Sound, Sound', Stored, NEW t \in Txns, AppendFails(t)
  PROVE  Stored'
  <1> DEFINE line == LineOf(t)
             commit == CommitOf(t)
  <1>1. /\ Appending(t) /\ Reads(Validates(t)) /\ tx' = [tx EXCEPT ![t].phase = "aborted"]
        /\ UNCHANGED <<disk, hot, stored, wal, meta, refusing, up, job, history>>
    BY DEF AppendFails
  <1>2. up /\ "aborted" \in Phases /\ "aborted" \notin {"work", "queued"} /\ meta'.version = meta.version
    BY <1>1 DEF Appending, Next1, Phases
  <1>3. Validating(t)
    BY <1>1 DEF Validating
  <1>4. IndexOK' /\ RecordsOK' /\ CommitsSerialize' /\ (harmed => harmed')
    BY <1>1, <1>2, <1>3, PhaseGoesOn
  <1>5. LeftOK'
    <2>1. (~Left' \/ tail' = tail) \/ tail' = Refused(line, commit)
      BY FailsTail
    <2>2. CASE ~Left' \/ tail' = tail
      BY <1>1, <1>4, <2>2, LeftFrame DEF Sound, Stored
    <2>3. CASE tail' = Refused(line, commit)
      <3>1. commit.seen = tx[t].seen /\ commit.renumbered = tx[t].renumbered
        BY <1>1, LineIs DEF Appending
      <3>2. tail'.commit = commit
        BY <2>3 DEF Refused
      <3>3. DOMAIN tx[t].seen \subseteq Ids /\ \A i \in Ids : Now'[i] = Now[i]
        <4>1. Txn(tx[t])
          BY PhaseIs
        <4>2. QED
          BY <1>1, <4>1, SameNow DEF Txn, Partly
      <3> HIDE DEF line, commit
      <3>4. ~harmed' /\ ~tx[t].renumbered => \A i \in DOMAIN tx[t].seen : tx[t].seen[i] = Now[i]
        BY <1>1, SeenIsNow
      <3>5. QED
        BY <3>1, <3>2, <3>3, <3>4 DEF LeftOK
    <2>4. QED
      BY <2>1, <2>2, <2>3
  <1>6. QED
    BY <1>4, <1>5 DEF Stored

\* A commit at the end of the history is serial if it saw what the others had left.
LEMMA SerialGrows ==
  ASSUME LogTyped, LogTyped', CommitsSerialize, harmed => harmed', NEW commit,
         Len(history') = Len(history) + 1, history'[Len(history) + 1] = commit,
         \A n \in 1..Len(history) : history'[n] = history[n],
         ~harmed' /\ ~commit.renumbered => \A i \in DOMAIN commit.seen : commit.seen[i] = Now[i],
         DOMAIN commit.seen \subseteq Ids
  PROVE  /\ CommitsSerialize'
         /\ \A i \in Ids \ DOMAIN commit.after : Now'[i] = Now[i]
  <1> DEFINE H == Len(history)
  <1>1. H \in Nat
    BY DEF LogTyped
  <1>2. Len(history') = H + 1 /\ history'[H + 1] = commit /\ \A n \in 1..H : history'[n] = history[n]
    OBVIOUS
  <1> HIDE DEF H
  <1>3. \A i \in Ids : Outcome(history', i, H) = Outcome(history, i, H)
    BY <1>1, <1>2, OutcomeKept
  <1>4. \A i \in Ids : Now[i] = Outcome(history, i, H)
    BY StateIs DEF H
  <1>5. CommitsSerialize'
    <2> SUFFICES ASSUME ~harmed', NEW n \in 1..(H + 1) PROVE Serial(history', n)
      BY <1>2, NextSerialIs
    <2>1. CASE n = H + 1
      <3> SUFFICES ASSUME ~commit.renumbered, NEW i \in DOMAIN commit.seen
                   PROVE  commit.seen[i] = Outcome(history', i, H)
        <4>1. n - 1 = H
          BY <1>1, <2>1
        <4>2. QED
          BY <1>2, <2>1, <4>1 DEF Serial
      <3>1. i \in Ids /\ commit.seen[i] = Now[i]
        OBVIOUS
      <3>2. QED
        BY <1>3, <1>4, <3>1
    <2>2. CASE n # H + 1
      <3>1. n \in 1..H /\ n - 1 \in Nat /\ 1..(n - 1) \subseteq 1..H
        BY <1>1, <2>2
      <3>2. Serial(history, n)
        <4>1. ~harmed
          OBVIOUS
        <4>2. QED
          BY <3>1, <4>1, SerialIs DEF H
      <3>3. \A i : Outcome(history', i, n - 1) = Outcome(history, i, n - 1)
        <4> DEFINE k == n - 1
        <4>1. k \in Nat /\ 1..k \subseteq 1..H
          BY <3>1
        <4> HIDE DEF k
        <4>2. \A i : Outcome(history', i, k) = Outcome(history, i, k)
          BY <1>2, <4>1, OutcomeKept
        <4>3. QED
          BY <4>2 DEF k
      <3>4. QED
        BY <1>2, <3>1, <3>2, <3>3 DEF Serial
    <2>3. QED
      BY <2>1, <2>2
  <1>6. ASSUME NEW i \in Ids, i \notin DOMAIN commit.after
        PROVE  Now'[i] = Now[i]
    <2>1. Outcome(history', i, H + 1) = Outcome(history', i, H)
      BY <1>1, <1>2, <1>6, OutcomeUnwritten
    <2>2. Now'[i] = Outcome(history', i, H + 1)
      BY <1>2, NextStateIs
    <2>3. QED
      BY <1>3, <1>4, <2>1, <2>2
  <1>7. QED
    BY <1>5, <1>6

\* What was validated in the queue is what the commits left: the new commit is serial.
LEMMA StoredAppendCommit ==
  ASSUME Sound, Sound', Stored, NEW t \in Txns, AppendCommit(t)
  PROVE  Stored'
  <1> DEFINE r == tx[t]
             ids == Changed(t)
             line == LineOf(t)
             commit == CommitOf(t)
  <1>1. /\ Appending(t) /\ Reads(Validates(t))
        /\ job' = [stage |-> "apply", txn |-> t, todo |-> ids, dirty |-> <<>>]
        /\ tx' = [tx EXCEPT ![t].phase = "commit"]
        /\ wal' = Append(wal, line) /\ history' = Append(history, commit)
        /\ UNCHANGED <<disk, hot, stored, meta, refusing, up>>
    BY DEF AppendCommit
  <1>2. up /\ job = Idle /\ job.stage = "idle" /\ DOMAIN job.dirty = {} /\ ~refusing /\ ids # <<>>
    BY <1>1, IdleIs DEF Appending, Next1
  <1>3. job'.stage = "apply" /\ DOMAIN job'.dirty = {} /\ job'.todo = ids
    BY <1>1
  <1>4. \A i \in Ids : Current(i)' = Current(i) /\ Current(i) = disk[i]
    <2>1. \A i \in Ids : Current(i) = disk[i]
      BY <1>2, CurrentIs
    <2>2. QED
      BY <1>1, <1>2, <1>3, <2>1, CurrentFrame
  <1>5. harmed => harmed'
    BY <1>1, ValidatedIs
  <1>6. /\ Line(line) /\ line.base = meta.sequence /\ line.ids = ids
        /\ Commit(commit) /\ Describes(line, commit) /\ commit.seen = r.seen /\ commit.renumbered = r.renumbered
    BY <1>2, LineIs
  <1>7. /\ Len(history') = Len(history) + 1 /\ \A n \in 1..Len(history) : history'[n] = history[n]
        /\ history'[Len(history) + 1] = commit /\ Last(wal') = line
    <2>1. ~Unapplied
      BY <1>2 DEF Unapplied
    <2> HIDE DEF line, commit, ids
    <2>2. QED
      BY <1>1, <1>2, <1>6, <2>1, Grows
  <1>8. ~harmed' /\ ~r.renumbered => \A i \in DOMAIN r.seen : r.seen[i] = Now[i]
    BY <1>1, SeenIsNow
  <1> HIDE DEF line, commit
  <1>9. /\ CommitsSerialize'
        /\ \A i \in Ids \ ToSet(ids) : Now'[i] = Now[i]
    <2>1. DOMAIN commit.seen \subseteq Ids /\ DOMAIN commit.after = ToSet(ids)
      BY <1>6 DEF Commit, Partly, Describes
    <2>2. LogTyped /\ LogTyped' /\ CommitsSerialize
      BY DEF Sound, Stored
    <2>3. ~harmed' /\ ~commit.renumbered => \A i \in DOMAIN commit.seen : commit.seen[i] = Now[i]
      BY <1>6, <1>8
    <2> HIDE DEF ids, r
    <2>4. CommitsSerialize' /\ \A i \in Ids \ DOMAIN commit.after : Now'[i] = Now[i]
      BY <1>5, <1>7, <2>1, <2>2, <2>3, SerialGrows
    <2>5. QED
      BY <2>1, <2>4
  <1>10. IndexOK'
    <2>1. ~harmed' => Fresh(cache') /\ \A i \in Ids : hot'[i] = hot[i]
      BY <1>1, <1>2, <1>5, ValidatedFresh DEF Stored, IndexOK
    <2>2. "commit" \in Phases
      BY DEF Phases, InFlight
    <2>3. tx'[t].phase = "commit" /\ \A u \in Txns : u # t => tx'[u] = tx[u]
      <3> DEFINE q == [tx[t] EXCEPT !.phase = "commit"]
      <3>1. tx'[t] = q /\ q.phase = "commit" /\ \A u \in Txns : u # t => tx'[u] = tx[u]
        BY <1>1, <2>2, PhaseSet
      <3> HIDE DEF q
      <3>2. QED
        BY <3>1
    <2>4. \A u \in Txns : tx'[u].phase \in {"work", "queued"} /\ ~tx'[u].renumbered =>
                \/ Working(u) /\ tx'[u] = tx[u]
                \/ ReadsOK(tx'[u])
      BY <2>3 DEF Working
    <2>5. TxnsTyped' /\ IndexOK /\ meta'.version \in Nat
      BY <1>1 DEF Sound, Stored, StoreTyped, Meta
    <2>6. job.stage # "apply" /\ meta'.version = meta.version
      BY <1>1, <1>2
    <2>7. stored' = stored /\ up' = up /\ refusing' = refusing /\ \A i \in Ids : Current(i)' = Current(i)
      BY <1>1, <1>4
    <2>8. ~harmed' => Fresh(cache') /\ \A i \in Ids : hot'[i] \in {None, hot[i], Current(i).value}
      BY <2>1
    <2>9. QED
      BY <1>5, <2>4, <2>5, <2>6, <2>7, <2>8, IndexFrame
  <1>11. RecordsOK'
    <2> SUFFICES ASSUME ~harmed' PROVE RecordsOK'
      BY DEF RecordsOK
    <2>1. Behind = {} /\ ~harmed
      BY <1>2, <1>5 DEF Behind, Unapplied
    <2>2. \A i \in Ids : disk[i].value = Now[i]
      BY <2>1 DEF Stored, RecordsOK
    <2>3. Behind' = ToSet(ids)
      BY <1>1, <1>2, <1>3, <1>6, <1>7 DEF Behind, Unapplied
    <2>4. QED
      BY <1>1, <1>3, <1>4, <1>9, <2>2, <2>3 DEF RecordsOK
  <1>12. LeftOK'
    <2>1. tail' = Clean \/ tail' = Unreadable
      BY DEF AppendCommit
    <2>2. QED
      BY <2>1 DEF LeftOK, Left, Clean, Unreadable
  <1>13. QED
    BY <1>9, <1>10, <1>11, <1>12 DEF Stored

LEMMA StoredApplyOp ==
  ASSUME Sound, Sound', Stored, ApplyOp
  PROVE  Stored'
  <1> DEFINE i == Head(job.todo)
             b == BucketOf[i]
             v == tx[job.txn].after[i]
             e == [version |-> stored + 1, value |-> v]
             idle == v = None /\ Entry(cache, i).value = None
             c == Put(cache, i, e)
             d == IF idle THEN job.dirty ELSE With(job.dirty, b, Last(c).entries)
             g == [hot EXCEPT ![i] = v]
             u == Tail(job.todo)
             r == Load(cache, b)
  <1>1. /\ up /\ job.stage = "apply" /\ job.todo # <<>> /\ ~moved
        /\ stored' = (IF idle THEN stored ELSE stored + 1)
        /\ cache' = (IF idle THEN r ELSE c)
        /\ hot' \in Trim(g)
        /\ job' = [job EXCEPT !.todo = u, !.dirty = d]
        /\ harmed' = (harmed \/ Amiss(<<b>>))
        /\ UNCHANGED <<disk, wal, tail, meta, refusing, up, tx, history>>
    BY DEF ApplyOp, logVars
  <1>2. /\ i \in Ids /\ b \in ToSet(Buckets) /\ i \in In(b) /\ v \in Values
        /\ i \in ToSet(Last(wal).ids) /\ v = Last(wal).after[i]
        /\ \A j \in ToSet(job.todo) : j = i \/ j \in ToSet(u)
    BY <1>1, OpIs
  <1>3. /\ disk \in [Ids -> Entries] /\ Listing(cache) /\ hot \in [Ids -> Values]
        /\ Cardinality(Hots(hot)) <= MaxHot /\ stored \in Nat
    BY DEF Sound, StoreTyped
  <1>4. ~refusing /\ wal # <<>>
    BY <1>1 DEF Sound, JobOK
  <1>23. CommitsSerialize' /\ LeftOK'
    BY <1>1, SerialFrame, LeftFrame DEF Sound, Stored
  <1> SUFFICES ASSUME ~harmed' PROVE IndexOK' /\ RecordsOK'
    BY <1>23 DEF Stored, IndexOK, RecordsOK
  <1>24. ~harmed /\ Readable(cache, b)
    BY <1>1, <1>2, <1>3, OneBucket DEF Readable
  <1>5. v = Now[i]
    BY <1>2, <1>4, LastIsNow
  <1> HIDE DEF v, i
  <1>6. e \in Entries /\ e.version = stored + 1 /\ e.value = v
    BY <1>2, <1>3 DEF Entries, Values
  <1> HIDE DEF e
  <1>7. /\ Fresh(cache) /\ \A j \in Ids : hot[j] \in {None, Current(j).value} /\ Current(j).version <= stored
        /\ \A t \in Txns : Working(t) /\ ~tx[t].renumbered => ReadsOK(tx[t])
    BY <1>1, <1>4, <1>24 DEF Stored, IndexOK
  <1>8. Entry(cache, i) = Current(i)
    BY <1>2, <1>3, <1>7, <1>24, EntryFresh
  <1>9. \A j \in Ids : hot'[j] = None \/ (j = i /\ hot'[j] = v) \/ (j # i /\ hot'[j] = hot[j])
    <2>1. g \in [Ids -> Values] /\ g[i] = v /\ \A j \in Ids : j # i => g[j] = hot[j]
      BY <1>2, <1>3
    <2> HIDE DEF g
    <2>2. \A j \in Ids : hot'[j] = None \/ hot'[j] = g[j]
      BY <1>1, <1>2, <1>3, <2>1, HotFits
    <2>3. QED
      BY <2>1, <2>2
  <1>10. Listing(r) /\ Fresh(r) /\ Len(r) > 0 /\ r[Len(r)].bucket = b /\ Len(r) \in Nat /\ DOMAIN r = 1..Len(r)
    <2>1. Listing(r) /\ Fresh(r)
      BY <1>2, <1>3, <1>7, <1>24, LoadFresh
    <2>2. Len(r) > 0 /\ r[Len(r)].bucket = b
      BY <1>2, <1>3, LoadIs
    <2> HIDE DEF r
    <2>3. QED
      BY <2>1, <2>2, ListingIs
  <1>12. /\ Listing(c) /\ Len(c) = Len(r)
         /\ \A n \in 1..(Len(r) - 1) : c[n] = r[n]
         /\ c[Len(r)].bucket = b /\ c[Len(r)].entries = [r[Len(r)].entries EXCEPT ![i] = e]
         /\ Last(c).entries = [r[Len(r)].entries EXCEPT ![i] = e]
    BY <1>2, <1>3, <1>6, PutIs
  <1>13. /\ job'.stage = "apply" /\ job'.todo = u /\ job'.dirty = d
    <2> HIDE DEF d, u
    <2>1. QED
      BY <1>1 DEF Sound, JobTyped
  <1>14. Behind' = Behind
    BY <1>1, <1>13 DEF Behind, Unapplied
  <1>16. \A j \in Ids : Now'[j] = Now[j]
    BY <1>1, SameNow
  <1>17. meta'.version \in Nat /\ meta'.version = meta.version /\ TxnsTyped'
    BY <1>1 DEF Sound, StoreTyped, Meta
  <1>18. \A j \in Ids \ ToSet(job.todo) : Current(j).value = Now[j]
    BY <1>1, <1>24 DEF Stored, RecordsOK
  <1>19. \A j \in Ids \ Behind : disk[j].value = Now[j]
    BY <1>24 DEF Stored, RecordsOK
  <1> HIDE DEF c, g, r
  <1>20. CASE idle
    <2>1. /\ stored' = stored /\ cache' = r /\ job'.dirty = job.dirty /\ v = None /\ Current(i).value = None
      BY <1>1, <1>8, <1>13, <1>20
    <2>2. \A j \in Ids : Current(j)' = Current(j)
      BY <1>1, <2>1, CurrentFrame
    <2>3. IndexOK'
      <3>1. Fresh(cache') /\ \A j \in Ids : hot'[j] \in {None, hot[j], Current(j).value}
        BY <1>9, <1>10, <2>1
      <3>2. \A t \in Txns : tx'[t].phase \in {"work", "queued"} /\ ~tx'[t].renumbered =>
                \/ Working(t) /\ tx'[t] = tx[t]
                \/ ReadsOK(tx'[t])
        BY <1>1 DEF Working
      <3>4. up' = up /\ refusing' = refusing /\ IndexOK /\ (harmed => harmed')
        BY <1>1 DEF Stored
      <3>5. QED
        BY <1>13, <1>17, <2>1, <2>2, <3>1, <3>2, <3>4, IndexFrame
    <2>4. RecordsOK'
      <3>1. \A j \in Ids \ ToSet(u) : Current(j).value = Now[j]
        BY <1>2, <1>5, <1>18, <2>1
      <3>2. QED
        BY <1>1, <1>13, <1>14, <1>16, <1>19, <2>2, <3>1 DEF RecordsOK
    <2>5. QED
      BY <2>3, <2>4
  <1>21. CASE ~idle
    <2> DEFINE x == Last(c).entries
    <2>1. /\ stored' = stored + 1 /\ cache' = c /\ job'.dirty = With(job.dirty, b, x)
      BY <1>1, <1>13, <1>21
    <2>2. r[Len(r)].entries \in [In(b) -> Entries] /\ \A j \in In(b) : r[Len(r)].entries[j] = Current(j)
      <3>1. Len(r) \in DOMAIN r
        BY <1>10
      <3>2. QED
        BY <1>10, <3>1 DEF Fresh, Listing, Slot
    <2>3. /\ x[i] = e /\ x = c[Len(r)].entries /\ \A j \in In(b) : j # i => x[j] = Current(j)
      BY <1>2, <1>12, <2>2
    <2> HIDE DEF x, b
    <2>4. \A j \in Ids : (j = i => Current(j)' = e) /\ (j # i => Current(j)' = Current(j))
      <3>1. DOMAIN job'.dirty = DOMAIN job.dirty \cup {b} /\ job'.dirty[b] = x
            /\ \A k \in DOMAIN job.dirty : k # b => job'.dirty[k] = job.dirty[k]
        BY <2>1 DEF With
      <3>2. \A j \in Ids : BucketOf[j] = b => j \in In(b)
        BY DEF In
      <3>3. BucketOf[i] = b
        BY DEF b
      <3>4. ASSUME NEW j \in Ids, j = i PROVE Current(j)' = e
        BY <2>3, <3>1, <3>3, <3>4 DEF Current
      <3>5. ASSUME NEW j \in Ids, j # i PROVE Current(j)' = Current(j)
        <4>1. CASE BucketOf[j] = b
          BY <2>3, <3>1, <3>2, <3>5, <4>1 DEF Current
        <4>2. CASE BucketOf[j] # b
          BY <1>1, <3>1, <4>2 DEF Current
        <4>3. QED
          BY <4>1, <4>2
      <3>6. QED
        BY <3>4, <3>5
    <2>5. Fresh(cache)'
      <3>1. DOMAIN c = 1..Len(r)
        BY <1>12, ListingIs
      <3>2. \A n \in 1..Len(r) : c[n].bucket = r[n].bucket
        BY <1>10, <1>12
      <3>3. ASSUME NEW n \in 1..Len(r), NEW j \in In(c[n].bucket)
            PROVE  c[n].entries[j] = Current(j)'
        <4>1. j \in Ids /\ BucketOf[j] = c[n].bucket
          BY <3>3 DEF In
        <4>2. CASE n = Len(r)
          <5>1. j \in In(b) /\ c[n].entries = x
            BY <1>12, <2>3, <3>3, <4>2
          <5>2. CASE j = i
            BY <2>3, <2>4, <4>1, <5>1, <5>2
          <5>3. CASE j # i
            BY <2>3, <2>4, <4>1, <5>1, <5>3
          <5>4. QED
            BY <5>2, <5>3
        <4>3. CASE n # Len(r)
          <5>1. n \in 1..(Len(r) - 1) /\ n \in DOMAIN r /\ Len(r) \in DOMAIN r
            <6> DEFINE L == Len(r)
            <6>1. n \in 1..L /\ n # L /\ L \in Nat /\ L > 0 /\ DOMAIN r = 1..L
              BY <1>10, <3>3, <4>3
            <6> HIDE DEF L
            <6>2. n \in 1..(L - 1) /\ n \in 1..L /\ L \in 1..L
              BY <6>1
            <6>3. QED
              BY <6>1, <6>2 DEF L
          <5>2. r[n].bucket # b
            BY <1>10, <4>3, <5>1 DEF Listing
          <5>3. c[n] = r[n] /\ BucketOf[j] # b
            BY <1>12, <4>1, <5>1, <5>2
          <5>4. j # i /\ r[n].entries[j] = Current(j)
            BY <1>10, <3>3, <5>1, <5>3 DEF Fresh, b
          <5>5. QED
            BY <2>4, <4>1, <5>3, <5>4
        <4>4. QED
          BY <4>2, <4>3
      <3>5. QED
        BY <2>1, <3>1, <3>3 DEF Fresh
    <2>6. \A j \in Ids : hot'[j] \in {None, Current(j)'.value} /\ Current(j)'.version <= stored'
      <3> SUFFICES ASSUME NEW j \in Ids PROVE hot'[j] \in {None, Current(j)'.value} /\ Current(j)'.version <= stored'
        OBVIOUS
      <3>1. CASE j = i
        <4>1. Current(j)' = e
          BY <2>4, <3>1
        <4>2. QED
          BY <1>3, <1>6, <1>9, <2>1, <3>1, <4>1
      <3>2. CASE j # i
        <4>1. Current(j)' = Current(j)
          BY <2>4, <3>2
        <4>2. Current(j).version \in Nat
          BY CurrentIs
        <4>3. Current(j).version <= stored /\ stored <= stored'
          BY <1>3, <1>7, <2>1
        <4>4. Current(j).version <= stored'
          BY <1>3, <2>1, <4>2, <4>3
        <4>5. QED
          BY <1>7, <1>9, <3>2, <4>1, <4>4
      <3>3. QED
        BY <3>1, <3>2
    <2>7. ASSUME NEW t \in Txns, Working(t), ~tx[t].renumbered PROVE ReadsOK(tx[t])'
      <3> DEFINE q == tx[t]
      <3>1. ReadsOK(q)
        BY <1>7, <2>7
      <3>2. tx' = tx /\ meta'.version = meta.version
        BY <1>1, <1>17
      <3>3. DOMAIN q.seen \subseteq Ids /\ \A j \in DOMAIN q.reads : q.reads[j] \in Nat
        <4>1. Txn(q)
          BY PhaseIs
        <4>2. QED
          BY <4>1 DEF Txn, Partly
      <3> HIDE DEF q
      <3>4. \A j \in DOMAIN q.reads : q.reads[j] <= stored' /\ q.reads[j] # e.version
        BY <1>3, <1>6, <2>1, <3>1, <3>3 DEF ReadsOK
      <3>5. \A j \in DOMAIN q.seen :
              \/ j \in DOMAIN q.reads /\ (q.reads[j] = Current(j)'.version => q.seen[j] = Current(j)'.value)
              \/ q.scan # -1
        <4> SUFFICES ASSUME NEW j \in DOMAIN q.seen, q.scan = -1
                     PROVE  j \in DOMAIN q.reads /\ (q.reads[j] = Current(j)'.version => q.seen[j] = Current(j)'.value)
          OBVIOUS
        <4>1. j \in DOMAIN q.reads /\ (q.reads[j] = Current(j).version => q.seen[j] = Current(j).value)
          BY <3>1 DEF ReadsOK
        <4>2. CASE j = i
          <5>1. Current(j)' = e
            BY <2>4, <3>3, <4>2
          <5>2. QED
            BY <3>4, <4>1, <5>1
        <4>3. CASE j # i
          <5>1. Current(j)' = Current(j)
            BY <2>4, <3>3, <4>3
          <5>2. QED
            BY <4>1, <5>1
        <4>4. QED
          BY <4>2, <4>3
      <3>6. q.scan <= meta.version /\ Named(q)
        BY <3>1 DEF ReadsOK
      <3>7. QED
        BY <1>13, <3>2, <3>4, <3>5, <3>6 DEF ReadsOK, Named, q
    <2>8. IndexOK'
      BY <1>1, <2>5, <2>6, <2>7 DEF IndexOK, Working
    <2>9. RecordsOK'
      <3>1. ASSUME NEW j \in Ids, j \notin ToSet(u) PROVE Current(j)'.value = Now[j]
        <4>1. CASE j = i
          BY <1>5, <1>6, <2>4, <4>1
        <4>2. CASE j # i
          <5>1. j \notin ToSet(job.todo)
            BY <1>2, <3>1, <4>2
          <5>2. QED
            BY <1>18, <2>4, <3>1, <4>2, <5>1
        <4>3. QED
          BY <4>1, <4>2
      <3>2. QED
        BY <1>1, <1>13, <1>14, <1>16, <1>19, <3>1 DEF RecordsOK
    <2>10. QED
      BY <2>8, <2>9
  <1>22. QED
    BY <1>20, <1>21

\* A bucket is saved as the index has it.
LEMMA StoredSaveBucket ==
  ASSUME Sound, Sound', Stored, NEW b \in ToSet(Buckets), SaveBucket(b)
  PROVE  Stored'
  <1> DEFINE d == [c \in DOMAIN job.dirty \ {b} |-> job.dirty[c]]
  <1>1. /\ up /\ job.stage = "apply" /\ job.todo = <<>> /\ b \in DOMAIN job.dirty
        /\ disk' = [i \in Ids |-> IF BucketOf[i] = b THEN job.dirty[b][i] ELSE disk[i]]
        /\ job' = [job EXCEPT !.dirty = d]
        /\ UNCHANGED <<cache, hot, stored, wal, tail, meta, refusing, up, tx, history, harmed>>
    BY DEF SaveBucket, logVars
  <1>2. DOMAIN d = DOMAIN job.dirty \ {b} /\ \A k \in DOMAIN d : d[k] = job.dirty[k]
    OBVIOUS
  <1> HIDE DEF d
  <1>3. job'.stage = job.stage /\ job'.todo = job.todo /\ job'.dirty = d
    BY <1>1 DEF Sound, JobTyped
  <1>4. \A i \in Ids : disk'[i] = IF BucketOf[i] = b THEN Current(i) ELSE disk[i]
    BY <1>1 DEF Current
  <1>5. \A i \in Ids : Current(i)' = Current(i)
    BY <1>1, <1>2, <1>3, <1>4 DEF Current
  <1>6. IndexOK'
    <2>1. ~refusing /\ ~harmed => Fresh(cache) /\ \A i \in Ids : hot[i] \in {None, Current(i).value}
      BY <1>1 DEF Stored, IndexOK
    <2>2. \A t \in Txns : tx'[t].phase \in {"work", "queued"} => Working(t) /\ tx'[t] = tx[t]
      BY <1>1 DEF Working
    <2>3. meta'.version \in Nat /\ meta'.version = meta.version /\ TxnsTyped' /\ IndexOK
      BY <1>1 DEF Sound, StoreTyped, Meta, Stored
    <2>5. /\ stored' = stored /\ up' = up /\ refusing' = refusing /\ cache' = cache /\ harmed' = harmed /\ job'.stage = job.stage
          /\ \A i \in Ids : hot'[i] = hot[i]
      BY <1>1, <1>3
    <2>6. QED
      BY <1>5, <2>1, <2>2, <2>3, <2>5, IndexFrame
  <1>7. CommitsSerialize' /\ LeftOK'
    BY <1>1, SerialFrame, LeftFrame DEF Sound, Stored
  <1>8. RecordsOK'
    <2>1. Behind' = Behind
      BY <1>1, <1>3 DEF Behind, Unapplied
    <2>2. \A i \in Ids : Now'[i] = Now[i]
      BY <1>1, SameNow
    <2>3. ToSet(<<>>) = {}
      BY DEF ToSet
    <2>4. QED
      BY <1>1, <1>3, <1>4, <1>5, <2>1, <2>2, <2>3 DEF Stored, RecordsOK
  <1>9. QED
    BY <1>6, <1>7, <1>8 DEF Stored

\* Once all buckets are saved the index is that of the commits.
LEMMA StoredCommitted ==
  ASSUME Sound, Sound', Stored, Committed
  PROVE  Stored'
  <1> DEFINE t == job.txn
  <1>1. /\ up /\ job.stage = "apply" /\ job.todo = <<>> /\ DOMAIN job.dirty = {} /\ job' = Idle
        /\ tx' = [tx EXCEPT ![t].phase = "done"]
        /\ UNCHANGED <<disk, cache, hot, stored, wal, tail, refusing, up, history, harmed>>
    BY DEF Committed, storeVars, logVars
  <1>2. Meta(meta') /\ meta'.sequence > meta.sequence /\ ~refusing /\ t \in Txns /\ "done" \in Phases
    BY CommittedMeta DEF Phases
  <1>3. meta'.version > meta.version /\ meta'.version \in Nat
    BY <1>2 DEF Sound, StoreTyped, Meta
  <1>4. job'.stage = "idle" /\ DOMAIN job'.dirty = {}
    BY <1>1, IdleIs
  <1>5. \A i \in Ids : Current(i)' = Current(i) /\ Current(i) = disk[i]
    BY <1>1, <1>4, CurrentFrame, CurrentIs
  <1> HIDE DEF t
  <1>6. tx'[t].phase = "done" /\ \A u \in Txns : u # t => tx'[u] = tx[u]
    <2> DEFINE q == [tx[t] EXCEPT !.phase = "done"]
    <2>1. tx'[t] = q /\ q.phase = "done" /\ \A u \in Txns : u # t => tx'[u] = tx[u]
      BY <1>1, <1>2, PhaseSet
    <2> HIDE DEF q
    <2>2. QED
      BY <2>1
  <1>7. IndexOK'
    <2>1. ~harmed => Fresh(cache) /\ \A i \in Ids : hot[i] \in {None, Current(i).value}
      BY <1>1, <1>2 DEF Stored, IndexOK
    <2>2. \A u \in Txns : tx'[u].phase \in {"work", "queued"} => Working(u) /\ tx'[u] = tx[u]
      BY <1>6 DEF Working
    <2>3. TxnsTyped' /\ IndexOK
      BY DEF Sound, Stored
    <2>5. /\ stored' = stored /\ up' = up /\ refusing' = refusing /\ cache' = cache /\ harmed' = harmed
          /\ \A i \in Ids : hot'[i] = hot[i]
      BY <1>1
    <2>6. QED
      BY <1>3, <1>5, <2>1, <2>2, <2>3, <2>5, IndexFrame
  <1>8. CommitsSerialize' /\ LeftOK'
    BY <1>1, SerialFrame, LeftFrame DEF Sound, Stored
  <1>9. RecordsOK'
    <2>1. \A i \in Ids : Now'[i] = Now[i]
      BY <1>1, SameNow
    <2>2. ToSet(<<>>) = {}
      BY DEF ToSet
    <2>3. ~harmed => \A i \in Ids : Current(i).value = Now[i]
      BY <1>1, <2>2 DEF Stored, RecordsOK
    <2>4. QED
      BY <1>1, <1>4, <1>5, <2>1, <2>3 DEF RecordsOK
  <1>10. QED
    BY <1>7, <1>8, <1>9 DEF Stored

-----------------------------------------------------------------------------
\* Checkpoints and compaction keep Stored.

\* The line that was not applied is after the checkpoint.
LEMMA LastStays ==
  ASSUME Sound, refusing, up, job.stage = "compact", wal' = After(wal, meta.sequence), tail' = Clean,
         UNCHANGED <<checkpoint, meta, history, told>>
  PROVE  Last(wal)' = Last(wal)
  <1>2. checkpoint = meta /\ Meta(checkpoint)
    BY DEF Sound, LogOK, StoreTyped
  <1>3. wal' = Pending
    BY <1>2 DEF Pending
  <1>4. PICK k \in 0..Len(wal) : CutAt(k)
    BY <1>2, PendingIs DEF Sound
  <1>5. /\ Len(wal') = Len(wal) - k /\ Len(wal) \in Nat /\ k \in 0..Len(wal)
        /\ (wal' = <<>> <=> Len(wal') = 0)
        /\ wal' # <<>> => Last(wal') = Last(wal)
    BY <1>3, <1>4, CutLog
  <1>6. wal # <<>> /\ Last(wal).base = meta.sequence
    BY DEF Sound, LogOK, Unapplied
  <1>7. Len(wal) \in 1..Len(wal) /\ Last(wal).result > Last(wal).base
    <2>1. Len(wal) \in 1..Len(wal)
      BY <1>6, LogIs DEF Sound
    <2>2. QED
      BY <2>1, LogIs DEF Sound, Last
  <1>8. Last(wal).result > checkpoint.sequence
    BY <1>2, <1>6, <1>7
  <1>9. Len(wal) > k
    BY <1>4, <1>7, <1>8 DEF CutAt, Last
  <1>10. QED
    BY <1>5, <1>9

\* Steps of no transaction and of no commit.
LEMMA StoredFrame ==
  ASSUME Sound, Sound', Stored, UNCHANGED <<disk, stored, meta, refusing, up, tx, history>>, up,
         harmed => harmed', tail' = tail \/ ~Left',
         job.stage # "apply", job'.stage # "apply", refusing => Last(wal)' = Last(wal),
         ~refusing /\ ~harmed' => Fresh(cache') /\ \A i \in Ids : hot'[i] \in {None, hot[i], Current(i).value}
  PROVE  Stored'
  <1>1. DOMAIN job.dirty = {} /\ DOMAIN job'.dirty = {}
    BY DEF Sound, JobTyped
  <1>2. \A i \in Ids : Current(i)' = Current(i)
    BY <1>1, CurrentFrame
  <1>3. IndexOK'
    <2>1. \A u \in Txns : tx'[u].phase \in {"work", "queued"} => Working(u) /\ tx'[u] = tx[u]
      BY DEF Working
    <2>2. TxnsTyped' /\ IndexOK /\ meta'.version \in Nat
      BY DEF Sound, Stored, StoreTyped, Meta
    <2>3. QED
      BY <1>1, <1>2, <2>1, <2>2, IndexFrame
  <1>4. RecordsOK' /\ CommitsSerialize'
    <2>1. Unapplied' = Unapplied /\ (Unapplied => Last(wal)' = Last(wal))
      BY DEF Unapplied
    <2>2. QED
      BY <1>2, <2>1, RecordsFrame DEF Stored
  <1>5. LeftOK'
    BY LeftFrame DEF Sound, Stored
  <1>6. QED
    BY <1>3, <1>4, <1>5 DEF Stored

LEMMA StoredUpkeep ==
  ASSUME Sound, Sound', Stored, SaveMeta \/ SaveMetaFails \/ CompactLog \/ MoveAway \/ CheckpointFails
  PROVE  Stored'
  <1>1. /\ up /\ UNCHANGED <<disk, stored, meta, refusing, up, tx, history>>
    BY DEF SaveMeta, SaveMetaFails, NextCheckpoint, CompactLog, MoveAway, CheckpointFails, storeVars, logVars
  <1>2. job.stage # "apply" /\ job'.stage # "apply"
    <2>1. CASE SaveMeta \/ SaveMetaFails
      <3>1. job = Idle /\ (job' = Idle \/ job' = [Idle EXCEPT !.stage = "compact"])
        BY <2>1 DEF SaveMeta, SaveMetaFails, NextCheckpoint
      <3>2. QED
        BY <3>1, IdleIs, FreeJob
    <2>2. CASE CompactLog \/ MoveAway \/ CheckpointFails
      BY <2>2, IdleIs DEF CompactLog, MoveAway, CheckpointFails
    <2>3. QED
      BY <2>1, <2>2
  <1>3. ~refusing /\ ~harmed => Fresh(cache) /\ \A i \in Ids : hot[i] \in {None, Current(i).value}
    BY <1>1 DEF Stored, IndexOK
  <1>4. disk \in [Ids -> Entries] /\ Listing(cache)
    BY DEF Sound, StoreTyped
  <1>5. CASE SaveMeta \/ SaveMetaFails \/ CompactLog \/ CheckpointFails
    <2>1. UNCHANGED <<cache, hot, harmed>>
      BY <1>5 DEF SaveMeta, SaveMetaFails, NextCheckpoint, CompactLog, CheckpointFails, storeVars
    <2>2. \/ wal' = wal /\ tail' = tail
          \/ /\ job.stage = "compact" /\ wal' = After(wal, meta.sequence) /\ tail' = Clean
             /\ UNCHANGED <<checkpoint, meta, history, told>>
      BY <1>5 DEF SaveMeta, SaveMetaFails, NextCheckpoint, CompactLog, CheckpointFails, storeVars
    <2>3. refusing => Last(wal)' = Last(wal)
      BY <1>1, <2>2, LastStays
    <2>4. tail' = tail \/ ~Left'
      BY <2>2 DEF Left, Clean
    <2>5. QED
      BY <1>1, <1>2, <1>3, <2>1, <2>3, <2>4, StoredFrame
  <1>6. CASE MoveAway
    <2>1. Reads(Buckets) /\ hot' \in Scanned /\ wal' = wal /\ tail' = tail
      BY <1>6 DEF MoveAway, logVars
    <2>2. \A i \in Ids : hot'[i] = None \/ hot'[i] = ScanEntry(i).value
      BY <1>4, <2>1, ScanIs
    <2>3. harmed => harmed'
      BY <2>1 DEF Reads
    <2>4. ASSUME ~refusing, ~harmed'
          PROVE  Fresh(cache') /\ \A i \in Ids : hot'[i] \in {None, hot[i], Current(i).value}
      <3>1. Fresh(cache) /\ BucketSeq(Buckets)
        BY <1>3, <2>3, <2>4, BucketsIn DEF BucketSeq
      <3>2. ~Amiss(Buckets) /\ Fresh(cache')
        BY <1>4, <2>1, <2>4, <3>1, ReadsFresh
      <3>3. \A i \in Ids : ScanEntry(i) = Current(i)
        BY <1>4, <3>1, <3>2, ScanFresh
      <3>4. QED
        BY <2>2, <3>2, <3>3
    <2>5. QED
      BY <1>1, <1>2, <2>1, <2>3, <2>4, StoredFrame
  <1>7. QED
    BY <1>5, <1>6

\* The records are numbered anew: work that goes on is marked, and the caches are empty.
LEMMA StoredMoveIn ==
  ASSUME Sound, Sound', Stored, MoveIn
  PROVE  Stored'
  <1>1. /\ up /\ moved /\ cache' = <<>> /\ \A i \in Ids : hot'[i] = None
        /\ UNCHANGED <<wal, tail, meta, refusing, up, job, history, harmed>>
    BY DEF MoveIn, logVars
  <1>2. /\ disk' \in [Ids -> Entries] /\ \A i \in Ids : disk'[i].version <= stored'
        /\ \A i \in Ids : disk'[i].value = disk[i].value \/ (refusing /\ i \in ToSet(Last(wal).ids))
    BY MoveInDisk
  <1>3. DOMAIN job.dirty = {} /\ DOMAIN job'.dirty = {}
    BY <1>1 DEF Sound, JobTyped
  <1>4. \A i \in Ids : Current(i)' = disk'[i] /\ Current(i) = disk[i]
    BY <1>3 DEF Current
  <1>5. IndexOK'
    <2>1. Fresh(cache)'
      <3>1. DOMAIN cache' = {}
        BY <1>1
      <3>2. QED
        BY <3>1 DEF Fresh
    <2>2. \A i \in Ids : hot'[i] \in {None, Current(i)'.value} /\ Current(i)'.version <= stored'
      BY <1>1, <1>2, <1>4
    <2>3. \A t \in Txns : Working(t)' => tx'[t].renumbered
      BY RenumberedIs DEF Working
    <2>4. QED
      BY <2>1, <2>2, <2>3 DEF IndexOK
  <1>6. CommitsSerialize' /\ LeftOK'
    BY <1>1, SerialFrame, LeftFrame DEF Sound, Stored
  <1>7. RecordsOK'
    <2>1. Behind' = Behind
      BY <1>1 DEF Behind, Unapplied
    <2>2. \A i \in Ids : Now'[i] = Now[i]
      BY <1>1, SameNow
    <2>3. refusing => Behind = ToSet(Last(wal).ids)
      BY <1>1 DEF Behind, Unapplied
    <2>4. \A i \in Ids \ Behind : disk'[i].value = disk[i].value
      BY <1>2, <2>3
    <2>5. job.stage # "apply" \/ ~refusing
      BY DEF Sound, JobOK
    <2>6. job.stage = "apply" => \A i \in Ids : disk'[i].value = disk[i].value
      BY <1>2, <2>5
    <2>7. ~harmed => /\ \A i \in Ids \ Behind : disk[i].value = Now[i]
                     /\ job.stage = "apply" => \A i \in Ids \ ToSet(job.todo) : disk[i].value = Now[i]
      BY <1>4 DEF Stored, RecordsOK
    <2>8. QED
      BY <1>1, <1>4, <2>1, <2>2, <2>4, <2>6, <2>7 DEF RecordsOK
  <1>8. QED
    BY <1>5, <1>6, <1>7 DEF Stored

-----------------------------------------------------------------------------
\* Failures and recovery keep Stored.

LEMMA StoredStoreFails ==
  ASSUME Sound, Sound', Stored, StoreFails
  PROVE  Stored'
  <1>1. /\ up /\ job.stage = "apply" /\ refusing' = TRUE /\ job' = Idle
        /\ UNCHANGED <<disk, stored, wal, tail, up, history, harmed>>
    BY DEF StoreFails, storeVars, logVars
  <1>2. IndexOK'
    BY <1>1 DEF IndexOK
  <1>3. CommitsSerialize' /\ LeftOK'
    BY <1>1, SerialFrame, LeftFrame DEF Sound, Stored
  <1>4. RecordsOK'
    <2>1. Behind' = Behind
      BY <1>1 DEF Behind, Unapplied
    <2>2. \A i \in Ids : Now'[i] = Now[i]
      BY <1>1, SameNow
    <2>3. job'.stage # "apply"
      BY <1>1, IdleIs
    <2>4. QED
      BY <1>1, <2>1, <2>2, <2>3 DEF Stored, RecordsOK
  <1>5. QED
    BY <1>2, <1>3, <1>4 DEF Stored

\* A line that continues the metadata is after the checkpoint.
LEMMA LastPending ==
  Sound /\ wal # <<>> /\ Last(wal).base \in Nat /\ checkpoint.sequence <= Last(wal).base =>
    ToSet(Last(wal).ids) \subseteq UNION {ToSet(Pending[n].ids) : n \in 1..Len(Pending)}
  <1> SUFFICES ASSUME Sound, wal # <<>>, Last(wal).base \in Nat, checkpoint.sequence <= Last(wal).base
               PROVE  \E n \in 1..Len(Pending) : Pending[n] = Last(wal)
    OBVIOUS
  <1> DEFINE L == Len(wal)
             N == Len(Pending)
  <1>1. checkpoint.sequence \in Nat
    BY DEF Sound, StoreTyped, Meta
  <1>2. L \in Nat /\ L \in 1..L /\ wal[L].result > wal[L].base /\ wal[L].result \in Nat /\ Last(wal) = wal[L]
    <2>1. L \in Nat /\ L \in 1..L
      BY LogIs DEF Sound
    <2>2. QED
      BY <2>1, LogIs DEF Sound, Last
  <1>3. wal[L].result > checkpoint.sequence
    BY <1>1, <1>2
  <1>4. PICK k \in 0..L : CutAt(k)
    BY PendingIs DEF Sound, StoreTyped
  <1>5. L > k
    BY <1>2, <1>3, <1>4 DEF CutAt
  <1>6. k \in Nat /\ N = L - k /\ \A n \in 1..N : Pending[n] = wal[k + n]
    BY <1>4, CutIs DEF Sound
  <1>7. L - k \in 1..N /\ k + (L - k) = L
    BY <1>2, <1>5, <1>6
  <1>8. QED
    BY <1>2, <1>6, <1>7

LEMMA NextLastPending ==
  Sound' /\ wal' # <<>> /\ Last(wal)'.base \in Nat /\ checkpoint'.sequence <= Last(wal)'.base =>
    ToSet(Last(wal).ids)' \subseteq (UNION {ToSet(Pending[n].ids) : n \in 1..Len(Pending)})'
  <1>1. (Sound /\ wal # <<>> /\ Last(wal).base \in Nat /\ checkpoint.sequence <= Last(wal).base =>
          ToSet(Last(wal).ids) \subseteq UNION {ToSet(Pending[n].ids) : n \in 1..Len(Pending)})'
    BY LastPending, PTL
  <1>2. QED
    BY <1>1

\* What the saved index lacks is in the log, the line that was left included.
LEMMA StoredCrash ==
  ASSUME Sound, Sound', Stored, Crash
  PROVE  Stored'
  <1>1. /\ up' = FALSE /\ disk' = (IF moved THEN Empty ELSE disk) /\ harmed' = (harmed \/ moved) /\ job' = Idle
        /\ meta' = checkpoint /\ UNCHANGED checkpoint
    BY DEF Crash
  <1>2. IndexOK' /\ LeftOK'
    BY <1>1, CrashLog DEF IndexOK, LeftOK
  <1>3. job'.stage # "apply"
    BY <1>1, IdleIs
  <1>4. CASE ~Left
    <2>1. UNCHANGED <<wal, history, told>>
      BY <1>4, CrashLog
    <2>2. CommitsSerialize'
      BY <1>1, <2>1, SerialFrame DEF Sound, Stored
    <2>3. \A i \in Ids : Now'[i] = Now[i]
      BY <2>1, SameNow
    <2>4. Behind' = UNION {ToSet(Pending[n].ids) : n \in 1..Len(Pending)}
      <3>1. Pending' = Pending
        BY <1>1, <2>1 DEF Pending
      <3>2. QED
        BY <1>1, <3>1 DEF Behind
    <2>5. ASSUME NEW i \in Ids, i \notin Behind', ~harmed'
          PROVE  disk'[i].value = Now[i]
      <3>1. \A n \in 1..Len(Pending) : i \notin ToSet(Pending[n].ids)
        BY <2>4, <2>5
      <3>2. Len(Pending) \in 0..Len(Pending)
        BY PendingCommits
      <3>3. Writes(i, Len(Pending)) = {}
        BY <3>1, <3>2, WritesIs
      <3>4. i \notin Behind
        BY <3>3, BehindIsPending
      <3>5. disk' = disk /\ ~harmed
        BY <1>1, <2>5
      <3>6. QED
        BY <3>4, <3>5 DEF Stored, RecordsOK
    <2>6. QED
      BY <1>2, <1>3, <2>2, <2>3, <2>5 DEF RecordsOK, Stored
  <1>5. CASE Left
    <2> DEFINE line == tail.line
               commit == tail.commit
    <2>1. /\ up /\ ~Unapplied /\ line.base = meta.sequence /\ Line(line) /\ Commit(commit)
          /\ Describes(line, commit) /\ wal' = Append(wal, line) /\ history' = Append(history, commit)
      BY <1>5, CrashLog
    <2>2. ~harmed' => ~harmed /\ disk' = disk
      BY <1>1
    <2>3. ~harmed' /\ ~commit.renumbered => \A i \in DOMAIN commit.seen : commit.seen[i] = Now[i]
      BY <1>5, <2>2 DEF Stored, LeftOK
    <2> HIDE DEF line, commit
    <2>4. /\ Len(history') = Len(history) + 1 /\ history'[Len(history) + 1] = commit
          /\ \A n \in 1..Len(history) : history'[n] = history[n]
          /\ wal' # <<>> /\ Last(wal') = line
      BY <2>1, Grows
    <2>5. DOMAIN commit.seen \subseteq Ids /\ DOMAIN commit.after = ToSet(line.ids)
      BY <2>1 DEF Commit, Partly, Describes
    <2>6. /\ CommitsSerialize'
          /\ \A i \in Ids \ DOMAIN commit.after : Now'[i] = Now[i]
      <3>1. LogTyped /\ LogTyped' /\ CommitsSerialize /\ (harmed => harmed')
        BY <1>1 DEF Sound, Stored
      <3>2. QED
        BY <2>3, <2>4, <2>5, <3>1, SerialGrows
    <2>7. ToSet(line.ids) \subseteq Behind'
      <3>1. line.base \in Nat /\ checkpoint'.sequence <= line.base
        BY <1>1, <2>1 DEF Sound, StoreTyped, Meta
      <3>2. ToSet(Last(wal).ids)' \subseteq (UNION {ToSet(Pending[n].ids) : n \in 1..Len(Pending)})'
        BY <2>4, <3>1, NextLastPending
      <3>3. QED
        BY <1>1, <2>4, <3>2 DEF Behind
    <2>8. Behind = {}
      BY <2>1 DEF Behind
    <2>9. RecordsOK'
      BY <1>3, <2>2, <2>5, <2>6, <2>7, <2>8 DEF Stored, RecordsOK
    <2>10. QED
      BY <1>2, <2>6, <2>9 DEF Stored
  <1>6. QED
    BY <1>4, <1>5

LEMMA StoredOpen ==
  ASSUME Sound, Sound', Stored, Open
  PROVE  Stored'
  <1>1. /\ ~up /\ up' /\ disk' = Recovered
        /\ UNCHANGED <<cache, hot, refusing, job, tx, history, harmed>>
    BY DEF Open
  <1>2. /\ job = Idle /\ cache = <<>> /\ ~refusing /\ \A i \in Ids : hot[i] = None
        /\ \A t \in Txns : tx[t].phase \notin InFlight
    BY <1>1 DEF Sound, JobOK
  <1>3. disk' \in [Ids -> Entries] /\ \A i \in Ids : disk'[i].version <= stored'
    BY OpenIs
  <1>4. job' = Idle /\ job'.stage = "idle" /\ DOMAIN job'.dirty = {}
    BY <1>1, <1>2, IdleIs
  <1>5. \A i \in Ids : Current(i)' = disk'[i]
    BY <1>4 DEF Current
  <1>6. IndexOK'
    <2>1. Fresh(cache)'
      <3>1. DOMAIN cache' = {}
        BY <1>1, <1>2
      <3>2. QED
        BY <3>1 DEF Fresh
    <2>2. \A i \in Ids : hot'[i] \in {None, Current(i)'.value} /\ Current(i)'.version <= stored'
      BY <1>1, <1>2, <1>3, <1>5
    <2>3. \A t \in Txns : ~Working(t)'
      BY <1>1, <1>2 DEF Working, InFlight
    <2>4. QED
      BY <2>1, <2>2, <2>3 DEF IndexOK
  <1>7. CommitsSerialize'
    BY <1>1, SerialFrame DEF Sound, Stored
  <1>8. RecordsOK'
    <2>1. \A i \in Ids : Now'[i] = Now[i]
      BY <1>1, SameNow
    <2>2. ~harmed => \A i \in Ids : Recovered[i].value = Now[i]
      BY RecoveryFromRecords DEF Stored
    <2>3. QED
      BY <1>1, <1>4, <2>1, <2>2 DEF RecordsOK
  <1>9. LeftOK'
    <2>1. ~Left
      BY <1>1 DEF Sound, LogOK
    <2>2. tail' = tail \/ tail' = Clean
      BY OpenIs
    <2>3. QED
      BY <2>1, <2>2 DEF LeftOK, Left, Clean
  <1>10. QED
    BY <1>6, <1>7, <1>8, <1>9 DEF Stored

LEMMA StoredSame ==
  ASSUME Sound, Sound', Stored,
         UNCHANGED <<disk, cache, hot, stored, wal, tail, checkpoint, meta, refusing, up, job, tx, history, harmed>>
  PROVE  Stored'
  <1>1. \A i \in Ids : Current(i)' = Current(i)
    BY CurrentFrame
  <1>2. IndexOK'
    <2>1. up /\ ~refusing /\ ~harmed => Fresh(cache) /\ \A i \in Ids : hot[i] \in {None, Current(i).value}
      BY DEF Stored, IndexOK
    <2>2. \A t \in Txns : tx'[t].phase \in {"work", "queued"} => Working(t) /\ tx'[t] = tx[t]
      BY DEF Working
    <2>3. meta'.version \in Nat /\ TxnsTyped' /\ IndexOK
      BY DEF Sound, StoreTyped, Meta, Stored
    <2>4. QED
      BY <1>1, <2>1, <2>2, <2>3, IndexFrame
  <1>3. CommitsSerialize' /\ LeftOK'
    BY SerialFrame, LeftFrame DEF Sound, Stored
  <1>4. RecordsOK'
    <2>1. Pending' = Pending
      BY DEF Pending
    <2>2. Behind' = Behind
      BY <2>1 DEF Behind, Unapplied
    <2>3. \A i \in Ids : Now'[i] = Now[i]
      BY SameNow
    <2>4. QED
      BY <1>1, <2>2, <2>3 DEF Stored, RecordsOK
  <1>5. QED
    BY <1>2, <1>3, <1>4 DEF Stored

LEMMA StoredAtFirst == Init => Stored
  <1> SUFFICES ASSUME Init PROVE Stored
    OBVIOUS
  <1>1. /\ disk = Empty /\ cache = <<>> /\ stored = 0 /\ job = Idle /\ history = <<>> /\ tail = Clean
        /\ refusing = FALSE /\ up = TRUE /\ tx = [t \in Txns |-> New] /\ \A i \in Ids : hot[i] = None
    BY DEF Init
  <1>2. Sound
    BY SoundAtFirst
  <1>3. job.stage = "idle" /\ DOMAIN job.dirty = {}
    BY <1>1, IdleIs
  <1>4. \A i \in Ids : Current(i) = disk[i] /\ disk[i].value = None /\ disk[i].version = 0
    BY <1>1, <1>3 DEF Current, Empty, NoEntry
  <1>5. IndexOK
    <2>1. Fresh(cache)
      <3>1. DOMAIN cache = {}
        BY <1>1
      <3>2. QED
        BY <3>1 DEF Fresh
    <2>2. \A t \in Txns : ~Working(t)
      BY <1>1, NewIs DEF Working
    <2>3. QED
      BY <1>1, <1>4, <2>1, <2>2 DEF IndexOK
  <1>6. Len(history) = 0
    BY <1>1
  <1>7. CommitsSerialize
    <2>1. 1..0 = {}
      OBVIOUS
    <2>2. QED
      BY <1>6, <2>1 DEF CommitsSerialize, SerializableCommits
  <1>8. RecordsOK
    <2>1. \A i \in Ids : Outcome(history, i, 0) = None
      <3>1. \A m : m \notin 1..0
        OBVIOUS
      <3>2. QED
        BY <3>1 DEF Outcome
    <2>2. \A i \in Ids : Now[i] = None
      BY <1>6, <2>1, StateIs
    <2>3. QED
      BY <1>3, <1>4, <2>2 DEF RecordsOK
  <1>9. LeftOK
    BY <1>1 DEF LeftOK, Left, Clean
  <1>10. QED
    BY <1>5, <1>7, <1>8, <1>9 DEF Stored

LEMMA StoredStep == Sound /\ Stored /\ [Next]_vars => Stored'
  <1> SUFFICES ASSUME Sound, Stored, [Next]_vars PROVE Stored'
    OBVIOUS
  <1>0. Sound'
    BY SoundStep
  <1>1. CASE UNCHANGED vars \/ RequestCheckpoint
    <2>1. UNCHANGED <<disk, cache, hot, stored, wal, tail, checkpoint, meta, refusing, up, job, tx, history, harmed>>
      BY <1>1 DEF vars, RequestCheckpoint, storeVars, logVars
    <2>2. QED
      BY <1>0, <2>1, StoredSame
  <1>2. CASE Next /\ ~RequestCheckpoint
    <2>1. CASE \E t \in Txns : \/ Access(t) \/ ScanAll(t) \/ AccessFails(t) \/ Submit(t)
                     \/ Refuse(t) \/ Conflict(t) \/ Remember(t) \/ RememberFails(t)
                     \/ AppendCommit(t) \/ AppendFails(t)
                     \/ \E p \in Programs[t] : Begin(t, p)
      BY <1>0, <2>1, StoredAccess, StoredScanAll, StoredPhases, StoredConflict, StoredAppendCommit,
         StoredAppendFails, StoredBegin
    <2>2. CASE ApplyOp \/ (\E b \in ToSet(Buckets) : SaveBucket(b)) \/ Committed
      BY <1>0, <2>2, StoredApplyOp, StoredSaveBucket, StoredCommitted
    <2>3. CASE SaveMeta \/ SaveMetaFails \/ CompactLog \/ MoveAway \/ MoveIn
      BY <1>0, <2>3, StoredUpkeep, StoredMoveIn
    <2>4. CASE StoreFails \/ CheckpointFails \/ Crash \/ Open
      BY <1>0, <2>4, StoredStoreFails, StoredUpkeep, StoredCrash, StoredOpen
    <2>5. QED
      BY <1>2, <2>1, <2>2, <2>3, <2>4 DEF Next
  <1>3. QED
    BY <1>1, <1>2

\* The index and the hot records give the records of the commits.
LEMMA IndexIsHistory ==
  ASSUME Sound, Stored, up, job.stage # "apply", ~refusing, ~moved, ~harmed, NEW i \in Ids
  PROVE  Entry(cache, i).value = Now[i] /\ hot[i] \in {None, Now[i]}
  <1>1. Fresh(cache) /\ hot[i] \in {None, Current(i).value}
    BY DEF Stored, IndexOK
  <1>2. disk \in [Ids -> Entries] /\ Listing(cache) /\ DOMAIN job.dirty = {}
    BY DEF Sound, StoreTyped, JobTyped
  <1>3. Entry(cache, i) = Current(i) /\ Current(i) = disk[i]
    BY <1>1, <1>2, EntryFresh, CurrentIs DEF Readable
  <1>4. Behind = {}
    BY DEF Behind, Unapplied
  <1>5. disk[i].value = Now[i]
    BY <1>4 DEF Stored, RecordsOK
  <1>6. QED
    BY <1>1, <1>3, <1>5

LEMMA StoredIsHistory == Sound /\ Stored => HistorySurvives
  <1> SUFFICES ASSUME Sound, Stored PROVE HistorySurvives
    OBVIOUS
  <1>1. TypeOK /\ OpensAgain
    BY SoundIsTyped
  <1>2. StoreIsHistory
    BY IndexIsHistory DEF StoreIsHistory
  <1>3. RecoveryIsHistory
    BY RecoveryFromRecords DEF RecoveryIsHistory, Stored
  <1>4. QED
    BY <1>1, <1>2, <1>3 DEF HistorySurvives

\* However small the caches are, and whichever appends, saves and checkpoints fail or are torn,
\* the store, its caches, its log and its checkpoint describe one history, the commits, at every
\* moment and after every crash: until a bucket is read from its file without the entries a
\* batch has of it, or while the directory of the store is away.
THEOREM StoreKeepsHistory == Spec => []HistorySurvives
  <1>1. Init => Sound /\ Stored
    BY SoundAtFirst, StoredAtFirst
  <1>2. Sound /\ Stored /\ [Next]_vars => (Sound /\ Stored)'
    BY SoundStep, StoredStep
  <1>3. Sound /\ Stored => HistorySurvives
    BY StoredIsHistory
  <1>4. QED
    BY <1>1, <1>2, <1>3, PTL DEF Spec

\* Until such a read, every committed transaction saw what the commits before its own had left,
\* although its work ran while others committed, and although a commit whose append failed may
\* come back with the next open.
THEOREM CommitsAreSerial == Spec => []CommitsSerialize
  <1>1. Init => Sound /\ Stored
    BY SoundAtFirst, StoredAtFirst
  <1>2. Sound /\ Stored /\ [Next]_vars => (Sound /\ Stored)'
    BY SoundStep, StoredStep
  <1>3. Sound /\ Stored => CommitsSerialize
    BY DEF Stored
  <1>4. QED
    BY <1>1, <1>2, <1>3, PTL DEF Spec
=============================================================================
