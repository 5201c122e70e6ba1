-------------------------- MODULE ReplicationProofs --------------------------
(***************************************************************************)
(* Proofs about Replication: what its replicas and its watching client     *)
(* have of the server's history, for any keys, records, replicas, bounds,  *)
(* retention and batch size.                                               *)
(***************************************************************************)
EXTENDS Replication, FiniteSetTheorems, TLAPS

-----------------------------------------------------------------------------
\* The inductive invariant.

\* The writes of record k up to change n that no later removal took back.
Live(L, n, k) ==
  {i \in 1..n : L[i].key = k /\ \A j \in i..n : L[j].key = k => L[j].record # NoRecord}

\* The first record gives way to the second: change i to change j.
GivesWay(L, i, j) ==
  \/ UpdatedAt[L[i].record] < UpdatedAt[L[j].record]
  \/ UpdatedAt[L[i].record] = UpdatedAt[L[j].record] /\ i <= j

\* What the first n changes make of record k, and of all of them.
Stands(L, n, k, v) ==
  IF Live(L, n, k) = {} THEN v = NoRecord
  ELSE \E i \in Live(L, n, k) : v = L[i].record /\ \A j \in Live(L, n, k) : GivesWay(L, j, i)

DocsAt(L, n, d) == d \in [Keys -> Records] /\ \A k \in Keys : Stands(L, n, k, d[k])

\* Two changes of one id are so far apart that the server has dropped the first.
Apart == \A i, j \in DOMAIN log : i < j /\ log[i].id = log[j].id => j - i > Retention

\* The server's own changes are numbered.
Counted ==
  /\ writes \in Nat /\ queued \in Nat
  /\ \A i \in DOMAIN log : log[i].id[1] = "server" => log[i].id[2] < writes

Server ==
  /\ docs \in [Keys -> Records] /\ log \in Seq(Events)
  /\ ~Skew => DocsAt(log, Len(log), docs)

\* The changes from a + 1 to b.
Stretch(a, b) == [i \in 1..(b - a) |-> log[a + i]]

\* Where the retained changes of a replica begin that has taken those of b + 1 to m.
Start(b, m) == IF m - b > Retention THEN m - Retention ELSE b

\* A replica that was seeded at b is at m; what it is answered goes on from where
\* it is, or from a change it retains.
AnswerOK(b, m, answer) ==
  \/ answer = None
  \/ \E p \in Start(b, m)..m, n \in 0..Len(log) :
       p <= n /\ answer = [events |-> Stretch(p, n), next |-> n]
  \/ \E n \in 1..Len(log), d \in [Keys -> Records] :
       /\ answer = [docs |-> d, next |-> n]
       /\ Len(log) > Retention /\ (~Skew => DocsAt(log, n, d))

PlaceOK(r, b, m) ==
  /\ b <= m /\ (b > 0 => Len(log) > Retention)
  /\ replica[r] = [docs |-> replica[r].docs, recent |-> replica[r].recent]
  /\ replica[r].docs \in [Keys -> Records]
  /\ replica[r].recent = [i \in 1..(m - Start(b, m)) |-> log[Start(b, m) + i].id]
  /\ ~Skew => DocsAt(log, m, replica[r].docs)
  /\ cursor[r] \in 0..Len(log) /\ (Resumable(cursor[r]) => cursor[r] \in b..m)
  /\ AnswerOK(b, m, response[r])

FollowOK(r) == \E m \in 0..Len(log), b \in 0..Len(log) : PlaceOK(r, b, m)

\* Replicas push changes of their own.
Pushed == {e \in Events : e.id[1] = "client"}

Shape ==
  /\ DOMAIN replica = Replicas /\ DOMAIN cursor = Replicas /\ DOMAIN response = Replicas
  /\ queue \in [Replicas -> Seq(Pushed)]

\* What is under way to the client is in order and after its position, and holds
\* the watched changes up to its last, or up to the present.
WireOK(w) ==
  /\ w \in Seq(Nat)
  /\ \A i \in DOMAIN w : w[i] \in position + 1 .. Len(log) /\ log[w[i]].key \in Watched
  /\ \A i, j \in DOMAIN w : i < j => w[i] < w[j]
  /\ \A n \in position + 1 .. Len(log) :
       log[n].key \in Watched /\ (stream.open \/ \E i \in DOMAIN w : n <= w[i])
         => \E i \in DOMAIN w : w[i] = n

StreamOK ==
  /\ stream = [status |-> stream.status, open |-> stream.open, wire |-> stream.wire]
  /\ stream.status \in {"idle", "reading", "refused"} /\ stream.open \in BOOLEAN
  /\ stream.status # "reading" => stream = [Idle EXCEPT !.status = stream.status]
  /\ position \in 0..Len(log) /\ seen \in Seq(Nat)
  /\ WireOK(stream.wire) /\ StreamComplete

Inductive ==
  Server /\ Apart /\ Counted /\ Shape /\ StreamOK /\ \A r \in Replicas : FollowOK(r)

-----------------------------------------------------------------------------
\* Sequences.

LEMMA AppendIs ==
  ASSUME NEW D, NEW s \in Seq(D), NEW x \in D
  PROVE  /\ Append(s, x) \in Seq(D) /\ Len(s) \in Nat /\ Len(Append(s, x)) = Len(s) + 1
         /\ \A i \in 1..Len(s) : Append(s, x)[i] = s[i]
         /\ Append(s, x)[Len(s) + 1] = x
  OBVIOUS

LEMMA HeadTail ==
  ASSUME NEW D, NEW s \in Seq(D), s # <<>>
  PROVE  /\ Head(s) = s[1] /\ Head(s) \in D /\ Tail(s) \in Seq(D)
         /\ Len(s) \in Nat \ {0} /\ Len(Tail(s)) = Len(s) - 1
         /\ \A i \in 1..Len(Tail(s)) : Tail(s)[i] = s[i + 1]
  OBVIOUS

LEMMA FormIs ==
  ASSUME NEW D, NEW n \in Nat, NEW f, f = [i \in 1..n |-> f[i]], \A i \in 1..n : f[i] \in D
  PROVE  f \in Seq(D) /\ Len(f) = n
  OBVIOUS

LEMMA SameSequence ==
  ASSUME NEW D, NEW s \in Seq(D), NEW t \in Seq(D), Len(s) = Len(t),
         \A i \in 1..Len(s) : s[i] = t[i]
  PROVE  s = t
  OBVIOUS

-----------------------------------------------------------------------------
\* The changes after a cursor.

Upto(S, i) == {j \in S : j <= i}
InTurn(S) == [n \in 1..Cardinality(S) |-> CHOOSE i \in S : Cardinality(Upto(S, i)) = n]

\* A set of numbers in order has each of them, at the place of its rank.
LEMMA InTurnIs ==
  ASSUME NEW N \in Nat, NEW S \in SUBSET (1..N)
  PROVE  /\ InTurn(S) \in Seq(Nat)
         /\ \A n \in DOMAIN InTurn(S) : InTurn(S)[n] \in S
         /\ \A i \in S : \E n \in DOMAIN InTurn(S) : InTurn(S)[n] = i
         /\ \A m, n \in DOMAIN InTurn(S) : m < n => InTurn(S)[m] < InTurn(S)[n]
  <1> DEFINE rank(i) == Cardinality(Upto(S, i))
             K == Cardinality(S)
             f == [i \in S |-> rank(i)]
  <1>1. IsFiniteSet(S) /\ K \in Nat /\ \A i \in S : i \in Nat
    <2>1. IsFiniteSet(1..N)
      BY FS_Interval
    <2>2. IsFiniteSet(S)
      BY <2>1, FS_Subset
    <2>3. QED
      BY <2>2, FS_CardinalityType
  <1>2. \A i \in S : IsFiniteSet(Upto(S, i)) /\ rank(i) \in 1..K
    <2> SUFFICES ASSUME NEW i \in S PROVE IsFiniteSet(Upto(S, i)) /\ rank(i) \in 1..K
      OBVIOUS
    <2>1. Upto(S, i) \in SUBSET S /\ i \in Upto(S, i)
      BY <1>1 DEF Upto
    <2>2. IsFiniteSet(Upto(S, i)) /\ rank(i) <= K
      BY <1>1, <2>1, FS_Subset
    <2>3. rank(i) \in Nat /\ rank(i) # 0
      BY <2>1, <2>2, FS_CardinalityType, FS_EmptySet
    <2>4. QED
      BY <1>1, <2>2, <2>3
  <1>3. \A i, j \in S : i < j => rank(i) < rank(j)
    <2> SUFFICES ASSUME NEW i \in S, NEW j \in S, i < j PROVE rank(i) < rank(j)
      OBVIOUS
    <2>1. Upto(S, i) \in SUBSET Upto(S, j) /\ j \in Upto(S, j) /\ j \notin Upto(S, i)
      <3>1. i \in Nat /\ j \in Nat /\ i < j /\ \A x \in S : x \in Nat
        BY <1>1
      <3>2. (\A x \in S : x <= i => x <= j) /\ j <= j /\ ~(j <= i)
        BY <3>1
      <3>3. QED
        BY <3>2 DEF Upto
    <2>2. rank(i) <= rank(j) /\ rank(i) # rank(j)
      BY <1>2, <2>1, FS_Subset
    <2>3. rank(i) \in Nat /\ rank(j) \in Nat
      BY <1>2
    <2>4. QED
      BY <2>2, <2>3
  <1>4. \A i, j \in S : rank(i) = rank(j) => i = j
    BY <1>1, <1>2, <1>3
  <1>5. f \in Injection(S, 1..K)
    <2>1. f \in [S -> 1..K]
      BY <1>2
    <2>2. \A i, j \in S : f[i] = f[j] => i = j
      BY <1>4
    <2> HIDE DEF f
    <2>3. QED
      BY <2>1, <2>2 DEF Injection, IsInjective
  <1>6. IsFiniteSet(1..K) /\ Cardinality(1..K) = K
    BY <1>1, FS_Interval
  <1>7. f \in Surjection(S, 1..K)
    <2> HIDE DEF f
    <2>1. QED
      BY <1>1, <1>5, <1>6, FS_Injection
  <1>8. \A n \in 1..K : \E i \in S : rank(i) = n
    BY <1>7 DEF Surjection
  <1>9. \A n \in 1..K : InTurn(S)[n] \in S /\ rank(InTurn(S)[n]) = n
    <2> SUFFICES ASSUME NEW n \in 1..K PROVE InTurn(S)[n] \in S /\ rank(InTurn(S)[n]) = n
      OBVIOUS
    <2>1. InTurn(S)[n] = CHOOSE i \in S : rank(i) = n
      BY DEF InTurn
    <2> HIDE DEF rank
    <2>2. QED
      BY <1>8, <2>1
  <1>10. DOMAIN InTurn(S) = 1..K /\ InTurn(S) \in Seq(Nat)
    <2>1. InTurn(S) = [n \in 1..K |-> InTurn(S)[n]]
      BY DEF InTurn
    <2>2. \A n \in 1..K : InTurn(S)[n] \in Nat
      BY <1>1, <1>9
    <2> HIDE DEF K
    <2>3. QED
      BY <1>1, <2>1, <2>2
  <1>11. ASSUME NEW i \in S PROVE \E n \in DOMAIN InTurn(S) : InTurn(S)[n] = i
    <2>1. rank(i) \in 1..K
      BY <1>2
    <2>2. InTurn(S)[rank(i)] \in S /\ rank(InTurn(S)[rank(i)]) = rank(i)
      BY <1>9, <2>1
    <2>3. InTurn(S)[rank(i)] = i
      BY <1>4, <2>2
    <2>4. QED
      BY <1>10, <2>1, <2>3
  <1>12. ASSUME NEW m \in 1..K, NEW n \in 1..K, m < n PROVE InTurn(S)[m] < InTurn(S)[n]
    <2> DEFINE x == InTurn(S)[m]
               y == InTurn(S)[n]
    <2>1. x \in S /\ y \in S /\ rank(x) = m /\ rank(y) = n
      BY <1>9
    <2> HIDE DEF x, y, rank, K
    <2>2. x \in Nat /\ y \in Nat /\ m \in Nat /\ n \in Nat /\ ~(n <= m)
      BY <1>1, <1>12, <2>1
    <2>3. ~(y < x) /\ x # y
      BY <1>3, <2>1, <2>2
    <2>4. x < y
      BY <2>2, <2>3
    <2>5. QED
      BY <2>4 DEF x, y
  <1>13. QED
    BY <1>9, <1>10, <1>11, <1>12

\* A stretch of numbers in order.
LEMMA StretchInTurn ==
  ASSUME NEW c \in Nat, NEW N \in Nat, c <= N
  PROVE  InTurn(c + 1 .. N) = [i \in 1..(N - c) |-> c + i]
  <1> DEFINE S == c + 1 .. N
  <1>1. Cardinality(S) = N - c
    <2>1. c + 1 \in Int /\ N \in Int
      OBVIOUS
    <2>2. Cardinality(S) = IF c + 1 > N THEN 0 ELSE N - (c + 1) + 1
      BY <2>1, FS_Interval
    <2>3. QED
      BY <2>2
  <1>2. ASSUME NEW i \in S PROVE Cardinality(Upto(S, i)) = i - c
    <2>1. Upto(S, i) = c + 1 .. i
      BY DEF Upto
    <2>2. QED
      BY <2>1, FS_Interval
  <1>3. ASSUME NEW n \in 1..(N - c) PROVE (CHOOSE i \in S : Cardinality(Upto(S, i)) = n) = c + n
    <2>1. c + n \in S /\ Cardinality(Upto(S, c + n)) = n
      BY <1>2
    <2>2. \A i \in S : Cardinality(Upto(S, i)) = n => i = c + n
      BY <1>2
    <2> HIDE DEF S
    <2>3. QED
      BY <2>1, <2>2
  <1>4. QED
    BY <1>1, <1>3 DEF InTurn

Found(c, keys) == {i \in OldestRetained..Len(log) : i > c /\ log[i].key \in keys}

LEMMA SinceInTurn ==
  ASSUME NEW c, NEW keys PROVE ChangesSince(c, keys) = InTurn(Found(c, keys))
  BY DEF ChangesSince, InTurn, Found, Upto

\* The oldest retained change.
LEMMA Oldest ==
  ASSUME NEW D, NEW s \in Seq(D)
  PROVE  /\ Newest(s) \in Seq(D)
         /\ Len(Newest(s)) = IF Len(s) <= Retention THEN Len(s) ELSE Retention
         /\ \A i \in 1..Len(Newest(s)) : Newest(s)[i] = s[Len(s) - Len(Newest(s)) + i]
  <1>1. Len(s) \in Nat /\ Retention \in Nat \ {0}
    BY ReplicationAssumption
  <1>2. CASE Len(s) <= Retention
    BY <1>1, <1>2 DEF Newest
  <1>3. CASE ~(Len(s) <= Retention)
    <2>1. Newest(s) = SubSeq(s, Len(s) - Retention + 1, Len(s))
      BY <1>3 DEF Newest
    <2>2. SubSeq(s, Len(s) - Retention + 1, Len(s)) = [i \in 1..Retention |-> s[Len(s) - Retention + i]]
      BY <1>1, <1>3
    <2>3. \A i \in 1..Retention : s[Len(s) - Retention + i] \in D
      BY <1>1, <1>3
    <2>4. QED
      BY <1>1, <1>3, <2>1, <2>2, <2>3
  <1>4. QED
    BY <1>2, <1>3

LEMMA OldestIs ==
  ASSUME log \in Seq(Events)
  PROVE  /\ OldestRetained \in Nat \ {0} /\ Len(log) \in Nat /\ Retention \in Nat \ {0}
         /\ OldestRetained = IF Len(log) <= Retention THEN 1 ELSE Len(log) - Retention + 1
  <1>1. Len(log) \in Nat /\ Retention \in Nat \ {0}
    BY ReplicationAssumption
  <1>2. Len(Newest(log)) = IF Len(log) <= Retention THEN Len(log) ELSE Retention
    BY Oldest
  <1>3. QED
    BY <1>1, <1>2 DEF OldestRetained

\* What a resumable cursor has to be told.
LEMMA SinceIs ==
  ASSUME log \in Seq(Events), NEW c \in Nat, Resumable(c), NEW keys
  PROVE  /\ Found(c, keys) = {i \in c + 1 .. Len(log) : log[i].key \in keys}
         /\ Found(c, keys) \in SUBSET (1..Len(log))
  BY OldestIs DEF Resumable, Found

LEMMA AllSince ==
  ASSUME log \in Seq(Events), NEW c \in Nat, Resumable(c)
  PROVE  ChangesSince(c, Keys) = [i \in 1..(Len(log) - c) |-> c + i]
  <1>1. \A i \in 1..Len(log) : log[i].key \in Keys
    <2>1. \A i \in 1..Len(log) : log[i] \in Events
      OBVIOUS
    <2>2. QED
      BY <2>1 DEF Events
  <1>2. c <= Len(log) /\ Len(log) \in Nat
    BY DEF Resumable
  <1>3. Found(c, Keys) = c + 1 .. Len(log)
    BY <1>1, <1>2, SinceIs
  <1>4. QED
    BY <1>2, <1>3, SinceInTurn, StretchInTurn

-----------------------------------------------------------------------------
\* What the changes make of the records.

LEMMA LiveIs ==
  ASSUME NEW L \in Seq(Events), NEW n \in 0..Len(L), NEW k, NEW i \in Live(L, n, k)
  PROVE  /\ i \in 1..n /\ i \in Nat /\ L[i] \in Events /\ L[i].key = k
         /\ L[i].record \in Vals /\ L[i].record # NoRecord /\ UpdatedAt[L[i].record] \in Nat
  <1>1. i \in 1..n /\ i \in i..n /\ i \in 1..Len(L) /\ i \in Nat
    BY DEF Live
  <1>2. L[i].key = k /\ L[i].record # NoRecord
    BY <1>1 DEF Live
  <1>3. L[i] \in Events
    BY <1>1
  <1>4. L[i].record \in Vals
    BY <1>2, <1>3 DEF Events, Records
  <1>5. UpdatedAt[L[i].record] \in Nat
    BY <1>4, ReplicationAssumption
  <1>6. QED
    BY <1>1, <1>2, <1>3, <1>4, <1>5

\* They make one thing of each record.
LEMMA StandsOnce ==
  ASSUME NEW L \in Seq(Events), NEW n \in 0..Len(L), NEW k, NEW v, NEW w,
         Stands(L, n, k, v), Stands(L, n, k, w)
  PROVE  v = w
  <1>1. CASE Live(L, n, k) = {}
    BY <1>1 DEF Stands
  <1>2. CASE Live(L, n, k) # {}
    <2>1. PICK i \in Live(L, n, k) : v = L[i].record /\ \A j \in Live(L, n, k) : GivesWay(L, j, i)
      BY <1>2 DEF Stands
    <2>2. PICK h \in Live(L, n, k) : w = L[h].record /\ \A j \in Live(L, n, k) : GivesWay(L, j, h)
      BY <1>2 DEF Stands
    <2>3. GivesWay(L, h, i) /\ GivesWay(L, i, h)
      BY <2>1, <2>2
    <2>4. /\ i \in Nat /\ UpdatedAt[L[i].record] \in Nat
          /\ h \in Nat /\ UpdatedAt[L[h].record] \in Nat
      BY LiveIs
    <2>5. i = h
      BY <2>3, <2>4 DEF GivesWay
    <2>6. QED
      BY <2>1, <2>2, <2>5
  <1>3. QED
    BY <1>1, <1>2

LEMMA DocsOnce ==
  ASSUME NEW L \in Seq(Events), NEW n \in 0..Len(L), NEW d, NEW e, DocsAt(L, n, d), DocsAt(L, n, e)
  PROVE  d = e
  <1>1. \A k \in Keys : d[k] = e[k]
    BY StandsOnce DEF DocsAt
  <1>2. d \in [Keys -> Records] /\ e \in [Keys -> Records]
    BY DEF DocsAt
  <1>3. QED
    BY <1>1, <1>2

\* A later history says the same of the changes it goes on from.
LEMMA DocsLater ==
  ASSUME NEW L \in Seq(Events), NEW M \in Seq(Events), NEW n \in 0..Len(L), Len(L) <= Len(M),
         \A i \in 1..Len(L) : M[i] = L[i], NEW d, DocsAt(L, n, d)
  PROVE  DocsAt(M, n, d)
  <1> SUFFICES ASSUME NEW k \in Keys PROVE Stands(M, n, k, d[k])
    BY DEF DocsAt
  <1>1. n \in Nat /\ \A i \in 1..n : i \in 1..Len(L) /\ M[i] = L[i] /\ i..n \in SUBSET (1..n)
    OBVIOUS
  <1>2. ASSUME NEW i \in 1..n PROVE i \in Live(M, n, k) <=> i \in Live(L, n, k)
    <2>1. M[i] = L[i] /\ \A j \in i..n : M[j] = L[j]
      BY <1>1
    <2>2. QED
      BY <2>1 DEF Live
  <1>3. Live(L, n, k) \in SUBSET (1..n) /\ Live(M, n, k) \in SUBSET (1..n)
    BY DEF Live
  <1>4. Live(M, n, k) = Live(L, n, k)
    BY <1>2, <1>3
  <1>5. Stands(L, n, k, d[k])
    BY DEF DocsAt
  <1>6. CASE Live(L, n, k) = {}
    BY <1>4, <1>5, <1>6 DEF Stands
  <1>7. CASE Live(L, n, k) # {}
    <2>1. PICK i \in Live(L, n, k) : d[k] = L[i].record /\ \A j \in Live(L, n, k) : GivesWay(L, j, i)
      BY <1>5, <1>7 DEF Stands
    <2>2. M[i] = L[i] /\ \A j \in Live(L, n, k) : M[j] = L[j]
      BY <1>1, <1>3
    <2>3. \A j \in Live(L, n, k) : GivesWay(M, j, i)
      BY <2>1, <2>2 DEF GivesWay
    <2>4. QED
      BY <1>4, <1>7, <2>1, <2>2, <2>3 DEF Stands
  <1>8. QED
    BY <1>6, <1>7

\* One change more: the record it is about is resolved with it.
LEMMA StandsNext ==
  ASSUME NEW L \in Seq(Events), NEW n \in Nat, n < Len(L), NEW k, NEW v, Stands(L, n, k, v)
  PROVE  Stands(L, n + 1, k, IF L[n + 1].key = k THEN Resolve(v, L[n + 1].record) ELSE v)
  <1> DEFINE e == L[n + 1]
             A == Live(L, n, k)
             B == Live(L, n + 1, k)
  <1>1. /\ n + 1 \in 1..Len(L) /\ n \in 0..Len(L) /\ n + 1 \in 0..Len(L) /\ 1..(n + 1) = 1..n \cup {n + 1}
        /\ \A i \in 1..n : i..(n + 1) = i..n \cup {n + 1}
        /\ n + 1 .. n + 1 = {n + 1} /\ n + 1 \notin 1..n
    OBVIOUS
  <1>2. e \in Events /\ e.record \in Records
    <2>1. e \in Events
      BY <1>1
    <2>2. QED
      BY <2>1 DEF Events
  <1>3. A \in SUBSET (1..n) /\ B \in SUBSET (1..(n + 1))
    BY DEF Live
  <1>4. ASSUME NEW i \in 1..n PROVE i \in B <=> i \in A /\ (e.key = k => e.record # NoRecord)
    <2>1. i \in 1..(n + 1) /\ i..(n + 1) = i..n \cup {n + 1}
      BY <1>1
    <2>2. QED
      BY <2>1 DEF Live
  <1>5. n + 1 \in B <=> e.key = k /\ e.record # NoRecord
    BY <1>1 DEF Live
  <1>6. CASE e.key # k
    <2>1. B = A
      BY <1>1, <1>3, <1>4, <1>5, <1>6
    <2>2. QED
      BY <1>6, <2>1 DEF Stands
  <1>7. CASE e.key = k /\ e.record = NoRecord
    <2>1. B = {}
      BY <1>1, <1>3, <1>4, <1>5, <1>7
    <2>2. QED
      BY <1>7, <2>1 DEF Stands, Resolve
  <1>8. CASE e.key = k /\ e.record # NoRecord
    <2>1. B = A \cup {n + 1}
      BY <1>1, <1>3, <1>4, <1>5, <1>8
    <2>2. /\ e.record \in Vals /\ UpdatedAt[e.record] \in Nat
          /\ GivesWay(L, n + 1, n + 1)
      BY <1>2, <1>8, ReplicationAssumption DEF Records, GivesWay
    <2>3. CASE A = {}
      <3>1. v = NoRecord /\ Resolve(v, e.record) = e.record
        BY <2>3 DEF Stands, Resolve
      <3>2. B = {n + 1}
        BY <2>1, <2>3
      <3>3. n + 1 \in B /\ e.record = L[n + 1].record /\ \A j \in B : GivesWay(L, j, n + 1)
        BY <2>2, <3>2
      <3>4. Stands(L, n + 1, k, e.record)
        BY <3>3 DEF Stands
      <3>5. QED
        BY <1>8, <3>1, <3>4
    <2>4. CASE A # {}
      <3>1. PICK i \in A : v = L[i].record /\ \A j \in A : GivesWay(L, j, i)
        BY <2>4 DEF Stands
      <3>2. \A j \in A : j \in 1..n /\ j \in Nat /\ UpdatedAt[L[j].record] \in Nat /\ L[j].record # NoRecord
        BY <1>1, LiveIs
      <3>3. CASE UpdatedAt[v] > UpdatedAt[e.record]
        <4>1. Resolve(v, e.record) = v
          BY <1>8, <3>1, <3>2, <3>3 DEF Resolve
        <4>2. GivesWay(L, n + 1, i)
          BY <2>2, <3>1, <3>2, <3>3 DEF GivesWay
        <4>3. i \in B /\ v = L[i].record /\ \A j \in B : GivesWay(L, j, i)
          BY <2>1, <3>1, <4>2
        <4>4. Stands(L, n + 1, k, v)
          BY <4>3 DEF Stands
        <4>5. QED
          BY <1>8, <4>1, <4>4
      <3>4. CASE ~(UpdatedAt[v] > UpdatedAt[e.record])
        <4>1. Resolve(v, e.record) = e.record
          BY <3>4 DEF Resolve
        <4>2. ASSUME NEW j \in A PROVE GivesWay(L, j, n + 1)
          <5>1. GivesWay(L, j, i) /\ i \in Nat /\ j \in Nat /\ j <= n + 1 /\ i <= n + 1
            BY <3>1, <3>2
          <5>2. UpdatedAt[L[j].record] \in Nat /\ UpdatedAt[L[i].record] \in Nat /\ UpdatedAt[e.record] \in Nat
            BY <2>2, <3>1, <3>2
          <5>3. UpdatedAt[L[j].record] <= UpdatedAt[L[i].record] /\ UpdatedAt[L[i].record] <= UpdatedAt[e.record]
            BY <3>1, <3>4, <5>1, <5>2 DEF GivesWay
          <5>4. QED
            BY <5>1, <5>2, <5>3 DEF GivesWay
        <4>3. n + 1 \in B /\ e.record = L[n + 1].record /\ \A j \in B : GivesWay(L, j, n + 1)
          BY <2>1, <2>2, <4>2
        <4>4. Stands(L, n + 1, k, e.record)
          BY <4>3 DEF Stands
        <4>5. QED
          BY <1>8, <4>1, <4>4
      <3>5. QED
        BY <3>3, <3>4
    <2>5. QED
      BY <2>3, <2>4
  <1>9. QED
    BY <1>6, <1>7, <1>8

LEMMA ResolveType ==
  ASSUME NEW v \in Records, NEW w \in Records PROVE Resolve(v, w) \in Records
  BY DEF Resolve

LEMMA DocsNext ==
  ASSUME NEW L \in Seq(Events), NEW n \in Nat, n < Len(L), NEW d, DocsAt(L, n, d)
  PROVE  DocsAt(L, n + 1, [d EXCEPT ![L[n + 1].key] = Resolve(d[L[n + 1].key], L[n + 1].record)])
  <1> DEFINE e == L[n + 1]
             c == [d EXCEPT ![e.key] = Resolve(d[e.key], e.record)]
  <1>1. e \in Events /\ d \in [Keys -> Records]
    BY DEF DocsAt
  <1>2. e.key \in Keys /\ e.record \in Records
    BY <1>1 DEF Events
  <1>3. c \in [Keys -> Records]
    BY <1>1, <1>2, ResolveType
  <1>4. ASSUME NEW k \in Keys PROVE Stands(L, n + 1, k, c[k])
    <2>1. c[k] = IF e.key = k THEN Resolve(d[k], e.record) ELSE d[k]
      BY <1>1, <1>2
    <2>2. Stands(L, n, k, d[k])
      BY DEF DocsAt
    <2>3. QED
      BY <2>1, <2>2, StandsNext
  <1>5. QED
    BY <1>3, <1>4 DEF DocsAt

-----------------------------------------------------------------------------
\* The server's history grows.

Grows ==
  /\ log \in Seq(Events) /\ log' \in Seq(Events) /\ Len(log) <= Len(log')
  /\ \A i \in 1..Len(log) : log'[i] = log[i]

\* A change that may be logged: where clocks agree the record stored is the resolved one.
MayLog(id, key, record, stored) ==
  /\ id \in {"server", "client"} \X Nat /\ key \in Keys /\ record \in Records /\ stored \in Records
  /\ ~Skew => stored = Resolve(docs[key], record)

LEMMA CommitGrows ==
  ASSUME log \in Seq(Events), NEW id, NEW key, NEW record, NEW stored,
         MayLog(id, key, record, stored), Commit(id, key, record, stored)
  PROVE  /\ Grows /\ Len(log') = Len(log) + 1 /\ Len(log) \in Nat
         /\ log'[Len(log) + 1] = [id |-> id, key |-> key, record |-> record]
         /\ log'[Len(log) + 1].id = id /\ log'[Len(log) + 1].key = key
  <1>1. [id |-> id, key |-> key, record |-> record] \in Events
    BY DEF MayLog, Events
  <1>2. log' = Append(log, [id |-> id, key |-> key, record |-> record])
    BY DEF Commit
  <1>3. /\ Grows /\ Len(log') = Len(log) + 1 /\ Len(log) \in Nat
        /\ log'[Len(log) + 1] = [id |-> id, key |-> key, record |-> record]
    BY <1>1, <1>2 DEF Grows
  <1>4. QED
    BY <1>3

LEMMA CommitServer ==
  ASSUME Server, NEW id, NEW key, NEW record, NEW stored,
         MayLog(id, key, record, stored), Commit(id, key, record, stored)
  PROVE  Server'
  <1>1. /\ log \in Seq(Events) /\ log' \in Seq(Events) /\ Len(log) \in Nat /\ Len(log') = Len(log) + 1
        /\ \A i \in 1..Len(log) : log'[i] = log[i]
        /\ log'[Len(log) + 1] = [id |-> id, key |-> key, record |-> record]
    BY CommitGrows DEF Server, Grows
  <1>2. docs' = [docs EXCEPT ![key] = stored] /\ docs' \in [Keys -> Records]
    BY DEF Commit, MayLog, Server
  <1>3. ASSUME ~Skew PROVE DocsAt(log', Len(log'), docs')
    <2>1. DocsAt(log', Len(log), docs)
      BY <1>1, <1>3, DocsLater DEF Server
    <2>2. DocsAt(log', Len(log) + 1, [docs EXCEPT ![key] = Resolve(docs[key], record)])
      BY <1>1, <2>1, DocsNext
    <2>3. QED
      BY <1>1, <1>2, <1>3, <2>2 DEF MayLog
  <1>4. QED
    BY <1>1, <1>2, <1>3 DEF Server

\* It logs no id that is retained.
LEMMA CommitApart ==
  ASSUME log \in Seq(Events), Apart, NEW id, NEW key, NEW record, NEW stored,
         MayLog(id, key, record, stored), Commit(id, key, record, stored), ~Known(id)
  PROVE  Apart'
  <1>1. /\ log' \in Seq(Events) /\ Len(log) \in Nat /\ Len(log') = Len(log) + 1
        /\ \A i \in 1..Len(log) : log'[i] = log[i]
        /\ log'[Len(log) + 1].id = id
    BY CommitGrows DEF Grows
  <1> SUFFICES ASSUME NEW i \in 1..Len(log'), NEW j \in 1..Len(log'), i < j, log'[i].id = log'[j].id
               PROVE  j - i > Retention
    BY <1>1 DEF Apart
  <1>2. i \in 1..Len(log) /\ log'[i] = log[i]
    BY <1>1
  <1>3. CASE j \in 1..Len(log)
    BY <1>1, <1>2, <1>3 DEF Apart
  <1>4. CASE j = Len(log) + 1
    <2>1. log[i].id = id
      BY <1>1, <1>2, <1>4
    <2>2. i \notin OldestRetained..Len(log)
      BY <2>1 DEF Known
    <2>3. QED
      BY <1>1, <1>2, <1>4, <2>2, OldestIs
  <1>5. QED
    BY <1>1, <1>3, <1>4

\* What is sent to the client.
LEMMA CommitStream ==
  ASSUME log \in Seq(Events), StreamOK, NEW id, NEW key, NEW record, NEW stored,
         MayLog(id, key, record, stored), Commit(id, key, record, stored)
  PROVE  StreamOK'
  <1> DEFINE N == Len(log) + 1
  <1>1. /\ Len(log) \in Nat /\ Len(log') = N /\ log'[N].key = key
        /\ \A i \in 1..Len(log) : log'[i] = log[i]
    BY CommitGrows DEF Grows
  <1>2. position' = position /\ seen' = seen /\ stream' = Sent(key) /\ position \in 0..Len(log)
    BY DEF Commit, StreamOK
  <1>3. StreamComplete'
    <2>1. {i \in 1..position : log[i].key \in Watched} = {i \in 1..position : log'[i].key \in Watched}
      BY <1>1, <1>2
    <2>2. QED
      BY <1>2, <2>1 DEF StreamOK, StreamComplete
  <1>4. CASE stream.open /\ key \in Watched
    <2> DEFINE w == stream.wire
               v == Append(w, N)
    <2>1. stream' = [status |-> stream.status, open |-> TRUE, wire |-> v] /\ stream.status = "reading"
      BY <1>2, <1>4 DEF Sent, StreamOK, Idle
    <2>2. /\ w \in Seq(Nat) /\ v \in Seq(Nat) /\ Len(v) = Len(w) + 1 /\ Len(w) \in Nat
          /\ v[Len(w) + 1] = N /\ \A i \in 1..Len(w) : v[i] = w[i]
      BY <1>1 DEF StreamOK, WireOK
    <2>3. ASSUME NEW i \in 1..Len(w) PROVE w[i] \in position + 1 .. Len(log) /\ log[w[i]].key \in Watched
      BY <2>2 DEF StreamOK, WireOK
    <2>4. ASSUME NEW i \in 1..Len(v) PROVE v[i] \in position + 1 .. N /\ log'[v[i]].key \in Watched
      <3>1. CASE i \in 1..Len(w)
        <4>1. v[i] = w[i] /\ w[i] \in position + 1 .. Len(log) /\ log[w[i]].key \in Watched
          BY <2>2, <2>3, <3>1
        <4>2. w[i] \in position + 1 .. N /\ log'[w[i]] = log[w[i]]
          BY <1>1, <1>2, <4>1
        <4>3. QED
          BY <4>1, <4>2
      <3>2. CASE i = Len(w) + 1
        <4>1. v[i] = N /\ N \in position + 1 .. N
          BY <1>1, <1>2, <2>2, <3>2
        <4>2. QED
          BY <1>1, <1>4, <4>1
      <3>3. QED
        BY <2>2, <3>1, <3>2
    <2>5. ASSUME NEW i \in 1..Len(v), NEW j \in 1..Len(v), i < j PROVE v[i] < v[j]
      <3>1. i \in 1..Len(w) /\ v[i] = w[i] /\ w[i] < N
        BY <1>1, <1>2, <2>2, <2>3, <2>5
      <3>2. CASE j \in 1..Len(w)
        BY <2>2, <2>5, <3>1, <3>2 DEF StreamOK, WireOK
      <3>3. CASE j = Len(w) + 1
        BY <2>2, <3>1, <3>3
      <3>4. QED
        BY <2>2, <3>2, <3>3
    <2>6. ASSUME NEW n \in position + 1 .. N, log'[n].key \in Watched
          PROVE  \E i \in 1..Len(v) : v[i] = n
      <3>1. CASE n = N
        BY <2>2, <3>1
      <3>2. CASE n # N
        <4>1. n \in position + 1 .. Len(log) /\ log[n].key \in Watched
          BY <1>1, <1>2, <2>6, <3>2
        <4>2. \E i \in DOMAIN w : w[i] = n
          BY <1>4, <4>1 DEF StreamOK, WireOK
        <4>3. PICK i \in 1..Len(w) : w[i] = n
          BY <2>2, <4>2
        <4>4. QED
          BY <2>2, <4>3
      <3>3. QED
        BY <3>1, <3>2
    <2> HIDE DEF v
    <2>7. /\ stream'.wire = v /\ stream'.status = "reading" /\ stream'.open = TRUE
          /\ stream' = [status |-> "reading", open |-> TRUE, wire |-> v]
      BY <2>1
    <2>8. (WireOK(stream.wire))'
      <3>1. DOMAIN v = 1..Len(v)
        BY <2>2
      <3>2. position' = position /\ Len(log') = N /\ stream'.wire = v /\ v \in Seq(Nat)
        BY <1>1, <1>2, <2>2, <2>7
      <3>3. \A i \in DOMAIN v : v[i] \in position' + 1 .. Len(log') /\ log'[v[i]].key \in Watched
        BY <2>4, <3>1, <3>2
      <3>4. \A i, j \in DOMAIN v : i < j => v[i] < v[j]
        BY <2>5, <3>1
      <3>5. \A n \in position' + 1 .. Len(log') : log'[n].key \in Watched => \E i \in DOMAIN v : v[i] = n
        BY <2>6, <3>1, <3>2
      <3>6. QED
        BY <3>2, <3>3, <3>4, <3>5 DEF WireOK
    <2>9. position' \in 0..Len(log') /\ seen' \in Seq(Nat)
      BY <1>1, <1>2 DEF StreamOK
    <2>10. QED
      BY <1>3, <2>7, <2>8, <2>9 DEF StreamOK
  <1>5. CASE ~(stream.open /\ key \in Watched)
    <2> DEFINE w == stream.wire
    <2>1. stream' = stream
      BY <1>2, <1>5 DEF Sent
    <2>2. w \in Seq(Nat) /\ \A i \in DOMAIN w : w[i] \in position + 1 .. Len(log) /\ log[w[i]].key \in Watched
      BY DEF StreamOK, WireOK
    <2>3. \A i \in DOMAIN w : w[i] \in position + 1 .. N /\ log'[w[i]].key \in Watched
      BY <1>1, <1>2, <2>2, SMTT(30)
    <2>4. ASSUME NEW n \in position + 1 .. N, log'[n].key \in Watched,
                 stream.open \/ \E i \in DOMAIN w : n <= w[i]
          PROVE  \E i \in DOMAIN w : w[i] = n
      <3>1. n # N
        BY <1>1, <1>5, <2>2, <2>4
      <3>2. n \in position + 1 .. Len(log) /\ log[n].key \in Watched
        BY <1>1, <1>2, <2>4, <3>1
      <3>3. QED
        BY <2>4, <3>2 DEF StreamOK, WireOK
    <2>5. \A i, j \in DOMAIN w : i < j => w[i] < w[j]
      BY DEF StreamOK, WireOK
    <2>6. (WireOK(stream.wire))'
      BY <1>1, <1>2, <2>1, <2>2, <2>3, <2>4, <2>5 DEF WireOK
    <2>7. position' \in 0..Len(log') /\ seen' \in Seq(Nat)
      BY <1>1, <1>2 DEF StreamOK
    <2>8. QED
      BY <1>3, <2>1, <2>6, <2>7 DEF StreamOK
  <1>6. QED
    BY <1>4, <1>5

\* What a replica has and is answered stays true of the longer history.
LEMMA PlaceLater ==
  ASSUME Grows, NEW r, NEW m \in 0..Len(log), NEW b \in 0..Len(log), PlaceOK(r, b, m),
         replica'[r] = replica[r], cursor'[r] = cursor[r], response'[r] = response[r]
  PROVE  FollowOK(r)'
  <1> DEFINE c == cursor[r]
             s == Start(b, m)
  <1>1. /\ Len(log) \in Nat /\ Len(log') \in Nat /\ Len(log) <= Len(log') /\ m \in 0..Len(log') /\ b \in 0..Len(log')
        /\ log \in Seq(Events) /\ log' \in Seq(Events) /\ \A i \in 1..Len(log) : log'[i] = log[i]
        /\ Retention \in Nat \ {0}
    BY ReplicationAssumption DEF Grows
  <1>2. /\ b <= m /\ c \in 0..Len(log) /\ (Resumable(c) => c \in b..m) /\ (b > 0 => Len(log) > Retention)
        /\ replica[r] = [docs |-> replica[r].docs, recent |-> replica[r].recent]
        /\ replica[r].docs \in [Keys -> Records]
        /\ replica[r].recent = [i \in 1..(m - s) |-> log[s + i].id]
        /\ ~Skew => DocsAt(log, m, replica[r].docs)
        /\ AnswerOK(b, m, response[r])
    BY DEF PlaceOK
  <1>3. s \in 0..m
    BY <1>1, <1>2 DEF Start
  <1>4. \A p, n \in 0..Len(log) : Stretch(p, n)' = Stretch(p, n)
    <2> SUFFICES ASSUME NEW p \in 0..Len(log), NEW n \in 0..Len(log) PROVE Stretch(p, n)' = Stretch(p, n)
      OBVIOUS
    <2>1. \A i \in 1..(n - p) : log'[p + i] = log[p + i]
      BY <1>1
    <2>2. QED
      BY <2>1 DEF Stretch
  <1>5. AnswerOK(b, m, response[r])'
    <2>1. CASE response[r] = None
      BY <2>1 DEF AnswerOK
    <2>2. CASE \E p \in s..m, n \in 0..Len(log) :
                 p <= n /\ response[r] = [events |-> Stretch(p, n), next |-> n]
      <3>1. PICK p \in s..m, n \in 0..Len(log) :
                   p <= n /\ response[r] = [events |-> Stretch(p, n), next |-> n]
        BY <2>2
      <3>2. p \in 0..Len(log) /\ n \in 0..Len(log')
        BY <1>1, <1>3, <3>1
      <3>3. response'[r] = [events |-> Stretch(p, n)', next |-> n]
        BY <1>4, <3>1, <3>2
      <3>4. QED
        BY <3>1, <3>2, <3>3 DEF AnswerOK
    <2>3. CASE \E n \in 1..Len(log), d \in [Keys -> Records] :
                 /\ response[r] = [docs |-> d, next |-> n]
                 /\ Len(log) > Retention /\ (~Skew => DocsAt(log, n, d))
      <3>1. PICK n \in 1..Len(log), d \in [Keys -> Records] :
                 /\ response[r] = [docs |-> d, next |-> n]
                 /\ Len(log) > Retention /\ (~Skew => DocsAt(log, n, d))
        BY <2>3
      <3>2. n \in 1..Len(log') /\ Len(log') > Retention /\ n \in 0..Len(log)
        BY <1>1, <3>1
      <3>3. ~Skew => DocsAt(log', n, d)
        BY <1>1, <3>1, <3>2, DocsLater
      <3>4. QED
        BY <3>1, <3>2, <3>3 DEF AnswerOK
    <2>4. QED
      BY <1>2, <2>1, <2>2, <2>3 DEF AnswerOK
  <1>6. Resumable(c)' => Resumable(c)
    <2>1. /\ OldestRetained \in Nat
          /\ OldestRetained = IF Len(log) <= Retention THEN 1 ELSE Len(log) - Retention + 1
      BY <1>1, OldestIs
    <2>2. /\ OldestRetained' \in Nat
          /\ OldestRetained' = IF Len(log') <= Retention THEN 1 ELSE Len(log') - Retention + 1
      <3>1. Len(Newest(log')) = IF Len(log') <= Retention THEN Len(log') ELSE Retention
        BY <1>1, Oldest
      <3>2. QED
        BY <1>1, <3>1 DEF OldestRetained
    <2>3. QED
      BY <1>1, <1>2, <2>1, <2>2 DEF Resumable
  <1>7. replica[r].recent = [i \in 1..(m - s) |-> log'[s + i].id]
    <2>1. \A i \in 1..(m - s) : log'[s + i] = log[s + i]
      BY <1>1, <1>3
    <2>2. QED
      BY <1>2, <2>1
  <1>8. ~Skew => DocsAt(log', m, replica[r].docs)
    BY <1>1, <1>2, DocsLater
  <1>9. cursor'[r] \in 0..Len(log') /\ (Resumable(cursor[r])' => cursor'[r] \in b..m)
    BY <1>1, <1>2, <1>6
  <1>10. PlaceOK(r, b, m)'
    BY <1>1, <1>2, <1>5, <1>7, <1>8, <1>9 DEF PlaceOK
  <1>11. QED
    BY <1>1, <1>10 DEF FollowOK

-----------------------------------------------------------------------------
\* What a step does not touch.

LEMMA ServerKept ==
  ASSUME Server, Apart, docs' = docs, log' = log PROVE Server' /\ Apart'
  BY DEF Server, Apart

LEMMA CountedKept ==
  ASSUME Counted, log' = log, writes' = writes, queued' = queued PROVE Counted'
  BY DEF Counted

LEMMA StreamKept ==
  ASSUME StreamOK, log' = log, UNCHANGED watcher PROVE StreamOK'
  BY DEF StreamOK, WireOK, StreamComplete, watcher

LEMMA FollowKept ==
  ASSUME Server, log' = log, NEW r, FollowOK(r),
         replica'[r] = replica[r], cursor'[r] = cursor[r], response'[r] = response[r]
  PROVE  FollowOK(r)'
  <1>1. PICK m \in 0..Len(log), b \in 0..Len(log) : PlaceOK(r, b, m)
    BY DEF FollowOK
  <1>2. Grows
    BY DEF Grows, Server
  <1>3. QED
    BY <1>1, <1>2, PlaceLater

LEMMA FollowersKept ==
  ASSUME Server, log' = log, \A r \in Replicas : FollowOK(r), UNCHANGED followers
  PROVE  \A r \in Replicas : FollowOK(r)'
  BY FollowKept DEF followers

-----------------------------------------------------------------------------
\* The server's steps.

LEMMA Logged ==
  ASSUME Inductive, NEW id, NEW key, NEW record, NEW stored,
         MayLog(id, key, record, stored), Commit(id, key, record, stored), ~Known(id),
         UNCHANGED followers
  PROVE  /\ Server' /\ Apart' /\ StreamOK' /\ \A r \in Replicas : FollowOK(r)'
         /\ log' \in Seq(Events) /\ Len(log') = Len(log) + 1 /\ log'[Len(log) + 1].id = id
         /\ \A i \in 1..Len(log) : log'[i] = log[i]
  <1>1. Server /\ log \in Seq(Events) /\ Apart /\ StreamOK
    BY DEF Inductive, Server
  <1>2. Server' /\ Apart' /\ StreamOK'
    BY <1>1, CommitServer, CommitApart, CommitStream
  <1>3. /\ Grows /\ Len(log') = Len(log) + 1 /\ log'[Len(log) + 1].id = id
    BY <1>1, CommitGrows
  <1>4. ASSUME NEW r \in Replicas PROVE FollowOK(r)'
    <2>1. PICK m \in 0..Len(log), b \in 0..Len(log) : PlaceOK(r, b, m)
      BY DEF Inductive, FollowOK
    <2>2. QED
      BY <1>3, <2>1, PlaceLater DEF followers
  <1>5. QED
    BY <1>2, <1>3, <1>4 DEF Grows

LEMMA WriteInductive ==
  ASSUME Inductive, NEW key \in Keys, NEW record \in Records, Write(key, record)
  PROVE  Inductive'
  <1> DEFINE id == <<"server", writes>>
  <1>1. /\ log \in Seq(Events) /\ writes \in Nat /\ queued \in Nat /\ writes' = writes + 1 /\ queued' = queued
        /\ docs \in [Keys -> Records] /\ Commit(id, key, record, record) /\ UNCHANGED followers /\ queue' = queue
        /\ Skew \/ Resolve(docs[key], record) = record
        /\ \A i \in DOMAIN log : log[i].id[1] = "server" => log[i].id[2] < writes
    BY DEF Inductive, Server, Counted, Write
  <1>2. MayLog(id, key, record, record)
    BY <1>1 DEF MayLog
  <1>3. ~Known(id)
    <2>1. id[1] = "server" /\ id[2] = writes /\ ~(writes < writes)
      BY <1>1
    <2>2. \A i \in OldestRetained..Len(log) : i \in DOMAIN log
      BY <1>1, OldestIs
    <2> HIDE DEF id
    <2>3. QED
      BY <1>1, <2>1, <2>2 DEF Known
  <1>4. /\ Server' /\ Apart' /\ StreamOK' /\ \A r \in Replicas : FollowOK(r)'
        /\ log' \in Seq(Events) /\ Len(log') = Len(log) + 1 /\ log'[Len(log) + 1].id = id
        /\ \A i \in 1..Len(log) : log'[i] = log[i]
    <2> HIDE DEF id
    <2>1. QED
      BY <1>1, <1>2, <1>3, Logged
  <1>5. ASSUME NEW i \in DOMAIN log', log'[i].id[1] = "server" PROVE log'[i].id[2] < writes'
    <2>1. CASE i \in 1..Len(log)
      <3>1. log'[i] = log[i] /\ i \in DOMAIN log
        BY <1>1, <1>4, <2>1
      <3>2. log[i] \in Events
        BY <1>1, <3>1
      <3>3. log[i].id[2] < writes /\ log[i].id[2] \in Nat
        BY <1>1, <1>5, <3>1, <3>2 DEF Events
      <3>4. QED
        BY <1>1, <3>1, <3>3
    <2>2. CASE i = Len(log) + 1
      BY <1>1, <1>4, <2>2
    <2>3. QED
      BY <1>1, <1>4, <2>1, <2>2
  <1>6. Counted'
    BY <1>1, <1>5 DEF Counted
  <1>7. Shape'
    BY <1>1 DEF Inductive, Shape, followers
  <1>8. QED
    BY <1>4, <1>6, <1>7 DEF Inductive

LEMMA EnqueueInductive ==
  ASSUME Inductive, NEW r \in Replicas, NEW key \in Keys, NEW record \in Records, Enqueue(r, key, record)
  PROVE  Inductive'
  <1> DEFINE change == [id |-> <<"client", queued>>, key |-> key, record |-> record]
  <1>1. /\ Server /\ Apart /\ StreamOK /\ \A s \in Replicas : FollowOK(s)
        /\ docs' = docs /\ log' = log /\ UNCHANGED watcher /\ UNCHANGED followers
    BY DEF Inductive, Enqueue
  <1>2. queued \in Nat /\ queued' = queued + 1 /\ writes' = writes /\ log' = log
    BY DEF Inductive, Counted, Enqueue
  <1>3. Counted'
    BY <1>2 DEF Counted, Inductive
  <1>4. change \in Pushed
    BY <1>2 DEF Pushed, Events
  <1>5. queue \in [Replicas -> Seq(Pushed)] /\ queue' = [queue EXCEPT ![r] = Append(@, change)]
    BY DEF Inductive, Shape, Enqueue
  <1>6. queue' \in [Replicas -> Seq(Pushed)]
    <2> HIDE DEF change
    <2>1. Append(queue[r], change) \in Seq(Pushed)
      BY <1>4, <1>5
    <2>2. QED
      BY <1>5, <2>1
  <1>7. Shape'
    BY <1>1, <1>6 DEF Inductive, Shape, followers
  <1>8. QED
    BY <1>1, <1>3, <1>7, ServerKept, StreamKept, FollowersKept DEF Inductive

LEMMA PushInductive ==
  ASSUME Inductive, NEW r \in Replicas, NEW answered, Push(r, answered)
  PROVE  Inductive'
  <1> DEFINE change == Head(queue[r])
             stored == Resolve(docs[change.key], change.record)
  <1>1. /\ Server /\ log \in Seq(Events) /\ docs \in [Keys -> Records] /\ Apart /\ Counted /\ StreamOK
        /\ \A s \in Replicas : FollowOK(s)
        /\ queue \in [Replicas -> Seq(Pushed)] /\ queue[r] # <<>>
        /\ UNCHANGED followers /\ writes' = writes /\ queued' = queued /\ Dequeue(r, answered)
    BY DEF Inductive, Server, Shape, Push
  <1>2. change \in Pushed /\ Tail(queue[r]) \in Seq(Pushed)
    <2>1. queue[r] \in Seq(Pushed)
      BY <1>1
    <2>2. QED
      BY <1>1, <2>1
  <1>3. queue' \in [Replicas -> Seq(Pushed)]
    BY <1>1, <1>2 DEF Dequeue
  <1>4. Shape'
    BY <1>1, <1>3 DEF Inductive, Shape, followers
  <1>5. CASE Known(change.id)
    <2>1. UNCHANGED <<docs, log, watcher>>
      BY <1>5 DEF Push
    <2>2. QED
      BY <1>1, <1>4, <2>1, ServerKept, CountedKept, StreamKept, FollowersKept DEF Inductive
  <1>6. CASE ~Known(change.id)
    <2>1. Commit(change.id, change.key, change.record, stored)
      BY <1>6 DEF Push
    <2>2. /\ change.id \in {"server", "client"} \X Nat /\ change.key \in Keys
          /\ change.record \in Records /\ change.id[1] = "client"
      BY <1>2 DEF Pushed, Events
    <2>3. MayLog(change.id, change.key, change.record, stored)
      BY <1>1, <2>2, ResolveType DEF MayLog
    <2> HIDE DEF stored, change
    <2>4. /\ Server' /\ Apart' /\ StreamOK' /\ \A s \in Replicas : FollowOK(s)'
          /\ log' \in Seq(Events) /\ Len(log') = Len(log) + 1 /\ log'[Len(log) + 1].id = change.id
          /\ \A i \in 1..Len(log) : log'[i] = log[i]
      BY <1>1, <1>6, <2>1, <2>3, Logged
    <2>5. ASSUME NEW i \in DOMAIN log', log'[i].id[1] = "server" PROVE log'[i].id[2] < writes'
      <3>1. "client" # "server"
        OBVIOUS
      <3>2. i # Len(log) + 1
        BY <2>2, <2>4, <2>5, <3>1
      <3>3. i \in DOMAIN log /\ log'[i] = log[i]
        BY <1>1, <2>4, <3>2
      <3>4. QED
        BY <1>1, <2>5, <3>3 DEF Counted
    <2>6. Counted'
      BY <1>1, <2>5 DEF Counted
    <2>7. QED
      BY <1>4, <2>4, <2>6 DEF Inductive
  <1>7. QED
    BY <1>5, <1>6

-----------------------------------------------------------------------------
\* A replica's steps.

\* All but the replica stays, and it finds its place.
LEMMA Followed ==
  ASSUME Inductive, NEW r \in Replicas, FollowOK(r)',
         UNCHANGED <<docs, log, queue, watcher, writes, queued>>,
         DOMAIN replica' = Replicas, DOMAIN cursor' = Replicas, DOMAIN response' = Replicas,
         \A s \in Replicas \ {r} :
           replica'[s] = replica[s] /\ cursor'[s] = cursor[s] /\ response'[s] = response[s]
  PROVE  Inductive'
  <1>1. Server /\ Apart /\ Counted /\ Shape /\ StreamOK /\ \A s \in Replicas : FollowOK(s)
    BY DEF Inductive
  <1>2. Server' /\ Apart' /\ Counted' /\ StreamOK'
    BY <1>1, ServerKept, CountedKept, StreamKept
  <1>3. Shape'
    BY <1>1 DEF Shape
  <1>4. \A s \in Replicas \ {r} : FollowOK(s)'
    BY <1>1, FollowKept
  <1>5. QED
    BY <1>2, <1>3, <1>4 DEF Inductive

LEMMA PlaceIs ==
  ASSUME Inductive, NEW r \in Replicas
  PROVE  /\ \E m \in 0..Len(log), b \in 0..Len(log) : PlaceOK(r, b, m)
         /\ Server /\ log \in Seq(Events) /\ Len(log) \in Nat /\ Shape
         /\ DOMAIN replica = Replicas /\ DOMAIN cursor = Replicas /\ DOMAIN response = Replicas
         /\ Retention \in Nat \ {0} /\ Limit \in Nat \ {0} /\ OldestRetained \in Nat
         /\ OldestRetained = IF Len(log) <= Retention THEN 1 ELSE Len(log) - Retention + 1
  <1>1. log \in Seq(Events)
    BY DEF Inductive, Server
  <1>2. QED
    BY <1>1, OldestIs, ReplicationAssumption DEF Inductive, Server, Shape, FollowOK

\* The answer holds all changes from the cursor to the one it gives.
LEMMA BatchIs ==
  ASSUME log \in Seq(Events), NEW c \in Nat, Resumable(c), ChangesSince(c, Keys) # <<>>
  PROVE  \E n \in c + 1 .. Len(log) :
           Batch(ChangesSince(c, Keys)) = [events |-> Stretch(c, n), next |-> n]
  <1> DEFINE since == ChangesSince(c, Keys)
             n == IF Len(since) < Limit THEN Len(since) ELSE Limit
  <1>1. c <= Len(log) /\ Len(log) \in Nat /\ Limit \in Nat \ {0}
    BY ReplicationAssumption DEF Resumable
  <1>2. since = [i \in 1..(Len(log) - c) |-> c + i]
    BY AllSince
  <1>3. Len(log) - c \in Nat /\ Len(since) = Len(log) - c /\ Len(since) # 0
    <2>1. Len(log) - c \in Nat
      BY <1>1
    <2>2. since \in Seq(Nat) /\ Len(since) = Len(log) - c
      BY <1>2, <2>1
    <2>3. since # <<>>
      OBVIOUS
    <2> HIDE DEF since
    <2>4. QED
      BY <2>1, <2>2, <2>3
  <1> HIDE DEF since
  <1>4. n \in 1..(Len(log) - c) /\ c + n \in c + 1 .. Len(log) /\ (c + n) - c = n
    BY <1>1, <1>3
  <1>5. \A i \in 1..n : since[i] = c + i
    BY <1>2, <1>4
  <1>6. Batch(since) = [events |-> [i \in 1..n |-> log[since[i]]], next |-> since[n]]
    BY DEF Batch
  <1> HIDE DEF n
  <1>7. [i \in 1..n |-> log[since[i]]] = Stretch(c, c + n) /\ since[n] = c + n
    BY <1>4, <1>5 DEF Stretch
  <1>8. QED
    BY <1>4, <1>6, <1>7 DEF since

LEMMA PullIs ==
  ASSUME Inductive, NEW r \in Replicas, Pull(r)
  PROVE  /\ Resumable(cursor[r]) /\ cursor[r] \in Nat
         /\ \E n \in cursor[r] + 1 .. Len(log) : response'[r] = [events |-> Stretch(cursor[r], n), next |-> n]
  <1>1. /\ DOMAIN response = Replicas /\ log \in Seq(Events) /\ Len(log) \in Nat
        /\ \E m \in 0..Len(log), b \in 0..Len(log) : PlaceOK(r, b, m)
    BY PlaceIs
  <1>2. cursor[r] \in Nat
    BY <1>1 DEF PlaceOK
  <1>3. /\ Resumable(cursor[r]) /\ ChangesSince(cursor[r], Keys) # <<>>
        /\ response'[r] = Batch(ChangesSince(cursor[r], Keys))
    BY <1>1 DEF Pull
  <1>4. QED
    BY <1>1, <1>2, <1>3, BatchIs

LEMMA PullInductive ==
  ASSUME Inductive, NEW r \in Replicas, Pull(r) PROVE Inductive'
  <1> DEFINE c == cursor[r]
  <1>1. PICK m \in 0..Len(log), b \in 0..Len(log) : PlaceOK(r, b, m)
    BY PlaceIs
  <1>2. /\ Len(log) \in Nat /\ DOMAIN replica = Replicas /\ DOMAIN cursor = Replicas
        /\ DOMAIN response = Replicas /\ Retention \in Nat \ {0} /\ OldestRetained \in Nat
        /\ OldestRetained = IF Len(log) <= Retention THEN 1 ELSE Len(log) - Retention + 1
    BY PlaceIs
  <1>3. PICK n \in c + 1 .. Len(log) : response'[r] = [events |-> Stretch(c, n), next |-> n]
    BY PullIs
  <1>4. Resumable(c) /\ c \in b..m /\ c \in Nat /\ b <= m
    BY <1>1, PullIs DEF PlaceOK
  <1>5. c \in Start(b, m)..m /\ n \in 0..Len(log) /\ c <= n
    BY <1>1, <1>2, <1>3, <1>4 DEF Start, Resumable
  <1>6. /\ UNCHANGED <<docs, log, queue, watcher, writes, queued, replica, cursor>>
        /\ DOMAIN response' = Replicas /\ \A s \in Replicas \ {r} : response'[s] = response[s]
    BY <1>2 DEF Pull
  <1>7. AnswerOK(b, m, response[r])'
    <2>1. response'[r] = [events |-> Stretch(c, n)', next |-> n]
      BY <1>3, <1>6 DEF Stretch
    <2>2. QED
      BY <1>5, <1>6, <2>1 DEF AnswerOK
  <1>8. PlaceOK(r, b, m)'
    BY <1>1, <1>6, <1>7 DEF PlaceOK, Resumable, OldestRetained
  <1>9. FollowOK(r)'
    BY <1>1, <1>6, <1>8 DEF FollowOK
  <1>10. QED
    BY <1>2, <1>6, <1>9, Followed

LEMMA PullSnapshotInductive ==
  ASSUME Inductive, NEW r \in Replicas, PullSnapshot(r) PROVE Inductive'
  <1>1. PICK m \in 0..Len(log), b \in 0..Len(log) : PlaceOK(r, b, m)
    BY PlaceIs
  <1>2. /\ Len(log) \in Nat /\ DOMAIN replica = Replicas /\ DOMAIN cursor = Replicas
        /\ DOMAIN response = Replicas /\ Retention \in Nat \ {0} /\ OldestRetained \in Nat
        /\ OldestRetained = IF Len(log) <= Retention THEN 1 ELSE Len(log) - Retention + 1
        /\ Server
    BY PlaceIs
  <1>3. /\ ~Resumable(cursor[r]) /\ response'[r] = [docs |-> docs, next |-> Len(log)]
        /\ UNCHANGED <<docs, log, queue, watcher, writes, queued, replica, cursor>>
        /\ DOMAIN response' = Replicas /\ \A s \in Replicas \ {r} : response'[s] = response[s]
    BY <1>2 DEF PullSnapshot
  <1>4. Len(log) > Retention
    BY <1>1, <1>2, <1>3 DEF PlaceOK, Resumable
  <1>5. Len(log) \in 1..Len(log) /\ docs \in [Keys -> Records] /\ (~Skew => DocsAt(log, Len(log), docs))
    BY <1>2, <1>4 DEF Server
  <1>6. AnswerOK(b, m, response[r])'
    BY <1>3, <1>4, <1>5 DEF AnswerOK
  <1>7. PlaceOK(r, b, m)'
    BY <1>1, <1>3, <1>6 DEF PlaceOK, Resumable, OldestRetained
  <1>8. FollowOK(r)'
    BY <1>1, <1>3, <1>7 DEF FollowOK
  <1>9. QED
    BY <1>2, <1>3, <1>8, Followed

LEMMA RestartInductive ==
  ASSUME Inductive, NEW r \in Replicas, Restart(r) PROVE Inductive'
  <1>1. PICK m \in 0..Len(log), b \in 0..Len(log) : PlaceOK(r, b, m)
    BY PlaceIs
  <1>2. /\ Len(log) \in Nat /\ DOMAIN replica = Replicas /\ DOMAIN cursor = Replicas
        /\ DOMAIN response = Replicas /\ Retention \in Nat \ {0} /\ OldestRetained \in Nat
        /\ OldestRetained = IF Len(log) <= Retention THEN 1 ELSE Len(log) - Retention + 1
    BY PlaceIs
  <1>3. PICK c \in {0, cursor[r]} : cursor' = [cursor EXCEPT ![r] = c]
    BY DEF Restart
  <1>4. /\ response'[r] = None /\ cursor'[r] = c
        /\ UNCHANGED <<docs, log, queue, watcher, writes, queued, replica>>
        /\ DOMAIN response' = Replicas /\ DOMAIN cursor' = Replicas
        /\ \A s \in Replicas \ {r} : response'[s] = response[s] /\ cursor'[s] = cursor[s]
    BY <1>2, <1>3 DEF Restart
  <1>5. c \in 0..Len(log) /\ (Resumable(c) => c \in b..m)
    BY <1>1, <1>2 DEF PlaceOK, Resumable
  <1>6. PlaceOK(r, b, m)'
    BY <1>1, <1>4, <1>5 DEF PlaceOK, Resumable, OldestRetained, AnswerOK
  <1>7. FollowOK(r)'
    BY <1>1, <1>4, <1>6 DEF FollowOK
  <1>8. QED
    BY <1>2, <1>4, <1>7, Followed

LEMMA StretchIs ==
  ASSUME log \in Seq(Events), NEW p \in 0..Len(log), NEW n \in 0..Len(log), p <= n
  PROVE  /\ Stretch(p, n) \in Seq(Events) /\ (Stretch(p, n) # <<>> <=> p < n)
         /\ p < n => /\ Head(Stretch(p, n)) = log[p + 1] /\ Tail(Stretch(p, n)) = Stretch(p + 1, n)
                     /\ p + 1 \in 1..Len(log) /\ log[p + 1] \in Events
  <1>1. Len(log) \in Nat /\ n - p \in Nat /\ \A i \in 1..(n - p) : p + i \in 1..Len(log)
    OBVIOUS
  <1>2. Stretch(p, n) \in Seq(Events) /\ Len(Stretch(p, n)) = n - p
    BY <1>1 DEF Stretch
  <1>3. Stretch(p, n) # <<>> <=> p < n
    <2>1. Stretch(p, n) = <<>> <=> Len(Stretch(p, n)) = 0
      BY <1>2
    <2>2. QED
      BY <1>1, <1>2, <2>1
  <1>4. ASSUME p < n PROVE Tail(Stretch(p, n)) = Stretch(p + 1, n)
    <2> DEFINE t == Stretch(p, n)
               u == Stretch(p + 1, n)
    <2>1. /\ Tail(t) \in Seq(Events) /\ Len(Tail(t)) = (n - p) - 1
          /\ \A i \in 1..Len(Tail(t)) : Tail(t)[i] = t[i + 1]
      <3>1. t \in Seq(Events) /\ Len(t) = n - p /\ t # <<>>
        BY <1>2, <1>3, <1>4
      <3> HIDE DEF t
      <3>2. QED
        BY <3>1, HeadTail
    <2>2. u \in Seq(Events) /\ Len(u) = (n - p) - 1
      <3>1. n - (p + 1) \in Nat /\ n - (p + 1) = (n - p) - 1
        BY <1>1, <1>4
      <3>2. ASSUME NEW i \in 1..(n - (p + 1)) PROVE log[(p + 1) + i] \in Events
        BY <1>1
      <3>3. u = [i \in 1..(n - (p + 1)) |-> log[(p + 1) + i]]
        BY DEF Stretch
      <3> HIDE DEF u
      <3>4. QED
        <4> DEFINE k == n - (p + 1)
        <4>1. u = [i \in 1..k |-> u[i]] /\ \A i \in 1..k : u[i] \in Events
          BY <3>2, <3>3
        <4>2. k \in Nat
          BY <3>1
        <4> HIDE DEF k
        <4>3. u \in Seq(Events) /\ Len(u) = k
          BY <4>1, <4>2, FormIs, Zenon
        <4>4. QED
          BY <3>1, <4>3 DEF k
    <2>3. ASSUME NEW i \in 1..((n - p) - 1) PROVE t[i + 1] = u[i]
      BY <1>1, <1>4 DEF Stretch
    <2> HIDE DEF t, u
    <2>4. Tail(t) = u
      BY <2>1, <2>2, <2>3, SameSequence
    <2>5. QED
      BY <2>4 DEF t, u
  <1>5. ASSUME p < n PROVE Head(Stretch(p, n)) = log[p + 1] /\ p + 1 \in 1..Len(log) /\ log[p + 1] \in Events
    BY <1>1, <1>2, <1>3, <1>5 DEF Stretch
  <1>6. QED
    BY <1>2, <1>3, <1>4, <1>5

LEMMA BatchAnswer ==
  ASSUME NEW r, NEW b, NEW m, AnswerOK(b, m, response[r]), IsBatch(r)
  PROVE  \E p \in Start(b, m)..m, n \in 0..Len(log) :
           p <= n /\ response[r] = [events |-> Stretch(p, n), next |-> n]
  <1>1. ~ \E n \in 1..Len(log), d \in [Keys -> Records] : response[r] = [docs |-> d, next |-> n]
    <2>1. \A n, d : DOMAIN [docs |-> d, next |-> n] = {"docs", "next"}
      OBVIOUS
    <2>2. "events" \notin {"docs", "next"} /\ "events" \in DOMAIN response[r]
      BY DEF IsBatch
    <2>3. QED
      BY <2>1, <2>2
  <1>2. response[r] # None
    BY DEF IsBatch
  <1>3. QED
    BY <1>1, <1>2 DEF AnswerOK

LEMMA SnapshotAnswer ==
  ASSUME NEW r, NEW b, NEW m, AnswerOK(b, m, response[r]), IsSnapshot(r)
  PROVE  \E n \in 1..Len(log), d \in [Keys -> Records] :
           /\ response[r] = [docs |-> d, next |-> n]
           /\ Len(log) > Retention /\ (~Skew => DocsAt(log, n, d))
  <1>1. ~ \E p \in Start(b, m)..m, n \in 0..Len(log) :
            p <= n /\ response[r] = [events |-> Stretch(p, n), next |-> n]
    <2>1. \A n, e : DOMAIN [events |-> e, next |-> n] = {"events", "next"}
      OBVIOUS
    <2>2. "docs" \notin {"events", "next"} /\ "docs" \in DOMAIN response[r]
      BY DEF IsSnapshot
    <2>3. QED
      BY <2>1, <2>2
  <1>2. response[r] # None
    BY DEF IsSnapshot
  <1>3. QED
    BY <1>1, <1>2 DEF AnswerOK

LEMMA EndPullInductive ==
  ASSUME Inductive, NEW r \in Replicas, EndPull(r) PROVE Inductive'
  <1>1. PICK m \in 0..Len(log), b \in 0..Len(log) : PlaceOK(r, b, m)
    BY PlaceIs
  <1>2. /\ Len(log) \in Nat /\ DOMAIN replica = Replicas /\ DOMAIN cursor = Replicas
        /\ DOMAIN response = Replicas /\ Retention \in Nat \ {0} /\ log \in Seq(Events)
    BY PlaceIs
  <1>3. PICK p \in Start(b, m)..m, n \in 0..Len(log) :
               p <= n /\ response[r] = [events |-> Stretch(p, n), next |-> n]
    BY <1>1, BatchAnswer DEF PlaceOK, EndPull
  <1>4. b <= m /\ Start(b, m) \in b..m
    BY <1>1, <1>2 DEF PlaceOK, Start
  <1>5. n = p
    <2>1. Stretch(p, n) = <<>>
      BY <1>3 DEF EndPull
    <2>2. p \in 0..Len(log)
      BY <1>2, <1>3, <1>4
    <2>3. QED
      BY <1>2, <1>3, <2>1, <2>2, StretchIs
  <1>6. /\ response'[r] = None /\ cursor'[r] = n
        /\ UNCHANGED <<docs, log, queue, watcher, writes, queued, replica>>
        /\ DOMAIN response' = Replicas /\ DOMAIN cursor' = Replicas
        /\ \A s \in Replicas \ {r} : response'[s] = response[s] /\ cursor'[s] = cursor[s]
    BY <1>2, <1>3 DEF EndPull
  <1>7. n \in 0..Len(log) /\ n \in b..m
    BY <1>2, <1>3, <1>4, <1>5
  <1>8. PlaceOK(r, b, m)'
    BY <1>1, <1>6, <1>7 DEF PlaceOK, Resumable, OldestRetained, AnswerOK
  <1>9. FollowOK(r)'
    BY <1>1, <1>6, <1>8 DEF FollowOK
  <1>10. QED
    BY <1>2, <1>6, <1>9, Followed

LEMMA ReseedInductive ==
  ASSUME Inductive, NEW r \in Replicas, Reseed(r) PROVE Inductive'
  <1>1. PICK m \in 0..Len(log), b \in 0..Len(log) : PlaceOK(r, b, m)
    BY PlaceIs
  <1>2. /\ Len(log) \in Nat /\ DOMAIN replica = Replicas /\ DOMAIN cursor = Replicas
        /\ DOMAIN response = Replicas /\ Retention \in Nat \ {0}
    BY PlaceIs
  <1>3. PICK n \in 1..Len(log), d \in [Keys -> Records] :
               /\ response[r] = [docs |-> d, next |-> n]
               /\ Len(log) > Retention /\ (~Skew => DocsAt(log, n, d))
    BY <1>1, SnapshotAnswer DEF PlaceOK, Reseed
  <1>4. /\ response'[r] = None /\ cursor'[r] = n /\ replica'[r] = [docs |-> d, recent |-> <<>>]
        /\ UNCHANGED <<docs, log, queue, watcher, writes, queued>>
        /\ DOMAIN response' = Replicas /\ DOMAIN cursor' = Replicas /\ DOMAIN replica' = Replicas
        /\ \A s \in Replicas \ {r} :
             response'[s] = response[s] /\ cursor'[s] = cursor[s] /\ replica'[s] = replica[s]
    BY <1>2, <1>3 DEF Reseed
  <1>5. n \in 0..Len(log) /\ n \in n..n /\ n <= n /\ Start(n, n) = n
    BY <1>2, <1>3 DEF Start
  <1>6. <<>> = [i \in 1..(n - Start(n, n)) |-> log[Start(n, n) + i].id]
    BY <1>5
  <1>7. PlaceOK(r, n, n)'
    <2>1. /\ replica'[r].docs = d /\ replica'[r].recent = <<>>
          /\ replica'[r] = [docs |-> replica'[r].docs, recent |-> replica'[r].recent]
      BY <1>4
    <2>2. AnswerOK(n, n, response[r])'
      BY <1>4 DEF AnswerOK
    <2>3. replica'[r].recent = [i \in 1..(n - Start(n, n)) |-> log'[Start(n, n) + i].id]
      BY <1>4, <1>6, <2>1
    <2>4. ~Skew => DocsAt(log', n, replica'[r].docs)
      BY <1>3, <1>4, <2>1
    <2>5. cursor'[r] \in 0..Len(log') /\ cursor'[r] \in n..n /\ replica'[r].docs \in [Keys -> Records]
          /\ Len(log') > Retention
      BY <1>3, <1>4, <1>5, <2>1
    <2>6. QED
      BY <1>5, <2>1, <2>2, <2>3, <2>4, <2>5 DEF PlaceOK
  <1>8. FollowOK(r)'
    BY <1>4, <1>5, <1>7 DEF FollowOK
  <1>9. QED
    BY <1>2, <1>4, <1>8, Followed

\* The ids of a stretch of changes.
Ids == {"server", "client"} \X Nat
IdsOf(a, b) == [i \in 1..(b - a) |-> log[a + i].id]

LEMMA IdsOfIs ==
  ASSUME log \in Seq(Events), NEW a \in Nat, NEW b \in 0..Len(log), a <= b
  PROVE  /\ IdsOf(a, b) \in Seq(Ids) /\ Len(IdsOf(a, b)) = b - a
         /\ \A i \in 1..(b - a) : IdsOf(a, b)[i] = log[a + i].id
  <1> DEFINE f == IdsOf(a, b)
             n == b - a
  <1>1. n \in Nat /\ \A i \in 1..n : a + i \in 1..Len(log)
    OBVIOUS
  <1>2. f = [i \in 1..n |-> f[i]] /\ \A i \in 1..n : f[i] = log[a + i].id
    BY DEF IdsOf
  <1>3. \A i \in 1..n : log[a + i] \in Events
    BY <1>1
  <1>4. \A i \in 1..n : f[i] \in Ids
    BY <1>2, <1>3 DEF Events, Ids
  <1> HIDE DEF f, n
  <1>5. f \in Seq(Ids) /\ Len(f) = n
    BY <1>1, <1>2, <1>4, FormIs, Zenon
  <1>6. QED
    BY <1>2, <1>5 DEF f, n

\* A replica that takes the change it is at retains the last ids again.
LEMMA RecentNext ==
  ASSUME log \in Seq(Events), NEW m \in Nat, m < Len(log), NEW b \in 0..m
  PROVE  Newest(Append(IdsOf(Start(b, m), m), log[m + 1].id)) = IdsOf(Start(b, m + 1), m + 1)
  <1> DEFINE s == Start(b, m)
             t == Start(b, m + 1)
             x == log[m + 1].id
             f == IdsOf(s, m)
             g == IdsOf(t, m + 1)
             q == Append(f, x)
  <1>1. Retention \in Nat \ {0} /\ Len(log) \in Nat /\ b \in Nat /\ b <= m /\ m + 1 \in 1..Len(log)
    BY ReplicationAssumption
  <1>2. /\ s \in 0..m /\ t \in 0..m + 1 /\ s <= t
        /\ (m + 1) - t = IF (m + 1) - s <= Retention THEN (m + 1) - s ELSE Retention
    BY <1>1 DEF Start
  <1>3. log[m + 1] \in Events
    BY <1>1
  <1>4. x \in Ids
    BY <1>3 DEF Events, Ids
  <1> HIDE DEF s, t, x
  <1>5. f \in Seq(Ids) /\ Len(f) = m - s /\ \A i \in 1..(m - s) : f[i] = log[s + i].id
    <2>1. s \in Nat /\ m \in 0..Len(log) /\ s <= m
      BY <1>1, <1>2
    <2>2. QED
      BY <2>1, IdsOfIs, Zenon
  <1>6. g \in Seq(Ids) /\ Len(g) = (m + 1) - t /\ \A i \in 1..((m + 1) - t) : g[i] = log[t + i].id
    <2>1. t \in Nat /\ m + 1 \in 0..Len(log) /\ t <= m + 1
      BY <1>1, <1>2
    <2>2. QED
      BY <2>1, IdsOfIs, Zenon
  <1> HIDE DEF f, g
  <1>7. q \in Seq(Ids) /\ Len(q) = (m - s) + 1 /\ q[(m - s) + 1] = x /\ \A i \in 1..(m - s) : q[i] = f[i]
    BY <1>4, <1>5, AppendIs
  <1> HIDE DEF q
  <1>8. ASSUME NEW i \in 1..((m + 1) - s) PROVE q[i] = log[s + i].id
    <2>1. CASE i \in 1..(m - s)
      BY <1>5, <1>7, <2>1
    <2>2. CASE i = (m - s) + 1
      <3>1. s + i = m + 1
        BY <1>2, <2>2
      <3>2. QED
        BY <1>7, <2>2, <3>1 DEF x
    <2>3. QED
      BY <1>2, <2>1, <2>2
  <1>9. /\ Newest(q) \in Seq(Ids) /\ Len(Newest(q)) = (m + 1) - t
        /\ \A i \in 1..((m + 1) - t) : Newest(q)[i] = q[(t - s) + i]
    <2>1. /\ Newest(q) \in Seq(Ids) /\ Len(Newest(q)) = (m + 1) - t
          /\ \A i \in 1..Len(Newest(q)) : Newest(q)[i] = q[Len(q) - Len(Newest(q)) + i]
      <3>1. /\ Newest(q) \in Seq(Ids)
            /\ Len(Newest(q)) = IF Len(q) <= Retention THEN Len(q) ELSE Retention
            /\ \A i \in 1..Len(Newest(q)) : Newest(q)[i] = q[Len(q) - Len(Newest(q)) + i]
        BY <1>7, Oldest, Zenon
      <3>2. Len(q) = (m + 1) - s
        BY <1>2, <1>7
      <3>3. Len(Newest(q)) = (m + 1) - t
        BY <1>2, <3>1, <3>2
      <3>4. QED
        BY <3>1, <3>3
    <2>2. Len(q) - Len(Newest(q)) = t - s
      BY <1>2, <1>7, <2>1
    <2>3. QED
      BY <2>1, <2>2
  <1>10. ASSUME NEW i \in 1..((m + 1) - t) PROVE Newest(q)[i] = g[i]
    <2>1. (t - s) + i \in 1..((m + 1) - s) /\ s + ((t - s) + i) = t + i
      BY <1>2
    <2>2. QED
      BY <1>6, <1>8, <1>9, <2>1
  <1>11. Newest(q) = g
    BY <1>6, <1>9, <1>10, SameSequence
  <1>12. QED
    BY <1>11 DEF q, f, g, s, t, x

LEMMA ApplyInductive ==
  ASSUME Inductive, NEW r \in Replicas, Apply(r) PROVE Inductive'
  <1>1. PICK m \in 0..Len(log), b \in 0..Len(log) : PlaceOK(r, b, m)
    BY PlaceIs
  <1>2. /\ Len(log) \in Nat /\ DOMAIN replica = Replicas /\ DOMAIN cursor = Replicas
        /\ DOMAIN response = Replicas /\ Retention \in Nat \ {0} /\ log \in Seq(Events) /\ Apart
    BY PlaceIs DEF Inductive
  <1>3. PICK p \in Start(b, m)..m, n \in 0..Len(log) :
               p <= n /\ response[r] = [events |-> Stretch(p, n), next |-> n]
    BY <1>1, BatchAnswer DEF PlaceOK, Apply
  <1>4. b <= m /\ Start(b, m) \in b..m /\ p \in 0..Len(log)
    BY <1>1, <1>2, <1>3 DEF PlaceOK, Start
  <1>5. /\ p < n /\ Head(response[r].events) = log[p + 1] /\ Tail(response[r].events) = Stretch(p + 1, n)
        /\ p + 1 \in 1..Len(log) /\ log[p + 1] \in Events
    BY <1>2, <1>3, <1>4, StretchIs DEF Apply
  <1> DEFINE e == log[p + 1]
             local == replica[r]
  <1> HIDE DEF e, local
  <1>12. response'[r] = [events |-> Stretch(p + 1, n), next |-> n]
    <2>1. response'[r] = [response[r] EXCEPT !.events = Tail(response[r].events)]
      BY <1>2 DEF Apply
    <2> DEFINE t == Tail(response[r].events)
    <2>2. t = Stretch(p + 1, n) /\ response'[r] = [response[r] EXCEPT !.events = t]
      BY <1>5, <2>1
    <2> HIDE DEF t
    <2>3. QED
      BY <1>3, <2>2
  <1>13. replica'[r] = Applied(local, e)
    BY <1>2, <1>5 DEF Apply, local, e
  <1> USE DEF e, local
  <1>6. /\ response'[r] = [events |-> Stretch(p + 1, n), next |-> n]
        /\ replica'[r] = Applied(local, e)
        /\ UNCHANGED <<docs, log, queue, watcher, writes, queued, cursor>>
        /\ DOMAIN response' = Replicas /\ DOMAIN replica' = Replicas
        /\ \A s \in Replicas \ {r} : response'[s] = response[s] /\ replica'[s] = replica[s]
    BY <1>2, <1>12, <1>13 DEF Apply
  <1>7. /\ local.recent = [i \in 1..(m - Start(b, m)) |-> log[Start(b, m) + i].id]
        /\ Range(local.recent) = {log[Start(b, m) + i].id : i \in 1..(m - Start(b, m))}
        /\ local = [docs |-> local.docs, recent |-> local.recent]
        /\ (~Skew => DocsAt(log, m, local.docs)) /\ local.docs \in [Keys -> Records]
    BY <1>1 DEF PlaceOK, Range
  <1>8. Stretch(p + 1, n)' = Stretch(p + 1, n)
    BY <1>6 DEF Stretch
  <1>9. CASE p < m
    <2>1. p + 1 - Start(b, m) \in 1..(m - Start(b, m)) /\ Start(b, m) + (p + 1 - Start(b, m)) = p + 1
      BY <1>2, <1>3, <1>4, <1>9
    <2>2. e.id \in Range(local.recent)
      BY <1>7, <2>1
    <2>3. replica'[r] = replica[r]
      BY <1>6, <2>2 DEF Applied
    <2>4. p + 1 \in Start(b, m)..m /\ p + 1 <= n
      BY <1>2, <1>3, <1>4, <1>5, <1>9
    <2>5. AnswerOK(b, m, response[r])'
      BY <1>6, <1>8, <2>4 DEF AnswerOK
    <2>6. PlaceOK(r, b, m)'
      BY <1>1, <1>6, <2>3, <2>5 DEF PlaceOK, Resumable, OldestRetained
    <2>7. FollowOK(r)'
      BY <1>1, <1>6, <2>6 DEF FollowOK
    <2>8. QED
      BY <1>2, <1>6, <2>7, Followed
  <1>10. CASE p = m
    <2>1. e.id \notin Range(local.recent)
      <3> SUFFICES ASSUME NEW i \in 1..(m - Start(b, m)), log[Start(b, m) + i].id = e.id PROVE FALSE
        BY <1>7
      <3>1. /\ Start(b, m) + i \in 1..Len(log) /\ Start(b, m) + i < m + 1
            /\ ~((m + 1) - (Start(b, m) + i) > Retention)
        BY <1>2, <1>4, SMTT(30) DEF Start
      <3>2. QED
        BY <1>2, <1>5, <1>10, <3>1 DEF Apart
    <2>2. replica'[r] = [docs |-> [local.docs EXCEPT ![e.key] = Resolve(local.docs[e.key], e.record)],
                         recent |-> Newest(Append(local.recent, e.id))]
      BY <1>6, <2>1 DEF Applied
    <2>3. /\ m + 1 \in 0..Len(log) /\ m \in Nat /\ m < Len(log) /\ b \in 0..m /\ b <= m + 1
          /\ m + 1 \in Start(b, m + 1)..(m + 1) /\ m + 1 <= n
      BY <1>2, <1>3, <1>4, <1>5, <1>10 DEF Start
    <2>4. replica'[r].recent =
            [i \in 1..((m + 1) - Start(b, m + 1)) |-> log[Start(b, m + 1) + i].id]
      <3>1. replica'[r].recent = Newest(Append(local.recent, log[m + 1].id))
        BY <1>10, <2>2
      <3> HIDE DEF local
      <3>2. local.recent = IdsOf(Start(b, m), m)
        BY <1>7 DEF IdsOf
      <3>3. replica'[r].recent = IdsOf(Start(b, m + 1), m + 1)
        BY <1>2, <2>3, <3>1, <3>2, RecentNext
      <3>4. QED
        BY <3>3 DEF IdsOf
    <2>5. replica'[r].docs \in [Keys -> Records]
      BY <1>5, <1>7, <2>2, ResolveType DEF Events
    <2>6. ~Skew => DocsAt(log, m + 1, replica'[r].docs)
      BY <1>2, <1>7, <1>10, <2>2, <2>3, DocsNext
    <2>7. AnswerOK(b, m + 1, response[r])'
      BY <1>6, <1>8, <1>10, <2>3 DEF AnswerOK
    <2>8. replica'[r] = [docs |-> replica'[r].docs, recent |-> replica'[r].recent]
      BY <2>2
    <2>9. cursor[r] \in 0..Len(log) /\ (Resumable(cursor[r]) => cursor[r] \in b..(m + 1))
          /\ (b > 0 => Len(log) > Retention)
      BY <1>1, <2>3 DEF PlaceOK
    <2>10. Resumable(cursor[r])' = Resumable(cursor[r]) /\ cursor'[r] = cursor[r] /\ log' = log
      BY <1>6 DEF Resumable, OldestRetained
    <2>11. PlaceOK(r, b, m + 1)'
      BY <2>3, <2>4, <2>5, <2>6, <2>7, <2>8, <2>9, <2>10 DEF PlaceOK
    <2>12. FollowOK(r)'
      BY <1>1, <1>6, <2>3, <2>11 DEF FollowOK
    <2>13. QED
      BY <1>2, <1>6, <2>12, Followed
  <1>11. QED
    BY <1>2, <1>3, <1>4, <1>9, <1>10

-----------------------------------------------------------------------------
\* The client's steps, and those of its connection.

LEMMA Watching ==
  ASSUME Inductive, StreamOK', UNCHANGED <<docs, log, followers, queue, writes, queued>>
  PROVE  Inductive'
  <1>1. Server /\ Apart /\ Counted /\ Shape /\ \A r \in Replicas : FollowOK(r)
    BY DEF Inductive
  <1>2. Shape'
    BY <1>1 DEF Shape, followers
  <1>3. QED
    BY <1>1, <1>2, ServerKept, CountedKept, FollowersKept DEF Inductive

LEMMA ConnectInductive ==
  ASSUME Inductive, Connect PROVE Inductive'
  <1>1. /\ log \in Seq(Events) /\ Len(log) \in Nat /\ StreamOK /\ position \in 0..Len(log)
        /\ seen \in Seq(Nat) /\ StreamComplete
    BY DEF Inductive, Server, StreamOK
  <1>2. UNCHANGED <<docs, log, followers, queue, writes, queued, position, seen>>
    BY DEF Connect
  <1>3. StreamComplete'
    BY <1>1, <1>2 DEF StreamComplete
  <1>4. CASE Resumable(position)
    <2> DEFINE S == Found(position, Watched)
               w == InTurn(S)
    <2>1. stream' = [status |-> "reading", open |-> TRUE, wire |-> w]
      BY <1>4, SinceInTurn DEF Connect, Replayed
    <2>2. /\ S = {i \in position + 1 .. Len(log) : log[i].key \in Watched}
          /\ S \in SUBSET (1..Len(log))
      BY <1>1, <1>4, SinceIs
    <2>3. /\ w \in Seq(Nat) /\ \A i \in DOMAIN w : w[i] \in S
          /\ \A n \in S : \E i \in DOMAIN w : w[i] = n
          /\ \A i, j \in DOMAIN w : i < j => w[i] < w[j]
      <3> HIDE DEF S
      <3>1. Len(log) \in Nat /\ S \in SUBSET (1..Len(log))
        BY <1>1, <2>2
      <3>2. QED
        BY <3>1, InTurnIs, ZenonT(40)
    <2> HIDE DEF w
    <2>4. /\ \A i \in DOMAIN w : w[i] \in position + 1 .. Len(log) /\ log[w[i]].key \in Watched
          /\ \A n \in position + 1 .. Len(log) : log[n].key \in Watched => \E i \in DOMAIN w : w[i] = n
      BY <2>2, <2>3
    <2>5. stream'.wire = w /\ stream'.open = TRUE /\ stream'.status = "reading"
      BY <2>1
    <2>6. (WireOK(stream.wire))'
      BY <1>2, <2>3, <2>4, <2>5 DEF WireOK
    <2>7. StreamOK'
      BY <1>1, <1>2, <1>3, <2>1, <2>5, <2>6 DEF StreamOK
    <2>8. QED
      BY <1>2, <2>7, Watching
  <1>5. CASE ~Resumable(position)
    <2>1. stream' = [status |-> "refused", open |-> FALSE, wire |-> <<>>]
      BY <1>5 DEF Connect, Idle
    <2>2. (WireOK(stream.wire))'
      BY <2>1 DEF WireOK
    <2>3. StreamOK'
      <3>1. /\ stream'.status = "refused" /\ stream'.open = FALSE /\ stream'.wire = <<>>
        BY <2>1
      <3>4. [Idle EXCEPT !.status = "refused"] = stream'
        BY <1>5 DEF Connect
      <3>2. position' \in 0..Len(log') /\ seen' \in Seq(Nat)
        BY <1>1, <1>2
      <3>3. QED
        BY <1>3, <2>1, <2>2, <3>1, <3>2, <3>4 DEF StreamOK
    <2>4. QED
      BY <1>2, <2>3, Watching
  <1>6. QED
    BY <1>4, <1>5

LEMMA ReadInductive ==
  ASSUME Inductive, Read PROVE Inductive'
  <1> DEFINE w == stream.wire
             v == Tail(w)
             x == Head(w)
  <1>1. /\ log \in Seq(Events) /\ Len(log) \in Nat /\ StreamOK /\ position \in 0..Len(log)
        /\ seen \in Seq(Nat) /\ w \in Seq(Nat) /\ w # <<>>
        /\ stream = [status |-> stream.status, open |-> stream.open, wire |-> w]
        /\ stream.status \in {"idle", "reading", "refused"} /\ stream.open \in BOOLEAN
        /\ stream.status # "reading" => stream = [Idle EXCEPT !.status = stream.status]
    BY DEF Inductive, Server, StreamOK, WireOK, Read
  <1>2. /\ UNCHANGED <<docs, log, followers, queue, writes, queued>>
        /\ position' = x /\ seen' = Append(seen, x) /\ stream' = [stream EXCEPT !.wire = v]
    BY DEF Read
  <1>3. /\ \A i \in DOMAIN w : w[i] \in position + 1 .. Len(log) /\ log[w[i]].key \in Watched
        /\ \A i, j \in DOMAIN w : i < j => w[i] < w[j]
        /\ \A n \in position + 1 .. Len(log) :
             log[n].key \in Watched /\ (stream.open \/ \E i \in DOMAIN w : n <= w[i])
               => \E i \in DOMAIN w : w[i] = n
    BY <1>1 DEF StreamOK, WireOK
  <1>4. /\ Range(seen) = {i \in 1..position : log[i].key \in Watched}
        /\ \A i, j \in DOMAIN seen : i < j => seen[i] < seen[j]
    BY <1>1 DEF StreamOK, StreamComplete
  <1>5. stream.status = "reading"
    BY <1>1 DEF Idle
  <1>6. /\ x = w[1] /\ x \in Nat /\ v \in Seq(Nat) /\ Len(w) \in Nat \ {0} /\ Len(v) = Len(w) - 1
        /\ \A i \in 1..Len(v) : v[i] = w[i + 1]
    BY <1>1, HeadTail
  <1>7. stream' = [status |-> "reading", open |-> stream.open, wire |-> v]
    <2> HIDE DEF v, w
    <2>1. QED
      BY <1>1, <1>2, <1>5
  <1>8. DOMAIN w = 1..Len(w) /\ DOMAIN v = 1..Len(v)
    BY <1>1, <1>6
  <1> HIDE DEF v, x, w
  <1>9. x \in position + 1 .. Len(log) /\ log[x].key \in Watched
    BY <1>3, <1>6, <1>8
  <1>10. ASSUME NEW i \in 1..Len(w) PROVE x <= w[i]
    <2>1. w[i] \in Nat /\ (1 < i => w[1] < w[i]) /\ 1 \in 1..Len(w)
      <3>1. 1 \in DOMAIN w /\ i \in DOMAIN w
        BY <1>6, <1>8
      <3>2. w[i] \in position + 1 .. Len(log) /\ (1 < i => w[1] < w[i])
        BY <1>3, <3>1
      <3>3. QED
        BY <1>1, <1>8, <3>1, <3>2
    <2>2. QED
      BY <1>6, <2>1
  <1>11. ASSUME NEW n \in position + 1 .. x, log[n].key \in Watched PROVE n = x
    <2>1. \E i \in DOMAIN w : n <= w[i]
      BY <1>6, <1>8
    <2>2. n \in position + 1 .. Len(log)
      BY <1>1, <1>9
    <2>3. PICK i \in DOMAIN w : w[i] = n
      BY <1>3, <1>11, <2>1, <2>2
    <2>4. x <= n
      BY <1>8, <1>10, <2>3
    <2>5. QED
      BY <1>6, <2>2, <2>4
  <1>12. /\ seen' \in Seq(Nat) /\ Len(seen) \in Nat /\ Len(seen') = Len(seen) + 1
         /\ \A i \in 1..Len(seen) : seen'[i] = seen[i]
         /\ seen'[Len(seen) + 1] = x
    BY <1>1, <1>2, <1>6, AppendIs
  <1>13. DOMAIN seen = 1..Len(seen) /\ DOMAIN seen' = 1..Len(seen')
    BY <1>1, <1>12
  <1>14. \A i \in 1..Len(seen) : seen[i] \in 1..position /\ log[seen[i]].key \in Watched
    BY <1>4, <1>13 DEF Range
  <1>15. StreamComplete'
    <2>1. ASSUME NEW n \in 1..x, log[n].key \in Watched PROVE \E i \in 1..Len(seen') : seen'[i] = n
      <3>1. CASE n \in 1..position
        <4>1. PICK i \in 1..Len(seen) : seen[i] = n
          BY <1>4, <1>13, <2>1, <3>1 DEF Range
        <4>2. QED
          BY <1>12, <4>1
      <3>2. CASE n \notin 1..position
        <4>1. n = x
          BY <1>1, <1>11, <2>1, <3>2
        <4>2. QED
          BY <1>12, <4>1
      <3>3. QED
        BY <3>1, <3>2
    <2>2. ASSUME NEW i \in 1..Len(seen') PROVE seen'[i] \in 1..x /\ log[seen'[i]].key \in Watched
      <3>1. CASE i \in 1..Len(seen)
        <4>1. seen'[i] = seen[i] /\ seen[i] \in 1..position /\ log[seen[i]].key \in Watched
          BY <1>12, <1>14, <3>1
        <4>2. 1..position \in SUBSET (1..x)
          BY <1>1, <1>9
        <4>3. QED
          BY <4>1, <4>2
      <3>2. CASE i = Len(seen) + 1
        BY <1>1, <1>9, <1>12, <3>2
      <3>3. QED
        BY <1>12, <3>1, <3>2
    <2>3. Range(seen') = {i \in 1..x : log[i].key \in Watched}
      BY <1>13, <2>1, <2>2 DEF Range
    <2>4. ASSUME NEW i \in 1..Len(seen'), NEW j \in 1..Len(seen'), i < j PROVE seen'[i] < seen'[j]
      <3>1. i \in 1..Len(seen) /\ seen'[i] = seen[i] /\ seen[i] \in 1..position
        BY <1>12, <1>14, <2>4
      <3>2. CASE j \in 1..Len(seen)
        BY <1>4, <1>12, <1>13, <2>4, <3>1, <3>2
      <3>3. CASE j = Len(seen) + 1
        BY <1>1, <1>9, <1>12, <3>1, <3>3, SMTT(30)
      <3>4. QED
        BY <1>12, <3>2, <3>3
    <2>5. QED
      BY <1>2, <1>13, <2>3, <2>4 DEF StreamComplete
  <1>16. (WireOK(stream.wire))'
    <2>1. ASSUME NEW i \in 1..Len(v)
          PROVE  v[i] = w[i + 1] /\ i + 1 \in 1..Len(w) /\ v[i] \in x + 1 .. Len(log) /\ log[v[i]].key \in Watched
      <3>1. v[i] = w[i + 1] /\ i + 1 \in 1..Len(w) /\ 1 \in 1..Len(w) /\ 1 < i + 1
        BY <1>6
      <3>2. w[i + 1] \in position + 1 .. Len(log) /\ log[w[i + 1]].key \in Watched /\ w[1] < w[i + 1]
        BY <1>3, <1>8, <3>1
      <3>3. v[i] \in x + 1 .. Len(log)
        <4> DEFINE y == w[i + 1]
        <4>1. y \in position + 1 .. Len(log) /\ x < y /\ v[i] = y
          BY <1>6, <3>1, <3>2
        <4> HIDE DEF y
        <4>2. QED
          BY <1>1, <1>6, <4>1
      <3>4. QED
        BY <3>1, <3>2, <3>3
    <2>2. ASSUME NEW i \in 1..Len(v), NEW j \in 1..Len(v), i < j PROVE v[i] < v[j]
      <3>1. i + 1 < j + 1 /\ i + 1 \in 1..Len(w) /\ j + 1 \in 1..Len(w)
        BY <2>1, <2>2
      <3>2. QED
        BY <1>3, <1>8, <2>1, <3>1
    <2>3. ASSUME NEW n \in x + 1 .. Len(log), log[n].key \in Watched,
                 stream.open \/ \E i \in 1..Len(v) : n <= v[i]
          PROVE  \E i \in 1..Len(v) : v[i] = n
      <3>1. stream.open \/ \E i \in DOMAIN w : n <= w[i]
        BY <1>8, <2>1, <2>3
      <3>2. n \in position + 1 .. Len(log)
        BY <1>1, <1>9
      <3>3. PICK i \in 1..Len(w) : w[i] = n
        BY <1>3, <1>8, <2>3, <3>1, <3>2
      <3>4. i # 1 /\ i - 1 \in 1..Len(v) /\ (i - 1) + 1 = i
        BY <1>6, <3>3
      <3>5. QED
        BY <1>6, <3>3, <3>4
    <2>4. position' = x /\ log' = log /\ stream'.wire = v /\ stream'.open = stream.open
      BY <1>2, <1>7
    <2>5. QED
      BY <1>6, <1>8, <2>1, <2>2, <2>3, <2>4 DEF WireOK
  <1>17. StreamOK'
    <2>1. position' \in 0..Len(log') /\ stream'.status = "reading" /\ stream'.open \in BOOLEAN
          /\ stream' = [status |-> stream'.status, open |-> stream'.open, wire |-> stream'.wire]
      BY <1>1, <1>2, <1>7, <1>9, SMTT(30)
    <2>2. QED
      BY <1>12, <1>15, <1>16, <2>1 DEF StreamOK
  <1>18. QED
    BY <1>2, <1>17, Watching

LEMMA EndInductive ==
  ASSUME Inductive, EndStream PROVE Inductive'
  <1>1. StreamOK /\ stream = [status |-> stream.status, open |-> stream.open, wire |-> stream.wire]
    BY DEF Inductive, StreamOK
  <1>2. UNCHANGED <<docs, log, followers, queue, writes, queued, position, seen>>
    BY DEF EndStream
  <1>3. stream' = [status |-> stream.status, open |-> FALSE, wire |-> stream.wire]
    BY <1>1 DEF EndStream
  <1>4. stream.status = "reading"
    BY <1>1 DEF StreamOK, Idle, EndStream
  <1>5. /\ stream'.wire = stream.wire /\ stream'.open = FALSE /\ stream'.status = stream.status
        /\ log' = log /\ position' = position /\ seen' = seen
    BY <1>2, <1>3
  <1>6. (WireOK(stream.wire))'
    BY <1>1, <1>5 DEF StreamOK, WireOK
  <1>7. StreamOK'
    BY <1>1, <1>3, <1>4, <1>5, <1>6 DEF StreamOK, StreamComplete
  <1>8. QED
    BY <1>2, <1>7, Watching

LEMMA BreakInductive ==
  ASSUME Inductive, BreakStream \/ EndOfBody PROVE Inductive'
  <1>1. StreamOK
    BY DEF Inductive
  <1>2. UNCHANGED <<docs, log, followers, queue, writes, queued, position, seen>> /\ stream' = Idle
    BY DEF BreakStream, EndOfBody
  <1>3. (WireOK(stream.wire))'
    BY <1>2 DEF WireOK, Idle
  <1>4. StreamOK'
    BY <1>1, <1>2, <1>3 DEF StreamOK, StreamComplete, Idle
  <1>5. QED
    BY <1>2, <1>4, Watching

-----------------------------------------------------------------------------
\* The theorems.

LEMMA InitInductive == Init => Inductive
  <1> SUFFICES ASSUME Init PROVE Inductive
    OBVIOUS
  <1>1. log = <<>> /\ docs = NoDocs /\ writes = 0 /\ queued = 0 /\ Len(log) = 0 /\ log \in Seq(Events)
    BY DEF Init
  <1>2. DocsAt(log, 0, NoDocs)
    BY DEF DocsAt, Stands, Live, NoDocs, Records
  <1>3. Server
    BY <1>1, <1>2 DEF Server, NoDocs, Records
  <1>4. Apart /\ Counted
    BY <1>1 DEF Apart, Counted
  <1>5. Shape
    BY DEF Init, Shape
  <1>6. StreamOK
    <2>1. stream = Idle /\ position = 0 /\ seen = <<>>
      BY DEF Init
    <2>2. WireOK(stream.wire)
      BY <2>1 DEF WireOK, Idle
    <2>3. StreamComplete
      BY <2>1 DEF StreamComplete, Range
    <2>4. QED
      BY <1>1, <2>1, <2>2, <2>3 DEF StreamOK, Idle
  <1>7. ASSUME NEW r \in Replicas PROVE FollowOK(r)
    <2>1. replica[r] = [docs |-> NoDocs, recent |-> <<>>] /\ cursor[r] = 0 /\ response[r] = None
      BY DEF Init
    <2>2. Start(0, 0) = 0
      BY ReplicationAssumption DEF Start
    <2>3. replica[r].recent = [i \in 1..(0 - Start(0, 0)) |-> log[Start(0, 0) + i].id]
      BY <2>1, <2>2
    <2>4. PlaceOK(r, 0, 0)
      BY <1>1, <1>2, <2>1, <2>3 DEF PlaceOK, AnswerOK, NoDocs, Records
    <2>5. QED
      BY <1>1, <2>4 DEF FollowOK
  <1>8. QED
    BY <1>3, <1>4, <1>5, <1>6, <1>7 DEF Inductive

LEMMA NextInductive == Inductive /\ [Next]_vars => Inductive'
  <1> SUFFICES ASSUME Inductive, [Next]_vars PROVE Inductive'
    OBVIOUS
  <1>1. ASSUME NEW k \in Keys, NEW v \in Records, Write(k, v) PROVE Inductive'
    BY <1>1, WriteInductive
  <1>2. ASSUME NEW r \in Replicas, NEW k \in Keys, NEW v \in Records, Enqueue(r, k, v) PROVE Inductive'
    BY <1>2, EnqueueInductive
  <1>3. ASSUME NEW r \in Replicas, FlushAnswered(r) \/ FlushUnanswered(r) PROVE Inductive'
    <2>1. Push(r, TRUE) \/ Push(r, FALSE)
      BY <1>3 DEF FlushAnswered, FlushUnanswered
    <2>2. QED
      BY <2>1, PushInductive
  <1>4. ASSUME NEW r \in Replicas, Follow(r) PROVE Inductive'
    BY <1>4, PullInductive, PullSnapshotInductive, ApplyInductive, EndPullInductive, ReseedInductive DEF Follow
  <1>5. ASSUME NEW r \in Replicas, Restart(r) PROVE Inductive'
    BY <1>5, RestartInductive
  <1>6. ASSUME Watch \/ EndStream \/ BreakStream PROVE Inductive'
    BY <1>6, ConnectInductive, ReadInductive, EndInductive, BreakInductive DEF Watch
  <1>7. ASSUME UNCHANGED vars PROVE Inductive'
    <2>1. StreamOK'
      BY <1>7, StreamKept DEF vars, Inductive
    <2>2. QED
      BY <1>7, <2>1, Watching DEF vars
  <1>8. QED
    BY <1>1, <1>2, <1>3, <1>4, <1>5, <1>6, <1>7 DEF Next

LEMMA InductiveHolds == Spec => []Inductive
  BY InitInductive, NextInductive, PTL DEF Spec

LEMMA TypesFollow == ASSUME Inductive PROVE TypeOK
  <1>1. /\ docs \in [Keys -> Records] /\ log \in Seq(Events) /\ Len(log) \in Nat
        /\ stream.status \in {"idle", "reading", "refused"} /\ stream.open \in BOOLEAN
        /\ position \in 0..Len(log) /\ queue \in [Replicas -> Seq(Pushed)]
    BY DEF Inductive, Server, StreamOK, Shape
  <1>2. Range(seen) \subseteq 1..Len(log)
    <2>1. Range(seen) = {i \in 1..position : log[i].key \in Watched}
      BY DEF Inductive, StreamOK, StreamComplete
    <2>2. QED
      BY <1>1, <2>1
  <1>3. ASSUME NEW r \in Replicas
        PROVE  /\ replica[r].docs \in [Keys -> Records] /\ Len(replica[r].recent) <= Retention
               /\ cursor[r] \in 0..Len(log)
               /\ IsSnapshot(r) => response[r].docs \in [Keys -> Records]
               /\ IsBatch(r) => response[r].events \in Seq(Events)
               /\ queue[r] \in Seq(Events)
    <2>1. PICK m \in 0..Len(log), b \in 0..Len(log) : PlaceOK(r, b, m)
      BY PlaceIs
    <2>2. /\ b <= m /\ replica[r].docs \in [Keys -> Records] /\ cursor[r] \in 0..Len(log)
          /\ replica[r].recent = IdsOf(Start(b, m), m) /\ AnswerOK(b, m, response[r])
      BY <2>1 DEF PlaceOK, IdsOf
    <2>3. Start(b, m) \in 0..m /\ m - Start(b, m) <= Retention /\ Start(b, m) \in Nat
      BY <1>1, <2>2, ReplicationAssumption DEF Start
    <2>4. Len(replica[r].recent) <= Retention
      <3>1. Start(b, m) \in Nat /\ Start(b, m) <= m
        BY <1>1, <2>3
      <3>2. Len(IdsOf(Start(b, m), m)) = m - Start(b, m)
        BY <1>1, <3>1, IdsOfIs, Zenon
      <3>3. QED
        BY <2>2, <2>3, <3>2
    <2>5. IsSnapshot(r) => response[r].docs \in [Keys -> Records]
      <3> SUFFICES ASSUME IsSnapshot(r) PROVE response[r].docs \in [Keys -> Records]
        OBVIOUS
      <3>1. PICK n \in 1..Len(log), d \in [Keys -> Records] : response[r] = [docs |-> d, next |-> n]
        BY <2>2, SnapshotAnswer
      <3>2. QED
        BY <3>1
    <2>6. IsBatch(r) => response[r].events \in Seq(Events)
      <3> SUFFICES ASSUME IsBatch(r) PROVE response[r].events \in Seq(Events)
        OBVIOUS
      <3>1. PICK p \in Start(b, m)..m, n \in 0..Len(log) :
                   p <= n /\ response[r] = [events |-> Stretch(p, n), next |-> n]
        BY <2>2, BatchAnswer
      <3>2. p \in 0..Len(log)
        BY <1>1, <2>3, <3>1
      <3>3. Stretch(p, n) \in Seq(Events)
        BY <1>1, <3>1, <3>2, StretchIs
      <3>4. QED
        BY <3>1, <3>3
    <2>7. queue[r] \in Seq(Events)
      <3>1. queue[r] \in Seq(Pushed) /\ Pushed \in SUBSET Events
        BY <1>1 DEF Pushed
      <3>2. QED
        BY <3>1
    <2>8. QED
      BY <2>2, <2>4, <2>5, <2>6, <2>7
  <1>4. QED
    BY <1>1, <1>2, <1>3 DEF TypeOK

LEMMA RetainedOnce == ASSUME Inductive PROVE PushedOnce
  <1>1. log \in Seq(Events) /\ Len(log) \in Nat /\ Apart
    BY DEF Inductive, Server
  <1>2. /\ OldestRetained \in Nat \ {0} /\ Retention \in Nat \ {0}
        /\ OldestRetained = IF Len(log) <= Retention THEN 1 ELSE Len(log) - Retention + 1
    BY <1>1, OldestIs
  <1> SUFFICES ASSUME NEW i \in OldestRetained..Len(log), NEW j \in OldestRetained..Len(log),
                      log[i].id = log[j].id, i < j
               PROVE  FALSE
    BY <1>1, <1>2 DEF PushedOnce
  <1>3. i \in DOMAIN log /\ j \in DOMAIN log /\ j - i > Retention
    BY <1>1, <1>2 DEF Apart
  <1>4. QED
    BY <1>1, <1>2, <1>3

\* Whatever the clocks say, no retained change is logged twice, though its push
\* is repeated, and the iterator of watch() has given every change of its
\* collection once and in order (applyReplicatedChange, watch).
THEOREM NothingTwiceOrMissing == Spec => [](TypeOK /\ PushedOnce /\ StreamComplete)
  <1>1. Inductive => TypeOK /\ PushedOnce /\ StreamComplete
    BY TypesFollow, RetainedOnce DEF Inductive, StreamOK
  <1>2. QED
    BY <1>1, InductiveHolds, PTL

\* Followers agree with the server: where clocks do, a replica at its sequence has
\* its records, through pushes, restarts, repeated pulls and new seeds
\* (ReplicationClient.pull, applyReplicatedChange, replaceState).
THEOREM FollowersMatchServer == ASSUME ~Skew PROVE Spec => []FollowersAgree
  <1>1. ASSUME Inductive, NEW r \in Replicas, response[r] = None, cursor[r] = Len(log)
        PROVE  replica[r].docs = docs
    <2>1. PICK m \in 0..Len(log), b \in 0..Len(log) : PlaceOK(r, b, m)
      BY <1>1, PlaceIs
    <2>2. /\ log \in Seq(Events) /\ Len(log) \in Nat /\ Server /\ OldestRetained \in Nat
          /\ Retention \in Nat \ {0}
          /\ OldestRetained = IF Len(log) <= Retention THEN 1 ELSE Len(log) - Retention + 1
      BY <1>1, PlaceIs
    <2>3. Resumable(cursor[r])
      BY <1>1, <2>2 DEF Resumable
    <2>4. m = Len(log)
      BY <1>1, <2>1, <2>2, <2>3 DEF PlaceOK
    <2>5. DocsAt(log, Len(log), replica[r].docs) /\ DocsAt(log, Len(log), docs)
      BY <2>1, <2>2, <2>4 DEF PlaceOK, Server
    <2>6. QED
      BY <2>2, <2>5, DocsOnce
  <1>2. Inductive => FollowersAgree
    BY <1>1, TypesFollow, RetainedOnce DEF FollowersAgree, Converged, Inductive, StreamOK
  <1>3. QED
    BY <1>2, InductiveHolds, PTL

\* A replica is never answered with a history that leaves changes out, however far
\* behind its cursor is (resumeStatus, changesSince).
THEOREM AnswersAreWhole == Spec => NoPartialHistory
  <1>1. ASSUME Inductive, [Next]_vars, NEW r \in Replicas, response[r] = None, IsBatch(r)'
        PROVE  response'[r].events = SubSeq(log, cursor[r] + 1, response'[r].next)
    <2>1. DOMAIN response = Replicas /\ log \in Seq(Events)
      BY <1>1, PlaceIs
    <2>2. response'[r] # None /\ "events" \in DOMAIN response'[r]
      BY <1>1 DEF IsBatch
    <2>3. ASSUME NEW s \in Replicas, Follow(s) PROVE Pull(r)
      <3>1. s = r
        BY <2>1, <2>2, <2>3, <1>1 DEF Follow, Pull, PullSnapshot, Apply, EndPull, Reseed
      <3>2. ~Apply(r) /\ ~EndPull(r) /\ ~Reseed(r)
        BY <1>1 DEF Apply, EndPull, Reseed, IsBatch, IsSnapshot
      <3>3. ~PullSnapshot(r)
        <4>1. \A n, d : DOMAIN [docs |-> d, next |-> n] = {"docs", "next"}
          OBVIOUS
        <4>2. "events" \notin {"docs", "next"}
          OBVIOUS
        <4>3. QED
          BY <2>1, <2>2, <4>1, <4>2 DEF PullSnapshot
      <3>4. QED
        BY <2>3, <3>1, <3>2, <3>3 DEF Follow
    <2>4. Pull(r)
      <3>1. response' # response
        BY <1>1, <2>2
      <3>2. \/ \E s \in Replicas : Follow(s)
            \/ \E s \in Replicas : Restart(s)
        BY <1>1, <3>1 DEF Next, Write, Enqueue, FlushAnswered, FlushUnanswered, Push, Watch, Connect,
                          Read, EndOfBody, EndStream, BreakStream, followers, vars
      <3>3. \A s \in Replicas : ~Restart(s)
        BY <1>1, <2>1, <2>2 DEF Restart
      <3>4. QED
        BY <2>3, <3>2, <3>3
    <2>5. PICK n \in cursor[r] + 1 .. Len(log) : response'[r] = [events |-> Stretch(cursor[r], n), next |-> n]
      BY <1>1, <2>4, PullIs
    <2>6. cursor[r] \in Nat
      BY <1>1, <2>4, PullIs
    <2>7. SubSeq(log, cursor[r] + 1, n) = Stretch(cursor[r], n)
      BY <2>1, <2>5, <2>6, SMTT(30) DEF Stretch
    <2>8. QED
      BY <2>5, <2>7
  <1>2. Inductive /\ [Next]_vars =>
          [\A r \in Replicas :
             response[r] = None /\ IsBatch(r)' =>
               response'[r].events = SubSeq(log, cursor[r] + 1, response'[r].next)]_vars
    BY <1>1
  <1>3. QED
    BY <1>2, InductiveHolds, PTL DEF Spec, NoPartialHistory
=============================================================================
