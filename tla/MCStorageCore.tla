---------------------------- MODULE MCStorageCore ----------------------------
(* An instance of StorageCore for TLC: two records in two buckets of the index. *)
EXTENDS StorageCore

CONSTANTS x, y, t1, t2, t3, c1, c2

MCBuckets == <<"b0", "b1">>
MCBucketOf == (x :> "b0" @@ y :> "b1")
Op(kind, id) == [kind |-> kind, id |-> id]

\* A change whose transaction reads one record and writes both, or scans and
\* writes, and two deliveries of another one, that inserts a record or removes it.
MCPrograms ==
  [t \in Txns |->
    IF t = t1
    THEN {<<Op("get", x), Op("put", y), Op("put", x)>>, <<Op("all", x), Op("put", y)>>}
    ELSE {<<Op("insert", x)>>, <<Op("remove", x)>>}]
MCChangeOf == [t \in Txns |-> IF t = t1 THEN c2 ELSE c1]

\* What follows a read of a bucket without its entries is not explored further.
Unharmed == ~harmed
MCSymmetry == Permutations({t2, t3})
=============================================================================
