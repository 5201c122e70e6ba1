----------------------------- MODULE MCReferences -----------------------------
(***************************************************************************)
(* An instance of the pure functions for TLC: the logs of                  *)
(* SyncioStateReference and the documents of Documents.  A behaviour grows *)
(* a log or changes a document.                                            *)
(***************************************************************************)
EXTENDS SyncioStateReference, Documents

CONSTANTS k1, k2, v1, r1, db

ReferenceInit == Init /\ stored = Undefined
ReferenceNext ==
  \/ stored = Undefined /\ Grow /\ UNCHANGED stored
  \/ /\ entries = <<>> /\ UNCHANGED vars
     /\ \E update \in Updates, upsert \in BOOLEAN : AtomicUpdateDocument(update, upsert)
ReferenceSpec == ReferenceInit /\ [][ReferenceNext]_<<vars, stored>>

One(op, path, arg) == [changes |-> << [op |-> op, path |-> path, arg |-> arg] >>]
Item == Obj([n |-> Num(1)])
Ops(op, arg) == [ops |-> << <<op, arg>> >>]
Where(path, condition) == <<[path |-> path, condition |-> condition]>>

SampleUpdates ==
  {One("$set", <<"n">>, Num(1)), One("$set", <<"o", "n">>, Num(1)), One("$set", <<"id">>, Str("y")),
   One("$set", <<"o">>, Item), One("$set", <<"a", "n">>, Num(1)),
   One("$unset", <<"n">>, Num(1)), One("$unset", <<"o", "n">>, Num(1)), One("$unset", <<"id">>, Num(1)),
   One("$unset", <<"a", "n">>, Num(1)),
   One("$inc", <<"n">>, Num(1)), One("$mul", <<"n">>, Num(0)), One("$inc", <<"o", "m">>, Num(1)),
   One("$min", <<"n">>, Num(0)), One("$max", <<"o", "m">>, Num(1)), One("$max", <<"a">>, Num(1)),
   One("$push", <<"a">>, <<Num(1)>>), One("$push", <<"a">>, <<Item>>), One("$push", <<"n">>, <<Num(1)>>),
   One("$addToSet", <<"a">>, <<Num(1), Item>>),
   One("$pull", <<"a">>, Num(1)), One("$pull", <<"a">>, Ops("$gt", Num(0))),
   One("$pull", <<"a">>, [query |-> Where(<<"n">>, Num(1))]),
   One("$rename", <<"n">>, <<"m">>), One("$rename", <<"o", "n">>, <<"m">>), One("$rename", <<"id">>, <<"m">>),
   [replace |-> [n |-> Num(1)]], [replace |-> [id |-> Str("y")]],
   [changes |-> <<[op |-> "$addToSet", path |-> <<"a">>, arg |-> <<Item>>],
                  [op |-> "$pull", path |-> <<"a">>, arg |-> Num(1)]>>],
   [changes |-> <<[op |-> "$set", path |-> <<"n">>, arg |-> Num(1)],
                  [op |-> "$inc", path |-> <<"a">>, arg |-> Num(1)]>>]}

Row(id, fields) == Obj(("id" :> Str(id)) @@ fields)
SampleRows ==
  {<<Row("y", [n |-> Num(1), a |-> Arr(<<Num(1), Item>>)]), Row("z", [m |-> Num(1), o |-> Item])>>,
   <<Row("y", [n |-> Num(2), m |-> Num(0), a |-> Arr(<<>>)]), Row("z", [n |-> Num(1), m |-> Num(2)])>>}
SampleFilters ==
  {<<>>, Where(<<"n">>, Ops("$gte", Num(1))), Where(<<"a">>, Ops("$size", Num(2))),
   Where(<<"a", "n">>, Num(1)) \o Where(<<"m">>, Ops("$not", Ops("$lt", Num(1)))),
   <<[or |-> <<Where(<<"o", "n">>, Ops("$exists", TRUE)), Where(<<"n">>, Ops("$in", Arr(<<Num(0), Num(1)>>)))>>]>>,
   <<[nor |-> <<Where(<<"a">>, Ops("$all", Arr(<<Num(1)>>))), Where(<<"m">>, Ops("$ne", Num(1)))>>]>>,
   <<[not |-> Where(<<"a">>, Ops("$elemMatch", Where(<<"n">>, Ops("$lte", Num(1)))))],
     [and |-> <<Where(<<"n">>, Ops("$nin", Arr(<<Num(2)>>))), Where(<<"n">>, Ops("$gt", Num(0)))>>]>>}
SampleOrders == {<<>>, << <<<<"n">>, -1>> >>, << <<<<"m">>, 1>>, <<<<"n">>, 1>> >>}
SampleProjections ==
  {[include |-> TRUE, paths |-> <<>>], [include |-> TRUE, paths |-> <<<<"o", "n">>, <<"a">>>>],
   [include |-> FALSE, paths |-> <<<<"o", "n">>, <<"m">>>>]}
=============================================================================
