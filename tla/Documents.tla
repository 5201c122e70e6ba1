------------------------------ MODULE Documents ------------------------------
(***************************************************************************)
(* The document functions of Syncio (document.js, document-api.js,         *)
(* queryRecords in advanced.js): queries, updates, projections and         *)
(* aggregation over JSON documents, and one stored document that updates   *)
(* change.                                                                 *)
(*                                                                         *)
(* A value is [num |-> n], [str |-> s], [arr |-> sequence] or              *)
(* [obj |-> function from field names]; a path is a sequence of names.     *)
(* What throws is Error.  Malformed queries, updates and pipelines, which  *)
(* throw before they do anything, are left out, and so are array indexes   *)
(* as path parts.                                                          *)
(***************************************************************************)
EXTENDS Integers, SequencesExt, FiniteSetsExt, Functions, TLC

CONSTANTS
  Updates, Rows, Filters, Orders, Projections,   \* what is tried
  MaxNumber, MaxLength                           \* the size of the stored document

VARIABLE stored     \* the document under DocumentId, or Undefined

Undefined == [undefined |-> TRUE]
Error == [error |-> TRUE]
Num(n) == [num |-> n]
Str(s) == [str |-> s]
Arr(s) == [arr |-> s]
Obj(f) == [obj |-> f]
EmptyObj == Obj([f \in {} |-> Undefined])
DocumentId == Str("x")

Is(kind, v) == kind \in DOMAIN v
Field(v, name) == IF Is("obj", v) /\ name \in DOMAIN v.obj THEN v.obj[name] ELSE Undefined

-----------------------------------------------------------------------------
(* Queries.                                                                *)

\* Every value a path leads to, through arrays.
RECURSIVE ResolveValues(_, _)
ResolveValues(v, path) ==
  CASE path = <<>> -> <<v>>
    [] path # <<>> /\ Is("arr", v) ->
         FlattenSeq([i \in DOMAIN v.arr |-> ResolveValues(v.arr[i], path)])
    [] path # <<>> /\ Field(v, Head(path)) # Undefined -> ResolveValues(Field(v, Head(path)), Tail(path))
    [] OTHER -> <<>>

FirstPathValue(doc, path) ==
  LET values == ResolveValues(doc, path) IN IF values = <<>> THEN Undefined ELSE values[1]

EqualMongoLike(actual, expected) ==
  IF Is("arr", actual) /\ ~Is("arr", expected) THEN expected \in Range(actual.arr) ELSE actual = expected

\* The number a value compares as when the other side is a number; {}: none.
RECURSIVE Number(_)
Number(v) ==
  CASE Is("num", v) -> {v.num}
    [] Is("arr", v) /\ v.arr = <<>> -> {0}
    [] Is("arr", v) /\ Len(v.arr) = 1 -> Number(v.arr[1])
    [] OTHER -> {}

Less(a, b) == \E x \in Number(a), y \in Number(b) : x < y
LessOrEqual(a, b) == \E x \in Number(a), y \in Number(b) : x <= y

RECURSIVE MatchesCondition(_, _), MatchesDocument(_, _)
OperatorPredicate(op, v, expected) ==
  CASE op = "$eq" -> EqualMongoLike(v, expected)
    [] op = "$ne" -> ~EqualMongoLike(v, expected)
    [] op = "$gt" -> Less(expected, v)
    [] op = "$gte" -> LessOrEqual(expected, v)
    [] op = "$lt" -> Less(v, expected)
    [] op = "$lte" -> LessOrEqual(v, expected)
    [] op = "$in" -> \E c \in Range(expected.arr) : EqualMongoLike(v, c)
    [] op = "$nin" -> \A c \in Range(expected.arr) : ~EqualMongoLike(v, c)
    [] op = "$size" -> Is("arr", v) /\ Num(Len(v.arr)) = expected
    [] op = "$all" -> Is("arr", v) /\ \A c \in Range(expected.arr) :
                        \E item \in Range(v.arr) : EqualMongoLike(item, c)
    [] op = "$elemMatch" -> Is("arr", v) /\ \E item \in Range(v.arr) :
                              (Is("obj", item) \/ Is("arr", item)) /\ MatchesDocument(item, expected)

\* A condition is [ops |-> <<operator, argument>> pairs] or a value to equal.
MatchesCondition(values, condition) ==
  IF ~Is("ops", condition) THEN \E v \in Range(values) : EqualMongoLike(v, condition)
  ELSE \A o \in Range(condition.ops) :
         CASE o[1] = "$exists" -> o[2] = (values # <<>>)
           [] o[1] = "$not" -> ~MatchesCondition(values, o[2])
           [] OTHER -> \E v \in Range(values) : OperatorPredicate(o[1], v, o[2])

\* A query is a sequence of clauses, of a path or of other queries.
MatchesDocument(doc, query) ==
  \A clause \in Range(query) :
    CASE Is("and", clause) -> \A q \in Range(clause.and) : MatchesDocument(doc, q)
      [] Is("or", clause) -> \E q \in Range(clause.or) : MatchesDocument(doc, q)
      [] Is("nor", clause) -> ~\E q \in Range(clause.nor) : MatchesDocument(doc, q)
      [] Is("not", clause) -> ~MatchesDocument(doc, clause.not)
      [] Is("path", clause) -> MatchesCondition(ResolveValues(doc, clause.path), clause.condition)

-----------------------------------------------------------------------------
(* Reading and writing one path.                                           *)

ReadDirectPath(doc, path) == FoldLeft(Field, doc, path)

\* Objects on the way are made; anything else on the way throws.
RECURSIVE SetMutable(_, _, _)
SetMutable(doc, path, v) ==
  LET name == Head(path)
      there == IF Field(doc, name) = Undefined THEN EmptyObj ELSE Field(doc, name)
      inner == CASE Len(path) = 1 -> v
                 [] Len(path) > 1 /\ Is("obj", there) -> SetMutable(there, Tail(path), v)
                 [] OTHER -> Error
  IN IF inner = Error THEN Error ELSE Obj((name :> inner) @@ doc.obj)

RECURSIVE DeletePath(_, _)
DeletePath(doc, path) ==
  LET name == Head(path) IN
  CASE ~Is("obj", doc) \/ Field(doc, name) = Undefined -> doc
    [] Is("obj", doc) /\ Field(doc, name) # Undefined /\ Len(path) = 1 ->
         Obj(Restrict(doc.obj, DOMAIN doc.obj \ {name}))
    [] OTHER -> Obj([doc.obj EXCEPT ![name] = DeletePath(@, Tail(path))])

-----------------------------------------------------------------------------
(* Updates.  An update is [changes |-> sequence of [op, path, arg]], in    *)
(* the order the code goes through its operators and fields, or            *)
(* [replace |-> fields].                                                   *)

NumericUpdate(doc, path, F(_)) ==
  LET current == ReadDirectPath(doc, path) IN
  CASE current = Undefined -> SetMutable(doc, path, Num(F(0)))
    [] Is("num", current) -> SetMutable(doc, path, Num(F(current.num)))
    [] OTHER -> Error

CompareUpdate(doc, path, candidate, Better(_, _)) ==
  LET current == ReadDirectPath(doc, path) IN
  IF current = Undefined \/ Better(candidate, current) THEN SetMutable(doc, path, candidate) ELSE doc

\* Variant: an item that is there is pushed again.
WithItemTwice(array, item, unique) == Append(array, item)

WithItem(array, item, unique) ==
  IF unique /\ item \in Range(array) THEN array ELSE Append(array, item)

ArrayUpdate(doc, path, items, unique) ==
  LET current == ReadDirectPath(doc, path)
      Added(array) == SetMutable(doc, path,
                        Arr(FoldLeft(LAMBDA s, item : WithItem(s, item, unique), array, items)))
  IN CASE current = Undefined -> Added(<<>>)
       [] Is("arr", current) -> Added(current.arr)
       [] OTHER -> Error

\* Variant: a condition is only compared.
PullMatchesEqual(item, condition) == item = condition

PullMatches(item, condition) ==
  CASE Is("ops", condition) -> MatchesCondition(<<item>>, condition)
    [] Is("query", condition) /\ Is("obj", item) -> MatchesDocument(item, condition.query)
    [] OTHER -> EqualMongoLike(item, condition)

PullUpdate(doc, path, condition) ==
  LET current == ReadDirectPath(doc, path) IN
  CASE current = Undefined -> doc
    [] Is("arr", current) ->
         SetMutable(doc, path, Arr(SelectSeq(current.arr, LAMBDA item : ~PullMatches(item, condition))))
    [] OTHER -> Error

RenamePath(doc, from, to) ==
  LET current == ReadDirectPath(doc, from) IN
  CASE <<"id">> \in {from, to} -> Error
    [] <<"id">> \notin {from, to} /\ current = Undefined -> doc
    [] OTHER -> SetMutable(DeletePath(doc, from), to, current)

Change(doc, change) ==
  LET path == change.path  arg == change.arg IN
  CASE change.op = "$set" -> SetMutable(doc, path, arg)
    [] change.op = "$unset" -> DeletePath(doc, path)
    [] change.op = "$inc" -> NumericUpdate(doc, path, LAMBDA n : n + arg.num)
    [] change.op = "$mul" -> NumericUpdate(doc, path, LAMBDA n : n * arg.num)
    [] change.op = "$min" -> CompareUpdate(doc, path, arg, LAMBDA new, old : Less(new, old))
    [] change.op = "$max" -> CompareUpdate(doc, path, arg, LAMBDA new, old : Less(old, new))
    [] change.op = "$push" -> ArrayUpdate(doc, path, arg, FALSE)
    [] change.op = "$addToSet" -> ArrayUpdate(doc, path, arg, TRUE)
    [] change.op = "$pull" -> PullUpdate(doc, path, arg)
    [] change.op = "$rename" -> RenamePath(doc, path, arg)

Result(doc, update) ==
  IF Is("replace", update) THEN Obj(update.replace @@ ("id" :> doc.obj["id"]))
  ELSE FoldLeft(LAMBDA d, c : IF d = Error THEN Error ELSE Change(d, c), doc, update.changes)

\* Variant: what became of the id is not looked at.
ApplyUnchecked(doc, update) == Result(doc, update)

\* A document keeps its id, or the update throws.
ApplyDocumentUpdate(doc, update) ==
  LET result == Result(doc, update)
  IN IF Field(result, "id") # doc.obj["id"] THEN Error ELSE result

-----------------------------------------------------------------------------
(* Projection.  A projection is a sequence of paths that are all included  *)
(* or all excluded; the id stays with the included ones.                   *)

\* Variant: a path brings the whole field it starts in.
IncludedWhole(doc, output, path) ==
  IF ReadDirectPath(doc, path) = Undefined THEN output
  ELSE SetMutable(output, SubSeq(path, 1, 1), Field(doc, Head(path)))

Included(doc, output, path) ==
  LET there == ReadDirectPath(doc, path)
  IN IF path = <<"id">> \/ there = Undefined THEN output ELSE SetMutable(output, path, there)

ProjectDocument(doc, projection) ==
  CASE projection.paths = <<>> -> doc
    [] projection.paths # <<>> /\ projection.include ->
         FoldLeft(LAMBDA output, path : Included(doc, output, path),
                  IF Field(doc, "id") = Undefined THEN EmptyObj ELSE Obj("id" :> doc.obj["id"]),
                  projection.paths)
    [] OTHER -> FoldLeft(DeletePath, doc, projection.paths)

-----------------------------------------------------------------------------
(* Aggregation.  rows is a sequence of documents, an order a sequence of   *)
(* <<path, 1 or -1>>.                                                      *)

Before(a, b) == IF Less(b, a) THEN 1 ELSE -1

\* The comparison of the first key in which two rows differ.
CompareRows(order, left, right) ==
  LET A(n) == FirstPathValue(left, order[n][1])
      B(n) == FirstPathValue(right, order[n][1])
      differ == {n \in DOMAIN order : A(n) # B(n)}
      n == Min(differ)
  IN CASE differ = {} -> 0
       [] differ # {} /\ A(n) = Undefined -> -order[n][2]
       [] differ # {} /\ A(n) # Undefined /\ B(n) = Undefined -> order[n][2]
       [] OTHER -> Before(A(n), B(n)) * order[n][2]

\* A stable sort: each row goes behind those it does not precede.
SortBy(rows, Compare(_, _)) ==
  FoldLeft(LAMBDA sorted, row :
             InsertAt(sorted, 1 + Cardinality({i \in DOMAIN sorted : Compare(sorted[i], row) <= 0}), row),
           <<>>, rows)

SortDocuments(rows, order) == SortBy(rows, LAMBDA a, b : CompareRows(order, a, b))

\* Variant: a row whose array is empty is kept, without an item.
UnwindKeeping(rows, path) ==
  FlattenSeq([r \in DOMAIN rows |->
    LET direct == ReadDirectPath(rows[r], path) IN
    CASE Is("arr", direct) /\ direct.arr # <<>> ->
           [i \in DOMAIN direct.arr |-> SetMutable(rows[r], path, direct.arr[i])]
      [] OTHER -> <<rows[r]>>])

UnwindDocuments(rows, path) ==
  FlattenSeq([r \in DOMAIN rows |->
    LET direct == ReadDirectPath(rows[r], path)
    IN IF Is("arr", direct) THEN [i \in DOMAIN direct.arr |-> SetMutable(rows[r], path, direct.arr[i])]
       ELSE <<>>])

Sum(numbers) == FoldLeft(LAMBDA total, v : total + v.num, 0, numbers)
Numbers(values) == SelectSeq(values, LAMBDA v : Is("num", v))
Best(values, Better(_, _)) ==
  FoldLeft(LAMBDA best, v : IF best = Undefined \/ Better(v, best) THEN v ELSE best, Undefined, values)

\* An average stays a fraction.
Accumulate(op, values) ==
  CASE op = "$sum" -> Num(Sum(Numbers(values)))
    [] op = "$avg" -> [fraction |-> <<Sum(Numbers(values)), Len(Numbers(values))>>]
    [] op = "$min" -> Best(values, Less)
    [] op = "$max" -> Best(values, LAMBDA v, best : Less(best, v))
    [] op = "$first" -> values[1]
    [] op = "$last" -> Last(values)
    [] op = "$push" -> Arr(values)
    [] op = "$addToSet" -> Arr(FoldLeft(LAMBDA s, v : IF v \in Range(s) THEN s ELSE Append(s, v), <<>>, values))

\* An expression is [path |-> p] or a constant.
EvaluateExpression(row, expression) ==
  IF Is("path", expression) THEN FirstPathValue(row, expression.path) ELSE expression

\* The groups in the order of their first rows; accumulators is a function from
\* output fields to <<operator, expression>>.
GroupDocuments(rows, idExpression, accumulators) ==
  LET Id(row) == EvaluateExpression(row, idExpression)
      ids == FoldLeft(LAMBDA s, row : IF Id(row) \in Range(s) THEN s ELSE Append(s, Id(row)), <<>>, rows)
      Values(id, expression) ==
        LET members == SelectSeq(rows, LAMBDA row : Id(row) = id)
        IN [i \in DOMAIN members |-> EvaluateExpression(members[i], expression)]
  IN [g \in DOMAIN ids |->
        Obj([f \in DOMAIN accumulators |-> Accumulate(accumulators[f][1], Values(ids[g], accumulators[f][2]))]
              @@ ("_id" :> ids[g]))]

\* A stage is <<operator, argument>>.
Stage(rows, stage) ==
  LET arg == stage[2] IN
  CASE stage[1] = "$match" -> SelectSeq(rows, LAMBDA row : MatchesDocument(row, arg))
    [] stage[1] = "$project" -> [r \in DOMAIN rows |-> ProjectDocument(rows[r], arg)]
    [] stage[1] = "$sort" -> SortDocuments(rows, arg)
    [] stage[1] = "$skip" -> SubSeq(rows, arg + 1, Len(rows))
    [] stage[1] = "$limit" -> SubSeq(rows, 1, IF arg < Len(rows) THEN arg ELSE Len(rows))
    [] stage[1] = "$count" -> <<Obj(arg :> Num(Len(rows)))>>
    [] stage[1] = "$unwind" -> UnwindDocuments(rows, arg)
    [] stage[1] = "$group" -> GroupDocuments(rows, arg._id, arg.fields)

AggregateDocuments(rows, pipeline) == FoldLeft(Stage, rows, pipeline)

-----------------------------------------------------------------------------
(* The query of a collection, a second implementation of the same stages.  *)

\* Variant: what is missing comes last.
CompareLast(a, b) ==
  CASE a = b -> 0 [] a # b /\ a = Undefined -> 1 [] a # b /\ b = Undefined -> -1 [] OTHER -> Before(a, b)

\* Arrays and objects are compared by identity, and are never the same.
CompareValues(a, b) ==
  CASE a = b /\ ~Is("arr", a) /\ ~Is("obj", a) -> 0
    [] a # b /\ a = Undefined -> -1
    [] a # b /\ b = Undefined -> 1
    [] OTHER -> Before(a, b)

CompareRecords(order, left, right) ==
  LET C(n) == CompareValues(FirstPathValue(left, order[n][1]), FirstPathValue(right, order[n][1])) * order[n][2]
      differ == {n \in DOMAIN order : C(n) # 0}
  IN IF differ = {} THEN 0 ELSE C(Min(differ))

QueryRecords(rows, where, order, offset, limit, projection) ==
  LET matching == SelectSeq(rows, LAMBDA row : MatchesDocument(row, where))
      sorted == SortBy(matching, LAMBDA a, b : CompareRecords(order, a, b))
      rest == SubSeq(sorted, offset + 1, Len(sorted))
      page == SubSeq(rest, 1, IF limit < Len(rest) THEN limit ELSE Len(rest))
  IN [r \in DOMAIN page |-> ProjectDocument(page[r], projection)]

-----------------------------------------------------------------------------
(* The stored document.                                                    *)

\* Bounds of the stored document: its numbers and its arrays.
SmallNumber(v) == Is("num", v) => v.num \in 0..MaxNumber
Small(doc) ==
  \A f \in DOMAIN doc.obj :
    LET v == doc.obj[f] IN
    /\ SmallNumber(v)
    /\ Is("arr", v) => Len(v.arr) <= MaxLength
    /\ Is("obj", v) => \A g \in DOMAIN v.obj : SmallNumber(v.obj[g])

\* atomicUpdateDocument: what throws leaves the document as it was.
Updated(update, upsert) ==
  CASE stored = Undefined /\ ~upsert -> Error
    [] stored = Undefined /\ upsert -> ApplyDocumentUpdate(Obj("id" :> DocumentId), update)
    [] OTHER -> ApplyDocumentUpdate(stored, update)

AtomicUpdateDocument(update, upsert) ==
  LET result == Updated(update, upsert) IN
  /\ result # Error /\ Small(result)
  /\ stored' = result

-----------------------------------------------------------------------------
Present == stored # Undefined

\* Whatever an update does to its fields, the document under an id carries it
\* (applyDocumentUpdate, atomicUpdateDocument).
IdIsKept == Present => Field(stored, "id") = DocumentId

Repeatable == {"$set", "$unset", "$min", "$max", "$addToSet", "$pull"}

\* An update whose answer was lost and that SyncioClient.request sends again
\* leaves what the first one left, if its operators only say what should be.
RepeatedUpdateIsHarmless ==
  Present => \A update \in Updates :
    LET once == ApplyDocumentUpdate(stored, update) IN
    (Is("replace", update) \/ \A c \in Range(update.changes) : c.op \in Repeatable) /\ once # Error
      => ApplyDocumentUpdate(once, update) = once

\* Queries see what an update did: what was set, pushed or renamed is found,
\* what was pulled or unset is not, if the path leads through no array.
UpdateIsFound ==
  Present => \A update \in {u \in Updates : Is("changes", u) /\ Len(u.changes) = 1} :
    LET change == update.changes[1]
        path == change.path
        after == ApplyDocumentUpdate(stored, update)
        Found(p, condition) == MatchesDocument(after, <<[path |-> p, condition |-> condition]>>)
        direct == \A n \in 1..(Len(path) - 1) : ~Is("arr", ReadDirectPath(stored, SubSeq(path, 1, n)))
    IN after # Error /\ direct =>
         CASE change.op = "$set" -> Found(path, change.arg)
           [] change.op \in {"$push", "$addToSet"} -> \A item \in Range(change.arg) : Found(path, item)
           [] change.op = "$pull" ->
                ~Found(path, IF Is("query", change.arg) THEN [ops |-> << <<"$elemMatch", change.arg.query>> >>]
                             ELSE change.arg)
           [] change.op = "$unset" -> ~Found(path, [ops |-> << <<"$exists", TRUE>> >>])
           [] change.op = "$rename" -> ReadDirectPath(stored, path) # Undefined =>
                                          Found(change.arg, ReadDirectPath(stored, path))
           [] OTHER -> TRUE

Tables == {<<stored>> \o others : others \in Rows}

\* Keys that queries sort by hold numbers or nothing in every row.
Sortable(rows, order) ==
  \A r \in DOMAIN rows, n \in DOMAIN order :
    LET v == FirstPathValue(rows[r], order[n][1]) IN v = Undefined \/ Is("num", v)

\* GET with a query and POST of the same stages give the same page.
QueryAgreesWithPipeline ==
  Present => \A rows \in Tables, where \in Filters, order \in Orders, projection \in Projections :
    Sortable(rows, order) => \A offset \in 0..1, limit \in 1..2 :
      QueryRecords(rows, where, order, offset, limit, projection)
        = AggregateDocuments(rows, << <<"$match", where>>, <<"$sort", order>>, <<"$skip", offset>>,
                                      <<"$limit", limit>>, <<"$project", projection>> >>)

\* A projection reads as the document does on its paths and nowhere else.
ProjectionIsExact ==
  Present => \A projection \in Projections :
    LET output == ProjectDocument(stored, projection)
        paths == Range(projection.paths)
    IN projection.paths # <<>> =>
         /\ \A path \in paths :
              ReadDirectPath(output, path) = IF projection.include THEN ReadDirectPath(stored, path) ELSE Undefined
         /\ \A path \in {<<f>> : f \in DOMAIN stored.obj} \cup ((DOMAIN stored.obj) \X {"n", "m"}) :
              path # <<"id">> /\ (\A p \in paths : ~IsPrefix(p, path) /\ ~IsPrefix(path, p)) =>
                ReadDirectPath(output, path)
                  = IF projection.include THEN Undefined ELSE ReadDirectPath(stored, path)

\* Unwinding an array and grouping by id gives the arrays back, and the groups
\* account for every row (unwindDocuments, groupDocuments).
UnwindGroupsBack ==
  Present => \A rows \in Tables :
    LET whole == SelectSeq(rows, LAMBDA row : Is("arr", Field(row, "a")) /\ Field(row, "a").arr # <<>>)
        fields == [items |-> <<"$push", [path |-> <<"a">>]>>, count |-> <<"$sum", Num(1)>>]
        groups == AggregateDocuments(rows, << <<"$unwind", <<"a">> >>,
                                              <<"$group", [_id |-> [path |-> <<"id">>], fields |-> fields]>> >>)
    IN groups = [r \in DOMAIN whole |->
                   Obj([_id |-> Field(whole[r], "id"), items |-> Field(whole[r], "a"),
                        count |-> Num(Len(Field(whole[r], "a").arr))])]

\* A document keeps its id through any updates, and queries see what each did
\* (applyDocumentUpdate, matchesDocument).
UpdateIsExact == IdIsKept /\ UpdateIsFound

\* The stages of a pipeline agree with the query that does the same, lose
\* nothing they should keep and keep nothing they should drop
\* (aggregateDocuments, queryRecords).
PipelineIsExact == QueryAgreesWithPipeline /\ ProjectionIsExact /\ UnwindGroupsBack
=============================================================================
