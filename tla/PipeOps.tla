------------------------------- MODULE PipeOps -------------------------------
(***************************************************************************)
(* Pipe steps, `source | op(...) | op(...)`: execute_pipe and the handlers *)
(* of src/runtime/mod.rs, and the laws that tie the operations to one      *)
(* another.                                                                *)
(***************************************************************************)
EXTENDS Expressions

Closure(name, param, value) == [shape |-> "closure", name |-> name, param |-> param, value |-> value]
ExprOp(name, value) == [shape |-> "expr", name |-> name, value |-> value]
NoneOp(name) == [shape |-> "none", name |-> name]
Reduce(name, initial, acc, param, value) ==
    [shape |-> "reduce", name |-> name, initial |-> initial, acc |-> acc, param |-> param,
     value |-> value]

\* The table runtime_pipe_ops, and the syntax each handler insists on.
PipeShape ==
    [filter |-> "closure", map |-> "closure", sort |-> "closure", group_by |-> "closure",
     sum |-> "closure", avg |-> "closure", min |-> "closure", max |-> "closure",
     unique |-> "closure", flat_map |-> "closure", limit |-> "expr", take |-> "expr",
     offset |-> "expr", count |-> "none", first |-> "none", last |-> "none",
     reduce |-> "reduce"]

-----------------------------------------------------------------------------
(* Handlers that evaluate a closure on each item.                           *)

Keys(op, items, scope) ==
    [i \in DOMAIN items |-> eval_expr(op.value, Bound(scope, op.param, items[i]))]

\* The items at the given positions, in their order.
Picked(items, positions) ==
    LET order == SelectSeq([i \in DOMAIN items |-> i], LAMBDA i : i \in positions)
    IN  [j \in DOMAIN order |-> items[order[j]]]

\* sort_by promises an order only for keys compare_json orders consistently;
\* otherwise any order may come out, or a panic: Unordered.
OrderedConsistently(keys) ==
    \A i, j, k \in DOMAIN keys :
        LET NotBefore(a, b) == ~Before(keys[a], keys[b])
        IN  /\ Before(keys[i], keys[j]) => NotBefore(j, i)
            /\ NotBefore(i, j) /\ NotBefore(j, k) => NotBefore(i, k)

\* A stable sort: an item comes after those with smaller keys and after
\* earlier items with an equal one.
pipe_sort(items, keys) ==
    LET Precedes(i, j) == Before(keys[i], keys[j]) \/ (i < j /\ ~Before(keys[j], keys[i]))
        rank == [j \in DOMAIN items |-> 1 + Cardinality({i \in DOMAIN items \ {j} : Precedes(i, j)})]
    IN  IF OrderedConsistently(keys)
          THEN Arr([p \in DOMAIN items |-> items[CHOOSE i \in DOMAIN items : rank[i] = p]])
          ELSE Unordered

pipe_group_by(items, keys) ==
    LET key == [i \in DOMAIN items |-> as_string(keys[i])]
    IN  Obj([k \in {key[i] : i \in DOMAIN items} |->
               Arr(Picked(items, {i \in DOMAIN items : key[i] = k}))])

pipe_unique(items, keys) ==
    Arr(Picked(items, {i \in DOMAIN items :
                         \A j \in 1 .. (i - 1) : ToJson(keys[j]) # ToJson(keys[i])}))

RECURSIVE Flattened(_)
Flattened(values) ==
    IF values = << >> THEN << >>
    ELSE (IF Head(values).t = "arr" THEN Head(values).v ELSE <<Head(values)>>)
           \o Flattened(Tail(values))

RECURSIVE SumOf(_)
SumOf(numbers) == IF numbers = << >> THEN 0 ELSE Head(numbers).v + SumOf(Tail(numbers))

\* numeric_stats: every key must be a number.
Numeric(keys) ==
    [i \in DOMAIN keys |-> IF keys[i].t = "num" \/ IsError(keys[i]) THEN keys[i] ELSE Failure]

Statistic(name, numbers) ==
    LET values == {numbers[i].v : i \in DOMAIN numbers}
    IN  CASE name = "sum" -> Float(SumOf(numbers))
          [] name = "avg" -> IF numbers = << >> THEN Float(0)
                             ELSE Quotient(SumOf(numbers), 10 * Len(numbers))
          [] name = "min" -> IF numbers = << >> THEN Null
                             ELSE Float(CHOOSE v \in values : \A w \in values : v <= w)
          [] name = "max" -> IF numbers = << >> THEN Null
                             ELSE Float(CHOOSE v \in values : \A w \in values : v >= w)

KeysFor(name, keys) == IF name \in {"sum", "avg", "min", "max"} THEN Numeric(keys) ELSE keys

OfKeys(name, items, keys) ==
    IF AnyError(keys) THEN FirstError(keys)
    ELSE CASE name = "filter" -> Arr(Picked(items, {i \in DOMAIN items : truthy(keys[i])}))
           [] name = "map" -> Arr(keys)
           [] name = "sort" -> pipe_sort(items, keys)
           [] name = "group_by" -> pipe_group_by(items, keys)
           [] name = "unique" -> pipe_unique(items, keys)
           [] name = "flat_map" -> Arr(Flattened(keys))
           [] OTHER -> Statistic(name, keys)

ClosureOp(op, items, scope) ==
    OfKeys(op.name, items, KeysFor(op.name, Keys(op, items, scope)))

-----------------------------------------------------------------------------
(* The other handlers.                                                      *)

\* limit and take keep the first items, offset drops them.
pipe_limit(items, count) ==
    IF IsError(count) THEN count
    ELSE IF ~IsCount(count) THEN Failure
    ELSE Arr(SubSeq(items, 1, IF as_usize(count) < Len(items) THEN as_usize(count) ELSE Len(items)))

\* Mutant of pipe_offset: the item at the count is dropped, too.
OffsetPast(items, count) ==
    IF IsError(count) THEN count
    ELSE IF ~IsCount(count) THEN Failure
    ELSE Arr(SubSeq(items, as_usize(count) + 2, Len(items)))

pipe_offset(items, count) ==
    IF IsError(count) THEN count
    ELSE IF ~IsCount(count) THEN Failure
    ELSE Arr(SubSeq(items, as_usize(count) + 1, Len(items)))

CountOp(name, items, count) ==
    IF name = "offset" THEN pipe_offset(items, count) ELSE pipe_limit(items, count)

EmptyOp(name, items) ==
    CASE name = "count" -> Integer(Len(items))
      [] name = "first" -> IF items = << >> THEN Null ELSE items[1]
      [] name = "last" -> IF items = << >> THEN Null ELSE items[Len(items)]

\* The accumulator is bound before the item: a closure that gives both one
\* name sees the item.
RECURSIVE Reduced(_, _, _, _)
Reduced(op, value, items, scope) ==
    IF IsError(value) \/ items = << >> THEN value
    ELSE Reduced(op, eval_expr(op.value, Bound(Bound(scope, op.acc, value), op.param, Head(items))),
                 Tail(items), scope)

pipe_reduce(op, initial, current, scope) ==
    IF IsError(initial) THEN initial
    ELSE IF current.t # "arr" THEN Failure
    ELSE Reduced(op, initial, current.v, scope)

execute_pipe_op(op, current, scope) ==
    IF op.name \notin DOMAIN PipeShape THEN Failure
    ELSE IF op.shape # PipeShape[op.name] THEN Failure
    ELSE IF op.shape = "reduce" THEN pipe_reduce(op, eval_expr(op.initial, scope), current, scope)
    ELSE IF current.t # "arr" THEN Failure
    ELSE CASE op.shape = "closure" -> ClosureOp(op, current.v, scope)
           [] op.shape = "none" -> EmptyOp(op.name, current.v)
           [] op.shape = "expr" -> CountOp(op.name, current.v, eval_expr(op.value, scope))

RECURSIVE Piped(_, _, _)
Piped(current, operations, scope) ==
    IF IsError(current) \/ operations = << >> THEN current
    ELSE Piped(execute_pipe_op(Head(operations), current, scope), Tail(operations), scope)

execute_pipe(source, operations, scope) == Piped(eval_expr(source, scope), operations, scope)

-----------------------------------------------------------------------------
(* Laws.  An array of items is what they are about; item => key is the      *)
(* closure, and the scope has nothing but the array.                        *)

Pipe(items, operations) == execute_pipe(Lit(Arr(items)), operations, << >>)
AsCount(n) == Lit(Float(10 * n))

\* Sorting loses and invents nothing, puts no item before one with a smaller
\* key, and keeps items of equal keys in their order, so that sorting again
\* changes nothing and pages of a sorted array are stable.
IsSortOf(items, keys, sorted) ==
    (~AnyError(keys) /\ sorted.t = "arr") =>
      /\ \A i \in DOMAIN items :
           Cardinality({j \in DOMAIN items : Same(items[j], items[i])})
             = Cardinality({j \in DOMAIN sorted.v : Same(sorted.v[j], items[i])})
      /\ \E place \in [DOMAIN items -> DOMAIN sorted.v] :
           /\ \A i \in DOMAIN items : Same(sorted.v[place[i]], items[i])
           /\ \A i, j \in DOMAIN items :
                Before(keys[i], keys[j]) \/ (i < j /\ ~Before(keys[j], keys[i]))
                  => place[i] < place[j]

\* Pages of any size put together are the array: offset and limit cut at the
\* same place, past the end too.
PageLaw(items, size) ==
    LET page(p) == Pipe(items, <<ExprOp("offset", AsCount(p * size)), ExprOp("limit", AsCount(size))>>)
    IN  Same(Arr(Flattened([p \in 1 .. (Len(items) + 1) |-> page(p - 1)])), Arr(items))

\* A group is what a filter on its key leaves, and every item is in one group.
IsGroupingOf(items, keys, groups, filtered(_)) ==
    ~AnyError(keys) =>
      /\ \A k \in DOMAIN groups.v : Same(groups.v[k], filtered(k))
      /\ \A i \in DOMAIN items : as_string(keys[i]) \in DOMAIN groups.v

\* unique leaves the first item of each group of equal keys, so that unique again
\* changes nothing.
KeepsOnePerKey(keys, kept, again, kept_keys) ==
    ~AnyError(keys) =>
      /\ \A i \in DOMAIN keys : \E j \in DOMAIN kept_keys : Same(kept_keys[j], keys[i])
      /\ Same(again, kept)
      /\ Len(kept.v) = Cardinality({ToJson(keys[i]) : i \in DOMAIN keys})

\* A sum is the reduction by +, the least key the key of the first item in
\* sorted order, and the average lies between the least and the greatest.
StatisticsAgree(items, sum, reduced, least, ranked, average, greatest) ==
    ~IsError(sum) =>
      /\ Same(sum, reduced)
      /\ items # << >> =>
           least.v = ranked.v /\ least.v <= average.v /\ average.v <= greatest.v

PipeLaws(items, param, value, size) ==
    LET Op(name) == Closure(name, param, value)
        After(name) == Pipe(items, <<Op(name)>>)
        keys == Keys(Op("map"), items, << >>)
        WithText(k) == Pipe(items, <<Closure("filter", param,
                         BinaryOp(FunctionCall("string", <<value>>), "==", Lit(Str(k))))>>)
        UniqueAgain(kept) == KeepsOnePerKey(keys, kept, Pipe(kept.v, <<Op("unique")>>), Keys(Op("map"), kept.v, << >>))
        total == Reduce("reduce", Lit(Float(0)), "acc", param, BinaryOp(Var("acc"), "+", value))
    IN  /\ IsSortOf(items, keys, After("sort"))
        /\ PageLaw(items, size)
        /\ IsGroupingOf(items, keys, After("group_by"), WithText)
        /\ ~AnyError(keys) => UniqueAgain(After("unique"))
        /\ StatisticsAgree(items, After("sum"), Pipe(items, <<total>>), After("min"),
                           Pipe(items, <<Op("sort"), Op("map"), NoneOp("first")>>), After("avg"), After("max"))

\* Which keys compare_json orders consistently: all that have no number beside
\* a value of another type.  With one, 9 < 10 as numbers and "10" < "5" < "9" as texts.
SortedByATotalOrder(items, param, value) ==
    LET keys == Keys(Closure("sort", param, value), items, << >>)
        numbers == {i \in DOMAIN keys : keys[i].t = "num"}
    IN  (~AnyError(keys) /\ numbers \in {{}, DOMAIN keys}) => OrderedConsistently(keys)
=============================================================================
