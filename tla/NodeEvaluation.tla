--------------------------- MODULE NodeEvaluation ---------------------------
(***************************************************************************)
(* The rows each kind of node gives for the rows of its inputs: the        *)
(* evaluate_* methods of src/evaluation.rs.  Rows are sequences, as in the *)
(* code: a bag is evaluated in the order the host happened to supply.      *)
(***************************************************************************)
EXTENDS NodeRules

Result(failure, rows) == [failure |-> failure, rows |-> rows]

(* What a node gives when its required scalar results are `required`.      *)
Complete(required, rows) ==
  LET failure == Require(required, Null)
  IN IF failure = Null THEN Result(Null, rows) ELSE Result(failure, <<>>)

(* The first failure of each row of a grid of results, or NULL.            *)
Failures(grid) == [r \in DOMAIN grid |-> Require(grid[r], Null)]

(* The members of a set in the order of a relation.                        *)
Arranged(S, order) ==
  [p \in 1 .. Cardinality(S) |->
     CHOOSE i \in S : Cardinality({j \in S : <<j, i>> \in order}) = p - 1]

Increasing(S) == Arranged(S, {pair \in S \X S : pair[1] < pair[2]})

Positions(n) == [i \in 1 .. n |-> i]

Pick(rows, indices) == [k \in DOMAIN indices |-> rows[indices[k]]]

Where(seq, Test(_)) == Pick(seq, Increasing({i \in DOMAIN seq : Test(seq[i])}))

(* evaluate_expression, whose operators ScalarRules has one at a time.     *)
Evaluate(e, schema, row) ==
  LET value[x \in Expressions] ==
        ValueOf(x, schema, row, [i \in DOMAIN x.args |-> value[x.args[i]]])
  IN value[e]

(* The values of some expressions on every row, row after row.             *)
Grid(exprs, schema, rows) ==
  [r \in DOMAIN rows |-> [k \in DOMAIN exprs |-> Evaluate(exprs[k], schema, rows[r])]]

-----------------------------------------------------------------------------
(* evaluate_input: what the host has bound must have the schema the graph  *)
(* declares, and only values of it.                                        *)
UnfitInput == Tagged("error", 5)

(* Mutant: NULL is let into any field.                                     *)
AnyNullFits(v, d) == v = Null \/ v.scalar = d.scalar

ValueFits(v, d) == IF v = Null THEN d.nullable ELSE v.scalar = d.scalar

EvaluateInput(relation, schema) ==
  IF /\ relation.schema = schema
     /\ \A r \in DOMAIN relation.rows :
          /\ Len(relation.rows[r]) = Len(schema)
          /\ \A i \in DOMAIN schema : ValueFits(relation.rows[r][i], schema[i].descriptor)
  THEN Result(Null, relation.rows) ELSE Result(UnfitInput, <<>>)

-----------------------------------------------------------------------------
EntryValue(entry, schema, row) ==
  IF entry.function = "keep" THEN row[FieldPosition(schema, entry.output)]
  ELSE Evaluate(entry.args[1], schema, row)

AllValues(grid) == Complete(Failures(grid), grid)

EvaluateProject(node, schema, rows) ==
  AllValues([r \in DOMAIN rows |->
               [k \in DOMAIN node.entries |-> EntryValue(node.entries[k], schema, rows[r])]])

FilterIndices(node, schema, rows) ==
  Increasing({i \in DOMAIN rows : Evaluate(node.entries[1].args[1], schema, rows[i]) = True})

EvaluateFilter(node, schema, rows) ==
  Complete(Failures(Grid(node.entries[1].args, schema, rows)),
           Pick(rows, FilterIndices(node, schema, rows)))

Nulls(n) == [i \in 1 .. n |-> Null]

(* All pairs of rows in the order of the two loops.                        *)
Pairs(left, right) ==
  [k \in 1 .. Len(left) * Len(right) |->
     <<((k - 1) \div Len(right)) + 1, ((k - 1) % Len(right)) + 1>>]

(* Mutant: a row is padded when one of its comparisons fails.              *)
FailedOnce(side, n, pairs, matches) ==
  Increasing({i \in 1 .. n : \E k \in DOMAIN pairs \ Range(matches) : pairs[k][side] = i})

(* The rows of one side whose `matched` flag was never set.                *)
Unmatched(side, n, pairs, matches) ==
  Increasing({i \in 1 .. n : \A k \in Range(matches) : pairs[k][side] # i})

(* The candidates that match, then the rows of either side that were never *)
(* matched, if the join keeps them, padded with NULLs.                     *)
JoinRows(how, left, right, nulls, pairs, matches) ==
  LET alone(side, rows) == Pick(rows, Unmatched(side, Len(rows), pairs, matches))
      padded(rows, before, after) == [k \in DOMAIN rows |-> before \o rows[k] \o after]
  IN [k \in DOMAIN matches |-> left[pairs[matches[k]][1]] \o right[pairs[matches[k]][2]]]
       \o (IF how \in {"left", "full"} THEN padded(alone(1, left), <<>>, nulls[2]) ELSE <<>>)
       \o (IF how \in {"right", "full"} THEN padded(alone(2, right), nulls[1], <<>>) ELSE <<>>)

DecidedJoin(node, left, right, nulls, pairs, verdicts) ==
  Complete(verdicts,
           JoinRows(node.how, left, right, nulls, pairs,
                    Increasing({k \in DOMAIN pairs : verdicts[k] = True})))

EvaluateJoin(node, leftSchema, rightSchema, left, right) ==
  LET pairs == Pairs(left, right)
  IN DecidedJoin(node, left, right, <<Nulls(Len(leftSchema)), Nulls(Len(rightSchema))>>, pairs,
                 [k \in DOMAIN pairs |->
                    IF node.how = "cross" THEN True
                    ELSE Evaluate(node.entries[1].args[1], leftSchema \o rightSchema,
                                  left[pairs[k][1]] \o right[pairs[k][2]])])

-----------------------------------------------------------------------------
(* group_rows: groups in the order their first rows appear.                *)
Groups(keys) ==
  LET firsts == Increasing({i \in DOMAIN keys : \A j \in 1 .. i - 1 : keys[j] # keys[i]})
  IN [g \in DOMAIN firsts |-> Increasing({j \in DOMAIN keys : keys[j] = keys[firsts[g]]})]

(* Mutant: every step of the addition is checked.                          *)
RunningSum(values) ==
  FoldLeft(LAMBDA total, v : IF Failed(total) THEN total ELSE Checked(total.v + v.v),
           Int64(0), values)

(* SUM adds in a wider integer and checks the total.                       *)
Total(values) ==
  LET total[n \in 0 .. Len(values)] == IF n = 0 THEN 0 ELSE total[n - 1] + values[n].v
  IN total[Len(values)]

ExactSum(values) == Checked(Total(values))

(* What an aggregate accumulates from values of which none is NULL.        *)
Accumulated(function, present) ==
  LET all == Range(present)
      Extreme(op) == CHOOSE v \in all : \A w \in all : ~ Compared(op, w, v)
  IN CASE function = "sum"      -> ExactSum(present)
       [] function = "min"      -> Extreme("less")
       [] function = "max"      -> Extreme("greater")
       [] function = "bool_and" -> Boolean(Boolean(FALSE) \notin all)
       [] function = "bool_or"  -> Boolean(True \in all)

(* evaluate_aggregate on the argument values of a group of n rows.         *)
AggregateValue(function, n, values) ==
  LET present == Where(values, LAMBDA v : v # Null)
  IN IF function = "count_all" THEN Checked(n)
     ELSE IF function = "count" THEN Checked(Len(present))
     ELSE IF present = <<>> THEN Null
     ELSE Accumulated(function, present)

RequiredAggregate(function, values) ==
  Require(values, AggregateValue(function, Len(values), values))

AggregateOf(entry, schema, rows, indices) ==
  RequiredAggregate(entry.function,
                    [k \in DOMAIN indices |->
                       IF entry.args = <<>> THEN True
                       ELSE Evaluate(entry.args[1], schema, rows[indices[k]])])

Arguments(entries) == [k \in DOMAIN entries |-> entries[k].args[1]]

(* Mutant: an empty input gives no row, grouping keys or not.              *)
GroupsOfRows(keyEntries, keys, n) == Groups(keys)

(* Without grouping keys there is one group, also of no rows.              *)
AggregateGroups(keyEntries, keys, n) ==
  IF keyEntries = <<>> THEN <<Positions(n)>> ELSE Groups(keys)

(* A row for each group: its keys and what its aggregates give.            *)
GroupRows(keyEntries, keys, groups, values) ==
  LET KeyOf(g) == IF keyEntries = <<>> THEN <<>> ELSE keys[groups[g][1]]
  IN Complete(Failures(keys) \o Failures(values),
              [g \in DOMAIN groups |-> KeyOf(g) \o values[g]])

AggregateGroupRows(keyEntries, aggregates, schema, rows, keys, groups) ==
  GroupRows(keyEntries, keys, groups,
            [g \in DOMAIN groups |->
               [k \in DOMAIN aggregates |->
                  AggregateOf(aggregates[k], schema, rows, groups[g])]])

EvaluateAggregate(node, schema, rows) ==
  LET keyEntries == Where(node.entries, LAMBDA e : e.function = "group")
      aggregates == Where(node.entries, LAMBDA e : e.function # "group")
      keys == Grid(Arguments(keyEntries), schema, rows)
  IN AggregateGroupRows(keyEntries, aggregates, schema, rows, keys,
                        AggregateGroups(keyEntries, keys, Len(rows)))

-----------------------------------------------------------------------------
(* compare_order_value: -1, 0 or 1; NULLs are placed whatever the direction.*)
CompareValue(a, b, item) ==
  IF a = b THEN 0
  ELSE IF a = Null THEN IF item.nulls = "first" THEN -1 ELSE 1
  ELSE IF b = Null THEN IF item.nulls = "first" THEN 1 ELSE -1
  ELSE IF Compared("less", a, b) # item.descending THEN -1 ELSE 1

(* compare_order_keys: the first item that tells the keys apart decides.   *)
CompareKeys(a, b, items) ==
  LET apart == {i \in DOMAIN items : a[i] # b[i]}
  IN IF apart = {} THEN 0 ELSE CompareValue(a[Min(apart)], b[Min(apart)], items[Min(apart)])

(* A key the comparison calls unreachable: NULL without a placement.       *)
Misplaced(keys, items) ==
  \E r \in DOMAIN keys, i \in DOMAIN items :
     keys[r][i] = Null /\ items[i].nulls = "not_applicable"

(* The order of the stable sort_by.                                        *)
Precedes(keys, items, i, j) ==
  LET c == CompareKeys(keys[i], keys[j], items) IN c < 0 \/ (c = 0 /\ i < j)

Sorted(S, keys, items) ==
  Arranged(S, {pair \in S \X S : Precedes(keys, items, pair[1], pair[2])})

ItemExprs(items) == [i \in DOMAIN items |-> items[i].expr]

(* evaluate_order_keys for every row, before any comparison.               *)
OrderKeys(items, schema, rows) == Grid(ItemExprs(items), schema, rows)

SortFailures(keys, items) ==
  Failures(keys) \o (IF Misplaced(keys, items) THEN <<Unreachable>> ELSE <<>>)

OrderIndices(node, schema, rows) ==
  LET items == node.entries[1].order
  IN Sorted(DOMAIN rows, OrderKeys(items, schema, rows), items)

EvaluateOrder(node, schema, rows) ==
  LET items == node.entries[1].order
  IN Complete(SortFailures(OrderKeys(items, schema, rows), items),
              Pick(rows, OrderIndices(node, schema, rows)))

-----------------------------------------------------------------------------
(* The positions at which the sorted rows of a partition start new peers.  *)
NewPeers(sorted, keys) ==
  {p \in DOMAIN sorted : p = 1 \/ keys[sorted[p]] # keys[sorted[p - 1]]}

RankingValue(function, position, newPeers) ==
  CASE function = "row_number" -> position
    [] function = "rank"       -> Max({p \in newPeers : p <= position})
    [] function = "dense_rank" -> Cardinality({p \in newPeers : p <= position})

Partitions(entry, schema, rows) == Groups(Grid(entry.partition, schema, rows))

GroupOf(groups, r) == CHOOSE g \in DOMAIN groups : r \in Range(groups[g])

(* The ranking of row r in its sorted partition.                           *)
RankOf(r, function, sorted, keys) ==
  Checked(RankingValue(function, CHOOSE p \in DOMAIN sorted : sorted[p] = r,
                       NewPeers(sorted, keys)))

Ranks(entry, rows, keys, groups) ==
  LET sorted == [g \in DOMAIN groups |-> Sorted(Range(groups[g]), keys, entry.order)]
  IN [r \in DOMAIN rows |-> RankOf(r, entry.function, sorted[GroupOf(groups, r)], keys)]

RankingColumn(entry, schema, rows) ==
  Ranks(entry, rows, OrderKeys(entry.order, schema, rows), Partitions(entry, schema, rows))

Aggregates(entry, schema, rows, groups) ==
  LET values == [g \in DOMAIN groups |-> AggregateOf(entry, schema, rows, groups[g])]
  IN [r \in DOMAIN rows |-> values[GroupOf(groups, r)]]

AggregateColumn(entry, schema, rows) ==
  Aggregates(entry, schema, rows, Partitions(entry, schema, rows))

(* What fails for one row of the partition and order fails for all.        *)
Unless(failure, rows, column) ==
  IF failure # Null THEN [r \in DOMAIN rows |-> failure] ELSE column

WindowColumn(entry, schema, rows) ==
  LET ranked == entry.function \in Rankings
      keys == IF ranked THEN SortFailures(OrderKeys(entry.order, schema, rows), entry.order)
              ELSE <<>>
  IN Unless(Require(Failures(Grid(entry.partition, schema, rows)) \o keys, Null), rows,
            IF ranked THEN RankingColumn(entry, schema, rows)
            ELSE AggregateColumn(entry, schema, rows))

WithColumns(rows, columns) ==
  Complete(Failures(columns),
           [r \in DOMAIN rows |-> rows[r] \o [k \in DOMAIN columns |-> columns[k][r]]])

EvaluateWindow(node, schema, rows) ==
  WithColumns(rows, [k \in DOMAIN node.entries |-> WindowColumn(node.entries[k], schema, rows)])

-----------------------------------------------------------------------------
Distinct(rows) ==
  Pick(rows, Increasing({i \in DOMAIN rows : \A j \in 1 .. i - 1 : rows[j] # rows[i]}))

EvaluateDistinct(rows) == Result(Null, Distinct(rows))

(* The loop over the left rows of INTERSECT ALL and EXCEPT ALL: take_one   *)
(* uses up one of the `remaining` right rows for each left row it meets.   *)
(* Mutant: a right row is never used up.                                   *)
MatchOne(state, row, keepTaken) ==
  LET taken == BagIn(row, state.remaining)
  IN [remaining |-> state.remaining,
      rows |-> IF taken = keepTaken THEN Append(state.rows, row) ELSE state.rows]

TakeOne(state, row, keepTaken) ==
  LET taken == BagIn(row, state.remaining)
  IN [remaining |-> IF taken THEN state.remaining (-) SetToBag({row}) ELSE state.remaining,
      rows |-> IF taken = keepTaken THEN Append(state.rows, row) ELSE state.rows]

TakeAll(left, right, keepTaken) ==
  LET state[n \in 0 .. Len(left)] ==
        IF n = 0 THEN [remaining |-> ToBag(right), rows |-> <<>>]
        ELSE TakeOne(state[n - 1], left[n], keepTaken)
  IN state[Len(left)].rows

Combined(how, left, right) ==
  CASE how = "union all"     -> left \o right
    [] how = "union"         -> Distinct(left \o right)
    [] how = "intersect all" -> TakeAll(left, right, TRUE)
    [] how = "intersect"     -> Distinct(Where(left, LAMBDA row : row \in Range(right)))
    [] how = "except all"    -> TakeAll(left, right, FALSE)
    [] how = "except"        -> Distinct(Where(left, LAMBDA row : row \notin Range(right)))

EvaluateSet(node, left, right) == Result(Null, Combined(node.how, left, right))

(* Skip the offset, then take the limit if there is one.                   *)
SliceIndices(node, n) ==
  Increasing({i \in 1 .. n : /\ i > node.bounds[1]
                             /\ Len(node.bounds) > 1 => i <= node.bounds[1] + node.bounds[2]})

EvaluateSlice(node, rows) == Result(Null, Pick(rows, SliceIndices(node, Len(rows))))
=============================================================================
