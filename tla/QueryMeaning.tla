---------------------------- MODULE QueryMeaning ----------------------------
(***************************************************************************)
(* What a query expression means (docs/specification/03 and 07): its rows, *)
(* computed on the syntax, stage by stage, with columns looked up by name. *)
(* There are no identities, no graph, and no order except where ORDER BY   *)
(* asks for one.  A failure that a stage requires is a failure of the      *)
(* query, also where the value is not used after all.                      *)
(***************************************************************************)
EXTENDS SourceQueries, NodeEvaluation

CONSTANT Catalog

Cell(qualifier, name, value) == [qualifier |-> qualifier, name |-> name, value |-> value]

ValuesOf(cells) == [i \in DOMAIN cells |-> cells[i].value]

Relabelled(cells, qualifier) == [i \in DOMAIN cells |-> [cells[i] EXCEPT !.qualifier = qualifier]]

(* What an expression is evaluated on: a row, the output cells, the group  *)
(* that the row stands for, and all rows or groups of the stage.           *)
On(row, results, group, units, me) ==
  [row |-> row, results |-> results, group |-> group, units |-> units, me |-> me]

OnRow(row) == On(row, <<>>, <<>>, <<>>, 0)

OnUnit(units, i) == On(units[i].row, <<>>, units[i].group, units, i)

CellsFor(column, cells) ==
  {i \in DOMAIN cells : cells[i].name = column[2] /\ column[1] \in {"", cells[i].qualifier}}

(* A name that nothing has, or more than one thing, has no meaning: then   *)
(* the query must not get as far as an answer.                             *)
OnlyValue(cells, found) ==
  IF Cardinality(found) # 1 THEN Unreachable ELSE cells[CHOOSE i \in found : TRUE].value

LookUp(column, at) ==
  LET results == IF column[1] = "" THEN CellsFor(column, at.results) ELSE {}
  IN IF results # {} THEN OnlyValue(at.results, results)
     ELSE OnlyValue(at.row, CellsFor(column, at.row))

Negation(v) == Require(<<v>>, IF v = Null THEN Null ELSE Unary("not", v))

SourceFunction(e) == IF e.op = "count" /\ e.args = <<>> THEN "count_all" ELSE e.op

RECURSIVE Meaning(_, _)

(* The values of an aggregate's argument on the rows or groups `places`.   *)
AggregateMeaning(e, places) ==
  LET values == [k \in DOMAIN places |->
                   IF e.args = <<>> THEN True ELSE Meaning(e.args[1], places[k])]
  IN Require(values, AggregateValue(SourceFunction(e), Len(places), values))

RankingMeaning(e, at, rivals) ==
  LET order   == e.over[1].order
      keys(i) == [k \in DOMAIN order |-> Meaning(order[k].expr, OnUnit(at.units, i))]
      before  == {i \in rivals : CompareKeys(keys(i), keys(at.me), order) < 0}
      ties    == {i \in rivals : i < at.me /\ keys(i) = keys(at.me)}
      failure == Require(FlattenSeq([i \in DOMAIN at.units |-> keys(i)]), Null)
  IN IF failure # Null THEN failure
     ELSE CASE e.op = "rank"       -> Int64(1 + Cardinality(before))
            [] e.op = "dense_rank" -> Int64(1 + Cardinality({keys(i) : i \in before}))
            [] e.op = "row_number" -> Int64(1 + Cardinality(before) + Cardinality(ties))

WindowMeaning(e, at) ==
  LET part(i) == [k \in DOMAIN e.over[1].partition |->
                    Meaning(e.over[1].partition[k], OnUnit(at.units, i))]
      failure == Require(FlattenSeq([i \in DOMAIN at.units |-> part(i)]), Null)
      rivals  == {i \in DOMAIN at.units : part(i) = part(at.me)}
      rivalSeq == SetToSeq(rivals)
  IN IF failure # Null THEN failure
     ELSE IF e.kind = "ranking" THEN RankingMeaning(e, at, rivals)
     ELSE AggregateMeaning(e, [k \in DOMAIN rivalSeq |-> OnUnit(at.units, rivalSeq[k])])

Meaning(e, at) ==
  LET r == MapAll(e.args, LAMBDA x : Meaning(x, at))
  IN CASE e.kind = "column"        -> LookUp(e.ref, at)
       [] e.kind = "parenthesized" -> r[1]
       [] IsWindow(e)              -> WindowMeaning(e, at)
       [] IsGroupingAggregate(e)   -> AggregateMeaning(e, MapAll(at.group, OnRow))
       [] e.kind = "case" -> CaseValue(IF Len(e.args) % 2 = 1 THEN r ELSE Append(r, Null))
       [] e.kind \in {"in_list", "in_query"} /\ e.op = "negated" ->
            Negation(ValueOf(e, <<>>, <<>>, r))
       [] OTHER -> ValueOf(e, <<>>, <<>>, r)

-----------------------------------------------------------------------------
(* A relation: the cells of a row of NULLs, its rows, and whether a stage  *)
(* below has failed.                                                       *)
Relation(template, rows, fails) == [template |-> template, rows |-> rows, fails |-> fails]

CatalogEntry(name) == Catalog[CHOOSE k \in DOMAIN Catalog : Catalog[k].name = name]

(* A host supplies a relation when what it has bound to its name has the   *)
(* declared descriptors, and rows of them.                                 *)
Supplies(snapshot, relation) ==
  /\ relation.binding \in DOMAIN snapshot
  /\ LET bound == snapshot[relation.binding]
     IN /\ bound.descriptors = [i \in DOMAIN relation.fields |-> relation.fields[i].descriptor]
        /\ \A row \in Range(bound.rows) :
             /\ DOMAIN row = DOMAIN bound.descriptors
             /\ \A i \in DOMAIN row : Conforms(row[i], bound.descriptors[i])

CatalogMeaning(t, snapshot) ==
  LET relation == CatalogEntry(t.relation)
      qualifier == IF t.alias = "" THEN t.relation ELSE t.alias
      row(values) == [i \in DOMAIN values |-> Cell(qualifier, relation.fields[i].name, values[i])]
      supplied == Supplies(snapshot, relation)
  IN Relation(row(Nulls(Len(relation.fields))),
              IF supplied THEN MapAll(snapshot[relation.binding].rows, row) ELSE <<>>,
              ~ supplied)

Joined(left, right, how, condition) ==
  LET Verdict(l, r) == IF condition = <<>> THEN True ELSE Meaning(condition[1], OnRow(l \o r))
      Partners(l) == Where(right.rows, LAMBDA r : Verdict(l, r) = True)
      Matches == FlattenSeq(MapAll(left.rows, LAMBDA l : MapAll(Partners(l), LAMBDA r : l \o r)))
      LeftAlone  == Where(left.rows, LAMBDA l : Partners(l) = <<>>)
      RightAlone == Where(right.rows, LAMBDA r : \A l \in Range(left.rows) : Verdict(l, r) # True)
  IN Relation(left.template \o right.template,
              Matches
                \o (IF how \in {"left", "full"}
                    THEN MapAll(LeftAlone, LAMBDA l : l \o right.template) ELSE <<>>)
                \o (IF how \in {"right", "full"}
                    THEN MapAll(RightAlone, LAMBDA r : left.template \o r) ELSE <<>>),
              \/ left.fails \/ right.fails
              \/ \E l \in Range(left.rows), r \in Range(right.rows) : Failed(Verdict(l, r)))

(* WHERE and HAVING keep the rows or groups for which the condition holds. *)
KeptUnits(units, condition) ==
  Pick(units, Increasing({i \in DOMAIN units :
                            \A e \in Range(condition) : Meaning(e, OnUnit(units, i)) = True}))

AnyFails(exprs, units) ==
  \E e \in exprs, i \in DOMAIN units : Failed(Meaning(e, OnUnit(units, i)))

RowUnits(rows) == MapAll(rows, LAMBDA row : [row |-> row, group |-> <<>>])

GroupUnits(rows, groupBy) ==
  LET keys == [i \in DOMAIN rows |-> MapAll(groupBy, LAMBDA e : Meaning(e, OnRow(rows[i])))]
      groups == AggregateGroups(groupBy, keys, Len(rows))
  IN MapAll(groups, LAMBDA g : [row   |-> IF g = <<>> THEN <<>> ELSE rows[g[1]],
                                group |-> Pick(rows, g)])

ItemName(item) ==
  IF item.alias # "" THEN item.alias
  ELSE LET e == WithoutParentheses(item.expr) IN IF e.kind = "column" THEN e.ref[2] ELSE ""

ItemCells(item, at) ==
  IF item.wildcard
  THEN Relabelled(Where(at.row, LAMBDA c : item.qualifier \in {"", c.qualifier}), "")
  ELSE <<Cell("", ItemName(item), Meaning(item.expr, at))>>

ItemTemplate(item, template) ==
  IF item.wildcard
  THEN Relabelled(Where(template, LAMBDA c : item.qualifier \in {"", c.qualifier}), "")
  ELSE <<Cell("", ItemName(item), Null)>>

Calls(exprs, Kind(_)) == UNION {{x \in Range(Subterms(e)) : Kind(x)} : e \in exprs}

(* The stages of a SELECT above FROM; `order` shares the stage of windows. *)
(* `outputs` are the cells of each unit, `units` what they were made from. *)
SelectMeaning(block, source, order) ==
  LET rows    == RowUnits(source.rows)
      chosen  == KeptUnits(rows, block.where)
      exprs   == {item.expr : item \in {x \in Range(block.items) : ~ x.wildcard}}
      calls   == Calls(exprs \cup Range(block.having), IsGroupingAggregate)
      grouped == block.groupBy # <<>> \/ calls # {}
      chosenRows == MapAll(chosen, LAMBDA u : u.row)
      stage   == IF grouped THEN GroupUnits(chosenRows, block.groupBy) ELSE chosen
      units   == KeptUnits(stage, block.having)
      windows == Calls(exprs \cup Range(OrderExprs(order)), IsWindow)
      outputs == [i \in DOMAIN units |->
                    FlattenSeq(MapAll(block.items, LAMBDA item : ItemCells(item, OnUnit(units, i))))]
  IN [template |-> FlattenSeq(MapAll(block.items, LAMBDA item : ItemTemplate(item, source.template))),
      units    |-> units,
      outputs  |-> outputs,
      fails    |-> \/ source.fails
                   \/ AnyFails(Range(block.where), rows)
                   \/ AnyFails(Range(block.groupBy), chosen)
                   \/ AnyFails(calls, stage)
                   \/ AnyFails(Range(block.having), stage)
                   \/ AnyFails(windows, units)
                   \/ \E i \in DOMAIN units : \E c \in Range(outputs[i]) : Failed(c.value)]

(* The cells of a row under the names of a template.                       *)
Under(template, values) ==
  [i \in DOMAIN template |-> [template[i] EXCEPT !.value = values[i]]]

AllUnder(template, rows) == MapAll(rows, LAMBDA values : Under(template, values))

-----------------------------------------------------------------------------
(* A body with the order above it: its rows, each with what the ORDER BY   *)
(* may look at, and whether it fails.                                      *)
OrderedOn(rows, contexts, template, fails) ==
  [rows |-> rows, at |-> contexts, template |-> template, fails |-> fails]

ResultsOnly(cells) == On(<<>>, cells, <<>>, <<>>, 0)

PlainBody(rows, template, fails) ==
  OrderedOn(rows, MapAll(rows, ResultsOnly), template, fails)

SelectBody(block, selected) ==
  IF block.distinct
  THEN PlainBody(AllUnder(selected.template, Distinct(MapAll(selected.outputs, ValuesOf))),
                 selected.template, selected.fails)
  ELSE OrderedOn(selected.outputs,
                 [i \in DOMAIN selected.outputs |->
                    [OnUnit(selected.units, i) EXCEPT !.results = selected.outputs[i]]],
                 selected.template, selected.fails)

OrderKey(item, at) ==
  IF item.expr.kind = "literal" /\ item.expr.value.scalar = "INT64"
  THEN OnlyValue(at.results, {item.expr.value.v} \cap DOMAIN at.results)
  ELSE Meaning(item.expr, at)

(* The rows in the order asked for, with their keys, before any row bound. *)
InOrder(body, order) ==
  LET keys == [i \in DOMAIN body.rows |-> MapAll(order, LAMBDA item : OrderKey(item, body.at[i]))]
      fails == body.fails \/ \E i \in DOMAIN keys : \E k \in DOMAIN order : Failed(keys[i][k])
      sorted == IF fails THEN <<>> ELSE Sorted(DOMAIN body.rows, keys, order)
  IN [rows |-> Pick(body.rows, sorted), keys |-> Pick(keys, sorted),
      template |-> body.template, fails |-> fails]

Bounded(result, bounds) ==
  IF bounds = <<>> THEN result
  ELSE LET skip == IF bounds[1].offset = <<>> THEN 0 ELSE bounds[1].offset[1]
           kept == Increasing({i \in DOMAIN result.rows :
                                 i > skip /\ \A n \in Range(bounds[1].limit) : i <= skip + n})
       IN [result EXCEPT !.rows = Pick(@, kept), !.keys = Pick(@, kept)]

RECURSIVE MeaningOfQuery(_, _), MeaningOfBody(_, _, _)

TableMeaning(t, snapshot) ==
  IF t.query = <<>> THEN CatalogMeaning(t, snapshot)
  ELSE LET result == MeaningOfQuery(t.query[1], snapshot)
       IN Relation(Relabelled(result.template, t.alias),
                   MapAll(result.rows, LAMBDA cells : Relabelled(cells, t.alias)), result.fails)

FromMeaning(from, snapshot) ==
  LET table(joined) ==
        FoldLeft(LAMBDA left, join : Joined(left, TableMeaning(join.right, snapshot), join.how,
                                            join.condition),
                 TableMeaning(joined.left, snapshot), joined.joins)
  IN FoldLeft(LAMBDA left, joined : Joined(left, table(joined), "cross", <<>>),
              table(from[1]), Tail(from))

MeaningOfBody(body, order, snapshot) ==
  CASE body.kind = "select" ->
         LET block == body.parts[1]
         IN SelectBody(block, SelectMeaning(block, FromMeaning(block.from, snapshot),
                                            IF block.distinct THEN <<>> ELSE order))
    [] body.kind = "parenthesized" ->
         LET result == MeaningOfQuery(body.parts[1], snapshot)
         IN PlainBody(result.rows, result.template, result.fails)
    [] body.kind = "set" ->
         LET left  == MeaningOfBody(body.parts[1], <<>>, snapshot)
             right == MeaningOfBody(body.parts[2], <<>>, snapshot)
             rows  == Combined(body.how, MapAll(left.rows, ValuesOf), MapAll(right.rows, ValuesOf))
         IN PlainBody(AllUnder(left.template, rows), left.template, left.fails \/ right.fails)

MeaningOfQuery(query, snapshot) ==
  Bounded(InOrder(MeaningOfBody(query.body, query.orderBy, snapshot), query.orderBy), query.bounds)

-----------------------------------------------------------------------------
(* Rows that a query may be answered with: as a bag those of its meaning,  *)
(* and peer group by peer group in the order asked for.                    *)
PeersAt(result, p) == Increasing({i \in DOMAIN result.rows : result.keys[i] = result.keys[p]})

MayAnswer(result, failure, rows) ==
  IF result.fails THEN Failed(failure) /\ failure # Unreachable
  ELSE /\ failure = Null
       /\ Len(rows) = Len(result.rows)
       /\ \A p \in DOMAIN rows :
            ToBag(Pick(rows, PeersAt(result, p)))
              = ToBag(MapAll(Pick(result.rows, PeersAt(result, p)), ValuesOf))
=============================================================================
