--------------------------- MODULE SelectLowering ---------------------------
(***************************************************************************)
(* The lowerer on typed query expressions without WITH (src/lower.rs): a   *)
(* SELECT becomes Input, Join, Filter, Aggregate, Window, Project and      *)
(* Distinct nodes, ORDER BY an Order with the projections that compute and *)
(* drop hidden keys.  A plan carries, besides its node, the fields that an *)
(* expression above it may use (Plan::environment).                        *)
(***************************************************************************)
EXTENDS SelectTyping, PlanGraphs

Plan(graph, live) == [graph |-> graph, live |-> live]

(* push_node on top of plans.                                              *)
Pushed(node, inputs, schema, ordered, live) ==
  Plan(PlanNode(node, [i \in DOMAIN inputs |-> inputs[i].graph], schema, ordered), live)

(* A node with one input that changes neither schema nor kind.             *)
OnTop(node, plan) ==
  Pushed(node, <<plan>>, plan.graph.schema, plan.graph.ordered, plan.live)

LowerSchema(fields) == [i \in DOMAIN fields |-> Field(fields[i].id, fields[i].descriptor)]

ConsumeAsBag(plan) ==
  IF ~ plan.graph.ordered THEN plan
  ELSE Pushed(NodeKind("forget_order", "", <<>>, <<>>), <<plan>>, plan.graph.schema, FALSE, plan.live)

-----------------------------------------------------------------------------
(* ScalarContext: the fields that are live, the grouping expressions, and  *)
(* the places of the aggregates and windows that have a field by now.      *)
Context(fields, keys, aggregates, windows) ==
  [fields |-> fields, keys |-> keys, aggregates |-> aggregates, windows |-> windows]

SourceContext(fields) == Context(fields, <<>>, {}, {})

KeyField(e)  == FieldAt("key", e.place, 0)
CallField(e) == FieldAt("call", e.place, 0)

(* What `expect` and `panic!` stop at: a field that is not live, a literal *)
(* that is no INT64, an invocation that no node computes.                  *)
Panic(d) == Apply("panic", "", <<>>, d)

RECURSIVE Panics(_)
Panics(e) == e.kind = "panic" \/ \E i \in DOMAIN e.args : Panics(e.args[i])

Negatable(e, positive) ==
  IF e.op = "negated" THEN Apply("unary", "not", <<positive>>, e.descriptor) ELSE positive

FallbackOf(e) ==
  IF HasElse(e.args) THEN <<>> ELSE <<Literal(Null, Descriptor(e.descriptor.scalar, TRUE))>>

LowerLiteral(e) ==
  IF e.value.scalar = "INT64" /\ e.value.v \notin Int64Values THEN Panic(e.descriptor)
  ELSE Literal(e.value, e.descriptor)

GroupsOf(e, ctx) == {k \in DOMAIN ctx.keys : StructurallyEqual(ctx.keys[k], e)}

(* lower_scalar: what an earlier node has computed is a field, in the order *)
(* window, aggregate, grouping key.                                        *)
RECURSIVE LowerScalar(_, _)
LowerScalar(e, ctx) ==
  LET d == e.descriptor
      args == MapAll(e.args, LAMBDA x : LowerScalar(x, ctx))
  IN IF e.place \in ctx.windows \cup ctx.aggregates THEN FieldRef(CallField(e), d)
     ELSE IF GroupsOf(e, ctx) # {} THEN FieldRef(KeyField(ctx.keys[Min(GroupsOf(e, ctx))]), d)
     ELSE CASE e.kind = "literal" -> LowerLiteral(e)
            [] e.kind = "field"   -> IF e.ref \in ctx.fields THEN FieldRef(e.ref, d) ELSE Panic(d)
            [] e.kind = "parenthesized" -> args[1]
            [] e.kind = "unary"   ->
                 IF IsMinimum(e) THEN Literal(Int64(IntMin), d) ELSE Apply("unary", e.op, args, d)
            [] e.kind \in {"in_list", "in_query"} ->
                 Negatable(e, Expr(e.kind, "", e.ref, args, Null, d))
            [] e.kind = "case"    -> Apply("case", "", args \o FallbackOf(e), d)
            [] e.kind \in {"binary", "is_null", "cast", "exists"} ->
                 Expr(e.kind, e.op, e.ref, args, Null, d)
            [] IsInvocation(e)    -> Panic(d)

LowerAll(exprs, ctx) == MapAll(exprs, LAMBDA e : LowerScalar(e, ctx))

LowerItems(order, ctx) == Reordered(order, LowerAll(OrderExprs(order), ctx))

-----------------------------------------------------------------------------
(* collect_grouping_aggregates and collect_windows: the outermost ones, in *)
(* the order of the source.                                                *)
RECURSIVE Outermost(_, _)
Outermost(e, kind) ==
  IF IsInvocation(e) /\ (kind = "window") = IsWindow(e) THEN <<e>>
  ELSE FlattenSeq(MapAll(Children(e), LAMBDA x : Outermost(x, kind)))

Invocations(exprs, kind) == FlattenSeq(MapAll(exprs, LAMBDA e : Outermost(e, kind)))

PlacesOf(exprs) == {e.place : e \in Range(exprs)}

FieldsOfCalls(calls) == [k \in DOMAIN calls |-> Field(CallField(calls[k]), calls[k].descriptor)]

AggregateFunction(e) == IF e.op = "count" /\ e.args = <<>> THEN "count_all" ELSE e.op

(* canonical_groups: the first of each that are structurally equal.        *)
CanonicalGroups(exprs) ==
  Pick(exprs, Increasing({i \in DOMAIN exprs :
                            \A j \in 1 .. i - 1 : ~ StructurallyEqual(exprs[j], exprs[i])}))

SelectExprs(block) == [i \in DOMAIN block.items |-> block.items[i].expr]

GroupingEntries(keys, calls, ctx) ==
  [k \in DOMAIN keys |-> GroupingKey(KeyField(keys[k]), LowerScalar(keys[k], ctx))]
    \o [k \in DOMAIN calls |->
          Aggregate(CallField(calls[k]), AggregateFunction(calls[k]), LowerAll(calls[k].args, ctx))]

GroupingStage(plan, keys, calls, ctx) ==
  [plan |-> Pushed(NodeKind("aggregate", "", GroupingEntries(keys, calls, ctx), <<>>), <<plan>>,
                   [k \in DOMAIN keys |-> Field(KeyField(keys[k]), keys[k].descriptor)]
                     \o FieldsOfCalls(calls), FALSE, {}),
   ctx |-> Context({}, keys, PlacesOf(calls), {})]

(* lower_grouping_stage.                                                   *)
LowerGrouping(plan, block, ctx) ==
  GroupingStage(plan, CanonicalGroups(block.groupBy),
                Invocations(SelectExprs(block) \o block.having, "aggregate"), ctx)

WindowDefinition(e, ctx) ==
  Window(CallField(e), AggregateFunction(e), LowerAll(e.args, ctx),
         LowerAll(e.over[1].partition, ctx), LowerItems(e.over[1].order, ctx))

WindowDefinitions(calls, ctx) == [k \in DOMAIN calls |-> WindowDefinition(calls[k], ctx)]

WindowStage(stage, calls) ==
  IF calls = <<>> THEN stage
  ELSE [plan |-> Pushed(NodeKind("window", "", WindowDefinitions(calls, stage.ctx), <<>>),
                        <<stage.plan>>, stage.plan.graph.schema \o FieldsOfCalls(calls), FALSE,
                        stage.plan.live),
        ctx |-> [stage.ctx EXCEPT !.windows = PlacesOf(calls)]]

(* lower_window_stage: the windows of the SELECT list and of the ORDER BY. *)
LowerWindows(stage, exprs) == WindowStage(stage, Invocations(exprs, "window"))

LowerFilter(plan, exprs, ctx) ==
  IF exprs = <<>> THEN plan
  ELSE OnTop(NodeKind("filter", "", <<Predicate(LowerScalar(exprs[1], ctx))>>, <<>>), plan)

-----------------------------------------------------------------------------
NullableSchema(schema) == [i \in DOMAIN schema |-> [schema[i] EXCEPT !.descriptor.nullable = TRUE]]

(* lower_join.                                                             *)
LowerJoin(left, right, how, conditions) ==
  LET l == left.graph.schema
      r == right.graph.schema
      schema == (IF how \in {"right", "full"} THEN NullableSchema(l) ELSE l)
                  \o (IF how \in {"left", "full"} THEN NullableSchema(r) ELSE r)
  IN Pushed(NodeKind("join", how, MapAll(conditions, Predicate), <<>>), <<left, right>>, schema,
            FALSE, left.live \cup right.live)

LowerCatalogTable(t) ==
  Plan(PlanNode(NodeKind("input", t.binding, <<>>, <<>>), <<>>, LowerSchema(t.fields), FALSE),
       FieldIds(t.fields))

(* instantiate_occurrence: every field of the query under an identity of   *)
(* this occurrence.                                                        *)
InstantiateOccurrence(plan, fields) ==
  LET from == plan.graph.schema
      entries == [i \in DOMAIN fields |->
                    Compute(fields[i].id, FieldRef(from[i].id, from[i].descriptor))]
  IN Pushed(NodeKind("project", "", entries, <<>>), <<plan>>, LowerSchema(fields), FALSE,
            FieldIds(fields))

-----------------------------------------------------------------------------
(* The fields of the input that ORDER BY needs and the result has not.     *)
SupportIds(exprs, available, public) ==
  (UNION {ReferencedFields(e) : e \in Range(exprs)} \cap available) \ public

ProjectKeeping(stage, block, public, kept) ==
  LET entries == [i \in DOMAIN block.items |->
                    Compute(public[i].id, LowerScalar(block.items[i].expr, stage.ctx))]
                   \o [i \in DOMAIN kept |-> Keep(kept[i].id)]
  IN Pushed(NodeKind("project", "", entries, <<>>), <<stage.plan>>, public \o kept,
            stage.plan.graph.ordered, FieldIds(public))

LowerDistinct(block, public, plan) ==
  IF ~ block.distinct THEN plan
  ELSE Pushed(NodeKind("distinct", "", <<>>, <<>>), <<plan>>, public, FALSE, FieldIds(public))

Projected(stage, block, public, lowered) ==
  LET support == SupportIds(lowered, FieldIds(stage.plan.graph.schema), FieldIds(public))
      kept    == Where(stage.plan.graph.schema, LAMBDA f : f.id \in support)
  IN [plan  |-> LowerDistinct(block, public, ProjectKeeping(stage, block, public, kept)),
      order |-> lowered]

(* lower_select above HAVING and windows: the projection, with the support *)
(* of the order, and DISTINCT.  The order is lowered only if it may use    *)
(* the input.                                                              *)
LowerProjection(stage, block, order) ==
  LET public == LowerSchema(block.results)
      above  == [stage.ctx EXCEPT !.fields = @ \cup FieldIds(public)]
  IN Projected(stage, block, public, LowerAll(OrderExprs(order), above))

LowerGroups(filtered, block, source) ==
  IF block.isAggregate THEN LowerGrouping(filtered, block, source)
  ELSE [plan |-> filtered, ctx |-> source]

LowerHaving(grouped, block) ==
  [grouped EXCEPT !.plan = LowerFilter(@, block.having, grouped.ctx)]

(* lower_select, once its tables are lowered.                              *)
LowerSelect(from, block, order) ==
  LET source == SourceContext(from.live)
  IN LowerProjection(
       LowerWindows(LowerHaving(LowerGroups(LowerFilter(from, block.where, source), block, source),
                                block),
                    SelectExprs(block) \o OrderExprs(order)),
       block, order)

BoundsOf(bound) == (IF bound.offset = <<>> THEN <<0>> ELSE bound.offset) \o bound.limit

SortField(place, i) == FieldAt("sort", place, i)

LowerOrdering(plan, order) ==
  Pushed(NodeKind("order", "", <<Items(order)>>, <<>>), <<plan>>, plan.graph.schema, TRUE, plan.live)

DropHidden(hidden, plan, public, keep) ==
  IF hidden = <<>> THEN plan
  ELSE Pushed(NodeKind("project", "", keep, <<>>), <<plan>>, public, TRUE, plan.live)

LowerBound(plan, public, bounds) ==
  IF bounds = <<>> THEN plan
  ELSE Pushed(NodeKind("slice", "", <<>>, BoundsOf(bounds[1])), <<plan>>, public, TRUE, plan.live)

(* lower_order_and_bound: a key that is a result is ordered by itself, any *)
(* other is computed below the Order and dropped above it.                 *)
LowerOrderAndBound(plan, public, items, exprs, bounds) ==
  LET hidden == Increasing({i \in DOMAIN exprs :
                              ~ (exprs[i].kind = "field" /\ exprs[i].ref \in FieldIds(public))})
      keyOf(i) == IF i \in Range(hidden)
                  THEN FieldRef(SortField(items[i].expr.place, 0), exprs[i].descriptor)
                  ELSE FieldRef(exprs[i].ref, exprs[i].descriptor)
      keep    == [i \in DOMAIN public |-> Keep(public[i].id)]
      entries == keep \o [k \in DOMAIN hidden |->
                            Compute(keyOf(hidden[k]).ref, exprs[hidden[k]])]
      keyed   == public \o [k \in DOMAIN hidden |->
                              Field(keyOf(hidden[k]).ref, exprs[hidden[k]].descriptor)]
      input   == IF hidden # <<>> \/ plan.graph.schema # public
                 THEN Pushed(NodeKind("project", "", entries, <<>>), <<plan>>, keyed,
                             plan.graph.ordered, plan.live)
                 ELSE plan
      order   == Reordered(items, [i \in DOMAIN items |-> keyOf(i)])
      ordered == DropHidden(hidden, LowerOrdering(input, order), public, keep)
  IN LowerBound(ordered, public, bounds)

-----------------------------------------------------------------------------
LowerJoinOn(left, right, join) ==
  LowerJoin(left, right, join.how,
            LowerAll(join.condition, SourceContext(left.live \cup right.live)))

OrderedBy(query, plan, exprs) ==
  LowerOrderAndBound(plan, LowerSchema(query.body.results), query.orderBy, exprs, query.bounds)

OrderSelected(query, selected) == OrderedBy(query, selected.plan, selected.order)

OrderResults(query, plan) ==
  IF query.orderBy = <<>> THEN plan
  ELSE LET bag == ConsumeAsBag(plan)
       IN OrderedBy(query, bag, LowerAll(OrderExprs(query.orderBy), SourceContext(bag.live)))

RECURSIVE LowerQuery(_), LowerBody(_)

LowerTable(t) ==
  IF t.query = <<>> THEN LowerCatalogTable(t)
  ELSE InstantiateOccurrence(ConsumeAsBag(LowerQuery(t.query[1])), t.fields)

LowerJoinedTable(joined) ==
  FoldLeft(LAMBDA left, join : LowerJoinOn(left, LowerTable(join.right), join),
           LowerTable(joined.left), joined.joins)

(* lower_from: tables after a comma are a cross join.                      *)
LowerFrom(from) ==
  FoldLeft(LAMBDA left, joined : LowerJoin(left, LowerJoinedTable(joined), "cross", <<>>),
           LowerJoinedTable(from[1]), Tail(from))

LowerBody(body) ==
  CASE body.kind = "select" ->
         LowerSelect(LowerFrom(body.parts[1].from), body.parts[1], <<>>).plan
    [] body.kind = "parenthesized" -> LowerQuery(body.parts[1])
    [] body.kind = "set" ->
         LET schema == LowerSchema(body.results)
         IN Pushed(NodeKind("set", body.how, [i \in DOMAIN schema |-> Output(schema[i].id)], <<>>),
                   <<ConsumeAsBag(LowerBody(body.parts[1])), ConsumeAsBag(LowerBody(body.parts[2]))>>,
                   schema, FALSE, FieldIds(schema))

(* lower_query_expression: on a SELECT without DISTINCT the order is       *)
(* lowered with it; otherwise against the results, of a bag.               *)
LowerQuery(query) ==
  LET body    == query.body
      coupled == body.kind = "select" /\ query.orderBy # <<>> /\ ~ body.parts[1].distinct
  IN [(IF coupled
       THEN OrderSelected(query, LowerSelect(LowerFrom(body.parts[1].from), body.parts[1],
                                             query.orderBy))
       ELSE OrderResults(query, LowerBody(body)))
      EXCEPT !.live = FieldIds(body.results)]

-----------------------------------------------------------------------------
NodeExpressions(node) ==
  UNION {Range(e.args) \cup Range(e.partition) \cup Range(OrderExprs(e.order)) : e \in Range(node.entries)}

RECURSIVE GraphPanics(_)
GraphPanics(graph) ==
  \/ \E e \in NodeExpressions(graph.node) : Panics(e)
  \/ \E i \in DOMAIN graph.inputs : GraphPanics(graph.inputs[i])
=============================================================================
