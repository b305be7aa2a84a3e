---------------------------- MODULE SelectTyping ----------------------------
(***************************************************************************)
(* The type checker on query expressions without WITH (src/typecheck.rs):  *)
(* it annotates every expression, occurrence and result with a descriptor, *)
(* Invalid where the code returns an error; WellTyped adds the rules on    *)
(* where cross-row operations may stand, grouping, and completeness of     *)
(* orderings.  A scalar type that is expected or hinted is "none" if there *)
(* is none, and "clash" if two do not agree.                               *)
(***************************************************************************)
EXTENDS SelectBinding

(* common_hint, of any number of hints.                                    *)
CommonHint(hints) ==
  LET known == hints \ {"none"}
  IN IF known = {} THEN "none" ELSE IF Unique(known) THEN TheOne(known) ELSE "clash"

(* The results of a source CASE: without ELSE, the last arm is a result.   *)
Results(args) == {i \in DOMAIN args : i % 2 = 0 \/ i = Len(args)}

HasElse(args) == Len(args) % 2 = 1

Described(id, fields) ==
  IF id \in FieldIds(fields) THEN fields[FieldPosition(fields, id)].descriptor ELSE Invalid

OperatorResult(op) == IF op \in ArithmeticOps THEN "INT64" ELSE "BOOLEAN"

RECURSIVE ScalarHint(_, _)
ScalarHint(e, env) ==
  LET Hint(i) == ScalarHint(e.args[i], env)
  IN CASE e.kind = "literal" -> IF e.value = Null THEN "none" ELSE e.value.scalar
       [] e.kind = "field"   -> Described(e.ref, env).scalar
       [] e.kind = "parenthesized" -> Hint(1)
       [] e.kind = "unary"   -> IF e.op = "not" THEN "BOOLEAN" ELSE "INT64"
       [] e.kind = "binary"  -> OperatorResult(e.op)
       [] e.kind \in {"is_null", "in_list", "in_query", "exists"} -> "BOOLEAN"
       [] e.kind = "case"    -> CommonHint({Hint(i) : i \in Results(e.args)})
       [] e.kind = "cast"    -> e.op
       [] e.kind = "ranking" -> "INT64"
       [] e.kind = "aggregate" ->
            CASE e.op \in {"count", "sum"} -> "INT64"
              [] e.op \in {"bool_and", "bool_or"} -> "BOOLEAN"
              [] e.op \in {"min", "max"} -> IF e.args = <<>> THEN "none" ELSE Hint(1)

Hints(e, env) == {ScalarHint(e.args[i], env) : i \in DOMAIN e.args}

InQueryHint(e, env) ==
  LET schema == Queries[e.ref].schema
  IN IF Len(schema) # 1 THEN "clash"
     ELSE CommonHint({ScalarHint(e.args[1], env), schema[1].descriptor.scalar})

CaseHint(e, env, expected) ==
  CommonHint({expected} \cup {ScalarHint(e.args[i], env) : i \in Results(e.args)})

(* The scalar type each argument is typed against.                         *)
Expected(e, env, expected) ==
  CASE e.kind = "parenthesized" -> [i \in DOMAIN e.args |-> expected]
    [] e.kind = "unary"   -> <<IF e.op = "not" THEN "BOOLEAN" ELSE "INT64">>
    [] e.kind = "binary"  ->
         LET operand == CASE e.op \in ArithmeticOps -> "INT64"
                          [] e.op \in {"and", "or"} -> "BOOLEAN"
                          [] e.op \in ComparisonOps -> CommonHint(Hints(e, env))
         IN <<operand, operand>>
    [] e.kind = "is_null" -> <<ScalarHint(e.args[1], env)>>
    [] e.kind = "in_list" -> [i \in DOMAIN e.args |-> CommonHint(Hints(e, env))]
    [] e.kind = "in_query" -> <<InQueryHint(e, env)>>
    [] e.kind = "case" ->
         [i \in DOMAIN e.args |->
            IF i \in Results(e.args) THEN CaseHint(e, env, expected) ELSE "BOOLEAN"]
    [] e.kind = "cast" ->
         <<IF ScalarHint(e.args[1], env) = "none" THEN e.op ELSE ScalarHint(e.args[1], env)>>
    [] e.kind = "aggregate" ->
         [i \in DOMAIN e.args |->
            CASE e.op = "sum" -> "INT64"
              [] e.op \in {"bool_and", "bool_or"} -> "BOOLEAN"
              [] e.op \in {"min", "max"} -> expected
              [] e.op = "count" -> "none"]
    [] OTHER -> <<>>

-----------------------------------------------------------------------------
(* The integer one above the last is a literal only right below a minus.   *)
IsMinMagnitude(e) == e.kind = "literal" /\ e.value = Int64(IntMax + 1)

IsMinimum(e) == e.kind = "unary" /\ e.op = "negative" /\ IsMinMagnitude(e.args[1])

LiteralDescriptor(e, expected, belowMinus) ==
  IF e.value = Null
  THEN IF expected \in Scalars THEN Descriptor(expected, TRUE) ELSE Invalid
  ELSE IF e.value.scalar = "INT64" /\ e.value.v \notin Int64Values /\ ~ (belowMinus /\ IsMinMagnitude(e))
  THEN Invalid ELSE Descriptor(e.value.scalar, FALSE)

(* validate_aggregate_signature and aggregate_descriptor.                  *)
SourceAggregateDescriptor(function, d) ==
  CASE function = "count" -> Descriptor("INT64", FALSE)
    [] d = <<>> -> Invalid
    [] function = "sum" /\ d # <<>> -> Descriptor("INT64", TRUE)
    [] function \in {"bool_and", "bool_or"} /\ d # <<>> -> Descriptor("BOOLEAN", TRUE)
    [] function \in {"min", "max"} /\ d # <<>> -> Descriptor(d[1].scalar, TRUE)

SourceCaseDescriptor(e, d, result) ==
  Descriptor(result, ~ HasElse(e.args) \/ \E i \in Results(e.args) : d[i].nullable)

(* validate_order_nullability.                                             *)
Placeless(item) == item.expr.descriptor.nullable /\ item.nulls = "not_applicable"

(* The descriptor of an expression whose arguments are typed.              *)
TypedDescriptor(e, env, expected, belowMinus) ==
  LET d == [i \in DOMAIN e.args |-> e.args[i].descriptor]
      nullable == \E i \in DOMAIN d : d[i].nullable
  IN CASE e.kind = "literal" -> LiteralDescriptor(e, expected, belowMinus)
       [] e.kind = "field"   -> Described(e.ref, env)
       [] e.kind = "parenthesized" -> d[1]
       [] e.kind = "unary"   -> Descriptor(IF e.op = "not" THEN "BOOLEAN" ELSE "INT64", nullable)
       [] e.kind = "binary"  -> Descriptor(OperatorResult(e.op), nullable)
       [] e.kind \in {"is_null", "exists"} -> Descriptor("BOOLEAN", FALSE)
       [] e.kind = "in_list" -> Descriptor("BOOLEAN", nullable)
       [] e.kind = "in_query" ->
            Descriptor("BOOLEAN", nullable \/ Queries[e.ref].schema[1].descriptor.nullable)
       [] e.kind = "case" -> SourceCaseDescriptor(e, d, d[Len(d)].scalar)
       [] e.kind = "cast" ->
            IF CastPermitted(d[1].scalar, e.op) THEN Descriptor(e.op, nullable) ELSE Invalid
       [] e.kind = "aggregate" -> SourceAggregateDescriptor(e.op, d)
       [] e.kind = "ranking" ->
            IF \E i \in DOMAIN e.over[1].order : Placeless(e.over[1].order[i])
            THEN Invalid ELSE Descriptor("INT64", FALSE)

CheckedAgainst(expected, typed, env, belowMinus) ==
  LET descriptor == TypedDescriptor(typed, env, expected, belowMinus)
      fails == \/ \E x \in Range(Children(typed)) : x.descriptor = Invalid
               \/ expected # "none" /\ descriptor.scalar # expected
  IN [typed EXCEPT !.descriptor = IF fails THEN Invalid ELSE descriptor]

(* type_expression_inner.                                                  *)
RECURSIVE TypeExpression(_, _, _, _)
TypeExpression(e, env, expected, belowMinus) ==
  LET Below(x) == TypeExpression(x, env, "none", FALSE)
      wanted == Expected(e, env, expected)
  IN CheckedAgainst(expected,
                    [MapChildren([e EXCEPT !.args = <<>>], Below) EXCEPT
                       !.args = [i \in DOMAIN e.args |->
                                   TypeExpression(e.args[i], env, wanted[i], IsMinimum(e))]],
                    env, belowMinus)

TypeScalar(e, env)    == TypeExpression(e, env, "none", FALSE)
TypePredicate(e, env) == TypeExpression(e, env, "BOOLEAN", FALSE)

-----------------------------------------------------------------------------
NullableSide(fields) == [i \in DOMAIN fields |-> [fields[i] EXCEPT !.descriptor.nullable = TRUE]]

JoinedFields(how, left, right) ==
  (IF how \in {"right", "full"} THEN NullableSide(left) ELSE left)
    \o (IF how \in {"left", "full"} THEN NullableSide(right) ELSE right)

(* type_from: one join after the other, each condition against the fields  *)
(* of its two sides before either is made nullable.                        *)
TypeJoin(state, join) ==
  LET both == state.schema \o join.right.fields
  IN [schema |-> JoinedFields(join.how, state.schema, join.right.fields),
      joins  |-> Append(state.joins,
                        [join EXCEPT !.condition = MapAll(@, LAMBDA e : TypePredicate(e, both))])]

TypeJoins(joined) ==
  FoldLeft(TypeJoin, [schema |-> joined.left.fields, joins |-> <<>>], joined.joins)

(* type_derived_occurrence: the fields take the descriptors of the query.  *)
DescribedBy(fields, results) ==
  [i \in DOMAIN fields |-> [fields[i] EXCEPT !.descriptor = results[i].descriptor]]

ExpectedAt(expected, i) == IF i \in DOMAIN expected THEN expected[i] ELSE "none"

SourceSchema(typed) == FlattenSeq([i \in DOMAIN typed |-> typed[i].schema])

WithFrom(block, joined, typed) ==
  [block EXCEPT
     !.from = [i \in DOMAIN joined |-> [joined[i] EXCEPT !.joins = typed[i].joins]],
     !.sources = SourceSchema(typed)]

WithItems(block, items) ==
  [block EXCEPT
     !.items = items,
     !.results = [i \in DOMAIN @ |-> [@[i] EXCEPT !.descriptor = items[i].expr.descriptor]]]

TypeItems(items, env, expected) ==
  <<>> \o [i \in DOMAIN items |->
             [items[i] EXCEPT !.expr = TypeExpression(@, env, ExpectedAt(expected, i), FALSE)]]

TypeClauses(block, expected) ==
  LET env == block.sources
  IN WithItems([block EXCEPT !.where   = MapAll(@, LAMBDA e : TypePredicate(e, env)),
                             !.groupBy = MapAll(@, LAMBDA e : TypeScalar(e, env)),
                             !.having  = MapAll(@, LAMBDA e : TypePredicate(e, env))],
               TypeItems(block.items, env, expected))

(* type_select_query, once its tables are typed.                           *)
TypeSelect(block, joined, expected) ==
  TypeClauses(WithFrom(block, joined, MapAll(joined, TypeJoins)), expected)

(* The result field of a set operation, from those of its operands.        *)
SetDescriptor(left, right) ==
  IF left.scalar = right.scalar
  THEN Descriptor(left.scalar, left.nullable \/ right.nullable) ELSE Invalid

(* Mutant: the right operand is typed by what the left one gives.          *)
LeftHints(expected, left, right) ==
  [i \in DOMAIN left |-> CommonHint({ExpectedAt(expected, i), left[i]})]

(* Both operands are typed by what either of them and the context give.    *)
OperandHints(expected, left, right) ==
  [i \in DOMAIN left |-> CommonHint({ExpectedAt(expected, i), left[i], ExpectedAt(right, i)})]

(* The results are visible to ORDER BY, and the input of a direct SELECT   *)
(* without DISTINCT.                                                       *)
OrderEnvironment(body) ==
  body.results
    \o (IF body.kind = "select" /\ ~ body.parts[1].distinct THEN body.parts[1].sources ELSE <<>>)

WithTypedQuery(t, query) ==
  [t EXCEPT !.query = query,
            !.fields = IF query = <<>> THEN @ ELSE DescribedBy(@, query[1].body.results)]

ItemHints(block, env) == [i \in DOMAIN block.items |-> ScalarHint(block.items[i].expr, env)]

WithBlock(body, block) == [body EXCEPT !.parts = <<block>>, !.results = block.results]

WithQuery(body, query) == [body EXCEPT !.parts = <<query>>, !.results = query.body.results]

WithOperands(body, parts) ==
  [body EXCEPT
     !.parts = parts,
     !.results = [i \in DOMAIN @ |->
                    [@[i] EXCEPT !.descriptor =
                       IF i \in DOMAIN parts[2].results
                       THEN SetDescriptor(parts[1].results[i].descriptor,
                                          parts[2].results[i].descriptor)
                       ELSE Invalid]]]

WithTypedOrder(query, body) ==
  [query EXCEPT
     !.body = body,
     !.orderBy = [i \in DOMAIN @ |-> [@[i] EXCEPT !.expr = TypeScalar(@, OrderEnvironment(body))]]]

RECURSIVE TypeQuery(_, _), TypeBody(_, _), BodyHints(_)

TypeTable(t) == WithTypedQuery(t, MapAll(t.query, LAMBDA q : TypeQuery(q, <<>>)))

TypeTables(from) ==
  [i \in DOMAIN from |->
     [left  |-> TypeTable(from[i].left),
      joins |-> [k \in DOMAIN from[i].joins |->
                   [from[i].joins[k] EXCEPT !.right = TypeTable(@)]]]]

(* body_hints, before the body itself is typed.                            *)
BodyHints(body) ==
  CASE body.kind = "select" ->
         ItemHints(body.parts[1],
                   SourceSchema(MapAll(TypeTables(body.parts[1].from), TypeJoins)))
    [] body.kind = "parenthesized" -> BodyHints(body.parts[1].body)
    [] body.kind = "set" ->
         OperandHints(<<>>, BodyHints(body.parts[1]), BodyHints(body.parts[2]))

TypeOperands(body, common) ==
  WithOperands(body, <<TypeBody(body.parts[1], common), TypeBody(body.parts[2], common)>>)

TypeBody(body, expected) ==
  CASE body.kind = "select" ->
         WithBlock(body, TypeSelect(body.parts[1], TypeTables(body.parts[1].from), expected))
    [] body.kind = "parenthesized" -> WithQuery(body, TypeQuery(body.parts[1], expected))
    [] body.kind = "set" ->
         TypeOperands(body, OperandHints(expected, BodyHints(body.parts[1]),
                                         BodyHints(body.parts[2])))

TypeQuery(query, expected) == WithTypedOrder(query, TypeBody(query.body, expected))

-----------------------------------------------------------------------------
(* validate_placement: a grouping aggregate only where `grouping` says, a  *)
(* window only where `window` does, and neither inside the other.          *)
IsInvocation(e) == e.kind \in {"aggregate", "ranking"}

RECURSIVE PlacementIsValid(_, _, _)
PlacementIsValid(e, grouping, window) ==
  IF IsInvocation(e)
  THEN /\ IF IsWindow(e) THEN window ELSE grouping
       /\ \A x \in Range(Children(e)) : PlacementIsValid(x, FALSE, FALSE)
  ELSE \A x \in Range(Children(e)) : PlacementIsValid(x, grouping, window)

PlacementsAreValid(block) ==
  /\ \A e \in JoinConditions(block) \cup Range(block.where) \cup Range(block.groupBy) :
        PlacementIsValid(e, FALSE, FALSE)
  /\ \A e \in Range(block.having) : PlacementIsValid(e, TRUE, FALSE)
  /\ \A i \in DOMAIN block.items : PlacementIsValid(block.items[i].expr, TRUE, TRUE)

(* group_valid: built from grouping expressions and aggregates.            *)
RECURSIVE GroupValid(_, _, _)
GroupValid(e, groups, results) ==
  \/ \E g \in groups : StructurallyEqual(e, g)
  \/ e.kind = "field" /\ e.ref \in results
  \/ IsGroupingAggregate(e)
  \/ e.kind # "field" /\ \A x \in Range(Children(e)) : GroupValid(x, groups, results)

(* Mutant: a ROW_NUMBER may leave ties that differ.                        *)
SomeFieldOrdered(order, block) ==
  block.isAggregate \/ \E f \in FieldIds(block.sources), x \in Range(OrderExprs(order)) :
                         IsDirectField(x) /\ DirectField(x) = f

DirectlyOrdered(order) ==
  {DirectField(x) : x \in {y \in Range(OrderExprs(order)) : IsDirectField(y)}}

RowNumberIsComplete(order, block) ==
  IF ~ block.isAggregate THEN FieldIds(block.sources) \subseteq DirectlyOrdered(order)
  ELSE \A g \in Range(block.groupBy) :
         \E x \in Range(OrderExprs(order)) : StructurallyEqual(g, x)

(* validate_row_number_expressions.                                        *)
RowNumbersAreComplete(e, block) ==
  \A x \in Range(Subterms(e)) :
     x.kind = "ranking" /\ x.op = "row_number" => RowNumberIsComplete(x.over[1].order, block)

WellAnnotated(e) == e.descriptor # Invalid

(* type_row_bound.                                                         *)
RowBoundIsComplete(bounds, order, results) ==
  bounds # <<>> =>
    /\ Range(bounds[1].limit) \cup Range(bounds[1].offset) \subseteq Int64Values
    /\ FieldIds(results) \subseteq DirectlyOrdered(order)

-----------------------------------------------------------------------------
RECURSIVE WellTyped(_), WellTypedBody(_)

WellTypedSelect(block) ==
  /\ block.having # <<>> => block.isAggregate
  /\ PlacementsAreValid(block)
  /\ block.isAggregate =>
        \A e \in Range(block.having) \cup {item.expr : item \in Range(block.items)} :
          GroupValid(e, Range(block.groupBy), {})
  /\ \A t \in Range(SelectOccurrences(block.from)) : \A q \in Range(t.query) :
        WellTyped(q)
  /\ \A e \in BlockExpressions(block) : WellAnnotated(e)
  /\ \A item \in Range(block.items) : RowNumbersAreComplete(item.expr, block)

WellTypedBody(body) ==
  CASE body.kind = "select"        -> WellTypedSelect(body.parts[1])
    [] body.kind = "parenthesized" -> WellTyped(body.parts[1])
    [] body.kind = "set" ->
         /\ Len(body.parts[1].results) = Len(body.parts[2].results)
         /\ WellTypedBody(body.parts[1]) /\ WellTypedBody(body.parts[2])
         /\ \A i \in DOMAIN body.results : body.results[i].descriptor # Invalid

WellTypedOrderItem(item, body) ==
  LET direct == body.kind = "select"
      block  == body.parts[1]
  IN /\ direct /\ block.isAggregate =>
           GroupValid(item.expr, Range(block.groupBy), FieldIds(body.results))
     /\ PlacementIsValid(item.expr, FALSE, direct /\ ~ block.distinct)
     /\ WellAnnotated(item.expr) /\ ~ Placeless(item)
     /\ direct => RowNumbersAreComplete(item.expr, block)

WellTyped(query) ==
  /\ WellTypedBody(query.body)
  /\ \A item \in Range(query.orderBy) : WellTypedOrderItem(item, query.body)
  /\ RowBoundIsComplete(query.bounds, query.orderBy, query.body.results)
=============================================================================
