---------------------------- MODULE SelectBinding ----------------------------
(***************************************************************************)
(* The binder on query expressions without WITH (src/bind.rs): columns     *)
(* become fields, wildcards their fields, and every occurrence of a        *)
(* relation and every result gets fields of its own.  What cannot be       *)
(* resolved is left as NoField: a program is well bound if it has none.    *)
(***************************************************************************)
EXTENDS SourceQueries

CONSTANT Catalog   \* sequence of relations: [name, binding, fields]

ASSUME CatalogAssumption ==
  \A k \in DOMAIN Catalog :
    \A i \in DOMAIN Catalog[k].fields : Catalog[k].fields[i].descriptor \in Descriptors

BoundField(id, name, descriptor) == [id |-> id, name |-> name, descriptor |-> descriptor]

(* What `matches.as_slice()` is asked for everywhere: exactly one.         *)
Unique(S) == Cardinality(S) = 1
TheOne(S) == CHOOSE x \in S : TRUE

Named(fields, name) == {i \in DOMAIN fields : fields[i].name = name}

OccurrencesOf(sources, qualifier) == {k \in DOMAIN sources : sources[k].qualifier = qualifier}

AllFields(sources) == FlattenSeq([k \in DOMAIN sources |-> sources[k].fields])

VisibleFields(qualifier, sources) ==
  IF qualifier = "" THEN AllFields(sources)
  ELSE IF Unique(OccurrencesOf(sources, qualifier))
       THEN sources[TheOne(OccurrencesOf(sources, qualifier))].fields ELSE <<>>

(* The field of that name, if exactly one has it.                          *)
FieldNamed(fields, name) ==
  IF Unique(Named(fields, name)) THEN fields[TheOne(Named(fields, name))].id ELSE NoField

ResolveSourceField(column, sources) ==
  FieldNamed(VisibleFields(column[1], sources), column[2])

(* Mutant: a field of the input hides the result of the same name.         *)
SourcesFirst(column, sources, results) ==
  IF column[1] # "" \/ ResolveSourceField(column, sources) # NoField
  THEN ResolveSourceField(column, sources)
  ELSE FieldNamed(results, column[2])

(* Results come first, and only for an unqualified name: two results of    *)
(* one name do not fall back to a source.                                  *)
ResolveColumn(column, sources, results) ==
  IF column[1] # "" \/ Named(results, column[2]) = {}
  THEN ResolveSourceField(column, sources)
  ELSE FieldNamed(results, column[2])

(* bind_expression_with: below an OVER clause only `windows` is visible.   *)
RECURSIVE BindExpression(_, _, _, _)
BindExpression(e, sources, results, windows) ==
  IF e.kind = "column"
  THEN [e EXCEPT !.kind = "field", !.ref = ResolveColumn(e.ref, sources, results)]
  ELSE IF IsWindow(e)
  THEN MapChildren(e, LAMBDA x : BindExpression(x, windows, <<>>, windows))
  ELSE MapChildren(e, LAMBDA x : BindExpression(x, sources, results, windows))

BindInBlock(e, sources, place) == Placed(BindExpression(e, sources, <<>>, sources), place)

IsOrdinal(e) == e.kind = "literal" /\ e.value.scalar = "INT64"

Ordinal(e, results) ==
  [e EXCEPT !.kind = "field",
            !.ref = IF e.value.v \in DOMAIN results THEN results[e.value.v].id ELSE NoField]

BindOrderItem(item, results, fallback, windows, place) ==
  [item EXCEPT !.expr =
     Placed(IF IsOrdinal(@) THEN Ordinal(@, results)
            ELSE BindExpression(@, fallback, results, windows), place)]

-----------------------------------------------------------------------------
(* bind_catalog_occurrence and instantiate_occurrence.                     *)
OccurrenceFields(fields, place) ==
  [i \in DOMAIN fields |->
     BoundField(FieldAt("source", place, i), fields[i].name, fields[i].descriptor)]

WithoutDescriptors(fields) ==
  [i \in DOMAIN fields |-> BoundField(fields[i].id, fields[i].name, Invalid)]

RelationsNamed(name) == {k \in DOMAIN Catalog : Catalog[k].name = name}

BindCatalogTable(t, place) ==
  LET known    == Unique(RelationsNamed(t.relation))
      relation == Catalog[TheOne(RelationsNamed(t.relation))]
  IN [known |-> known, query |-> <<>>,
      qualifier |-> IF t.alias = "" THEN t.relation ELSE t.alias,
      binding |-> IF known THEN relation.binding ELSE "",
      fields |-> IF known THEN OccurrenceFields(relation.fields, place) ELSE <<>>]

BindDerivedTable(t, query, place) ==
  [known |-> TRUE, query |-> <<query>>, qualifier |-> t.alias, binding |-> "",
   fields |-> OccurrenceFields(WithoutDescriptors(query.body.results), place)]

Occurrences(joined) ==
  <<joined.left>> \o [k \in DOMAIN joined.joins |-> joined.joins[k].right]

SelectOccurrences(from) == FlattenSeq([i \in DOMAIN from |-> Occurrences(from[i])])

(* bind_joined_table: a condition sees the tables up to its own.           *)
BindConditions(joined, place) ==
  [joined EXCEPT !.joins =
     [k \in DOMAIN @ |->
        [@[k] EXCEPT !.condition =
           MapAll(@, LAMBDA e : BindInBlock(e, SubSeq(Occurrences(joined), 1, k + 1),
                                            place \o <<k>>))]]]

(* A SELECT item gives one output, a wildcard one for each of its fields.  *)
NameOfField(id, sources) ==
  LET named == {f \in Range(AllFields(sources)) : f.id = id}
  IN IF named = {} THEN "" ELSE TheOne(named).name

OutputName(item, expr, sources) ==
  IF item.alias # "" THEN item.alias
  ELSE IF IsDirectField(expr) THEN NameOfField(DirectField(expr), sources) ELSE ""

NamedOutput(item, expr, sources) == [expr |-> expr, name |-> OutputName(item, expr, sources)]

WildcardFields(item, sources) ==
  IF item.qualifier # "" /\ ~ Unique(OccurrencesOf(sources, item.qualifier))
  THEN <<BoundField(NoField, "", Invalid)>>
  ELSE VisibleFields(item.qualifier, sources)

ExpandItem(item, sources, place) ==
  IF item.wildcard
  THEN LET fields == WildcardFields(item, sources)
       IN [i \in DOMAIN fields |->
             [expr |-> Placed(Term("field", "", fields[i].id, <<>>, Null, <<>>), place),
              name |-> fields[i].name]]
  ELSE <<NamedOutput(item, BindInBlock(item.expr, sources, place), sources)>>

IsAggregateQuery(items, groupBy, having) ==
  \/ groupBy # <<>>
  \/ \E i \in DOMAIN items : HasGroupingAggregate(items[i].expr)
  \/ \E i \in DOMAIN having : HasGroupingAggregate(having[i])

FreshResults(items, place) ==
  [i \in DOMAIN items |-> BoundField(FieldAt("result", place, i), items[i].name, Invalid)]

BoundBlock(block, from, items, where, groupBy, having, place) ==
  [distinct |-> block.distinct, items |-> items, from |-> from,
   where |-> where, groupBy |-> groupBy, having |-> having,
   sources |-> AllFields(SelectOccurrences(from)),
   isAggregate |-> IsAggregateQuery(items, groupBy, having),
   results |-> FreshResults(items, place)]

(* bind_select_query, once its tables are bound.                           *)
BindSelect(block, from, place) ==
  LET sources == SelectOccurrences(from)
      Bind(exprs, p) == [i \in DOMAIN exprs |-> BindInBlock(exprs[i], sources, place \o <<p, i>>)]
  IN BoundBlock(block, from,
                FlattenSeq([i \in DOMAIN block.items |->
                              ExpandItem(block.items[i], sources, place \o <<7, i>>)]),
                Bind(block.where, 4), Bind(block.groupBy, 5), Bind(block.having, 6), place)

-----------------------------------------------------------------------------
BodyOfSelect(block) ==
  [kind |-> "select", how |-> "", parts |-> <<block>>, results |-> block.results]

BodyOfQuery(query) ==
  [kind |-> "parenthesized", how |-> "", parts |-> <<query>>, results |-> query.body.results]

(* A set operation gives fields of its own the names of its left operand.  *)
BodyOfOperands(how, parts, place) ==
  [kind |-> "set", how |-> how, parts |-> parts, results |-> FreshResults(parts[1].results, place)]

(* An ORDER BY falls back to the input only on a SELECT without DISTINCT.  *)
WithBoundOrder(query, body, place) ==
  LET direct   == body.kind = "select"
      windows  == IF direct THEN SelectOccurrences(body.parts[1].from) ELSE <<>>
      fallback == IF direct /\ ~ body.parts[1].distinct THEN windows ELSE <<>>
  IN [query EXCEPT
        !.body = body,
        !.orderBy = [i \in DOMAIN @ |->
                       BindOrderItem(@[i], body.results, fallback, windows, place \o <<8, i>>)]]

RECURSIVE BindQuery(_, _), BindBody(_, _)

BindTable(t, place) ==
  IF t.query = <<>> THEN BindCatalogTable(t, place)
  ELSE BindDerivedTable(t, BindQuery(t.query[1], place), place)

BindFrom(from, place) ==
  [i \in DOMAIN from |->
     LET at(k) == place \o <<3, i, k>>
     IN BindConditions([left  |-> BindTable(from[i].left, at(0)),
                        joins |-> [k \in DOMAIN from[i].joins |->
                                     [from[i].joins[k] EXCEPT !.right = BindTable(@, at(k))]]],
                       place \o <<9, i>>)]

BindBody(body, place) ==
  CASE body.kind = "select" ->
         BodyOfSelect(BindSelect(body.parts[1], BindFrom(body.parts[1].from, place), place))
    [] body.kind = "parenthesized" ->
         BodyOfQuery(BindQuery(body.parts[1], place \o <<1>>))
    [] body.kind = "set" ->
         BodyOfOperands(body.how, <<BindBody(body.parts[1], place \o <<1>>),
                                    BindBody(body.parts[2], place \o <<2>>)>>, place)

BindQuery(query, place) == WithBoundOrder(query, BindBody(query.body, place), place)

-----------------------------------------------------------------------------
(* No error: every name resolved, no qualifier twice in a block.           *)
Resolved(e) == \A x \in Range(Subterms(e)) : x.kind = "field" => x.ref # NoField

JoinConditions(block) ==
  UNION {UNION {Range(j.condition) : j \in Range(block.from[i].joins)} : i \in DOMAIN block.from}

BlockExpressions(block) ==
  JoinConditions(block) \cup Range(block.where) \cup Range(block.groupBy) \cup Range(block.having)
    \cup {item.expr : item \in Range(block.items)}

QualifiersDiffer(block) ==
  LET tables == SelectOccurrences(block.from)
  IN \A k, l \in DOMAIN tables : k # l => tables[k].qualifier # tables[l].qualifier

RECURSIVE WellBound(_), WellBoundBody(_)

WellBoundBlock(block) ==
  /\ \A t \in Range(SelectOccurrences(block.from)) :
       t.known /\ \A q \in Range(t.query) : WellBound(q)
  /\ QualifiersDiffer(block)
  /\ \A e \in BlockExpressions(block) : Resolved(e)

WellBoundBody(body) ==
  CASE body.kind = "select"        -> WellBoundBlock(body.parts[1])
    [] body.kind = "parenthesized" -> WellBound(body.parts[1])
    [] body.kind = "set"           -> WellBoundBody(body.parts[1]) /\ WellBoundBody(body.parts[2])

WellBound(query) ==
  WellBoundBody(query.body) /\ \A i \in DOMAIN query.orderBy : Resolved(query.orderBy[i].expr)
=============================================================================
