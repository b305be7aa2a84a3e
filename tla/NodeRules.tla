----------------------------- MODULE NodeRules -----------------------------
(***************************************************************************)
(* The rule of validate_node (src/shape_ir.rs) for each kind of node: when *)
(* the node is accepted, and the properties derived for it, given those of *)
(* its inputs: schema, collection kind, value keys and peer constants.     *)
(*                                                                         *)
(* A node is a record of one shape for all kinds: what it does is in       *)
(* `entries`, an entry being a kept or computed field, a predicate, a      *)
(* grouping key, an aggregate or a window definition.  The declared schema *)
(* and collection kind are those derived, and field names are left out.    *)
(***************************************************************************)
EXTENDS ScalarRules

CONSTANTS
  Refs,        \* the fields and queries an expression may name
  MaxHeight    \* bound on the height of expressions

ASSUME HeightAssumption == MaxHeight \in Nat

Entry(function, output, args, partition, order) ==
  [function |-> function, output |-> output, args |-> args,
   partition |-> partition, order |-> order]

Keep(f)             == Entry("keep", f, <<>>, <<>>, <<>>)
Compute(f, e)       == Entry("compute", f, <<e>>, <<>>, <<>>)
Predicate(e)        == Entry("predicate", NoField, <<e>>, <<>>, <<>>)
GroupingKey(f, e)   == Entry("group", f, <<e>>, <<>>, <<>>)
Aggregate(f, fn, a) == Entry(fn, f, a, <<>>, <<>>)
Window(f, fn, a, by, order) == Entry(fn, f, a, by, order)
Output(f)           == Entry("output", f, <<>>, <<>>, <<>>)
Items(order)        == Entry("items", NoField, <<>>, <<>>, order)

OrderingItem(e, descending, nulls) == [expr |-> e, descending |-> descending, nulls |-> nulls]

NodeKind(kind, how, entries, bounds) ==
  [kind |-> kind, how |-> how, entries |-> entries, bounds |-> bounds]

Rankings == {"row_number", "rank", "dense_rank"}

Properties(schema, ordered, keys, peers) ==
  [schema |-> schema, ordered |-> ordered, valueKeys |-> keys, peerConstant |-> peers]

(* source_properties, and add_complete_key after every rule.               *)
BagOf(schema, keys) == Properties(schema, FALSE, keys \cup {FieldIds(schema)}, {})

Subsumes(fields, keys) == \E key \in keys : key \subseteq fields

(* The fields a node introduces, in the order define_field meets them.     *)
Introduces(node) ==
  {e.output : e \in {x \in Range(node.entries) :
                        x.function \notin {"keep", "predicate", "items"}}}

(* No field twice: `kept`, ensure_unique_schema and define_field together.  *)
OutputsDiffer(node) ==
  \A i, j \in DOMAIN node.entries :
     i # j => node.entries[i].output # node.entries[j].output

-----------------------------------------------------------------------------
(* The expressions of a graph, by height, and the walks over them, which   *)
(* ScalarRules has one operator at a time.                                 *)
Over(terms) ==
  {e \in [kind : STRING, op : STRING, ref : Refs, args : Seq(terms), value : Values,
          descriptor : Descriptors \cup {Invalid}] : HasForm(e, Len(e.args))}

Terms[n \in 0 .. MaxHeight] == IF n = 0 THEN {} ELSE Over(Terms[n - 1])

Expressions == Terms[MaxHeight]

(* Each walk is of the form walk[x] == F(x, what the arguments give).      *)
FieldsOf(e, a) == IF e.kind = "field" THEN {e.ref} ELSE UNION Range(a)

ReferencedFields(e) ==
  LET fields[x \in Expressions] == FieldsOf(x, [i \in DOMAIN x.args |-> fields[x.args[i]]])
  IN fields[e]

(* validate_expression: the derived descriptor must be the annotated one.  *)
Confirmed(e, schema, a) ==
  IF (\A i \in DOMAIN a : a[i] # Invalid) /\ DescriptorOf(e, schema, a) = e.descriptor
  THEN e.descriptor ELSE Invalid

ValidateExpression(e, schema) ==
  LET valid[x \in Expressions] == Confirmed(x, schema, [i \in DOMAIN x.args |-> valid[x.args[i]]])
  IN valid[e]

(* The annotations a producer of the graph gives: the derived ones, except *)
(* that the scalar type of a NULL literal is its own.                      *)
WithAnnotation(e, schema, args) ==
  LET a == [i \in DOMAIN args |-> args[i].descriptor]
  IN [e EXCEPT !.args = args, !.descriptor = DescriptorOf(e, schema, a)]

Annotated(e, schema) ==
  LET annotated[x \in Expressions] ==
        WithAnnotation(x, schema, [i \in DOMAIN x.args |-> annotated[x.args[i]]])
  IN annotated[e]

Typed(e, schema) == ValidateExpression(e, schema) # Invalid

IsCondition(e, schema) == ValidateExpression(e, schema).scalar = "BOOLEAN"

-----------------------------------------------------------------------------
(* The nodes Rust's types allow: each kind with entries of its own.        *)
OrderingItems ==
  [expr : Expressions, descending : BOOLEAN, nulls : {"first", "last", "not_applicable"}]

Entries ==
  [function : STRING, output : Refs, args : Seq(Expressions), partition : Seq(Expressions),
   order : Seq(OrderingItems)]

AggregateFunctions == {"count_all", "count", "sum", "min", "max", "bool_and", "bool_or"}

(* The entries at these positions have this function and one argument.     *)
Each(entries, positions, function) ==
  \A i \in positions : entries[i].function = function /\ Len(entries[i].args) = 1

HasEntries(node, n) ==
  \/ node.kind = "project"
       /\ \A i \in 1 .. n : node.entries[i].function = "keep" \/ Each(node.entries, {i}, "compute")
  \/ node.kind = "filter" /\ n = 1 /\ Each(node.entries, {1}, "predicate")
  \/ node.kind = "join" /\ node.how \in {"inner", "left", "right", "full", "cross"}
       /\ n <= 1 /\ Each(node.entries, 1 .. n, "predicate")
  \/ node.kind = "aggregate"
       /\ \E k \in 0 .. n :
            /\ Each(node.entries, 1 .. k, "group")
            /\ \A i \in k + 1 .. n : node.entries[i].function \in AggregateFunctions
  \/ node.kind = "window"
       /\ \A i \in 1 .. n : node.entries[i].function \in Rankings \cup AggregateFunctions
  \/ node.kind = "order" /\ n = 1
  \/ node.kind = "slice" /\ Len(node.bounds) \in 1 .. 2
  \/ node.kind = "set" /\ node.how \in {"union", "union all", "intersect", "intersect all",
                                        "except", "except all"}
       /\ \A i \in 1 .. n : node.entries[i].function = "output"
  \/ node.kind \in {"distinct", "forget_order"}

IsNode(node) ==
  /\ node \in [kind : STRING, how : STRING, entries : Seq(Entries), bounds : Seq(Int)]
  /\ HasEntries(node, Len(node.entries))

-----------------------------------------------------------------------------
AcceptsProject(node, in) ==
  \A i \in DOMAIN node.entries :
     LET entry == node.entries[i]
     IN IF entry.function = "keep" THEN entry.output \in FieldIds(in.schema)
        ELSE Typed(entry.args[1], in.schema)

Kept(node) ==
  {node.entries[i].output : i \in {j \in DOMAIN node.entries : node.entries[j].function = "keep"}}

(* Mutants: a computed field is constant among peers although it depends   *)
(* on another one; every value key outlives the projection.                *)
PeersOfSomeReference(node, in) ==
  (Kept(node) \cap in.peerConstant)
   \cup {e.output : e \in {x \in Range(node.entries) :
                             x.function = "compute" /\ ReferencedFields(x.args[1]) \cap in.peerConstant # {}}}

AllValueKeys(node, in) == in.valueKeys

ProjectPeers(node, in) ==
  (Kept(node) \cap in.peerConstant)
   \cup {e.output : e \in {x \in Range(node.entries) :
                             x.function = "compute" /\ ReferencedFields(x.args[1]) \subseteq in.peerConstant}}

ProjectKeys(node, in) == {key \in in.valueKeys : key \subseteq Kept(node)}

ProjectField(entry, in) ==
  IF entry.function = "keep" THEN in.schema[FieldPosition(in.schema, entry.output)]
  ELSE Field(entry.output, entry.args[1].descriptor)

ProjectProperties(node, in) ==
  LET schema == [i \in DOMAIN node.entries |-> ProjectField(node.entries[i], in)]
  IN Properties(schema, in.ordered, ProjectKeys(node, in) \cup {FieldIds(schema)},
                ProjectPeers(node, in))

AcceptsFilter(node, in) == IsCondition(node.entries[1].args[1], in.schema)

-----------------------------------------------------------------------------
AcceptsJoin(node, left, right) ==
  /\ FieldIds(left.schema) \cap FieldIds(right.schema) = {}
  /\ node.how = "cross" <=> node.entries = <<>>
  /\ \A i \in DOMAIN node.entries :
        IsCondition(node.entries[i].args[1], left.schema \o right.schema)

NullableFields(schema) ==
  [i \in DOMAIN schema |-> Field(schema[i].id, Descriptor(schema[i].descriptor.scalar, TRUE))]

JoinSchema(how, left, right) ==
  (IF how \in {"right", "full"} THEN NullableFields(left) ELSE left)
   \o (IF how \in {"left", "full"} THEN NullableFields(right) ELSE right)

JoinProperties(node, left, right) ==
  BagOf(JoinSchema(node.how, left.schema, right.schema), {})

-----------------------------------------------------------------------------
(* validate_aggregate_definition: the descriptor of an aggregate.          *)
DescriptorOver(function, d) ==
  CASE d = Invalid -> Invalid
    [] d # Invalid /\ function = "count" -> Descriptor("INT64", FALSE)
    [] function = "sum" /\ d.scalar = "INT64" -> Descriptor("INT64", TRUE)
    [] d # Invalid /\ function \in {"min", "max"} -> Descriptor(d.scalar, TRUE)
    [] function \in {"bool_and", "bool_or"} /\ d.scalar = "BOOLEAN" -> Descriptor("BOOLEAN", TRUE)
    [] OTHER -> Invalid

AggregateDescriptor(function, args, schema) ==
  IF function = "count_all" THEN IF args = <<>> THEN Descriptor("INT64", FALSE) ELSE Invalid
  ELSE IF args = <<>> THEN Invalid
  ELSE DescriptorOver(function, ValidateExpression(args[1], schema))

EntryDescriptor(entry, schema) ==
  CASE entry.function = "group" -> ValidateExpression(entry.args[1], schema)
    [] entry.function \in Rankings -> Descriptor("INT64", FALSE)
    [] OTHER -> AggregateDescriptor(entry.function, entry.args, schema)

EntrySchema(entries, schema) ==
  [i \in DOMAIN entries |-> Field(entries[i].output, EntryDescriptor(entries[i], schema))]

AcceptsAggregate(node, in) ==
  \A i \in DOMAIN node.entries : EntryDescriptor(node.entries[i], in.schema) # Invalid

AggregateProperties(node, in) ==
  LET keys == {e \in Range(node.entries) : e.function = "group"}
  IN BagOf(EntrySchema(node.entries, in.schema), {{e.output : e \in keys}})

-----------------------------------------------------------------------------
(* Mutant: placement of NULL is never asked for.                           *)
TypedItems(order, schema) == \A i \in DOMAIN order : Typed(order[i].expr, schema)

(* validate_ordering_items: a nullable item says where its NULLs go.       *)
AcceptsItems(order, schema) ==
  \A i \in DOMAIN order :
     /\ Typed(order[i].expr, schema)
     /\ order[i].expr.descriptor.nullable => order[i].nulls # "not_applicable"

ItemFields(order) == DirectFields({order[i].expr : i \in DOMAIN order})

AcceptsRanking(entry, in) ==
  /\ entry.order # <<>>
  /\ AcceptsItems(entry.order, in.schema)
  /\ entry.function = "row_number" => Subsumes(ItemFields(entry.order), in.valueKeys)

AcceptsWindow(node, in) ==
  /\ node.entries # <<>>
  /\ \A i \in DOMAIN node.entries :
       LET entry == node.entries[i]
       IN /\ \A k \in DOMAIN entry.partition : Typed(entry.partition[k], in.schema)
          /\ IF entry.function \in Rankings THEN AcceptsRanking(entry, in)
             ELSE EntryDescriptor(entry, in.schema) # Invalid

WindowProperties(node, in) == BagOf(in.schema \o EntrySchema(node.entries, in.schema), {})

DistinctProperties(in) == BagOf(in.schema, {})

-----------------------------------------------------------------------------
AcceptsSet(node, left, right) ==
  /\ Len(left.schema) = Len(right.schema) /\ Len(left.schema) = Len(node.entries)
  /\ \A i \in DOMAIN left.schema :
       left.schema[i].descriptor.scalar = right.schema[i].descriptor.scalar

EitherNullable(left, right) == left.nullable \/ right.nullable

SetProperties(node, left, right) ==
  BagOf([i \in DOMAIN left.schema |->
           Field(node.entries[i].output,
                 Descriptor(left.schema[i].descriptor.scalar,
                            EitherNullable(left.schema[i].descriptor,
                                           right.schema[i].descriptor)))], {})

-----------------------------------------------------------------------------
AcceptsOrder(node, in) ==
  node.entries[1].order # <<>> /\ AcceptsItems(node.entries[1].order, in.schema)

OrderProperties(node, in) ==
  [in EXCEPT !.ordered = TRUE, !.peerConstant = ItemFields(node.entries[1].order)]

(* Mutant: the rows a slice chooses among may differ.                      *)
AcceptsAnySlice(node, in) ==
  in.ordered /\ \A i \in DOMAIN node.bounds : node.bounds[i] >= 0

(* bounds: offset, then the limit if there is one.                         *)
AcceptsSlice(node, in) ==
  /\ in.ordered
  /\ \A i \in DOMAIN node.bounds : node.bounds[i] >= 0
  /\ Subsumes(in.peerConstant, in.valueKeys)

AcceptsForgetOrder(in) == in.ordered

ForgetOrderProperties(in) == [in EXCEPT !.ordered = FALSE, !.peerConstant = {}]
=============================================================================
