---------------------------- MODULE Interchange ----------------------------
(***************************************************************************)
(* The codec of Shape IR documents, src/interchange.rs: decode, which maps *)
(* a JSON text to a graph or refuses it, and encode, which writes a graph. *)
(*                                                                         *)
(* A JSON text is a value of one of the forms below; a written object is   *)
(* the sequence of its members, so that a name may occur twice.  What      *)
(* StrictValue::deserialize makes of it has a function in its place.  The  *)
(* two directions have a table each for every enumeration, as in the code. *)
(* Every error is Refused; its path and message are left out.              *)
(***************************************************************************)
EXTENDS Integers, Sequences, FiniteSets, TLC

CONSTANTS
  Identifiers,  \* the strings that is_identifier accepts
  Refused,      \* an error
  Absent        \* None of an Option

JsonString(s)  == [string |-> s]
JsonBool(b)    == [bool |-> b]
JsonNull       == [null |-> 0]
JsonNumber(s)  == [number |-> s]
JsonArray(s)   == [array |-> s]
JsonObject(ms) == [object |-> ms]

Is(form, v) == v # Refused /\ form \in DOMAIN v

(* All the parts of a record or an array, or the error of one of them.     *)
AllOf(parts) == IF \E p \in DOMAIN parts : parts[p] = Refused THEN Refused ELSE parts

-----------------------------------------------------------------------------
(* StrictValueVisitor.  With arbitrary_precision a number that is not a    *)
(* machine integer arrives through visit_map, as an object of one member.  *)

PrivateNumber == "$serde_json::private::Number"

MachineIntegers == {"0", "1"}

visit_map(members) ==
  LET names == {members[i][1] : i \in DOMAIN members}
      Value(name) == members[CHOOSE i \in DOMAIN members : members[i][1] = name][2]
  IN IF Len(members) # Cardinality(names) THEN Refused
     ELSE AllOf([name \in names |-> Value(name)])

RECURSIVE Received(_)
Received(text) ==
  LET Wrapped(form, parts) == IF parts = Refused THEN Refused ELSE form :> parts
  IN CASE Is("object", text) ->
            Wrapped("object", visit_map([i \in DOMAIN text.object |->
                                          <<text.object[i][1], Received(text.object[i][2])>>]))
       [] Is("array", text)  ->
            Wrapped("array", AllOf([i \in DOMAIN text.array |-> Received(text.array[i])]))
       [] Is("number", text) /\ text.number \notin MachineIntegers ->
            [object |-> PrivateNumber :> JsonString(text.number)]
       [] OTHER -> text

-----------------------------------------------------------------------------
(* Members of objects.                                                     *)

expect(form, v) == IF Is(form, v) THEN v[form] ELSE Refused

(* Record::new: the members besides the metadata.  Mutant: members that    *)
(* are not known are passed over.                                          *)
OpenRecord(value, allowed, metadata_allowed) ==
  LET fields == expect("object", value)
  IN IF fields = Refused THEN Refused
     ELSE [m \in DOMAIN fields \cap allowed |-> fields[m]]

Record(value, allowed, metadata_allowed) ==
  LET fields == expect("object", value)
      rest   == DOMAIN fields \ {"metadata"}
  IN IF /\ fields # Refused
        /\ "metadata" \in DOMAIN fields =>
             metadata_allowed /\ expect("object", fields["metadata"]) # Refused
        /\ rest \subseteq allowed
     THEN [m \in rest |-> fields[m]]
     ELSE Refused

required(record, member) ==
  IF record # Refused /\ member \in DOMAIN record THEN record[member] ELSE Refused

optional(record, member) ==
  IF record = Refused THEN Refused
  ELSE IF member \in DOMAIN record THEN record[member] ELSE Absent

(* take_discriminated_object and the `match` on the kind it returns.       *)
discriminator(value, kinds) ==
  LET kind == expect("string", required(expect("object", value), "kind"))
  IN IF kind \in DOMAIN kinds THEN kind ELSE Refused

nonempty(s) == IF s = <<>> THEN Refused ELSE s

parse_array(value, Parse(_)) ==
  LET items == expect("array", value)
  IN IF items = Refused THEN Refused ELSE AllOf([i \in DOMAIN items |-> Parse(items[i])])

-----------------------------------------------------------------------------
(* Strings that stand for something else.                                  *)

parse_word(value, table) ==
  LET word == expect("string", value)
  IN IF word \in DOMAIN table THEN table[word] ELSE Refused

is_identifier(s) == s \in Identifiers

parse_identifier(value) ==
  LET s == expect("string", value)
  IN IF is_identifier(s) THEN s ELSE Refused

(* Spellings that str::parse::<i64> reads, and to_string.                  *)
ReadAsInt64 ==
  "0" :> 0 @@ "1" :> 1 @@ "-1" :> -1 @@ "+1" :> 1 @@ "01" :> 1 @@ "-0" :> 0

parse_i64(value) ==
  LET parsed == parse_word(value, ReadAsInt64)
  IN IF parsed = Refused \/ ToString(parsed) # value.string THEN Refused ELSE parsed

parse_scalar(value) ==
  parse_word(value, [boolean |-> "Boolean", int64 |-> "Int64", text |-> "Text"])

parse_collection(value) == parse_word(value, [bag |-> "Bag", ordered |-> "Ordered"])

parse_join_type(value) ==
  parse_word(value, [cross |-> "Cross", inner |-> "Inner", left |-> "Left",
                     right |-> "Right", full |-> "Full"])

parse_set_operation(value) ==
  parse_word(value, [union |-> "Union", intersect |-> "Intersect", except |-> "Except"])

parse_set_quantifier(value) == parse_word(value, [all |-> "All", distinct |-> "Distinct"])

parse_aggregate_function(value) ==
  parse_word(value, [count_all |-> "CountAll", count |-> "Count", sum |-> "Sum", min |-> "Min",
                     max |-> "Max", bool_and |-> "BoolAnd", bool_or |-> "BoolOr"])

parse_ranking_function(value) ==
  parse_word(value, [row_number |-> "RowNumber", rank |-> "Rank", dense_rank |-> "DenseRank"])

parse_direction(value) ==
  parse_word(value, [ascending |-> "Ascending", descending |-> "Descending"])

parse_null_placement(value) ==
  parse_word(value, [first |-> "First", last |-> "Last", not_applicable |-> "NotApplicable"])

parse_unary_operation(value) ==
  parse_word(value, [positive |-> "Positive", negative |-> "Negative", not |-> "Not"])

parse_binary_operation(value) ==
  parse_word(value, [add |-> "Add", subtract |-> "Subtract", multiply |-> "Multiply",
                     divide |-> "Divide", remainder |-> "Remainder",
                     concatenate |-> "Concatenate", equal |-> "Equal",
                     not_equal |-> "NotEqual", less |-> "Less",
                     less_or_equal |-> "LessOrEqual", greater |-> "Greater",
                     greater_or_equal |-> "GreaterOrEqual", and |-> "And", or |-> "Or"])

-----------------------------------------------------------------------------
(* Schemas and expressions.                                                *)

parse_type(value) ==
  LET record == Record(value, {"scalar", "nullable"}, FALSE)
  IN AllOf([scalar   |-> parse_scalar(required(record, "scalar")),
            nullable |-> expect("bool", required(record, "nullable"))])

parse_field(value) ==
  LET record == Record(value, {"id", "name", "type"}, TRUE)
  IN AllOf([id         |-> parse_identifier(required(record, "id")),
            name       |-> expect("string", required(record, "name")),
            descriptor |-> parse_type(required(record, "type"))])

parse_literal(value, scalar) ==
  LET Literal(variant, parsed) == IF parsed = Refused THEN Refused ELSE variant :> parsed
  IN IF value = JsonNull THEN "Null" :> 0
     ELSE CASE scalar = "Boolean" -> Literal("Boolean", expect("bool", value))
            [] scalar = "Int64"   -> Literal("Int64", parse_i64(value))
            [] scalar = "Text"    -> Literal("Text", expect("string", value))

ExpressionMembers ==
  [literal |-> {"value"}, field |-> {"field"}, unary |-> {"operation", "operand"},
   binary |-> {"operation", "left", "right"}, is_null |-> {"operand", "negated"},
   case |-> {"arms", "fallback"}, cast |-> {"operand", "target"},
   in_list |-> {"value", "candidates"}, exists |-> {"query"},
   in_query |-> {"value", "query", "field"}]

RECURSIVE parse_expression(_)

parse_expression_array(value) == parse_array(value, LAMBDA v : parse_expression(v))

parse_case_arm(value) ==
  LET record == Record(value, {"when", "then"}, FALSE)
  IN AllOf([when |-> parse_expression(required(record, "when")),
            then |-> parse_expression(required(record, "then"))])

parse_expression_kind(kind, record, descriptor) ==
  LET Parsed(member)     == parse_expression(required(record, member))
      Identifier(member) == parse_identifier(required(record, member))
  IN CASE kind = "literal"  -> [kind |-> "Literal", value |->
              parse_literal(required(record, "value"), descriptor.scalar)]
       [] kind = "field"    -> [kind |-> "Field", field |-> Identifier("field")]
       [] kind = "unary"    -> [kind |-> "Unary", operand |-> Parsed("operand"), operation |->
              parse_unary_operation(required(record, "operation"))]
       [] kind = "binary"   -> [kind |-> "Binary", left |-> Parsed("left"),
              right |-> Parsed("right"), operation |->
              parse_binary_operation(required(record, "operation"))]
       [] kind = "is_null"  -> [kind |-> "IsNull", operand |-> Parsed("operand"),
              negated |-> expect("bool", required(record, "negated"))]
       [] kind = "case"     -> [kind |-> "Case", fallback |-> Parsed("fallback"), arms |->
              nonempty(parse_array(required(record, "arms"), parse_case_arm))]
       [] kind = "cast"     -> [kind |-> "Cast", operand |-> Parsed("operand"),
              target |-> parse_scalar(required(record, "target"))]
       [] kind = "in_list"  -> [kind |-> "InList", value |-> Parsed("value"), candidates |->
              nonempty(parse_expression_array(required(record, "candidates")))]
       [] kind = "exists"   -> [kind |-> "Exists", query |-> Identifier("query")]
       [] kind = "in_query" -> [kind |-> "InQuery", value |-> Parsed("value"),
              query |-> Identifier("query"), field |-> Identifier("field")]

parse_expression(value) ==
  LET kind   == discriminator(value, ExpressionMembers)
      record == Record(value, {"kind", "type"} \cup ExpressionMembers[kind], TRUE)
      type   == parse_type(required(record, "type"))
  IN IF kind = Refused \/ type = Refused THEN Refused
     ELSE AllOf([descriptor |-> type] @@ parse_expression_kind(kind, record, type))
-----------------------------------------------------------------------------
(* Nodes and documents.                                                    *)

parse_project_entry(value) ==
  LET members == [keep |-> {"field"}, compute |-> {"output", "expression"}]
      kind    == discriminator(value, members)
      record  == Record(value, {"kind"} \cup members[kind], FALSE)
  IN IF kind = Refused THEN Refused
     ELSE AllOf(CASE kind = "keep"    ->
                       [kind |-> "Keep", field |-> parse_identifier(required(record, "field"))]
                  [] kind = "compute" ->
                       [kind       |-> "Compute",
                        output     |-> parse_identifier(required(record, "output")),
                        expression |-> parse_expression(required(record, "expression"))])

parse_grouping_key(value) ==
  LET record == Record(value, {"output", "expression"}, FALSE)
  IN AllOf([output     |-> parse_identifier(required(record, "output")),
            expression |-> parse_expression(required(record, "expression"))])

(* A member that is there exactly when `wanted`.                           *)
parse_operand(record, member, wanted) ==
  LET value == optional(record, member)
  IN IF wanted = (value = Absent) THEN Refused
     ELSE IF wanted THEN parse_expression(value) ELSE Absent

parse_aggregate_argument(record, function) ==
  parse_operand(record, "argument", function # "CountAll")

parse_aggregate(value) ==
  LET record   == Record(value, {"output", "function", "argument"}, FALSE)
      function == parse_aggregate_function(required(record, "function"))
  IN AllOf([output   |-> parse_identifier(required(record, "output")),
            function |-> function,
            argument |-> parse_aggregate_argument(record, function)])

parse_ordering_item(value) ==
  LET record == Record(value, {"expression", "direction", "null_placement"}, FALSE)
  IN AllOf([expression     |-> parse_expression(required(record, "expression")),
            direction      |-> parse_direction(required(record, "direction")),
            null_placement |-> parse_null_placement(required(record, "null_placement"))])

parse_ordering_items(value) == nonempty(parse_array(value, parse_ordering_item))

parse_window_definition(value) ==
  LET members  == [partitioned_aggregate |-> {"output", "function", "argument", "partition_by"},
                   ranking               |-> {"output", "function", "partition_by", "order_by"}]
      kind     == discriminator(value, members)
      record   == Record(value, {"kind"} \cup members[kind], FALSE)
      function == required(record, "function")
      common   == [output       |-> parse_identifier(required(record, "output")),
                   partition_by |-> parse_expression_array(required(record, "partition_by"))]
      Aggregate ==
        [kind     |-> "PartitionedAggregate",
         function |-> parse_aggregate_function(function),
         argument |-> parse_aggregate_argument(record, parse_aggregate_function(function))]
      Ranking ==
        [kind     |-> "Ranking",
         function |-> parse_ranking_function(function),
         order_by |-> parse_ordering_items(required(record, "order_by"))]
  IN IF kind = Refused THEN Refused
     ELSE AllOf(common @@ IF kind = "ranking" THEN Ranking ELSE Aggregate)

(* null is no limit.                                                       *)
parse_limit(value) == IF value = JsonNull THEN Absent ELSE parse_i64(value)

NodeMembers ==
  [input |-> {"binding"}, empty |-> {}, project |-> {"input", "entries"},
   filter |-> {"input", "predicate"}, join |-> {"left", "right", "join_type", "condition"},
   aggregate |-> {"input", "grouping_keys", "aggregates"}, window |-> {"input", "definitions"},
   distinct |-> {"input"}, set |-> {"left", "right", "operation", "quantifier"},
   order |-> {"input", "items"}, slice |-> {"input", "offset", "limit"},
   forget_order |-> {"input"}]

parse_node_kind(kind, record) ==
  LET Member(member) == required(record, member)
      Unary(name)    == [kind |-> name, input |-> parse_identifier(Member("input"))]
      Binary(name)   == [kind |-> name, left |-> parse_identifier(Member("left")),
                         right |-> parse_identifier(Member("right"))]
      join_type      == parse_join_type(Member("join_type"))
      binding        == expect("string", Member("binding"))
  IN CASE kind = "input"     ->
            [kind |-> "Input", binding |-> IF binding = "" THEN Refused ELSE binding]
       [] kind = "empty"     -> [kind |-> "Empty"]
       [] kind = "project"   -> Unary("Project") @@
            [entries |-> parse_array(Member("entries"), parse_project_entry)]
       [] kind = "filter"    -> Unary("Filter") @@
            [predicate |-> parse_expression(Member("predicate"))]
       [] kind = "join"      -> Binary("Join") @@
            [join_type |-> join_type,
             condition |-> parse_operand(record, "condition", join_type # "Cross")]
       [] kind = "aggregate" -> Unary("Aggregate") @@
            [grouping_keys |-> parse_array(Member("grouping_keys"), parse_grouping_key),
             aggregates    |-> parse_array(Member("aggregates"), parse_aggregate)]
       [] kind = "window"    -> Unary("Window") @@
            [definitions |-> nonempty(parse_array(Member("definitions"), parse_window_definition))]
       [] kind = "distinct"  -> Unary("Distinct")
       [] kind = "set"       -> Binary("Set") @@
            [operation  |-> parse_set_operation(Member("operation")),
             quantifier |-> parse_set_quantifier(Member("quantifier"))]
       [] kind = "order"     -> Unary("Order") @@
            [items |-> parse_ordering_items(Member("items"))]
       [] kind = "slice"     -> Unary("Slice") @@
            [offset |-> parse_i64(Member("offset")),
             limit  |-> IF Member("limit") = Refused THEN Refused ELSE parse_limit(Member("limit"))]
       [] kind = "forget_order" -> Unary("ForgetOrder")

parse_node(value) ==
  LET kind   == discriminator(value, NodeMembers)
      record == Record(value,
                       {"id", "kind", "output_schema", "collection"} \cup NodeMembers[kind], TRUE)
  IN IF kind = Refused \/ record = Refused THEN Refused
     ELSE AllOf([id            |-> parse_identifier(required(record, "id")),
                 output_schema |-> parse_array(required(record, "output_schema"), parse_field),
                 collection    |-> parse_collection(required(record, "collection"))]
                @@ parse_node_kind(kind, record))

VERSION == "0.1"

decode_document(value) ==
  LET record == Record(value, {"interchange_version", "shape_ir_version", "root", "nodes"}, TRUE)
      Supported(member) == expect("string", required(record, member)) = VERSION
  IN IF ~ Supported("interchange_version") \/ ~ Supported("shape_ir_version") THEN Refused
     ELSE AllOf([root  |-> parse_identifier(required(record, "root")),
                 nodes |-> nonempty(parse_array(required(record, "nodes"), parse_node))])

decode(text) == decode_document(Received(text))

-----------------------------------------------------------------------------
(* encode_graph: what is written for a graph.                              *)

encode_array(s, Encoded(_)) == JsonArray([i \in DOMAIN s |-> Encoded(s[i])])

Named(name, value) == <<name, JsonString(value)>>

(* A member that is there only if the graph has a value for it.            *)
encode_operand(name, value, Encoded(_)) ==
  IF value = Absent THEN <<>> ELSE << <<name, Encoded(value)>> >>

scalar_name == [Boolean |-> "boolean", Int64 |-> "int64", Text |-> "text"]

collection_name == [Bag |-> "bag", Ordered |-> "ordered"]

join_type_name ==
  [Cross |-> "cross", Inner |-> "inner", Left |-> "left", Right |-> "right", Full |-> "full"]

set_operation_name == [Union |-> "union", Intersect |-> "intersect", Except |-> "except"]

set_quantifier_name == [All |-> "all", Distinct |-> "distinct"]

aggregate_function_name ==
  [CountAll |-> "count_all", Count |-> "count", Sum |-> "sum", Min |-> "min", Max |-> "max",
   BoolAnd |-> "bool_and", BoolOr |-> "bool_or"]

ranking_function_name ==
  [RowNumber |-> "row_number", Rank |-> "rank", DenseRank |-> "dense_rank"]

unary_operation_name == [Positive |-> "positive", Negative |-> "negative", Not |-> "not"]

binary_operation_name ==
  [Add |-> "add", Subtract |-> "subtract", Multiply |-> "multiply", Divide |-> "divide",
   Remainder |-> "remainder", Concatenate |-> "concatenate", Equal |-> "equal",
   NotEqual |-> "not_equal", Less |-> "less", LessOrEqual |-> "less_or_equal",
   Greater |-> "greater", GreaterOrEqual |-> "greater_or_equal", And |-> "and", Or |-> "or"]

expression_kind_name ==
  [Literal |-> "literal", Field |-> "field", Unary |-> "unary", Binary |-> "binary",
   IsNull |-> "is_null", Case |-> "case", Cast |-> "cast", InList |-> "in_list",
   Exists |-> "exists", InQuery |-> "in_query"]

node_kind_name ==
  [Input |-> "input", Empty |-> "empty", Project |-> "project", Filter |-> "filter",
   Join |-> "join", Aggregate |-> "aggregate", Window |-> "window", Distinct |-> "distinct",
   Set |-> "set", Order |-> "order", Slice |-> "slice", ForgetOrder |-> "forget_order"]

encode_type(d) ==
  JsonObject(<<Named("scalar", scalar_name[d.scalar]), <<"nullable", JsonBool(d.nullable)>>>>)

encode_field(f) ==
  JsonObject(<<Named("id", f.id), Named("name", f.name), <<"type", encode_type(f.descriptor)>>>>)

encode_literal(value) ==
  CASE "Boolean" \in DOMAIN value -> JsonBool(value["Boolean"])
    [] "Int64" \in DOMAIN value   -> JsonString(ToString(value["Int64"]))
    [] "Text" \in DOMAIN value    -> JsonString(value["Text"])
    [] "Null" \in DOMAIN value    -> JsonNull

RECURSIVE encode_expression(_)
encode_expression(e) ==
  LET Member(name, operand)    == <<name, encode_expression(operand)>>
      Members(name, operands)  == <<name, encode_array(operands, LAMBDA o : encode_expression(o))>>
      encode_case_arm(arm) == JsonObject(<<Member("when", arm.when), Member("then", arm.then)>>)
  IN JsonObject(
       <<Named("kind", expression_kind_name[e.kind]), <<"type", encode_type(e.descriptor)>>>> \o
       CASE e.kind = "Literal" -> << <<"value", encode_literal(e.value)>> >>
         [] e.kind = "Field"   -> <<Named("field", e.field)>>
         [] e.kind = "Unary"   ->
              <<Named("operation", unary_operation_name[e.operation]), Member("operand", e.operand)>>
         [] e.kind = "Binary"  ->
              <<Named("operation", binary_operation_name[e.operation]), Member("left", e.left),
                Member("right", e.right)>>
         [] e.kind = "IsNull"  ->
              <<Member("operand", e.operand), <<"negated", JsonBool(e.negated)>>>>
         [] e.kind = "Case"    ->
              << <<"arms", encode_array(e.arms, encode_case_arm)>>, Member("fallback", e.fallback)>>
         [] e.kind = "Cast"    ->
              <<Member("operand", e.operand), Named("target", scalar_name[e.target])>>
         [] e.kind = "InList"  ->
              <<Member("value", e.value), Members("candidates", e.candidates)>>
         [] e.kind = "Exists"  -> <<Named("query", e.query)>>
         [] e.kind = "InQuery" ->
              <<Member("value", e.value), Named("query", e.query), Named("field", e.field)>>)

encode_ordering_item(item) ==
  LET direction == [Ascending |-> "ascending", Descending |-> "descending"]
      placement == [First |-> "first", Last |-> "last", NotApplicable |-> "not_applicable"]
  IN JsonObject(<< <<"expression", encode_expression(item.expression)>>,
                   Named("direction", direction[item.direction]),
                   Named("null_placement", placement[item.null_placement])>>)

encode_grouping_key(key) ==
  JsonObject(<<Named("output", key.output), <<"expression", encode_expression(key.expression)>>>>)

encode_project_entry(entry) ==
  IF entry.kind = "Keep"
  THEN JsonObject(<<Named("kind", "keep"), Named("field", entry.field)>>)
  ELSE JsonObject(<<Named("kind", "compute"), Named("output", entry.output),
                    <<"expression", encode_expression(entry.expression)>>>>)

encode_aggregate(a) ==
  JsonObject(<<Named("output", a.output), Named("function", aggregate_function_name[a.function])>>
               \o encode_operand("argument", a.argument, encode_expression))

encode_window_definition(d) ==
  LET partition_by == <<"partition_by", encode_array(d.partition_by, encode_expression)>>
  IN IF d.kind = "PartitionedAggregate"
     THEN JsonObject(<<Named("kind", "partitioned_aggregate"), Named("output", d.output),
                       Named("function", aggregate_function_name[d.function])>>
                     \o encode_operand("argument", d.argument, encode_expression)
                     \o <<partition_by>>)
     ELSE JsonObject(<<Named("kind", "ranking"), Named("output", d.output),
                       Named("function", ranking_function_name[d.function]), partition_by,
                       <<"order_by", encode_array(d.order_by, encode_ordering_item)>>>>)

encode_node(node) ==
  LET input    == Named("input", node.input)
      operands == <<Named("left", node.left), Named("right", node.right)>>
      limit    == IF node.limit = Absent THEN JsonNull ELSE JsonString(ToString(node.limit))
  IN JsonObject(
       <<Named("id", node.id), Named("kind", node_kind_name[node.kind])>> \o
       (CASE node.kind = "Input"     -> <<Named("binding", node.binding)>>
          [] node.kind = "Empty"     -> <<>>
          [] node.kind = "Project"   ->
               <<input, <<"entries", encode_array(node.entries, encode_project_entry)>>>>
          [] node.kind = "Filter"    -> <<input, <<"predicate", encode_expression(node.predicate)>>>>
          [] node.kind = "Join"      ->
               operands \o <<Named("join_type", join_type_name[node.join_type])>>
                 \o encode_operand("condition", node.condition, encode_expression)
          [] node.kind = "Aggregate" ->
               <<input, <<"grouping_keys", encode_array(node.grouping_keys, encode_grouping_key)>>,
                 <<"aggregates", encode_array(node.aggregates, encode_aggregate)>>>>
          [] node.kind = "Window"    ->
               <<input, <<"definitions", encode_array(node.definitions, encode_window_definition)>>>>
          [] node.kind \in {"Distinct", "ForgetOrder"} -> <<input>>
          [] node.kind = "Set"       ->
               operands \o <<Named("operation", set_operation_name[node.operation]),
                             Named("quantifier", set_quantifier_name[node.quantifier])>>
          [] node.kind = "Order"     ->
               <<input, <<"items", encode_array(node.items, encode_ordering_item)>>>>
          [] node.kind = "Slice"     ->
               <<input, Named("offset", ToString(node.offset)), <<"limit", limit>>>>)
       \o << <<"output_schema", encode_array(node.output_schema, encode_field)>>,
             Named("collection", collection_name[node.collection])>>)

encode_graph(graph) ==
  JsonObject(<<Named("interchange_version", VERSION), Named("shape_ir_version", VERSION),
               Named("root", graph.root), <<"nodes", encode_array(graph.nodes, encode_node)>>>>)

(* Mutant: the fields of the schemas are not looked at.                    *)
ensure_node_identities(graph) ==
  /\ is_identifier(graph.root)
  /\ \A i \in DOMAIN graph.nodes : is_identifier(graph.nodes[i].id)

ensure_encodable_identities(graph) ==
  /\ is_identifier(graph.root)
  /\ \A i \in DOMAIN graph.nodes :
       /\ is_identifier(graph.nodes[i].id)
       /\ \A f \in DOMAIN graph.nodes[i].output_schema :
            is_identifier(graph.nodes[i].output_schema[f].id)

(* encode, of a graph that validate accepts.                               *)
encode(graph) ==
  IF ensure_encodable_identities(graph) THEN encode_graph(graph) ELSE Refused
=============================================================================
