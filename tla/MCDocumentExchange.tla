------------------------ MODULE MCDocumentExchange -------------------------
(***************************************************************************)
(* An instance of DocumentExchange for TLC: a graph for every variant of   *)
(* every enumeration of the graph, each of them valid, two whose           *)
(* identities cannot be written, and changes of every kind.                *)
(***************************************************************************)
EXTENDS DocumentExchange

Type(scalar, nullable) == [scalar |-> scalar, nullable |-> nullable]

number == Type("Int64", FALSE)
truth  == Type("Boolean", FALSE)
maybe  == Type("Boolean", TRUE)
string == Type("Text", FALSE)

FieldOf(id, name, d) == [id |-> id, name |-> name, descriptor |-> d]

Schema  == <<FieldOf("f1", "a", number), FieldOf("f2", "b", maybe)>>
Schema3 == <<FieldOf("f3", "a", number), FieldOf("f4", "", maybe)>>

NodeOf(id, schema, collection, kind) ==
  [id |-> id, output_schema |-> schema, collection |-> collection] @@ kind

Input(id, schema) == NodeOf(id, schema, "Bag", [kind |-> "Input", binding |-> "rows"])

Plan(nodes) == [root |-> nodes[Len(nodes)].id, nodes |-> nodes]

(* The input n1 and one node above it; with another input n3.              *)
Above(schema, collection, kind) ==
  Plan(<<Input("n1", Schema), NodeOf("n2", schema, collection, kind)>>)

AboveBoth(schema, kind) ==
  Plan(<<Input("n1", Schema), Input("n3", Schema3), NodeOf("n2", schema, "Bag", kind)>>)

-----------------------------------------------------------------------------
Of(d, e) == [descriptor |-> d] @@ e

Value(variant, v, d) == Of(d, [kind |-> "Literal", value |-> variant :> v])

a    == Of(number, [kind |-> "Field", field |-> "f1"])
b    == Of(maybe, [kind |-> "Field", field |-> "f2"])
one  == Value("Int64", 1, number)
less == Value("Int64", -1, number)
true == Value("Boolean", TRUE, truth)
null == Value("Null", 0, maybe)
text == Value("Text", "01", string)

UnaryOf(op, e, d)  == Of(d, [kind |-> "Unary", operation |-> op, operand |-> e])
BinaryOf(op, l, r, d) == Of(d, [kind |-> "Binary", operation |-> op, left |-> l, right |-> r])

Comparisons == {"Equal", "NotEqual", "Less", "LessOrEqual", "Greater", "GreaterOrEqual"}

Predicates ==
  {true, null, UnaryOf("Not", b, maybe)}
    \cup {BinaryOf("Equal", UnaryOf(op, a, number), less, truth) : op \in {"Positive", "Negative"}}
    \cup {BinaryOf(op, a, one, truth) : op \in Comparisons}
    \cup {BinaryOf(op, b, true, maybe) : op \in {"And", "Or"}}
    \cup {Of(truth, [kind |-> "IsNull", operand |-> b, negated |-> n]) : n \in BOOLEAN}
    \cup {Of(maybe, [kind |-> "Case", arms |-> <<[when |-> b, then |-> null]>>, fallback |-> true]),
          Of(truth, [kind |-> "InList", value |-> a, candidates |-> <<one, less>>]),
          BinaryOf("Equal", Of(string, [kind |-> "Cast", operand |-> a, target |-> "Text"]),
                   text, truth)}

Computed ==
  {BinaryOf(op, a, one, number) :
     op \in {"Add", "Subtract", "Multiply", "Divide", "Remainder"}}
    \cup {BinaryOf("Concatenate", text, text, string)}

QueryPredicates ==
  {Of(truth, [kind |-> "Exists", query |-> "n3"]),
   Of(truth, [kind |-> "InQuery", value |-> a, query |-> "n3", field |-> "f3"])}

-----------------------------------------------------------------------------
Item(e, direction, placement) ==
  [expression |-> e, direction |-> direction, null_placement |-> placement]

Whole == <<Item(a, "Ascending", "NotApplicable"), Item(b, "Descending", "First")>>

Total == <<Item(a, "Descending", "Last"), Item(b, "Ascending", "Last")>>

(* What a function of a column gives, in a field f5.                       *)
Results ==
  {<<"CountAll", Absent, number>>, <<"Count", b, number>>, <<"Sum", a, Type("Int64", TRUE)>>,
   <<"Min", b, maybe>>, <<"Max", b, maybe>>, <<"BoolAnd", b, maybe>>, <<"BoolOr", b, maybe>>}

Aggregates ==
  {Above(<<FieldOf("f5", "c", r[3])>>, "Bag",
         [kind |-> "Aggregate", input |-> "n1", grouping_keys |-> <<>>,
          aggregates |-> <<[output |-> "f5", function |-> r[1], argument |-> r[2]]>>]) :
     r \in Results}
    \cup {Above(<<FieldOf("f6", "g", maybe)>>, "Bag",
                [kind |-> "Aggregate", input |-> "n1", aggregates |-> <<>>,
                 grouping_keys |-> <<[output |-> "f6", expression |-> b]>>])}

Windowed(d, definition) ==
  Above(Append(Schema, FieldOf("f5", "w", d)), "Bag",
        [kind |-> "Window", input |-> "n1", definitions |-> <<definition>>])

Windows ==
  {Windowed(r[3], [kind |-> "PartitionedAggregate", output |-> "f5", function |-> r[1],
                   argument |-> r[2], partition_by |-> <<b>>]) :
     r \in {s \in Results : s[1] \in {"CountAll", "Sum"}}}
    \cup {Windowed(number, [kind |-> "Ranking", output |-> "f5", function |-> f,
                            partition_by |-> <<>>, order_by |-> Whole]) :
            f \in {"RowNumber", "Rank", "DenseRank"}}

Nullable(schema) == [i \in DOMAIN schema |-> [schema[i] EXCEPT !.descriptor.nullable = TRUE]]

JoinOf(type, condition, left, right) ==
  AboveBoth(left \o right, [kind |-> "Join", left |-> "n1", right |-> "n3",
                            join_type |-> type, condition |-> condition])

Joins ==
  {JoinOf("Cross", Absent, Schema, Schema3), JoinOf("Inner", b, Schema, Schema3),
   JoinOf("Left", b, Schema, Nullable(Schema3)), JoinOf("Right", b, Nullable(Schema), Schema3),
   JoinOf("Full", b, Nullable(Schema), Nullable(Schema3))}

Sets ==
  {AboveBoth(<<FieldOf("f5", "a", number), FieldOf("f6", "b", maybe)>>,
             [kind |-> "Set", left |-> "n1", right |-> "n3",
              operation |-> op, quantifier |-> quantifier]) :
     op \in {"Union", "Intersect", "Except"}, quantifier \in {"All", "Distinct"}}

Ordered(kinds) ==
  Plan(<<Input("n1", Schema),
         NodeOf("n3", Schema, "Ordered", [kind |-> "Order", input |-> "n1", items |-> Total]),
         NodeOf("n2", Schema, IF kinds.kind = "Slice" THEN "Ordered" ELSE "Bag", kinds)>>)

Orders ==
  {Above(Schema, "Ordered", [kind |-> "Order", input |-> "n1", items |-> Whole]),
   Ordered([kind |-> "Slice", input |-> "n3", offset |-> 0, limit |-> 1]),
   Ordered([kind |-> "Slice", input |-> "n3", offset |-> 1, limit |-> Absent]),
   Ordered([kind |-> "ForgetOrder", input |-> "n3"])}

(* Valid graphs, of a node or a field whose name is no identifier.         *)
Unwritable ==
  {Plan(<<NodeOf("no id", <<>>, "Bag", [kind |-> "Empty"])>>),
   Above(<<FieldOf("no id", "c", number)>>, "Bag",
         [kind |-> "Project", input |-> "n1",
          entries |-> <<[kind |-> "Compute", output |-> "no id", expression |-> a]>>])}

MCGraphs ==
  {Plan(<<NodeOf("n1", Schema, "Bag", [kind |-> "Empty"])>>),
   Above(Schema, "Bag", [kind |-> "Distinct", input |-> "n1"])}
    \cup {Above(Schema, "Bag", [kind |-> "Filter", input |-> "n1", predicate |-> p]) :
            p \in Predicates}
    \cup {AboveBoth(Schema, [kind |-> "Filter", input |-> "n1", predicate |-> p]) :
            p \in QueryPredicates}
    \cup {Above(<<FieldOf("f2", "b", maybe), FieldOf("f5", "c", e.descriptor)>>, "Bag",
                [kind |-> "Project", input |-> "n1",
                 entries |-> <<[kind |-> "Keep", field |-> "f2"],
                               [kind |-> "Compute", output |-> "f5", expression |-> e]>>]) :
            e \in Computed}
    \cup Aggregates \cup Windows \cup Joins \cup Sets \cup Orders \cup Unwritable

-----------------------------------------------------------------------------
MCIdentifiers == {"n1", "n2", "n3", "f1", "f2", "f3", "f4", "f5", "f6"}

MCStrings ==
  {"n3", "f1", "no id", "", "0", "-1", "+1", "01", "int64", "text", "ordered", "union", "cross",
   "left", "count_all", "sum", "rank", "last", "not", "add", "distinct", "literal", "field"}

MCValues ==
  {JsonBool(TRUE), JsonNull, JsonNumber("1"), JsonNumber("1.5"), JsonArray(<<>>), JsonObject(<<>>)}

MCMemberNames == {"metadata", "value", "input", "argument", "unknown"}

MCMetadata == {JsonObject(<<>>), JsonObject(<< <<"tool", JsonNumber("1.5")>> >>)}

MCExtras ==
  {<<"metadata", JsonNumber("1")>>, <<"metadata", JsonNumber("1.5")>>,
   <<"metadata", JsonObject(<<>>)>>, <<"unknown", JsonNull>>, <<"argument", JsonNull>>,
   <<"metadata", JsonObject(<< <<"tool", JsonNull>>, <<"tool", JsonNull>> >>)>>}
=============================================================================
