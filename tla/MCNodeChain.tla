---------------------------- MODULE MCNodeChain ----------------------------
(***************************************************************************)
(* Instances of NodeChain for TLC: relations of at most three rows with    *)
(* repeated rows, NULLs, and numbers at the bounds of a four-bit INT64.    *)
(***************************************************************************)
EXTENDS NodeChain

MCIntMin == -8

(* No casts here: one string stands for all.                               *)
MCTexts == {0}
MCNumeralOf == [t \in MCTexts |-> NotANumeral]
MCTruthOf == [t \in MCTexts |-> "neither"]
MCTextOfInt == [n \in -8 .. 7 |-> 0]
MCTextOfTruth == [t \in {"TRUE", "FALSE"} |-> 0]
MCQueries == [q \in {} |-> Null]

MCRefs == STRING

PlainInt    == Descriptor("INT64", FALSE)
NullableInt == Descriptor("INT64", TRUE)
Boolean1    == Descriptor("BOOLEAN", FALSE)

Ref(f)  == FieldRef(f, Invalid)
Num(n)  == Literal(Int64(n), PlainInt)
Op(o, x, y) == Apply("binary", o, <<x, y>>, Invalid)

IntRow(x, y) == <<Int64(x), Int64(y)>>
Unknown(x)   == <<Int64(x), Null>>

MCSourceSchema == <<Field("a", PlainInt), Field("b", NullableInt)>>

Supplied(rows) == [schema |-> MCSourceSchema, rows |-> rows]

Misfits ==
  {Supplied(<<IntRow(0, 0), <<Null, Null>>>>),
   [schema |-> <<Field("a", PlainInt)>>, rows |-> <<>>]}

OrderingRelations ==
  Misfits \cup {Supplied(<<Unknown(1), IntRow(1, 2), IntRow(0, 2)>>),
                Supplied(<<IntRow(1, 2), IntRow(1, 2), Unknown(0)>>),
                Supplied(<<IntRow(2, -1), IntRow(1, 1), IntRow(1, 0)>>)}

GroupingRelations ==
  Misfits \cup {Supplied(<<>>),
                Supplied(<<Unknown(1), IntRow(1, 2), IntRow(0, 2)>>),
                Supplied(<<IntRow(1, 2), IntRow(1, 2), Unknown(0)>>),
                Supplied(<<IntRow(1, 2), IntRow(1, 2), IntRow(1, 2)>>),
                Supplied(<<IntRow(0, 7), IntRow(0, 1), IntRow(1, -1)>>)}

Ascending(e)  == OrderingItem(e, FALSE, "not_applicable")
NullsFirst(e) == OrderingItem(e, FALSE, "first")
Descending(e) == OrderingItem(e, TRUE, "last")

Project(entries) == NodeKind("project", "", entries, <<>>)
Filter(e)        == NodeKind("filter", "", <<Predicate(e)>>, <<>>)
Join(how, on)    == NodeKind("join", how, on, <<>>)
Windows(entries) == NodeKind("window", "", entries, <<>>)
Group(entries)   == NodeKind("aggregate", "", entries, <<>>)
Combine(how, f)  == NodeKind("set", how, [i \in DOMAIN f |-> Output(f[i])], <<>>)
Order(items)     == NodeKind("order", "", <<Items(items)>>, <<>>)
Slice(bounds)    == NodeKind("slice", "", <<>>, bounds)
Simple(kind)     == NodeKind(kind, "", <<>>, <<>>)

OrderingOperations ==
  {Order(<<Ascending(Ref("a"))>>),
   Order(<<NullsFirst(Ref("b"))>>),
   Order(<<Descending(Ref("b")), Ascending(Ref("a"))>>),
   Order(<<Ascending(Ref("a")), Ascending(Ref("b"))>>),
   Order(<<NullsFirst(Op("divide", Num(4), Ref("b")))>>),
   Order(<<Ascending(Ref("r"))>>),
   Project(<<Keep("b"), Compute("x", Op("add", Ref("a"), Ref("b")))>>),
   Project(<<Keep("a"), Compute("y", Op("multiply", Ref("a"), Ref("a")))>>),
   Project(<<Keep("a")>>),
   Filter(Op("greater", Ref("b"), Num(0))),
   Slice(<<1>>), Slice(<<0, 2>>), Slice(<<-1>>),
   Simple("forget_order"),
   Windows(<<Window("r", "row_number", <<>>, <<>>, <<Ascending(Ref("a"))>>)>>),
   Windows(<<Window("r", "row_number", <<>>, <<Ref("a")>>,
                    <<Descending(Ref("b")), Ascending(Ref("a"))>>)>>),
   Windows(<<Window("r", "rank", <<>>, <<>>, <<Descending(Ref("b"))>>),
             Window("s", "dense_rank", <<>>, <<>>, <<NullsFirst(Ref("b"))>>)>>)}

OrderingSides == {}

(* A graph with fields of its own to join with, or to combine with.        *)
Bag(schema, rows) == [properties |-> BagOf(schema, {}), rows |-> rows]

GroupingSides ==
  {Bag(<<Field("c", NullableInt), Field("d", PlainInt)>>,
       <<IntRow(1, 2), <<Null, Int64(0)>>, IntRow(1, 2)>>),
   Bag(<<Field("e", NullableInt)>>, <<<<Int64(1)>>, <<Null>>>>)}

GroupingOperations ==
  {Join("cross", <<>>)}
   \cup {Join(how, <<Predicate(Op("equal", Ref("a"), Ref("c")))>>) :
           how \in {"inner", "left", "right", "full"}}
   \cup {Join("full", <<Predicate(Op("less", Ref("b"), Ref("e")))>>)}
   \cup {Combine(how, <<"u", "v">>) :
           how \in {"union", "union all", "intersect", "intersect all", "except", "except all"}}
   \cup {Simple("distinct"),
         Filter(Op("equal", Ref("a"), Num(1))),
         Project(<<Keep("a")>>),
         Project(<<Compute("w", Ref("u"))>>),
         Group(<<Aggregate("n", "count_all", <<>>), Aggregate("m", "min", <<Ref("b")>>)>>),
         Group(<<GroupingKey("g", Ref("b")), Aggregate("n", "count_all", <<>>),
                 Aggregate("t", "sum", <<Ref("b")>>)>>),
         Group(<<GroupingKey("g", Ref("a")), Aggregate("n", "count_all", <<>>),
                 Aggregate("m", "max", <<Ref("b")>>)>>),
         Group(<<GroupingKey("g", Op("equal", Ref("b"), Num(2))),
                 Aggregate("k", "bool_or", <<Op("less", Ref("b"), Ref("a"))>>),
                 Aggregate("l", "bool_and", <<Op("less", Ref("b"), Ref("a"))>>)>>),
         Windows(<<Window("o", "sum", <<Ref("b")>>, <<>>, <<>>)>>),
         Windows(<<Window("o", "count", <<Ref("b")>>, <<Ref("a")>>, <<>>)>>)}
=============================================================================
