------------------------- MODULE MCQueryCompilation -------------------------
(***************************************************************************)
(* Query expressions over two relations t(a, b) and u(a, c), in families   *)
(* that bring together the clauses whose rules depend on one another.      *)
(***************************************************************************)
EXTENDS QueryCompilation

CONSTANT SomeQuery   \* what IN (SELECT ...) asks

MCIntMin == -8

(* No casts of strings here: one string stands for all.                    *)
MCTexts == {0}
MCNumeralOf == [t \in MCTexts |-> NotANumeral]
MCTruthOf == [t \in MCTexts |-> "neither"]
MCTextOfInt == [n \in -8 .. 7 |-> 0]
MCTextOfTruth == [t \in {"TRUE", "FALSE"} |-> 0]

PlainInt     == Descriptor("INT64", FALSE)
NullableInt  == Descriptor("INT64", TRUE)
NullableBool == Descriptor("BOOLEAN", TRUE)

(* What IN (SELECT ...) may ask.                                           *)
MCQueries ==
  [q \in {SomeQuery} |-> [schema |-> <<Field("s", NullableInt)>>, failure |-> Null,
                       rows |-> <<<<Int64(1)>>, <<Null>>>>]]

MCRefs == {NoField, SomeQuery} \cup (STRING \X Seq(Nat) \X Nat)

CatalogField(name, descriptor) == [name |-> name, descriptor |-> descriptor]

MCCatalog ==
  <<[name |-> "t", binding |-> "bt",
     fields |-> <<CatalogField("a", PlainInt), CatalogField("b", NullableInt)>>],
    [name |-> "u", binding |-> "bu",
     fields |-> <<CatalogField("a", PlainInt), CatalogField("c", NullableBool)>>]>>

-----------------------------------------------------------------------------
(* What hosts supply: rows twice, NULLs, another order of the rows, none,  *)
(* a NULL where the catalog has none, no relation for a name, and one of   *)
(* other descriptors.                                                      *)
Ints(x, y) == <<Int64(x), Int64(y)>>

Bound(descriptors, rows) == [descriptors |-> descriptors, rows |-> rows]

Host(t, u) ==
  [name \in {"bt", "bu"} |->
     IF name = "bt" THEN Bound(<<PlainInt, NullableInt>>, t)
                    ELSE Bound(<<PlainInt, NullableBool>>, u)]

Flags == <<<<Int64(1), True>>, <<Int64(2), Null>>, <<Int64(1), Boolean(FALSE)>>>>

MCSnapshots ==
  {Host(<<Ints(1, 2), Ints(0, 2), Ints(1, 2), <<Int64(1), Null>>>>, Flags),
   Host(<<<<Int64(1), Null>>, Ints(1, 2), Ints(1, 2), Ints(0, 2)>>, Reverse(Flags)),
   Host(<<Ints(2, 7), Ints(0, 0)>>, <<<<Int64(2), Null>>>>),
   Host(<<>>, <<>>),
   Host(<<Ints(1, 2), <<Null, Null>>>>, Flags),
   [name \in {"bu"} |-> Bound(<<PlainInt, NullableBool>>, Flags)],
   [name \in {"bt", "bu"} |-> Bound(<<NullableInt, NullableInt>>, <<Ints(1, 2)>>)]}

-----------------------------------------------------------------------------
(* Expressions.                                                            *)
Of(q, name)   == Term("column", "", <<q, name>>, <<>>, Null, <<>>)
Col(name)     == Of("", name)
Value(v)      == Term("literal", "", NoField, <<>>, v, <<>>)
Num(n)        == Value(Int64(n))
Op(o, x, y)   == Term("binary", o, NoField, <<x, y>>, Null, <<>>)
Op1(o, x)     == Term("unary", o, NoField, <<x>>, Null, <<>>)
Paren(x)      == Term("parenthesized", "", NoField, <<x>>, Null, <<>>)
Case(args)    == Term("case", "", NoField, args, Null, <<>>)
IsNull(x)     == Term("is_null", "", NoField, <<x>>, Null, <<>>)
InList(o, xs) == Term("in_list", o, NoField, xs, Null, <<>>)
InSome(o, x)  == Term("in_query", o, SomeQuery, <<x>>, Null, <<>>)
CastTo(s, x)  == Term("cast", s, NoField, <<x>>, Null, <<>>)
Agg(f, xs)    == Term("aggregate", f, NoField, xs, Null, <<>>)
Count         == Agg("count", <<>>)
AggOver(f, xs, by) == Term("aggregate", f, NoField, xs, Null, OverClause(by, <<>>))
Ranked(f, by, order) == Term("ranking", f, NoField, <<>>, Null, OverClause(by, order))

Asc(e)   == OrderingItem(e, FALSE, "not_applicable")
First(e) == OrderingItem(e, FALSE, "first")
Desc(e)  == OrderingItem(e, TRUE, "last")

Item(e)        == SelectItem(FALSE, "", e, "")
As(e, alias)   == SelectItem(FALSE, "", e, alias)
Every(q)       == SelectItem(TRUE, q, Num(0), "")

(* Queries.                                                                *)
Table(name)      == TablePrimary(name, <<>>, "")
TableAs(name, q) == TablePrimary(name, <<>>, q)
Derived(query, q) == TablePrimary("", <<query>>, q)
Alone(primary)   == JoinedTable(primary, <<>>)
FromT == <<Alone(Table("t"))>>

Selecting(block) == Body("select", "", <<block>>)
Simply(body)     == Query(body, <<>>, <<>>)
Limit(offset, limit) == <<[limit |-> limit, offset |-> offset]>>

-----------------------------------------------------------------------------
(* Results, input fields and ordinals in ORDER BY, DISTINCT, row bounds.   *)
OrderedLists ==
  {<<Every("")>>,
   <<Item(Col("b")), As(Col("a"), "b")>>,
   <<As(Op("add", Col("a"), Num(1)), "a")>>,
   <<As(Op1("negative", Col("b")), "x"), Item(Paren(Col("a")))>>}

Orders ==
  {<<>>,
   <<Asc(Col("a"))>>, <<Asc(Paren(Num(1)))>>, <<First(Num(1)), Asc(Num(2))>>,
   <<First(Col("b")), Asc(Paren(Col("a")))>>,
   <<Desc(Op("multiply", Col("a"), Num(-1))), First(Of("t", "b")), Asc(Of("t", "a"))>>,
   <<Asc(Col("x"))>>, <<Desc(Col("x")), Asc(Col("a"))>>, <<Asc(Num(3))>>,
   <<Asc(Ranked("rank", <<>>, <<Desc(Col("b"))>>))>>}

OrderedQueries ==
  {Query(Selecting(Block(distinct, items, FromT, <<>>, <<>>, <<>>)), order, bounds) :
     distinct \in BOOLEAN, items \in OrderedLists, order \in Orders \ {<<>>},
     bounds \in {<<>>, Limit(<<1>>, <<1>>)}}

(* Scalars, conditions, and what fails where.                              *)
ScalarItems ==
  {Col("a"), Col("zz"), Num(8), Op1("negative", Num(8)), Op1("negative", Paren(Num(8))), Value(Null),
   Op("divide", Num(4), Col("b")),
   Case(<<Op("equal", Col("b"), Num(2)), Col("a")>>),
   Case(<<IsNull(Col("b")), Num(0), Value(Null)>>),
   Case(<<Op("equal", Col("b"), Num(0)), Value(Null), Op("divide", Num(4), Col("b"))>>),
   Op1("not", IsNull(Col("b"))), Op1("positive", Op1("negative", Num(8))),
   Case(<<Op("equal", Col("a"), Num(1)), Col("a"), IsNull(Col("b")), Value(Null)>>),
   Term("exists", "", SomeQuery, <<>>, Null, <<>>), CastTo("INT64", Value(Null)), CastTo("BOOLEAN", Col("a")),
   Op("equal", Value(Null), Col("a")), Op("add", Col("a"), Value(True)),
   InList("negated", <<Col("b"), Num(1), Value(Null)>>), InSome("negated", Col("a")), InSome("", Num(1))}

WhereClauses ==
  {<<>>, <<Op("greater", Col("b"), Num(0))>>, <<Op("equal", Op("remainder", Num(1), Col("a")), Num(0))>>,
   <<InSome("negated", Col("b"))>>}

ScalarQueries ==
  {Simply(Selecting(Block(FALSE, <<Item(e)>>, FromT, where, <<>>, <<>>))) :
     e \in ScalarItems, where \in WhereClauses}

-----------------------------------------------------------------------------
(* Grouping.                                                               *)
GroupedLists ==
  {<<Item(Col("a")), Item(Count)>>,
   <<Item(Paren(Op("add", Col("a"), Paren(Num(1))))), Item(Agg("sum", <<Col("b")>>))>>,
   <<As(Op("add", Agg("max", <<Col("b")>>), Num(1)), "x")>>,
   <<Item(Count), Item(Ranked("rank", <<>>, <<Asc(Count)>>))>>,
   <<Item(Col("b")), Item(AggOver("sum", <<Agg("count", <<Col("b")>>)>>, <<Col("b")>>))>>,
   <<As(Agg("min", <<Col("b")>>), "x"), Item(Agg("bool_and", <<IsNull(Col("b"))>>))>>,
   <<Item(Agg("sum", <<Count>>))>>}

Groupings ==
  {<<>>, <<Col("a")>>, <<Paren(Col("b")), Col("b")>>, <<Op("add", Paren(Col("a")), Num(1)), Col("a")>>,
   <<Count>>}

GroupedQueries ==
  {Query(Selecting(Block(distinct, items, FromT, <<>>, groupBy, having)), order, <<>>) :
     distinct \in BOOLEAN, items \in GroupedLists, groupBy \in Groupings,
     having \in {<<>>, <<Op("greater", Count, Num(1))>>, <<Op("equal", Col("a"), Num(0))>>},
     order \in {<<>>, <<Asc(Num(1))>>, <<First(Col("x"))>>, <<Desc(Col("b"))>>}}

-----------------------------------------------------------------------------
(* Windows.                                                                *)
WindowOrders ==
  {<<First(Col("b"))>>, <<Asc(Paren(Col("a"))), Desc(Col("b"))>>, <<Asc(Col("b"))>>,
   <<Desc(Op("add", Col("a"), Col("b")))>>}

WindowItems ==
  {Ranked(f, by, order) : f \in Rankings, by \in {<<>>, <<Col("a")>>}, order \in WindowOrders}
   \cup {AggOver("sum", <<Col("b")>>, <<Col("a")>>), AggOver("count", <<>>, <<>>)}

WindowQueries ==
  {Query(Selecting(Block(FALSE, <<As(w, "b"), Item(Col("a"))>>, FromT, <<>>, <<>>, <<>>)), order, <<>>) :
     w \in WindowItems, order \in {<<>>, <<First(Col("b"))>>}}
   \cup {Query(Selecting(Block(distinct, <<Item(Col("a"))>>, FromT, <<>>, <<>>, <<>>)), <<Desc(w)>>, <<>>) :
           w \in WindowItems, distinct \in BOOLEAN}

-----------------------------------------------------------------------------
(* Joins.                                                                  *)
SameA(x, y) == Op("equal", Of(x, "a"), Of(y, "a"))

Joins ==
  {<<JoinedTable(Table("t"), <<Join1(how, Table("u"), <<SameA("t", "u")>>)>>)>> :
     how \in {"inner", "left", "right", "full"}}
   \cup {<<JoinedTable(TableAs("t", "x"), <<Join1(how, TableAs("t", "u"), <<SameA("u", "x")>>)>>)>> :
           how \in {"left", "full"}}
   \cup {<<JoinedTable(Table("t"), <<Join1("cross", TableAs("u", "u"), <<>>)>>)>>,
         <<Alone(Table("t")), Alone(Table("u"))>>, <<Alone(Table("t")), Alone(Table("t"))>>,
         <<JoinedTable(Table("u"), <<Join1("left", Table("t"), <<SameA("t", "u")>>),
                                     Join1("right", TableAs("u", "v"), <<SameA("v", "t")>>)>>)>>,
         <<JoinedTable(Table("t"), <<Join1("inner", Table("u"), <<SameA("t", "v")>>)>>),
           Alone(TableAs("u", "v"))>>}

JoinQueries ==
  {Query(Selecting(Block(distinct, items, from, where, <<>>, <<>>)), order, <<>>) :
     distinct \in BOOLEAN, from \in Joins,
     items \in {<<Every("")>>, <<Every("u"), Item(Of("u", "a"))>>, <<Item(Col("c"))>>, <<Item(Col("a"))>>},
     where \in {<<>>, <<IsNull(Of("u", "a"))>>},
     order \in {<<>>, <<First(Of("u", "a"))>>}}

-----------------------------------------------------------------------------
(* Operands, derived tables, and what they leave of an order.              *)
OneColumn(e, order, bounds) ==
  Query(Selecting(Block(FALSE, <<As(e, "k")>>, FromT, <<>>, <<>>, <<>>)), order, bounds)

Inner ==
  {OneColumn(Col("a"), <<>>, <<>>), OneColumn(Col("b"), <<First(Col("k"))>>, Limit(<<>>, <<2>>)),
   OneColumn(Value(Null), <<>>, <<>>), OneColumn(Num(1), <<Desc(Of("t", "b"))>>, <<>>),
   OneColumn(Op("equal", Col("b"), Num(2)), <<>>, <<>>)}

Operand(query) ==
  IF query.orderBy = <<>> THEN query.body ELSE Body("parenthesized", "", <<query>>)

SetHows == {"union", "union all", "intersect", "intersect all", "except", "except all"}

SetBodies ==
  {Body("set", how, <<Operand(left), Operand(right)>>) : how \in SetHows, left, right \in Inner}

NestedQueries ==
  {Query(body, order, <<>>) : body \in SetBodies, order \in {<<>>, <<First(Col("k"))>>}}
   \cup {Query(Body("parenthesized", "", <<query>>), order, bounds) :
           query \in Inner, order \in {<<Desc(Num(1))>>}, bounds \in {<<>>, Limit(<<1>>, <<>>)}}
   \cup {Query(Selecting(Block(FALSE, <<Every("d"), Item(Count)>>,
                               <<JoinedTable(Derived(query, "d"), <<Join1("left", Table("t"), <<Op("equal", Of("d", "k"), Of("t", "b"))>>)>>)>>,
                               <<>>, groupBy, <<>>)), <<>>, <<>>) :
           query \in Inner \cup {Simply(b) : b \in SetBodies}, groupBy \in {<<Of("d", "k")>>}}

(* All clauses of one SELECT together.                                     *)
MixedLists ==
  {<<Item(Paren(Col("k"))), As(Count, "n")>>,
   <<As(Op("add", Col("k"), Num(1)), "k")>>,
   <<Every("")>>,
   <<Item(Col("k")), As(Agg("sum", <<Paren(Col("b"))>>), "n"),
     Item(Ranked("row_number", <<>>, <<First(Paren(Col("k")))>>))>>,
   <<Item(Col("k")), As(Ranked("rank", <<Col("k")>>, <<First(Col("b"))>>), "n")>>}

MixedFroms ==
  LET d == Derived(OneColumn(Col("a"), <<First(Of("t", "b"))>>, <<>>), "d")
  IN {<<JoinedTable(d, <<Join1(how, Table("t"), <<Op("equal", Col("k"), Of("t", "b"))>>)>>)>> :
        how \in {"inner", "full"}}

MixedQueries ==
  {Query(Selecting(Block(distinct, items, from, where, groupBy, having)), order, bounds) :
     distinct \in BOOLEAN, items \in MixedLists, from \in MixedFroms,
     where \in {<<>>, <<Op("greater", Op("add", Col("k"), Col("b")), Num(2))>>},
     groupBy \in {<<>>, <<Col("k")>>},
     having \in {<<>>, <<Op("less", Count, Num(3))>>},
     order \in {<<First(Col("k"))>>, <<First(Num(1)), Desc(Paren(Num(2)))>>,
                <<First(Op("remainder", Col("k"), Num(2))), First(Col("k")), First(Col("n"))>>},
     bounds \in {<<>>, Limit(<<>>, <<2>>)}}

(* What a query gives as a table of another one.                           *)
WrappedQueries ==
  {Simply(Selecting(Block(FALSE, <<Every("")>>,
                          <<JoinedTable(Table("u"), <<Join1(how, Derived(query, "d"), <<Col("c")>>)>>)>>,
                          <<>>, <<>>, <<>>))) :
     how \in {"left", "right"}, query \in OrderedQueries \cup GroupedQueries \cup WindowQueries}

MCPrograms ==
  OrderedQueries \cup ScalarQueries \cup GroupedQueries \cup WindowQueries \cup JoinQueries
    \cup NestedQueries \cup MixedQueries \cup WrappedQueries

-----------------------------------------------------------------------------
(* A catalog that gives a relation the empty name of a binding.            *)
UnnamedCatalog == [MCCatalog EXCEPT ![1].binding = ""]

UnnamedPrograms == {OneColumn(Col("a"), <<>>, <<>>)}
=============================================================================
