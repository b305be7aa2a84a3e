--------------------------- MODULE SourceGrammar ---------------------------
(***************************************************************************)
(* The grammar of docs/specification/06-grammar.md as data, and which      *)
(* sequences of tokens it derives.  A reference: it is no model of code.   *)
(* A keyword or symbol stands for its token; "regular", "delimited",       *)
(* "integer" and "text" are the classes of tokens with a text of their own.*)
(***************************************************************************)
EXTENDS Integers, Sequences, SequencesExt, FiniteSetsExt

(* One of the symbols, a sequence of expressions, one of some expressions, *)
(* an expression or nothing, an expression any number of times.            *)
Sym(symbols) == [form |-> "sym", of |-> symbols]
Cat(parts)   == [form |-> "cat", of |-> parts]
Alt(choices) == [form |-> "alt", of |-> choices]
Opt(e)       == [form |-> "opt", of |-> e]
Rep(e)       == [form |-> "rep", of |-> e]

(* Symbols one after another.                                              *)
Run(symbols) == Cat([k \in DOMAIN symbols |-> Sym({symbols[k]})])

List(symbol) == Cat(<<Sym({symbol}), Rep(Run(<<",", symbol>>))>>)

(* Operands with operators between them.                                   *)
Infix(operand, operators) == Cat(<<Sym({operand}), Rep(Cat(<<Sym(operators), Sym({operand})>>))>>)

Comparisons == {"=", "<>", "<", "<=", ">", ">="}

Aggregates == {"COUNT", "SUM", "MIN", "MAX", "BOOL_AND", "BOOL_OR"}

Rankings == {"ROW_NUMBER", "RANK", "DENSE_RANK"}

Partition == Opt(Run(<<"PARTITION", "BY", "expression_list">>))

Grammar ==
 [program                    |-> Cat(<<Sym({"query_expression"}), Opt(Sym({";"}))>>),
  query_expression           |->
    Cat(<<Opt(Run(<<"WITH", "common_table_expressions">>)), Sym({"union_or_except_expression"}),
          Opt(Cat(<<Sym({"order_by_clause"}), Opt(Sym({"row_bound"}))>>))>>),
  common_table_expressions   |-> List("common_table_expression"),
  common_table_expression    |-> Run(<<"identifier", "AS", "(", "query_expression", ")">>),
  union_or_except_expression |->
    Cat(<<Sym({"intersect_expression"}),
          Rep(Cat(<<Sym({"UNION", "EXCEPT"}), Opt(Sym({"ALL"})), Sym({"intersect_expression"})>>))>>),
  intersect_expression       |->
    Cat(<<Sym({"query_primary"}),
          Rep(Cat(<<Sym({"INTERSECT"}), Opt(Sym({"ALL"})), Sym({"query_primary"})>>))>>),
  query_primary              |->
    Alt(<<Sym({"select_query"}), Run(<<"(", "query_expression", ")">>)>>),

  select_query               |->
    Cat(<<Sym({"SELECT"}), Opt(Sym({"DISTINCT"})), List("select_item"),
          Sym({"FROM"}), List("joined_table"),
          Opt(Run(<<"WHERE", "expression">>)),
          Opt(Run(<<"GROUP", "BY", "expression_list">>)),
          Opt(Run(<<"HAVING", "expression">>))>>),
  select_item                |->
    Alt(<<Sym({"*"}), Run(<<"identifier", ".", "*">>), Cat(<<Sym({"expression"}), Opt(Sym({"alias"}))>>)>>),
  alias                      |-> Cat(<<Opt(Sym({"AS"})), Sym({"identifier"})>>),
  expression_list            |-> List("expression"),

  joined_table               |-> Cat(<<Sym({"table_primary"}), Rep(Sym({"join_tail"}))>>),
  join_tail                  |->
    Alt(<<Run(<<"CROSS", "JOIN", "table_primary">>),
          Cat(<<Opt(Sym({"INNER"})), Sym({"conditional_join"})>>),
          Cat(<<Sym({"LEFT", "RIGHT", "FULL"}), Opt(Sym({"OUTER"})), Sym({"conditional_join"})>>)>>),
  conditional_join           |-> Run(<<"JOIN", "table_primary", "ON", "expression">>),
  table_primary              |->
    Alt(<<Cat(<<Sym({"identifier"}), Opt(Sym({"alias"}))>>),
          Run(<<"(", "query_expression", ")", "alias">>)>>),

  order_by_clause            |-> Cat(<<Run(<<"ORDER", "BY">>), List("order_item")>>),
  order_item                 |->
    Cat(<<Sym({"expression"}), Opt(Sym({"ASC", "DESC"})),
          Opt(Cat(<<Sym({"NULLS"}), Sym({"FIRST", "LAST"})>>))>>),
  row_bound                  |->
    Alt(<<Cat(<<Sym({"limit_clause"}), Opt(Sym({"offset_clause"}))>>),
          Cat(<<Sym({"offset_clause"}), Opt(Sym({"limit_clause"}))>>)>>),
  limit_clause               |-> Run(<<"LIMIT", "integer">>),
  offset_clause              |-> Run(<<"OFFSET", "integer">>),

  expression                 |-> Infix("and_expression", {"OR"}),
  and_expression             |-> Infix("not_expression", {"AND"}),
  not_expression             |->
    Alt(<<Run(<<"NOT", "not_expression">>), Sym({"predicate_expression"})>>),
  predicate_expression       |->
    Cat(<<Sym({"concatenation_expression"}),
          Opt(Alt(<<Cat(<<Sym(Comparisons), Sym({"concatenation_expression"})>>),
                    Cat(<<Sym({"IS"}), Opt(Sym({"NOT"})), Sym({"NULL"})>>),
                    Cat(<<Opt(Sym({"NOT"})), Run(<<"IN", "(", "in_contents", ")">>)>>)>>))>>),
  in_contents                |-> Sym({"query_expression", "expression_list"}),
  concatenation_expression   |-> Infix("additive_expression", {"||"}),
  additive_expression        |-> Infix("multiplicative_expression", {"+", "-"}),
  multiplicative_expression  |-> Infix("unary_expression", {"*", "/", "%"}),
  unary_expression           |->
    Alt(<<Cat(<<Sym({"+", "-"}), Sym({"unary_expression"})>>), Sym({"primary_expression"})>>),

  primary_expression         |->
    Alt(<<Sym({"integer", "text", "TRUE", "FALSE", "NULL", "case_expression",
               "aggregate_expression", "ranking_expression"}),
          Cat(<<Sym({"identifier"}), Opt(Run(<<".", "identifier">>))>>),
          Run(<<"(", "expression", ")">>),
          Run(<<"CAST", "(", "expression", "AS", "scalar_type", ")">>),
          Run(<<"EXISTS", "(", "query_expression", ")">>)>>),
  identifier                 |-> Sym({"regular", "delimited"}),
  scalar_type                |-> Sym({"BOOLEAN", "INT64", "TEXT"}),
  case_expression            |->
    Cat(<<Sym({"CASE"}), Sym({"when_clause"}), Rep(Sym({"when_clause"})),
          Opt(Run(<<"ELSE", "expression">>)), Sym({"END"})>>),
  when_clause                |-> Run(<<"WHEN", "expression", "THEN", "expression">>),
  aggregate_expression       |->
    Cat(<<Alt(<<Run(<<"COUNT", "(", "*", ")">>),
                Cat(<<Sym(Aggregates), Run(<<"(", "expression", ")">>)>>)>>),
          Opt(Cat(<<Run(<<"OVER", "(">>), Partition, Sym({")"})>>))>>),
  ranking_expression         |->
    Cat(<<Sym(Rankings), Run(<<"(", ")", "OVER", "(">>), Partition,
          Sym({"order_by_clause"}), Sym({")"})>>)]

-----------------------------------------------------------------------------
Productions == DOMAIN Grammar

(* How e may be derived from the tokens at i: j if it derives those before *)
(* j, and -j if it derives those before j and could go on with a token     *)
(* other than the one at j, or after the last.                             *)
RECURSIVE Ends(_, _, _)
Ends(tokens, e, i) ==
  LET Symbol(s) == IF i \notin DOMAIN tokens THEN {-i}
                   ELSE IF s \in Productions THEN Ends(tokens, Grammar[s], i)
                   ELSE IF tokens[i] = s THEN {i + 1} ELSE {-i}
      Then(first, rest) ==
        UNION {IF j < 0 THEN {j} ELSE Ends(tokens, rest, j) : j \in Ends(tokens, first, i)}
  IN CASE e.form = "sym" -> UNION {Symbol(s) : s \in e.of}
       [] e.form = "cat" -> IF e.of = <<>> THEN {i} ELSE Then(Head(e.of), Cat(Tail(e.of)))
       [] e.form = "alt" -> UNION {Ends(tokens, e.of[k], i) : k \in DOMAIN e.of}
       [] e.form = "opt" -> {i} \cup Ends(tokens, e.of, i)
       [] e.form = "rep" -> {i} \cup Then(e.of, e)

Derivations(tokens) == Ends(tokens, Grammar.program, 1)

Derivable(tokens) == Len(tokens) + 1 \in Derivations(tokens)

(* The first place where the tokens leave every program, if they do: those *)
(* before it begin some program, and with the one there they do not.       *)
WrongAt(tokens) == Max({IF j < 0 THEN -j ELSE j : j \in Derivations(tokens)})
=============================================================================
