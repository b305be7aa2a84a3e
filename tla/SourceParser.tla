---------------------------- MODULE SourceParser ----------------------------
(***************************************************************************)
(* The recursive descent of src/parser.rs over the classes of tokens.  A   *)
(* state of it is                                                          *)
(*   tokens, at   the source and the position of the next token,           *)
(*   ok           FALSE once an error has been returned, found at `at`,    *)
(*   out          the nodes of the syntax tree that the last call made.    *)
(* Every function leaves a state with an error alone, as `?` does.  A node *)
(* has a kind, the words the tree keeps of its own tokens, lists of parts, *)
(* and the positions of its first and last token.                          *)
(***************************************************************************)
EXTENDS Integers, Sequences

Peek(p, k) == IF p.at + k \in DOMAIN p.tokens THEN p.tokens[p.at + k] ELSE "end of input"

At(p, kinds) == p.ok /\ Peek(p, 0) \in kinds

Bump(p) == [p EXCEPT !.at = @ + 1]

Eat(p, kind) == IF At(p, {kind}) THEN Bump(p) ELSE p

Error(p) == [p EXCEPT !.ok = FALSE]

ExpectAny(p, kinds) == IF At(p, kinds) THEN Bump(p) ELSE Error(p)

(* Mutant: the token is taken before it is looked at.                      *)
ExpectLate(p, kind) == IF At(p, {kind}) THEN Bump(p) ELSE Error(Bump(p))

Expect(p, kind) == ExpectAny(p, {kind})

Nothing(p) == [p EXCEPT !.out = <<>>]

(* The tokens taken between two states.                                    *)
Between(p, q) == SubSeq(p.tokens, p.at, q.at - 1)

NodeFrom(first, kind, words, parts, p) ==
  IF ~ p.ok THEN p
  ELSE [p EXCEPT !.out = <<[kind |-> kind, words |-> words, parts |-> parts,
                            first |-> first, last |-> p.at - 1]>>]

Node(start, kind, words, parts, p) == NodeFrom(start.at, kind, words, parts, p)

(* A token that is a node by itself.                                       *)
Leaf(kind, p) == Node(p, kind, <<Peek(p, 0)>>, <<>>, Bump(p))

Identifiers == {"regular", "delimited"}

parse_identifier(p) == IF At(p, Identifiers) THEN Leaf("identifier", p) ELSE Error(p)

parse_integer_literal(p) == IF At(p, {"integer"}) THEN Leaf("literal", p) ELSE Error(p)

AggregateFunctions == {"COUNT", "SUM", "MIN", "MAX", "BOOL_AND", "BOOL_OR"}

RankingFunctions == {"ROW_NUMBER", "RANK", "DENSE_RANK"}

-----------------------------------------------------------------------------
(* The functions of the parser, by name.                                   *)
RECURSIVE Parse(_, _), More(_, _), MoreOperands(_, _, _, _)

(* A list with commas.                                                     *)
More(name, p) ==
  IF ~ At(p, {","}) THEN p
  ELSE LET next == Parse(name, Bump(p)) IN More(name, [next EXCEPT !.out = p.out \o @])

Several(name, p) == More(name, Parse(name, p))

(* What follows a word, if the word is there.                              *)
After(word, name, p) == IF At(p, {word}) THEN Parse(name, Bump(p)) ELSE Nothing(p)

SeveralAfter(word, name, p) ==
  IF At(p, {word}) THEN Several(name, Expect(Bump(p), "BY")) ELSE Nothing(p)

binary_expression(kind, left, words, right) ==
  NodeFrom(left.out[1].first, kind, words, <<left.out, right.out>>, right)

(* Mutant: operators associate from the right.                             *)
RightOperands(name, kind, operators, left) ==
  IF ~ At(left, operators) THEN left
  ELSE LET opened == IF kind = "set" THEN Eat(Bump(left), "ALL") ELSE Bump(left)
       IN binary_expression(kind, left, Between(left, opened),
                            MoreOperands(name, kind, operators, Parse(name, opened)))

(* The loops over operators of one precedence; a set operator may be       *)
(* followed by ALL.                                                        *)
MoreOperands(name, kind, operators, left) ==
  IF ~ At(left, operators) THEN left
  ELSE LET opened == IF kind = "set" THEN Eat(Bump(left), "ALL") ELSE Bump(left)
           right  == Parse(name, opened)
       IN MoreOperands(name, kind, operators,
                       binary_expression(kind, left, Between(left, opened), right))

Operands(name, kind, operators, p) == MoreOperands(name, kind, operators, Parse(name, p))

parse_query_expression(p) ==
  LET with == IF At(p, {"WITH"}) THEN Several("common_table_expression", Bump(p)) ELSE Nothing(p)
      body == Parse("union_or_except_expression", with)
      order == SeveralAfter("ORDER", "order_item", body)
      bound == IF order.out # <<>> /\ At(order, {"LIMIT", "OFFSET"})
               THEN Parse("row_bound", order) ELSE Nothing(order)
  IN Node(p, "query", <<>>, <<with.out, body.out, order.out, bound.out>>, bound)

parse_common_table_expression(p) ==
  LET name  == Parse("identifier", p)
      query == Parse("query_expression", Expect(Expect(name, "AS"), "("))
  IN Node(p, "common_table_expression", <<>>, <<name.out, query.out>>, Expect(query, ")"))

parse_query_primary(p) ==
  IF At(p, {"SELECT"}) THEN Parse("select_query", p)
  ELSE LET query == Parse("query_expression", Expect(p, "("))
       IN Node(p, "parenthesized", <<>>, <<query.out>>, Expect(query, ")"))

parse_select_query(p) ==
  LET select == Expect(p, "SELECT")
      start  == Eat(select, "DISTINCT")
      list   == Several("select_item", start)
      from   == Several("joined_table", Expect(list, "FROM"))
      where  == After("WHERE", "expression", from)
      groups == SeveralAfter("GROUP", "expression", where)
      having == After("HAVING", "expression", groups)
  IN Node(p, "select", Between(select, start),
          <<list.out, from.out, where.out, groups.out, having.out>>, having)

parse_select_item(p) ==
  IF At(p, {"*"}) THEN Node(p, "wildcard", <<>>, << <<>> >>, Bump(p))
  ELSE IF At(p, Identifiers) /\ Peek(p, 1) = "." /\ Peek(p, 2) = "*"
  THEN LET qualifier == Parse("identifier", p)
       IN Node(p, "wildcard", <<>>, <<qualifier.out>>, Expect(Expect(qualifier, "."), "*"))
  ELSE LET expression == Parse("expression", p)
           alias      == Parse("optional_alias", expression)
       IN Node(p, "select_item", <<>>, <<expression.out, alias.out>>, alias)

RECURSIVE Joins(_)
Joins(p) ==
  IF ~ At(p, {"CROSS", "INNER", "JOIN", "LEFT", "RIGHT", "FULL"}) THEN p
  ELSE LET join == Parse("join", p) IN Joins([join EXCEPT !.out = p.out \o @])

parse_joined_table(p) ==
  LET left  == Parse("table_primary", p)
      joins == Joins(Nothing(left))
  IN Node(p, "joined_table", <<>>, <<left.out, joins.out>>, joins)

(* A bare JOIN is an INNER one.                                            *)
parse_join(p) ==
  LET word      == Peek(p, 0)
      kind      == IF word = "JOIN" THEN "INNER" ELSE word
      opened    == IF word = "JOIN" THEN p
                   ELSE IF word \in {"LEFT", "RIGHT", "FULL"} THEN Eat(Bump(p), "OUTER") ELSE Bump(p)
      right     == Parse("table_primary", Expect(opened, "JOIN"))
      condition == IF kind = "CROSS" THEN Nothing(right)
                   ELSE Parse("expression", Expect(right, "ON"))
  IN Node(p, "join", <<kind>>, <<right.out, condition.out>>, condition)

parse_table_primary(p) ==
  LET derived == At(p, {"("})
      query   == Expect(Parse("query_expression", Bump(p)), ")")
      source  == IF derived THEN query ELSE Parse("identifier", p)
      alias   == IF derived THEN Parse("identifier", Eat(source, "AS"))
                 ELSE Parse("optional_alias", source)
  IN Node(p, IF derived THEN "derived" ELSE "named", <<>>, <<source.out, alias.out>>, alias)

parse_optional_alias(p) ==
  IF At(p, {"AS"} \cup Identifiers) THEN Parse("identifier", Eat(p, "AS")) ELSE Nothing(p)

parse_order_item(p) ==
  LET expression == Parse("expression", p)
      direction  == IF At(expression, {"ASC", "DESC"}) THEN Bump(expression) ELSE expression
      placed     == IF At(direction, {"NULLS"})
                    THEN ExpectAny(Bump(direction), {"FIRST", "LAST"}) ELSE direction
  IN Node(p, "order_item", Between(expression, placed), <<expression.out>>, placed)

parse_row_bound(p) ==
  LET limitFirst == At(p, {"LIMIT"})
      first  == Parse("integer", Expect(p, IF limitFirst THEN "LIMIT" ELSE "OFFSET"))
      second == After(IF limitFirst THEN "OFFSET" ELSE "LIMIT", "integer", first)
  IN Node(p, "row_bound", <<>>,
          IF limitFirst THEN <<first.out, second.out>> ELSE <<second.out, first.out>>, second)

-----------------------------------------------------------------------------
(* Expressions, from the loosest operators to the tightest.                *)

parse_not_expression(p) ==
  IF ~ At(p, {"NOT"}) THEN Parse("predicate_expression", p)
  ELSE LET expression == Parse("not_expression", Bump(p))
       IN Node(p, "unary", <<"NOT">>, <<expression.out>>, expression)

(* Mutant: a query within two pairs of parentheses is taken for a list.    *)
in_contents_starts_query(p) == Peek(p, 0) \in {"SELECT", "WITH"}

(* An IN holds a query if SELECT or WITH follows its parentheses.          *)
in_contents_is_query(p) ==
  \E k \in 0 .. Len(p.tokens) :
    /\ Peek(p, k) \in {"SELECT", "WITH"}
    /\ \A j \in 0 .. k - 1 : Peek(p, j) = "("

parse_in_predicate(left, negated) ==
  LET start    == Expect(Expect(negated, "IN"), "(")
      isQuery  == in_contents_is_query(start)
      contents == IF isQuery THEN Parse("query_expression", start) ELSE Several("expression", start)
  IN NodeFrom(left.out[1].first, IF isQuery THEN "in_query" ELSE "in_list",
              Between(left, negated), <<left.out, contents.out>>, Expect(contents, ")"))

parse_predicate_expression(p) ==
  LET left    == Parse("concatenation_expression", p)
      right   == Parse("concatenation_expression", Bump(left))
      negated == Eat(Bump(left), "NOT")
  IN CASE At(left, {"=", "<>", "<", "<=", ">", ">="}) ->
            binary_expression("binary", left, <<Peek(left, 0)>>, right)
       [] At(left, {"IS"}) ->
            NodeFrom(left.out[1].first, "is_null", Between(Bump(left), negated), <<left.out>>,
                     Expect(negated, "NULL"))
       [] At(left, {"NOT"}) /\ Peek(left, 1) = "IN" -> parse_in_predicate(left, Bump(left))
       [] At(left, {"IN"}) -> parse_in_predicate(left, left)
       [] OTHER -> left

parse_unary_expression(p) ==
  IF ~ At(p, {"+", "-"}) THEN Parse("primary_expression", p)
  ELSE LET expression == Parse("unary_expression", Bump(p))
       IN Node(p, "unary", <<Peek(p, 0)>>, <<expression.out>>, expression)

parse_column_reference(p) ==
  LET first == Parse("identifier", p)
      name  == Parse("identifier", Bump(first))
  IN IF At(first, {"."}) THEN Node(p, "column_reference", <<>>, <<first.out, name.out>>, name)
     ELSE Node(p, "column_reference", <<>>, << <<>>, first.out>>, first)

RECURSIVE Branches(_)
Branches(p) ==
  LET branch == Parse("when_clause", p)
      rest   == Branches(branch)
  IN IF At(branch, {"WHEN"}) THEN [rest EXCEPT !.out = branch.out \o @] ELSE branch

parse_case_expression(p) ==
  LET branches == Branches(Bump(p))
      other    == After("ELSE", "expression", branches)
  IN Node(p, "case", <<>>, <<branches.out, other.out>>, Expect(other, "END"))

parse_when_clause(p) ==
  LET condition == Parse("expression", Expect(p, "WHEN"))
      result    == Parse("expression", Expect(condition, "THEN"))
  IN Node(p, "when_clause", <<>>, <<condition.out, result.out>>, result)

parse_cast_expression(p) ==
  LET expression == Parse("expression", Expect(Bump(p), "("))
      type       == Expect(expression, "AS")
  IN Node(p, "cast", <<Peek(type, 0)>>, <<expression.out>>,
          Expect(ExpectAny(type, {"BOOLEAN", "INT64", "TEXT"}), ")"))

(* "(", what is within, ")".                                               *)
InParentheses(name, p) == Expect(Parse(name, Expect(p, "(")), ")")

parse_parenthesized_expression(p) ==
  LET inner == InParentheses("expression", p)
  IN Node(p, "parenthesized", <<>>, <<inner.out>>, inner)

parse_exists_expression(p) ==
  LET query == InParentheses("query_expression", Bump(p))
  IN Node(p, "exists", <<>>, <<query.out>>, query)

parse_aggregate_window(p) ==
  LET partition == SeveralAfter("PARTITION", "expression", Expect(Bump(p), "("))
  IN Node(p, "window", <<>>, <<partition.out>>, Expect(partition, ")"))

parse_aggregate_expression(p) ==
  LET opened   == Expect(Bump(p), "(")
      argument == IF At(p, {"COUNT"}) /\ At(opened, {"*"}) THEN Leaf("star", opened)
                  ELSE Parse("expression", opened)
      closed   == Expect(argument, ")")
      window   == IF At(closed, {"OVER"}) THEN parse_aggregate_window(closed) ELSE Nothing(closed)
  IN Node(p, "aggregate", <<Peek(p, 0)>>, <<argument.out, window.out>>, window)

parse_ranking_expression(p) ==
  LET over      == Expect(Expect(Expect(Expect(Bump(p), "("), ")"), "OVER"), "(")
      partition == SeveralAfter("PARTITION", "expression", over)
      order     == Several("order_item", Expect(Expect(partition, "ORDER"), "BY"))
  IN Node(p, "ranking", <<Peek(p, 0)>>, <<partition.out, order.out>>, Expect(order, ")"))

parse_primary_expression(p) ==
  CASE At(p, {"integer", "text", "TRUE", "FALSE", "NULL"}) -> Leaf("literal", p)
    [] At(p, Identifiers)        -> parse_column_reference(p)
    [] At(p, {"("})              -> parse_parenthesized_expression(p)
    [] At(p, {"CASE"})           -> parse_case_expression(p)
    [] At(p, {"CAST"})           -> parse_cast_expression(p)
    [] At(p, {"EXISTS"})         -> parse_exists_expression(p)
    [] At(p, AggregateFunctions) -> parse_aggregate_expression(p)
    [] At(p, RankingFunctions)   -> parse_ranking_expression(p)
    [] OTHER                     -> Error(p)

Parse(name, p) ==
  CASE ~ p.ok -> p
    [] name = "query_expression"  -> parse_query_expression(p)
    [] name = "common_table_expression" -> parse_common_table_expression(p)
    [] name = "union_or_except_expression" ->
         Operands("intersect_expression", "set", {"UNION", "EXCEPT"}, p)
    [] name = "intersect_expression" -> Operands("query_primary", "set", {"INTERSECT"}, p)
    [] name = "query_primary"     -> parse_query_primary(p)
    [] name = "select_query"      -> parse_select_query(p)
    [] name = "select_item"       -> parse_select_item(p)
    [] name = "joined_table"      -> parse_joined_table(p)
    [] name = "join"              -> parse_join(p)
    [] name = "table_primary"     -> parse_table_primary(p)
    [] name = "optional_alias"    -> parse_optional_alias(p)
    [] name = "order_item"        -> parse_order_item(p)
    [] name = "row_bound"         -> parse_row_bound(p)
    [] name = "expression"        -> Operands("and_expression", "binary", {"OR"}, p)
    [] name = "and_expression"    -> Operands("not_expression", "binary", {"AND"}, p)
    [] name = "not_expression"    -> parse_not_expression(p)
    [] name = "predicate_expression" -> parse_predicate_expression(p)
    [] name = "concatenation_expression" ->
         Operands("additive_expression", "binary", {"||"}, p)
    [] name = "additive_expression" ->
         Operands("multiplicative_expression", "binary", {"+", "-"}, p)
    [] name = "multiplicative_expression" ->
         Operands("unary_expression", "binary", {"*", "/", "%"}, p)
    [] name = "unary_expression"  -> parse_unary_expression(p)
    [] name = "primary_expression" -> parse_primary_expression(p)
    [] name = "when_clause"       -> parse_when_clause(p)
    [] name = "identifier"        -> parse_identifier(p)
    [] name = "integer"           -> parse_integer_literal(p)

(* A whole program; the semicolon belongs to its span.                     *)
parse_program(tokens) ==
  LET start == [tokens |-> tokens, at |-> 1, ok |-> TRUE, out |-> <<>>]
      query == Parse("query_expression", start)
      ended == Eat(query, ";")
      whole == IF Peek(ended, 0) = "end of input" THEN ended ELSE Error(ended)
  IN Node(start, "program", Between(query, ended), <<query.out>>, whole)
=============================================================================
