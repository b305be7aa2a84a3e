-------------------------- MODULE MCSourceParsing --------------------------
(***************************************************************************)
(* An instance of SourceParsing for TLC: three small programs, a phrase    *)
(* for every production of the grammar, and one or two tokens of every     *)
(* class that the parser tells apart.                                      *)
(***************************************************************************)
EXTENDS SourceParsing

name == "regular"

Query == <<"SELECT", name, "FROM", name>>

MCPrograms ==
  {Query, <<"(">> \o Query \o <<")">>,
   <<"WITH", name, "AS", "(">> \o Query \o <<")">> \o Query}

(* What may stand for an operand.                                          *)
Operators == {"OR", "AND", "=", "||", "+", "-", "*", "/"}

Expressions ==
  {<<name, op, name>> : op \in Operators}
    \cup {<<op, name>> : op \in {"NOT", "-", "+"}}
    \cup {<<name, "IS", "NULL">>, <<name, "IS", "NOT", "NULL">>,
          <<name, "IN", "(", name, ")">>, <<name, "NOT", "IN", "(", name, ",", name, ")">>,
          <<name, "IN", "(">> \o Query \o <<")">>,
          <<name, "IN", "(", "(">> \o Query \o <<")", ")">>,
          <<"(", name, ")">>, <<name, ".", name>>, <<"integer">>, <<"delimited">>,
          <<"CASE", "WHEN", name, "THEN", name, "WHEN", name, "THEN", name, "END">>,
          <<"CASE", "WHEN", name, "THEN", name, "ELSE", name, "END">>,
          <<"CAST", "(", name, "AS", "TEXT", ")">>,
          <<"EXISTS", "(">> \o Query \o <<")">>,
          <<"COUNT", "(", "*", ")">>, <<"SUM", "(", name, ")">>,
          <<"MIN", "(", name, ")", "OVER", "(", ")">>,
          <<"COUNT", "(", name, ")", "OVER", "(", "PARTITION", "BY", name, ")">>,
          <<"RANK", "(", ")", "OVER", "(", "ORDER", "BY", name, ")">>,
          <<"ROW_NUMBER", "(", ")", "OVER", "(", "PARTITION", "BY", name,
            "ORDER", "BY", name, "DESC", ")">>}

(* What may stand for an item of the select list, or for a table.          *)
Items == {<<name, ",", name>>, <<"*">>, <<name, ".", "*">>, <<name, "AS", name>>, <<name, name>>,
          <<"DISTINCT", name>>}

Tables ==
  {<<"(">> \o Query \o <<")", "AS", name>>, <<"(">> \o Query \o <<")", name>>,
   <<name, "CROSS", "JOIN", name>>}
    \cup {<<name>> \o kind \o <<"JOIN", name, "ON", name>> :
            kind \in {<<>>, <<"INNER">>, <<"LEFT">>, <<"RIGHT", "OUTER">>, <<"FULL">>}}

(* What may follow a name at the end of a query.                           *)
Clauses ==
  {<<name, "WHERE", name>>, <<name, "GROUP", "BY", name>>, <<name, "HAVING", name>>,
   <<name, "ORDER", "BY", name>>, <<name, "ORDER", "BY", name, "DESC", "NULLS", "FIRST">>,
   <<name, "ORDER", "BY", name, "LIMIT", "integer", "OFFSET", "integer">>,
   <<name, "ORDER", "BY", name, "OFFSET", "integer", "LIMIT", "integer">>, <<name, ";">>}
    \cup {<<name>> \o op \o Query : op \in {<<"UNION">>, <<"EXCEPT", "ALL">>, <<"INTERSECT">>}}

MCPhrases == Expressions \cup Items \cup Tables \cup Clauses

MCTokens ==
  Operators \cup Identifiers
    \cup {"integer", "TRUE", "NOT", "NULL", "IS", "IN", "CASE", "WHEN", "THEN", "ELSE", "END", "CAST", "AS",
          "INT64", "EXISTS", "MAX", "COUNT", "OVER", "PARTITION", "BY", "RANK", "ORDER", "ASC", "NULLS",
          "LAST", "LIMIT", "OFFSET", "SELECT", "DISTINCT", "FROM", "WHERE", "GROUP", "HAVING",
          "UNION", "INTERSECT", "ALL", "WITH", "JOIN", "INNER", "CROSS", "LEFT", "OUTER", "ON",
          "(", ")", ",", ".", ";"}
=============================================================================
