--------------------------- MODULE SourceParsing ---------------------------
(***************************************************************************)
(* Programs that are typed, and what parse makes of them: from a program   *)
(* the grammar derives, a name is replaced by a larger phrase, or a token  *)
(* slips in or is lost.  The parser is SourceParser; it is compared with   *)
(* the grammar of docs 06 and with the text it has read.                   *)
(***************************************************************************)
EXTENDS SourceGrammar, SourceParser

CONSTANTS
  Programs,    \* the programs to start from
  Phrases,     \* what a name may be replaced by
  Tokens,      \* the tokens that may slip in
  MaxEdits,    \* the number of changes
  MaxTokens    \* the length of a program that is changed again

VARIABLES
  source,      \* the classes of the program's tokens
  parsed,      \* what parse_program has returned for it
  edits,       \* the number of changes so far
  first, last  \* what has been put in last, or the whole program

parsingVars == <<source, parsed, edits, first, last>>

-----------------------------------------------------------------------------
Init ==
  /\ source \in Programs
  /\ parsed = parse_program(source)
  /\ edits = 0
  /\ first = 1 /\ last = Len(source)

(* A program is changed where it was changed before.                       *)
Replace(i, j, phrase) ==
  /\ parsed.ok /\ edits < MaxEdits /\ Len(source) <= MaxTokens
  /\ source' = SubSeq(source, 1, i - 1) \o phrase \o SubSeq(source, j, Len(source))
  /\ parsed' = parse_program(source')
  /\ edits' = edits + 1
  /\ first' = i /\ last' = i + Len(phrase) - 1

Elaborate ==
  \E i \in first .. last, phrase \in Phrases :
    /\ source[i] = "regular"
    /\ Replace(i, i + 1, phrase)

SlipIn == \E i \in first .. last + 1, t \in Tokens : Replace(i, i, <<t>>)

Lose == \E i \in first .. last : Replace(i, i + 1, <<>>)

Next == Elaborate \/ SlipIn \/ Lose

ParsingSpec == Init /\ [][Next]_parsingVars

-----------------------------------------------------------------------------
(* The text of a syntax tree, without the words that may be left out.      *)

RECURSIVE Text(_), Led(_, _)

(* A clause, if there is any of it: words, and a list with commas.         *)
Led(words, nodes) ==
  IF nodes = <<>> THEN <<>> ELSE words \o Text(Head(nodes)) \o Led(<<",">>, Tail(nodes))

Parenthesized(text) == <<"(">> \o text \o <<")">>

Text(n) ==
  LET Part(k)  == Led(<<>>, n.parts[k])
      Each(k)  == FlattenSeq([i \in DOMAIN n.parts[k] |-> Text(n.parts[k][i])])
      Over(window) == <<"OVER">> \o Parenthesized(window)
  IN CASE n.kind \in {"identifier", "literal", "star"} -> n.words
       [] n.kind = "program"       -> Part(1) \o n.words
       [] n.kind = "query"         ->
            Led(<<"WITH">>, n.parts[1]) \o Part(2) \o Led(<<"ORDER", "BY">>, n.parts[3]) \o Part(4)
       [] n.kind = "common_table_expression" -> Part(1) \o <<"AS">> \o Parenthesized(Part(2))
       [] n.kind \in {"set", "binary"} -> Part(1) \o n.words \o Part(2)
       [] n.kind = "parenthesized" -> Parenthesized(Part(1))
       [] n.kind = "select"        ->
            <<"SELECT">> \o n.words \o Part(1) \o Led(<<"FROM">>, n.parts[2])
              \o Led(<<"WHERE">>, n.parts[3]) \o Led(<<"GROUP", "BY">>, n.parts[4])
              \o Led(<<"HAVING">>, n.parts[5])
       [] n.kind = "wildcard"      ->
            (IF n.parts[1] = <<>> THEN <<>> ELSE Part(1) \o <<".">>) \o <<"*">>
       [] n.kind \in {"select_item", "named"} -> Part(1) \o Part(2)
       [] n.kind = "derived"       -> Parenthesized(Part(1)) \o Part(2)
       [] n.kind = "joined_table"  -> Part(1) \o Each(2)
       [] n.kind = "join"          ->
            (IF n.words = <<"INNER">> THEN <<>> ELSE n.words) \o <<"JOIN">> \o Part(1)
              \o Led(<<"ON">>, n.parts[2])
       [] n.kind = "order_item"    -> Part(1) \o n.words
       [] n.kind = "row_bound"     -> Led(<<"LIMIT">>, n.parts[1]) \o Led(<<"OFFSET">>, n.parts[2])
       [] n.kind = "unary"         -> n.words \o Part(1)
       [] n.kind = "is_null"       -> Part(1) \o <<"IS">> \o n.words \o <<"NULL">>
       [] n.kind \in {"in_list", "in_query"} ->
            Part(1) \o n.words \o <<"IN">> \o Parenthesized(Part(2))
       [] n.kind = "column_reference" ->
            (IF n.parts[1] = <<>> THEN <<>> ELSE Part(1) \o <<".">>) \o Part(2)
       [] n.kind = "case"          ->
            <<"CASE">> \o Each(1) \o Led(<<"ELSE">>, n.parts[2]) \o <<"END">>
       [] n.kind = "when_clause"   -> <<"WHEN">> \o Part(1) \o <<"THEN">> \o Part(2)
       [] n.kind = "cast"          -> <<"CAST">> \o Parenthesized(Part(1) \o <<"AS">> \o n.words)
       [] n.kind = "exists"        -> <<"EXISTS">> \o Parenthesized(Part(1))
       [] n.kind = "aggregate"     -> n.words \o Parenthesized(Part(1)) \o Part(2)
       [] n.kind = "window"        -> Over(Led(<<"PARTITION", "BY">>, n.parts[1]))
       [] n.kind = "ranking"       ->
            n.words \o <<"(", ")">>
              \o Over(Led(<<"PARTITION", "BY">>, n.parts[1]) \o Led(<<"ORDER", "BY">>, n.parts[2]))

(* The tokens that a tree must show: all but OUTER, INNER, and AS before   *)
(* an alias.  Row bounds are told apart by their words, not their order.   *)
RECURSIVE Significant(_)
Significant(tokens) ==
  LET Starts(words) ==
        /\ Len(words) <= Len(tokens)
        /\ \A k \in DOMAIN words : tokens[k] = words[k]
      From(k) == Significant(SubSeq(tokens, k, Len(tokens)))
  IN CASE tokens = <<>> -> <<>>
       [] Starts(<<"OFFSET", "integer", "LIMIT", "integer">>) ->
            <<"LIMIT", "integer", "OFFSET", "integer">> \o From(5)
       [] \/ Starts(<<"OUTER">>) \/ Starts(<<"INNER">>)
          \/ \E kind \in Identifiers : Starts(<<"AS", kind>>) -> From(2)
       [] OTHER -> <<tokens[1]>> \o From(2)

-----------------------------------------------------------------------------
(* How tightly the outermost operator of n binds (docs 06, 4 and 8).       *)
Tightness(n) ==
  LET op == n.words[1]
  IN CASE n.kind = "binary" /\ op = "OR"  -> 1
       [] n.kind = "binary" /\ op = "AND" -> 2
       [] n.kind = "unary" /\ op = "NOT"  -> 3
       [] n.kind \in {"is_null", "in_list", "in_query"} -> 4
       [] n.kind = "binary" /\ op \in Comparisons -> 4
       [] n.kind = "binary" /\ op = "||"  -> 5
       [] n.kind = "binary" /\ op \in {"+", "-"} -> 6
       [] n.kind = "binary" /\ op \in {"*", "/", "%"} -> 7
       [] n.kind = "unary"                -> 8
       [] n.kind = "set" /\ op = "INTERSECT" -> 2
       [] n.kind = "set"                  -> 1
       [] OTHER                           -> 9

(* Operators of one precedence associate from the left, prefix operators   *)
(* from the right, and predicates do not associate.                        *)
WellGrouped(n) ==
  /\ n.kind \in {"set", "binary", "is_null", "in_list", "in_query"} =>
       LET left == Tightness(n.parts[1][1])
       IN left > Tightness(n) \/ (left = Tightness(n) /\ left # 4)
  /\ n.kind \in {"set", "binary"} => Tightness(n.parts[2][1]) > Tightness(n)
  /\ n.kind = "unary" => Tightness(n.parts[1][1]) >= Tightness(n)

RECURSIVE ReadsBack(_, _)
ReadsBack(tokens, n) ==
  /\ WellGrouped(n)
  /\ Text(n) = Significant(SubSeq(tokens, n.first, n.last))
  /\ \A k \in DOMAIN n.parts : \A i \in DOMAIN n.parts[k] : ReadsBack(tokens, n.parts[k][i])

-----------------------------------------------------------------------------
(* parse accepts the token sequences that match the grammar and no others, *)
(* although it never goes back: one or two tokens of lookahead decide      *)
(* between alternatives that begin alike, the parentheses after IN are     *)
(* passed over, and the words that may be left out take nothing away from  *)
(* what follows them.                                                      *)
AcceptsTheGrammar == parsed.ok <=> Derivable(source)

(* The tree shows the program: every node says what its own span of the    *)
(* source says, clause by clause and operand by operand, and operators are *)
(* grouped by the precedence and associativity of docs 06.                 *)
TreeShowsTheSource == parsed.ok => ReadsBack(source, parsed.out[1])

(* The error points at the first token that no program could have in that  *)
(* place, or at the end of a program that could go on; only a NOT that no  *)
(* IN follows is refused itself, and not what follows it.                  *)
ErrorIsWhereItGoesWrong ==
  ~ parsed.ok =>
    \/ parsed.at = WrongAt(source)
    \/ parsed.at + 1 = WrongAt(source) /\ source[parsed.at] = "NOT"
=============================================================================
