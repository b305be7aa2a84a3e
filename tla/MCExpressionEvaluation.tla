----------------------- MODULE MCExpressionEvaluation -----------------------
(***************************************************************************)
(* Instances of ExpressionEvaluation for TLC: a two-bit INT64, ten strings *)
(* that include numerals outside it, and queries that are empty, hold a    *)
(* NULL, and fail.                                                         *)
(***************************************************************************)
EXTENDS ExpressionEvaluation

CONSTANTS f1, f2, f3, one, none, broken

(* "+1" "-1" "-2" "-3" "0" "1" "2" "FALSE" "TRUE" "true", in byte order.   *)
MCTexts == 0 .. 9
MCNumeralOf == [t \in MCTexts |->
  CASE t = 0 -> 1 [] t = 1 -> -1 [] t = 2 -> -2 [] t = 3 -> -3 [] t = 4 -> 0
    [] t = 5 -> 1 [] t = 6 -> 2 [] OTHER -> NotANumeral]
MCTruthOf == [t \in MCTexts |->
  IF t = 7 THEN "FALSE" ELSE IF t \in {8, 9} THEN "TRUE" ELSE "neither"]
MCTextOfInt == [n \in -2 .. 1 |-> CASE n = -2 -> 2 [] n = -1 -> 1 [] n = 0 -> 4 [] n = 1 -> 5]
MCTextOfTruth == [t \in {"TRUE", "FALSE"} |-> IF t = "TRUE" THEN 8 ELSE 7]

MCIntMin == -2

NullableInt  == Descriptor("INT64", TRUE)
PlainInt     == Descriptor("INT64", FALSE)
NullableBool == Descriptor("BOOLEAN", TRUE)
PlainBool    == Descriptor("BOOLEAN", FALSE)
PlainText    == Descriptor("TEXT", FALSE)

MCSchema == <<Field(f1, NullableInt), Field(f2, PlainInt), Field(f3, NullableBool)>>

(* Every row of the schema.                                                *)
Integers5 == <<Int64(-2), Int64(-1), Int64(0), Int64(1), Null>>
Truths3   == <<Boolean(FALSE), Boolean(TRUE), Null>>
MCRows ==
  [k \in 1 .. 60 |->
     <<Integers5[1 + (k % 5)], Integers5[1 + ((k \div 5) % 4)], Truths3[1 + ((k \div 20) % 3)]>>]

Query(fields, failure, rows) == [schema |-> fields, failure |-> failure, rows |-> rows]

MCQueries == [q \in {one, none, broken} |->
  CASE q = one  -> Query(<<Field(f1, NullableInt)>>, Null, <<<<Int64(1)>>, <<Null>>>>)
    [] q = none -> Query(<<Field(f2, PlainInt)>>, Null, <<>>)
    [] OTHER    -> Query(<<Field(f2, PlainInt)>>, IntegerOverflow, <<>>)]

Fields == {FieldRef(f1, NullableInt), FieldRef(f2, PlainInt), FieldRef(f3, NullableBool)}

Literals ==
  {Literal(Int64(n), PlainInt) : n \in {-2, -1, 0}}
   \cup {Literal(Boolean(t), PlainBool) : t \in BOOLEAN}
   \cup {Literal(Text(t), PlainText) : t \in {3, 5, 9}}
   \cup {Literal(Null, d) : d \in {NullableInt, NullableBool}}

(* Leaves of every kind, wrongly annotated ones among them.                *)
MCLeaves ==
  Fields \cup Literals \cup {Exists(q) : q \in DOMAIN MCQueries}
   \cup {FieldRef(f1, PlainInt), FieldRef(none, PlainInt), Literal(Null, PlainInt)}

MCCompanions ==
  {FieldRef(f1, NullableInt), FieldRef(f3, NullableBool), Exists(broken),
   Literal(Int64(-1), PlainInt)}
=============================================================================
