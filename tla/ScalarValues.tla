---------------------------- MODULE ScalarValues ----------------------------
(***************************************************************************)
(* The values of Shape IR and the scalar operations of src/evaluation.rs:  *)
(* checked INT64 arithmetic, comparison, three-valued equality, casts.     *)
(*                                                                         *)
(* INT64 keeps its two bounds, which are constants.  A TEXT value is one   *)
(* of finitely many strings, numbered in the order of their bytes; what a  *)
(* cast reads from a string or writes is given by constant functions.      *)
(***************************************************************************)
EXTENDS Integers, Sequences

CONSTANTS
  IntMin, IntMax,   \* i64::MIN and i64::MAX
  Texts,            \* the strings
  NumeralOf,        \* the integer a string is a numeral of, or NotANumeral
  TruthOf,          \* string -> "TRUE", "FALSE" or "neither", case ignored
  TextOfInt,        \* the canonical numeral of each INT64
  TextOfTruth,      \* truth value -> string
  NotANumeral

ASSUME IntRangeAssumption == IntMin \in Int /\ IntMax = -IntMin - 1 /\ IntMin < 0
ASSUME TextAssumption ==
  /\ Texts \subseteq Nat
  /\ DOMAIN NumeralOf = Texts
  /\ \A t \in Texts : NumeralOf[t] \in Int \cup {NotANumeral}
  /\ TruthOf \in [Texts -> {"TRUE", "FALSE", "neither"}]
  /\ TextOfInt \in [IntMin .. IntMax -> Texts]
  /\ TextOfTruth \in [{"TRUE", "FALSE"} -> Texts]

Scalars == {"BOOLEAN", "INT64", "TEXT"}

(* A value, or what an evaluation gives instead of one: a semantic error,  *)
(* or a branch the code marks unreachable.                                 *)
Tagged(tag, v) == [scalar |-> tag, v |-> v]

Null       == Tagged("null", 0)
Boolean(b) == Tagged("BOOLEAN", IF b THEN 1 ELSE 0)
Int64(n)   == Tagged("INT64", n)
Text(t)    == Tagged("TEXT", t)

IntegerOverflow  == Tagged("error", 1)
DivisionByZero   == Tagged("error", 2)
RemainderByZero  == Tagged("error", 3)
InvalidTextCast  == Tagged("error", 4)
Unreachable      == Tagged("unreachable", 0)

True == Boolean(TRUE)

Failed(r) == r.scalar \in {"error", "unreachable"}

Int64Values == IntMin .. IntMax

ScalarValues(scalar) ==
  CASE scalar = "BOOLEAN" -> {Boolean(b) : b \in BOOLEAN}
    [] scalar = "INT64"   -> {Int64(n) : n \in Int64Values}
    [] scalar = "TEXT"    -> {Text(t) : t \in Texts}

-----------------------------------------------------------------------------
(* checked_add and its like: the exact value when INT64 has it.            *)
Checked(n) == IF n \in Int64Values THEN Int64(n) ELSE IntegerOverflow

Abs(n) == IF n < 0 THEN -n ELSE n

(* The quotient truncated towards zero.                                    *)
Quotient(a, b) ==
  IF (a < 0) = (b < 0) THEN Abs(a) \div Abs(b) ELSE -(Abs(a) \div Abs(b))

(* Mutant: the remainder of the floored division.                          *)
FlooredRemainder(a, b) ==
  IF b = 0 THEN RemainderByZero
  ELSE Int64(IF b = -1 THEN 0 ELSE a - b * (IF b > 0 THEN a \div b ELSE (-a) \div (-b)))

(* The remainder by -1 is zero also where the quotient is not an INT64.    *)
Remainder(a, b) ==
  IF b = 0 THEN RemainderByZero
  ELSE Int64(IF b = -1 THEN 0 ELSE a - b * Quotient(a, b))

Divide(a, b) == IF b = 0 THEN DivisionByZero ELSE Checked(Quotient(a, b))

(* What exact division of a by b gives: a = q * b + r, r smaller than b and *)
(* of the sign of a.                                                       *)
ExactDivision(op, a, b, v) ==
  IF b = 0
  THEN v = IF op = "divide" THEN DivisionByZero ELSE RemainderByZero
  ELSE \E q \in Int64Values \cup {-IntMin} :
         LET r == a - q * b
         IN /\ Abs(r) < Abs(b) /\ (r = 0 \/ (r < 0) = (a < 0))
            /\ v = IF op = "divide" THEN Checked(q) ELSE Int64(r)

Arithmetic(op, a, b) ==
  CASE op = "add"       -> Checked(a + b)
    [] op = "subtract"  -> Checked(a - b)
    [] op = "multiply"  -> Checked(a * b)
    [] op = "divide"    -> Divide(a, b)
    [] op = "remainder" -> Remainder(a, b)

(* compare_non_null: FALSE before TRUE, integers, texts by their bytes.    *)
Compared(op, a, b) ==
  CASE op = "equal"            -> a.v = b.v
    [] op = "not_equal"        -> a.v # b.v
    [] op = "less"             -> a.v < b.v
    [] op = "less_or_equal"    -> ~ a.v > b.v
    [] op = "greater"          -> a.v > b.v
    [] op = "greater_or_equal" -> ~ a.v < b.v

ArithmeticOps == {"add", "subtract", "multiply", "divide", "remainder"}
ComparisonOps ==
  {"equal", "not_equal", "less", "less_or_equal", "greater", "greater_or_equal"}

(* evaluate_unary, for a value that is not NULL.                           *)
Unary(op, a) ==
  CASE op = "positive" /\ a.scalar = "INT64"   -> a
    [] op = "negative" /\ a.scalar = "INT64"   -> Checked(-a.v)
    [] op = "not"      /\ a.scalar = "BOOLEAN" -> Boolean(a.v = 0)
    [] OTHER -> Unreachable

(* The strict part of evaluate_binary, for values that are not NULL.       *)
Binary(op, a, b) ==
  IF op \in ArithmeticOps
  THEN IF a.scalar = "INT64" /\ b.scalar = "INT64" THEN Arithmetic(op, a.v, b.v) ELSE Unreachable
  ELSE IF a.scalar = b.scalar THEN Boolean(Compared(op, a, b)) ELSE Unreachable

(* ordinary_equal: unknown, here NULL, when either side is NULL.           *)
OrdinaryEqual(a, b) ==
  IF a = Null \/ b = Null THEN Null ELSE Binary("equal", a, b)

(* IN over a list or a query column: no candidate ends the search.         *)
AnyOf(verdicts) ==
  IF Unreachable \in verdicts THEN Unreachable
  ELSE IF True \in verdicts THEN True
  ELSE IF Null \in verdicts THEN Null
  ELSE Boolean(FALSE)

Membership(value, candidates) ==
  AnyOf({OrdinaryEqual(value, candidates[i]) : i \in DOMAIN candidates})

(* parse_text_int64: a numeral outside INT64 is as invalid as no numeral.  *)
ParseInt(t) ==
  IF NumeralOf[t] \in Int64Values THEN Int64(NumeralOf[t]) ELSE InvalidTextCast

(* evaluate_cast, for a value that is not NULL.                            *)
Cast(a, target) ==
  CASE a.scalar = target -> a
    [] a.scalar = "INT64" /\ target = "TEXT" -> Text(TextOfInt[a.v])
    [] a.scalar = "BOOLEAN" /\ target = "TEXT" ->
         Text(TextOfTruth[IF a.v = 1 THEN "TRUE" ELSE "FALSE"])
    [] a.scalar = "TEXT" /\ target = "INT64" -> ParseInt(a.v)
    [] a.scalar = "TEXT" /\ target = "BOOLEAN" ->
         IF TruthOf[a.v] = "neither" THEN InvalidTextCast ELSE Boolean(TruthOf[a.v] = "TRUE")
    [] OTHER -> Unreachable
=============================================================================
