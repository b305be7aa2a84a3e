---------------------------- MODULE ScalarProofs ----------------------------
(***************************************************************************)
(* Lemmas about the scalar rules, one operator at a time: what the         *)
(* evaluator gives an operator fits the descriptor the validator derives   *)
(* for it, for every width of INT64, every set of strings and queries,     *)
(* every schema and row.                                                   *)
(***************************************************************************)
EXTENDS ScalarRules, WellFoundedInduction, SequenceTheorems, FiniteSetTheorems, TLAPS

(* What evaluation gives an expression of descriptor d.                    *)
Fits(v, d) ==
  \/ v \in Errors
  \/ v \in ScalarValues(d.scalar)
  \/ v = Null /\ d.nullable

-----------------------------------------------------------------------------
(* Arithmetic.                                                             *)

LEMMA QuotientFacts ==
  ASSUME NEW a \in Int, NEW b \in Int, b # 0
  PROVE  /\ Quotient(a, b) \in Int
         /\ Abs(a - Quotient(a, b) * b) < Abs(b)
         /\ a - Quotient(a, b) * b = 0 \/ (a - Quotient(a, b) * b < 0) = (a < 0)
         /\ -Abs(a) <= Quotient(a, b) /\ Quotient(a, b) <= Abs(a)
<1> DEFINE k == Abs(a) \div Abs(b)
           m == Abs(a) % Abs(b)
<1>1. Abs(a) \in Nat /\ Abs(b) \in Nat \ {0}
  BY DEF Abs
<1>2. k \in Nat /\ m \in Nat /\ m < Abs(b) /\ Abs(a) = k * Abs(b) + m
  BY <1>1
<1> HIDE DEF k, m
<1>3. k <= Abs(a)
  <2>1. k <= k * Abs(b)
    BY <1>1, <1>2
  <2> QED
    BY <1>1, <1>2, <2>1
<1>4. CASE a >= 0 /\ b > 0
  <2>1. Quotient(a, b) = k /\ Abs(a) = a /\ Abs(b) = b
    BY <1>4 DEF Quotient, Abs, k
  <2>2. a - k * b = m
    BY <1>2, <2>1
  <2> QED
    BY <1>2, <1>3, <2>1, <2>2, <1>4 DEF Abs
<1>5. CASE a >= 0 /\ b < 0
  <2>1. Quotient(a, b) = -k /\ Abs(a) = a /\ Abs(b) = -b
    BY <1>5 DEF Quotient, Abs, k
  <2>2. a - (-k) * b = m
    BY <1>2, <2>1
  <2> QED
    BY <1>2, <1>3, <2>1, <2>2, <1>5 DEF Abs
<1>6. CASE a < 0 /\ b > 0
  <2>1. Quotient(a, b) = -k /\ Abs(a) = -a /\ Abs(b) = b
    BY <1>6 DEF Quotient, Abs, k
  <2>2. a - (-k) * b = -m
    BY <1>2, <2>1
  <2> QED
    BY <1>2, <1>3, <2>1, <2>2, <1>6 DEF Abs
<1>7. CASE a < 0 /\ b < 0
  <2>1. Quotient(a, b) = k /\ Abs(a) = -a /\ Abs(b) = -b
    BY <1>7 DEF Quotient, Abs, k
  <2>2. a - k * b = -m
    BY <1>2, <2>1
  <2> QED
    BY <1>2, <1>3, <2>1, <2>2, <1>7 DEF Abs
<1> QED
  BY <1>4, <1>5, <1>6, <1>7

(* The operators / and % of INT64: exact, and a remainder is an INT64.     *)
LEMMA DivisionFacts ==
  ASSUME NEW a \in Int64Values, NEW b \in Int64Values, NEW op \in {"divide", "remainder"}
  PROVE  ExactDivision(op, a, b, Arithmetic(op, a, b))
<1>1. /\ a \in Int /\ b \in Int /\ IntMin \in Int /\ IntMax = -IntMin - 1
      /\ IntMin <= a /\ a <= IntMax /\ IntMin <= b /\ b <= IntMax
  BY IntRangeAssumption DEF Int64Values
<1>2. CASE b = 0
  BY <1>2 DEF ExactDivision, Arithmetic, Divide, Remainder
<1>3. CASE b # 0
  <2> DEFINE q == Quotient(a, b)
             r == a - q * b
  <2>1. /\ q \in Int /\ Abs(r) < Abs(b) /\ (r = 0 \/ (r < 0) = (a < 0))
        /\ -Abs(a) <= q /\ q <= Abs(a)
    BY <1>1, <1>3, QuotientFacts
  <2> HIDE DEF q
  <2>2. q \in Int64Values \cup {-IntMin}
    BY <1>1, <2>1, IntRangeAssumption DEF Abs, Int64Values
  <2>3. CASE op = "divide"
    <3>1. Arithmetic(op, a, b) = Checked(q)
      BY <1>3, <2>3 DEF Arithmetic, Divide, q
    <3> QED
      BY <1>3, <2>1, <2>2, <2>3, <3>1 DEF ExactDivision
  <2>4. CASE op = "remainder"
    <3>1. b = -1 => r = 0
      <4>1. ASSUME b = -1 PROVE r = 0
        <5>1. r \in Int /\ Abs(r) < 1
          BY <1>1, <2>1, <4>1 DEF Abs
        <5> HIDE DEF r
        <5> QED
          BY <5>1 DEF Abs
      <4> QED
        BY <4>1
    <3>2. Arithmetic(op, a, b) = Int64(IF b = -1 THEN 0 ELSE a - b * q)
      BY <1>3, <2>4 DEF Arithmetic, Remainder, q
    <3>3. a - b * q = r
      BY <1>1, <2>1
    <3>4. Arithmetic(op, a, b) = Int64(r)
      BY <3>1, <3>2, <3>3
    <3> QED
      BY <1>3, <2>1, <2>2, <2>4, <3>4 DEF ExactDivision
  <2> QED
    BY <2>3, <2>4
<1> QED
  BY <1>2, <1>3

-----------------------------------------------------------------------------
(* Values.                                                                 *)

(* What an evaluation gives: a value or an error.                          *)
Results == Values \cup Errors

LEMMA ValueFacts ==
  /\ \A s \in Scalars : \A v \in ScalarValues(s) : v.scalar = s
  /\ \A v \in Errors : v.scalar = "error"
  /\ Null.scalar = "null"
  /\ ScalarValues("BOOLEAN") = {Boolean(FALSE), Boolean(TRUE)}
  /\ ScalarValues("INT64") = {Int64(n) : n \in Int64Values}
  /\ ScalarValues("TEXT") = {Text(t) : t \in Texts}
<1>1. /\ ScalarValues("BOOLEAN") = {Boolean(b) : b \in BOOLEAN}
      /\ ScalarValues("INT64") = {Int64(n) : n \in Int64Values}
      /\ ScalarValues("TEXT") = {Text(t) : t \in Texts}
  BY DEF ScalarValues
<1>2. \A b \in BOOLEAN : Boolean(b).scalar = "BOOLEAN"
  BY DEF Boolean, Tagged
<1>3. \A n : Int64(n).scalar = "INT64"
  BY DEF Int64, Tagged
<1>4. \A t : Text(t).scalar = "TEXT"
  BY DEF Text, Tagged
<1>5. {Boolean(b) : b \in BOOLEAN} = {Boolean(FALSE), Boolean(TRUE)}
  BY DEF Boolean
<1>6. \A s \in Scalars : \A v \in ScalarValues(s) : v.scalar = s
  <2>1. \A v \in ScalarValues("BOOLEAN") : v.scalar = "BOOLEAN"
    BY <1>1, <1>2
  <2>2. \A v \in ScalarValues("INT64") : v.scalar = "INT64"
    BY <1>1, <1>3
  <2>3. \A v \in ScalarValues("TEXT") : v.scalar = "TEXT"
    BY <1>1, <1>4
  <2> QED
    BY <2>1, <2>2, <2>3 DEF Scalars
<1>7. \A v \in Errors : v.scalar = "error"
  BY DEF Errors, IntegerOverflow, DivisionByZero, RemainderByZero, InvalidTextCast, Tagged
<1>8. Null.scalar = "null"
  BY DEF Null, Tagged
<1> QED
  BY <1>1, <1>5, <1>6, <1>7, <1>8

LEMMA DescriptorFacts ==
  ASSUME NEW d \in Descriptors
  PROVE  d.scalar \in Scalars /\ d.nullable \in BOOLEAN /\ d = Descriptor(d.scalar, d.nullable)
         /\ d # Invalid
BY DEF Descriptors, Descriptor, Scalars, Invalid

LEMMA WidenedFacts ==
  ASSUME NEW s, NEW x, NEW y
  PROVE  /\ Descriptor(s, x \/ y).scalar = s
         /\ x => Descriptor(s, x \/ y).nullable
         /\ y => Descriptor(s, x \/ y).nullable
BY DEF Descriptor

LEMMA FitsFacts ==
  ASSUME NEW d \in Descriptors, NEW v, Fits(v, d)
  PROVE  /\ Failed(v) <=> v \in Errors
         /\ ~ Failed(v) /\ v # Null => v \in ScalarValues(d.scalar) /\ v.scalar = d.scalar
         /\ v = Null => d.nullable /\ ~ Failed(v)
         /\ v \in Results
<1>1. d.scalar \in Scalars
  BY DescriptorFacts
<1>2. \A s \in Scalars : s \notin {"error", "unreachable", "null"}
  BY DEF Scalars
<1>3. CASE v \in Errors
  <2>1. v.scalar = "error" /\ Null.scalar = "null"
    BY <1>3, ValueFacts
  <2> QED
    BY <1>3, <2>1 DEF Failed, Results
<1>4. CASE v \in ScalarValues(d.scalar)
  <2>1. v.scalar = d.scalar /\ Null.scalar = "null" /\ \A e \in Errors : e.scalar = "error"
    BY <1>1, <1>4, ValueFacts
  <2>2. ~ Failed(v) /\ v \notin Errors /\ v # Null
    BY <1>1, <1>2, <2>1 DEF Failed
  <2> QED
    BY <1>1, <1>4, <2>1, <2>2 DEF Results, Values
<1>5. CASE v = Null /\ d.nullable
  <2>1. Null.scalar = "null" /\ \A e \in Errors : e.scalar = "error"
    BY ValueFacts
  <2>2. ~ Failed(v) /\ v \notin Errors
    BY <1>5, <2>1 DEF Failed
  <2>3. v \in Results
    <3>1. Null \in Results
      BY DEF Results, Values
    <3> QED
      BY <1>5, <3>1
  <2>4. Failed(v) <=> v \in Errors
    BY <2>2
  <2>5. d.nullable
    BY <1>5
  <2> QED
    BY <1>5, <2>2, <2>3, <2>4, <2>5
<1> QED
  BY <1>3, <1>4, <1>5 DEF Fits

(* A value that fits a descriptor fits one that allows more.               *)
LEMMA FitsWider ==
  ASSUME NEW d, NEW e, NEW v, Fits(v, d), e.scalar = d.scalar, d.nullable => e.nullable
  PROVE  Fits(v, e)
BY DEF Fits

LEMMA MinFacts ==
  ASSUME NEW S \in SUBSET Nat, S # {}
  PROVE  Min(S) \in S /\ \A n \in S : Min(S) <= n
<1>1. PICK i \in S : \A j \in S : <<j, i>> \notin OpToRel(<, Nat)
  BY WFMin, NatLessThanWellFounded
<1>2. ASSUME NEW j \in S, j < i PROVE <<j, i>> \in OpToRel(<, Nat)
  <2>1. <<j, i>> \in Nat \X Nat /\ <<j, i>>[1] < <<j, i>>[2]
    BY <1>2
  <2> QED
    BY <2>1, Zenon DEF OpToRel
<1>3. \A j \in S : i \in Nat /\ j \in Nat /\ i <= j
  <2>1. \A j \in S : ~ (j < i) /\ i \in Nat /\ j \in Nat
    BY <1>1, <1>2
  <2> QED
    BY <2>1
<1> QED
  BY <1>3 DEF Min

(* The first failure of what is required, or else the value.               *)
LEMMA RequireFacts ==
  ASSUME NEW r, DOMAIN r \subseteq Nat, NEW value
  PROVE  \/ \E i \in DOMAIN r : Failed(r[i]) /\ Require(r, value) = r[i]
         \/ (\A i \in DOMAIN r : ~ Failed(r[i])) /\ Require(r, value) = value
<1> DEFINE S == {i \in DOMAIN r : Failed(r[i])}
<1>1. CASE S = {}
  BY <1>1 DEF Require
<1>2. CASE S # {}
  <2>1. Min(S) \in S
    BY <1>2, MinFacts
  <2> QED
    BY <1>2, <2>1 DEF Require, FirstFailure
<1> QED
  BY <1>1, <1>2

(* A required result that fails, and then the value.                       *)
LEMMA RequireFits ==
  ASSUME NEW r, DOMAIN r \subseteq Nat, NEW value, NEW d,
         \A i \in DOMAIN r : Failed(r[i]) => r[i] \in Errors,
         (\A i \in DOMAIN r : ~ Failed(r[i])) => Fits(value, d)
  PROVE  Fits(Require(r, value), d)
<1>1. CASE \E i \in DOMAIN r : Failed(r[i]) /\ Require(r, value) = r[i]
  <2>1. Require(r, value) \in Errors
    BY <1>1
  <2> QED
    BY <2>1 DEF Fits
<1>2. CASE (\A i \in DOMAIN r : ~ Failed(r[i])) /\ Require(r, value) = value
  BY <1>2
<1> QED
  BY <1>1, <1>2, RequireFacts

(* The truth of any formula is a value.                                    *)
LEMMA TruthFacts ==
  ASSUME NEW b \in BOOLEAN
  PROVE  Boolean(b) \in ScalarValues("BOOLEAN")
<1>1. Boolean(b) \in {Boolean(FALSE), Boolean(TRUE)}
  OBVIOUS
<1> QED
  BY <1>1, ValueFacts

LEMMA CheckedFacts ==
  ASSUME NEW n \in Int
  PROVE  Checked(n) \in ScalarValues("INT64") \cup Errors
BY ValueFacts DEF Checked, Errors

(* Arithmetic gives an INT64 or an error.                                  *)
LEMMA ArithmeticFacts ==
  ASSUME NEW op \in ArithmeticOps, NEW a \in Int64Values, NEW b \in Int64Values
  PROVE  Arithmetic(op, a, b) \in ScalarValues("INT64") \cup Errors
<1>1. a \in Int /\ b \in Int /\ IntMin \in Int /\ IntMax = -IntMin - 1 /\ IntMin < 0
  BY IntRangeAssumption DEF Int64Values
<1>2. CASE op \in {"add", "subtract", "multiply"}
  <2>1. a + b \in Int /\ a - b \in Int /\ a * b \in Int
    BY <1>1
  <2>2. \/ Arithmetic(op, a, b) = Checked(a + b)
        \/ Arithmetic(op, a, b) = Checked(a - b)
        \/ Arithmetic(op, a, b) = Checked(a * b)
    BY <1>2 DEF Arithmetic
  <2> QED
    BY <2>1, <2>2, CheckedFacts
<1>3. CASE op \in {"divide", "remainder"}
  <2>1. ExactDivision(op, a, b, Arithmetic(op, a, b))
    BY <1>3, DivisionFacts
  <2>2. CASE b = 0
    BY <2>1, <2>2 DEF ExactDivision, Errors
  <2>3. CASE b # 0
    <3>1. PICK q \in Int64Values \cup {-IntMin} :
            /\ Abs(a - q * b) < Abs(b)
            /\ Arithmetic(op, a, b) = IF op = "divide" THEN Checked(q) ELSE Int64(a - q * b)
      BY <2>1, <2>3 DEF ExactDivision
    <3>2. q \in Int
      BY <1>1 DEF Int64Values
    <3>3. a - q * b \in Int
      BY <1>1, <3>2
    <3>4. a - q * b \in Int64Values
      BY <1>1, <3>1, <3>3 DEF Abs, Int64Values
    <3>5. Int64(a - q * b) \in ScalarValues("INT64")
      BY <3>4, ValueFacts
    <3> QED
      BY <3>1, <3>2, <3>5, CheckedFacts
  <2> QED
    BY <2>2, <2>3
<1> QED
  BY <1>2, <1>3 DEF ArithmeticOps

-----------------------------------------------------------------------------
(* The rule of each kind of expression is sound: arguments that fit their  *)
(* descriptors give a result that fits the derived one.                    *)

LEMMA UnaryFits ==
  ASSUME NEW op \in {"positive", "negative", "not"}, NEW d \in Descriptors, NEW v, Fits(v, d),
         d.scalar = IF op = "not" THEN "BOOLEAN" ELSE "INT64"
  PROVE  Fits(Require(<<v>>, IF v = Null THEN Null ELSE Unary(op, v)), d)
<1> DEFINE value == IF v = Null THEN Null ELSE Unary(op, v)
<1>1. ASSUME ~ Failed(v) PROVE Fits(value, d)
  <2>1. CASE v = Null
    BY <2>1 DEF Fits
  <2>2. CASE v # Null /\ op = "not"
    <3>1. v.scalar = "BOOLEAN"
      BY <1>1, <2>2, FitsFacts
    <3>2. value = Boolean(v.v = 0)
      BY <2>2, <3>1 DEF Unary
    <3>3. value \in ScalarValues("BOOLEAN")
      BY <3>2, TruthFacts
    <3> QED
      BY <2>2, <3>3 DEF Fits
  <2>3. CASE v # Null /\ op = "positive"
    <3>1. v.scalar = "INT64"
      BY <1>1, <2>3, FitsFacts
    <3> QED
      BY <2>3, <3>1 DEF Unary
  <2>4. CASE v # Null /\ op = "negative"
    <3>1. v \in ScalarValues("INT64") /\ v.scalar = "INT64"
      BY <1>1, <2>4, FitsFacts
    <3>2. PICK n \in Int64Values : v = Int64(n)
      BY <3>1, ValueFacts
    <3>3. v.v = n /\ n \in Int
      BY <3>2, IntRangeAssumption DEF Int64, Tagged, Int64Values
    <3>4. value = Checked(-n)
      BY <2>4, <3>1, <3>3 DEF Unary
    <3>5. value \in ScalarValues("INT64") \cup Errors
      BY <3>3, <3>4, CheckedFacts
    <3> QED
      BY <2>4, <3>5 DEF Fits
  <2> QED
    BY <2>1, <2>2, <2>3, <2>4
<1> HIDE DEF value
<1>2. Failed(v) => v \in Errors
  BY FitsFacts
<1>3. Fits(Require(<<v>>, value), d)
  <2>1. DOMAIN <<v>> = {1} /\ <<v>>[1] = v
    OBVIOUS
  <2> QED
    BY <1>1, <1>2, <2>1, RequireFits
<1> QED
  BY <1>3 DEF value

(* The two truth values.                                                   *)
LEMMA BooleanFacts ==
  ASSUME NEW d \in Descriptors, d.scalar = "BOOLEAN", NEW v, Fits(v, d)
  PROVE  \/ v \in Errors /\ Failed(v)
         \/ v = Null /\ d.nullable /\ ~ Failed(v)
         \/ v \in {Boolean(FALSE), Boolean(TRUE)} /\ ~ Failed(v) /\ v # Null
<1>1. v \in ScalarValues("BOOLEAN") => v \in {Boolean(FALSE), Boolean(TRUE)} /\ v.scalar = "BOOLEAN"
  BY ValueFacts DEF Scalars
<1>2. v.scalar = "BOOLEAN" => ~ Failed(v) /\ v # Null
  BY ValueFacts DEF Failed
<1>3. Failed(v) => v \in Errors
  BY FitsFacts
<1>4. v \in Errors => Failed(v)
  BY FitsFacts
<1>5. v = Null => d.nullable /\ ~ Failed(v)
  BY FitsFacts
<1> QED
  BY <1>1, <1>2, <1>3, <1>4, <1>5 DEF Fits

LEMMA ConditionalFits ==
  ASSUME NEW dominant \in BOOLEAN, NEW c \in Descriptors, NEW d \in Descriptors, NEW e \in Descriptors,
         NEW v, Fits(v, c), NEW w, Fits(w, d),
         c.scalar = "BOOLEAN", d.scalar = "BOOLEAN", e.scalar = "BOOLEAN",
         c.nullable => e.nullable, d.nullable => e.nullable
  PROVE  Fits(Conditional(dominant, v, w), e)
<1>1. Fits(v, e) /\ Fits(w, e)
  BY FitsWider
<1>2. CASE v \in Errors /\ Failed(v)
  BY <1>1, <1>2 DEF Conditional
<1>3. CASE v = Null /\ c.nullable /\ ~ Failed(v)
  <2>1. Null.scalar = "null" /\ Boolean(FALSE).scalar = "BOOLEAN" /\ Boolean(TRUE).scalar = "BOOLEAN"
    BY DEF Null, Boolean, Tagged
  <2>2. Conditional(dominant, v, w) \in {Null, w}
    BY <1>3, <2>1 DEF Conditional
  <2>3. Fits(Null, e)
    BY <1>3 DEF Fits
  <2> QED
    BY <1>1, <2>2, <2>3
<1>4. CASE v \in {Boolean(FALSE), Boolean(TRUE)} /\ ~ Failed(v)
  <2>1. Conditional(dominant, v, w) \in {v, w}
    BY <1>4 DEF Conditional
  <2> QED
    BY <1>1, <2>1
<1> QED
  BY <1>2, <1>3, <1>4, BooleanFacts

(* Comparisons and arithmetic of values that are not NULL.                 *)
LEMMA BinaryFits ==
  ASSUME NEW op, NEW c \in Descriptors, NEW d \in Descriptors, NEW v, NEW w,
         v \in ScalarValues(c.scalar), w \in ScalarValues(d.scalar),
         op \notin {"and", "or"}, BinaryDescriptor(op, c, d) # Invalid
  PROVE  Fits(Binary(op, v, w), BinaryDescriptor(op, c, d))
<1>1. v.scalar = c.scalar /\ w.scalar = d.scalar
  BY ValueFacts, DescriptorFacts
<1>2. CASE op \in ArithmeticOps
  <2>1. c.scalar = "INT64" /\ d.scalar = "INT64" /\ BinaryDescriptor(op, c, d).scalar = "INT64"
    BY <1>2 DEF BinaryDescriptor, ArithmeticOps, ComparisonOps, Descriptor
  <2>2. PICK a \in Int64Values, b \in Int64Values : v = Int64(a) /\ w = Int64(b)
    BY <2>1, ValueFacts
  <2>3. Binary(op, v, w) = Arithmetic(op, a, b)
    BY <1>1, <1>2, <2>1, <2>2 DEF Binary, Int64, Tagged
  <2>4. Binary(op, v, w) \in ScalarValues("INT64") \cup Errors
    BY <1>2, <2>3, ArithmeticFacts
  <2> QED
    BY <2>1, <2>4 DEF Fits
<1>3. CASE op \notin ArithmeticOps
  <2>1. c.scalar = d.scalar /\ BinaryDescriptor(op, c, d).scalar = "BOOLEAN" /\ op \in ComparisonOps
    BY <1>3 DEF BinaryDescriptor, Descriptor
  <2>2. Binary(op, v, w) = Boolean(Compared(op, v, w))
    BY <1>1, <1>3, <2>1 DEF Binary
  <2>3. Boolean(Compared(op, v, w)) \in {Boolean(FALSE), Boolean(TRUE)}
    BY DEF Boolean
  <2>4. Binary(op, v, w) \in ScalarValues("BOOLEAN")
    BY <2>2, <2>3, ValueFacts
  <2> QED
    BY <2>1, <2>4 DEF Fits
<1> QED
  BY <1>2, <1>3

LEMMA StrictFits ==
  ASSUME NEW op, NEW c \in Descriptors, NEW d \in Descriptors, NEW v, NEW w,
         Fits(v, c), Fits(w, d), op \notin {"and", "or"}, BinaryDescriptor(op, c, d) # Invalid
  PROVE  Fits(Strict(op, v, w), BinaryDescriptor(op, c, d))
<1> DEFINE value == IF v = Null \/ w = Null THEN Null ELSE Binary(op, v, w)
           e == BinaryDescriptor(op, c, d)
<1>1. c.nullable \/ d.nullable => e.nullable
  BY DEF BinaryDescriptor, Descriptor
<1>2. ASSUME ~ Failed(v), ~ Failed(w) PROVE Fits(value, e)
  <2>1. CASE v = Null \/ w = Null
    <3>1. c.nullable \/ d.nullable
      BY <2>1, FitsFacts
    <3> QED
      BY <1>1, <2>1, <3>1 DEF Fits
  <2>2. CASE v # Null /\ w # Null
    <3>1. v \in ScalarValues(c.scalar) /\ w \in ScalarValues(d.scalar)
      BY <1>2, <2>2, FitsFacts
    <3>2. Fits(Binary(op, v, w), e)
      BY <3>1, BinaryFits
    <3> QED
      BY <2>2, <3>2
  <2> QED
    BY <2>1, <2>2
<1> HIDE DEF value, e
<1>3. (Failed(v) => v \in Errors) /\ (Failed(w) => w \in Errors)
  BY FitsFacts
<1>4. Fits(Require(<<v, w>>, value), e)
  <2>1. DOMAIN <<v, w>> = {1, 2} /\ <<v, w>>[1] = v /\ <<v, w>>[2] = w
    OBVIOUS
  <2> QED
    BY <1>2, <1>3, <2>1, RequireFits
<1> QED
  BY <1>4 DEF Strict, value, e

LEMMA IsNullFits ==
  ASSUME NEW b \in BOOLEAN, NEW d \in Descriptors, NEW v, Fits(v, d)
  PROVE  Fits(Require(<<v>>, Boolean((v = Null) # b)), Descriptor("BOOLEAN", FALSE))
<1> DEFINE value == Boolean((v = Null) # b)
           e == Descriptor("BOOLEAN", FALSE)
<1>1. Fits(value, e)
  <2>1. value \in ScalarValues("BOOLEAN")
    BY TruthFacts
  <2> QED
    BY <2>1 DEF Fits, Descriptor
<1> HIDE DEF value, e
<1>2. Failed(v) => v \in Errors
  BY FitsFacts
<1>3. DOMAIN <<v>> = {1} /\ <<v>>[1] = v
  OBVIOUS
<1>4. Fits(Require(<<v>>, value), e)
  BY <1>1, <1>2, <1>3, RequireFits
<1> QED
  BY <1>4 DEF value, e

(* What a cast gives is a value of its target.                             *)
LEMMA CastFits ==
  ASSUME NEW target \in Scalars, NEW d \in Descriptors, NEW v, Fits(v, d),
         CastPermitted(d.scalar, target)
  PROVE  Fits(Require(<<v>>, IF v = Null THEN Null ELSE Cast(v, target)),
              Descriptor(target, d.nullable))
<1> DEFINE value == IF v = Null THEN Null ELSE Cast(v, target)
           e == Descriptor(target, d.nullable)
<1>1. e.scalar = target /\ e.nullable = d.nullable
  BY DEF Descriptor
<1> HIDE DEF e
<1>2. ASSUME ~ Failed(v) PROVE Fits(value, e)
  <2>1. CASE v = Null
    <3>1. e.nullable
      BY <1>1, <2>1, FitsFacts
    <3> QED
      BY <2>1, <3>1 DEF Fits
  <2>2. CASE v # Null
    <3>1. v \in ScalarValues(d.scalar) /\ v.scalar = d.scalar /\ d.scalar \in Scalars
      BY <1>2, <2>2, FitsFacts, DescriptorFacts
    <3>2. CASE d.scalar = target
      BY <1>1, <2>2, <3>1, <3>2 DEF Cast, Fits
    <3>3. CASE d.scalar = "INT64" /\ target = "TEXT"
      <4>1. PICK n \in Int64Values : v = Int64(n)
        BY <3>1, <3>3, ValueFacts
      <4>2. value = Text(TextOfInt[n])
        BY <2>2, <3>1, <3>3, <4>1 DEF Cast, Int64, Tagged
      <4>3. TextOfInt[n] \in Texts
        BY TextAssumption DEF Int64Values
      <4>4. value \in ScalarValues("TEXT")
        BY <4>2, <4>3, ValueFacts
      <4> QED
        BY <1>1, <3>3, <4>4 DEF Fits
    <3>4. CASE d.scalar = "BOOLEAN" /\ target = "TEXT"
      <4>1. PICK truth \in {"TRUE", "FALSE"} : value = Text(TextOfTruth[truth])
        BY <2>2, <3>1, <3>4 DEF Cast
      <4>2. TextOfTruth[truth] \in Texts
        BY TextAssumption
      <4>3. value \in ScalarValues("TEXT")
        BY <4>1, <4>2, ValueFacts
      <4> QED
        BY <1>1, <3>4, <4>3 DEF Fits
    <3>5. CASE d.scalar = "TEXT" /\ target = "INT64"
      <4>1. value = ParseInt(v.v)
        BY <2>2, <3>1, <3>5 DEF Cast
      <4>2. value \in ScalarValues("INT64") \cup Errors
        BY <4>1, ValueFacts DEF ParseInt, Errors
      <4> QED
        BY <1>1, <3>5, <4>2 DEF Fits
    <3>6. CASE d.scalar = "TEXT" /\ target = "BOOLEAN"
      <4>1. value = IF TruthOf[v.v] = "neither" THEN InvalidTextCast ELSE Boolean(TruthOf[v.v] = "TRUE")
        BY <2>2, <3>1, <3>6 DEF Cast
      <4>2. Boolean(TruthOf[v.v] = "TRUE") \in ScalarValues("BOOLEAN")
        BY TruthFacts
      <4>3. value \in ScalarValues("BOOLEAN") \cup Errors
        BY <4>1, <4>2 DEF Errors
      <4> QED
        BY <1>1, <3>6, <4>3 DEF Fits
    <3> QED
      BY <3>1, <3>2, <3>3, <3>4, <3>5, <3>6 DEF CastPermitted, Scalars
  <2> QED
    BY <2>1, <2>2
<1> HIDE DEF value
<1>3. Failed(v) => v \in Errors
  BY FitsFacts
<1>4. Fits(Require(<<v>>, value), e)
  <2>1. DOMAIN <<v>> = {1} /\ <<v>>[1] = v
    OBVIOUS
  <2> QED
    BY <1>2, <1>3, <2>1, RequireFits
<1> QED
  BY <1>4 DEF value, e

LEMMA CaseFits ==
  ASSUME NEW r \in Seq(Results), NEW a \in Seq(Descriptors), Len(r) = Len(a),
         \A i \in 1 .. Len(a) : Fits(r[i], a[i]), CaseDescriptor(a) # Invalid
  PROVE  Fits(CaseValue(r), CaseDescriptor(a))
<1> DEFINE n == Len(a)
           e == CaseDescriptor(a)
           ends == {i \in Conditions(n) : r[i] = True \/ Failed(r[i])}
<1>1. /\ n \in Nat /\ n > 1
      /\ \A i \in Outcomes(n) : a[i].scalar = a[n].scalar
      /\ e = Descriptor(a[n].scalar, \E i \in Outcomes(n) : a[i].nullable)
  <2>1. n > 1 /\ \A i \in Outcomes(n) : a[i].scalar = a[n].scalar
    BY Zenon DEF CaseDescriptor
  <2>2. \A i \in Conditions(n) : a[i].scalar = "BOOLEAN"
    BY Zenon DEF CaseDescriptor
  <2>3. e = Descriptor(a[n].scalar, \E i \in Outcomes(n) : a[i].nullable)
    BY <2>1, <2>2, Zenon DEF CaseDescriptor
  <2> QED
    BY <2>1, <2>3
<1>2. \A i \in 1 .. n : a[i] \in Descriptors /\ a[i].nullable \in BOOLEAN
  BY <1>1, DescriptorFacts
<1>3. Outcomes(n) \subseteq 1 .. n /\ n \in Outcomes(n) /\ \A i \in Conditions(n) : i + 1 \in Outcomes(n)
  BY <1>1 DEF Outcomes, Conditions
<1>4. ASSUME NEW i \in Outcomes(n) PROVE Fits(r[i], e)
  <2>1. e.scalar = a[i].scalar /\ (a[i].nullable => e.nullable)
    BY <1>1, <1>4 DEF Descriptor
  <2>2. Fits(r[i], a[i])
    BY <1>3
  <2> QED
    BY <2>1, <2>2, FitsWider
<1> HIDE DEF e
<1>5. CASE ends = {}
  <2>1. CaseValue(r) = r[n]
    BY <1>5 DEF CaseValue
  <2> QED
    BY <1>3, <1>4, <2>1 DEF e
<1>6. CASE ends # {}
  <2> DEFINE first == Min(ends)
  <2>1. ends \in SUBSET Nat
    BY <1>1 DEF Conditions
  <2>2. first \in ends
    BY <1>6, <2>1, MinFacts
  <2>3. CaseValue(r) = IF Failed(r[first]) THEN r[first] ELSE r[first + 1]
    BY <1>6 DEF CaseValue
  <2> HIDE DEF first
  <2>4. CASE Failed(r[first])
    <3>1. first \in 1 .. n
      BY <1>1, <2>2 DEF Conditions
    <3>2. r[first] \in Errors
      BY <1>2, <2>4, <3>1, FitsFacts
    <3> QED
      BY <2>3, <2>4, <3>2 DEF Fits
  <2>5. CASE ~ Failed(r[first])
    BY <1>3, <1>4, <2>2, <2>3, <2>5 DEF e
  <2> QED
    BY <2>4, <2>5
<1> QED
  BY <1>5, <1>6

(* Equality as IN asks for it.                                             *)
LEMMA EqualFacts ==
  ASSUME NEW s \in Scalars, NEW v \in ScalarValues(s) \cup {Null},
         NEW w \in ScalarValues(s) \cup {Null}
  PROVE  /\ OrdinaryEqual(v, w) = IF v = Null \/ w = Null THEN Null ELSE Boolean(v.v = w.v)
         /\ OrdinaryEqual(v, w) \in {Null, Boolean(FALSE), Boolean(TRUE)}
<1>1. v # Null /\ w # Null => v.scalar = w.scalar
  BY ValueFacts
<1>2. "equal" \notin ArithmeticOps
  BY DEF ArithmeticOps
<1>3. OrdinaryEqual(v, w) = IF v = Null \/ w = Null THEN Null ELSE Boolean(v.v = w.v)
  BY <1>1, <1>2 DEF OrdinaryEqual, Binary, Compared
<1>4. Boolean(v.v = w.v) \in {Boolean(FALSE), Boolean(TRUE)}
  BY DEF Boolean
<1> QED
  BY <1>3, <1>4

(* IN is TRUE when a candidate is equal, else NULL when one compares as    *)
(* NULL, else FALSE.                                                       *)
LEMMA MembershipFacts ==
  ASSUME NEW s \in Scalars, NEW v \in ScalarValues(s) \cup {Null}, NEW cs,
         \A i \in DOMAIN cs : cs[i] \in ScalarValues(s) \cup {Null}
  PROVE  /\ Membership(v, cs) \in {Null, Boolean(FALSE), Boolean(TRUE)}
         /\ Membership(v, cs) = True <=> \E i \in DOMAIN cs : OrdinaryEqual(v, cs[i]) = True
         /\ Membership(v, cs) = Null <=>
              /\ \E i \in DOMAIN cs : OrdinaryEqual(v, cs[i]) = Null
              /\ ~ \E i \in DOMAIN cs : OrdinaryEqual(v, cs[i]) = True
<1> DEFINE verdicts == {OrdinaryEqual(v, cs[i]) : i \in DOMAIN cs}
<1>1. verdicts \subseteq {Null, Boolean(FALSE), Boolean(TRUE)}
  <2>1. ASSUME NEW i \in DOMAIN cs
        PROVE  OrdinaryEqual(v, cs[i]) \in {Null, Boolean(FALSE), Boolean(TRUE)}
    BY EqualFacts
  <2> QED
    BY <2>1
<1>2. Null # True /\ Boolean(FALSE) # True /\ Null # Boolean(FALSE)
  BY DEF Null, True, Boolean, Tagged
<1>3. Unreachable \notin {Null, Boolean(FALSE), Boolean(TRUE)}
  BY DEF Null, Unreachable, Boolean, Tagged
<1>4. Membership(v, cs) =
        IF True \in verdicts THEN True ELSE IF Null \in verdicts THEN Null ELSE Boolean(FALSE)
  BY <1>1, <1>3 DEF Membership, AnyOf
<1>5. \A x : x \in verdicts <=> \E i \in DOMAIN cs : OrdinaryEqual(v, cs[i]) = x
  OBVIOUS
<1> HIDE DEF verdicts
<1>6. CASE True \in verdicts
  BY <1>2, <1>4, <1>5, <1>6 DEF True
<1>7. CASE True \notin verdicts /\ Null \in verdicts
  BY <1>2, <1>4, <1>5, <1>7
<1>8. CASE True \notin verdicts /\ Null \notin verdicts
  BY <1>2, <1>4, <1>5, <1>8
<1> QED
  BY <1>6, <1>7, <1>8

LEMMA MembershipFits ==
  ASSUME NEW s \in Scalars, NEW v \in ScalarValues(s) \cup {Null}, NEW cs,
         \A i \in DOMAIN cs : cs[i] \in ScalarValues(s) \cup {Null},
         NEW e, e.scalar = "BOOLEAN",
         \A i \in DOMAIN cs : v = Null \/ cs[i] = Null => e.nullable
  PROVE  Fits(Membership(v, cs), e)
<1>1. Membership(v, cs) = Null => e.nullable
  <2>1. SUFFICES ASSUME Membership(v, cs) = Null PROVE e.nullable
    OBVIOUS
  <2>2. PICK i \in DOMAIN cs : OrdinaryEqual(v, cs[i]) = Null
    BY <2>1, MembershipFacts
  <2>3. v = Null \/ cs[i] = Null
    <3>1. Boolean(v.v = cs[i].v) # Null
      BY DEF Boolean, Null, Tagged
    <3>2. OrdinaryEqual(v, cs[i]) = IF v = Null \/ cs[i] = Null THEN Null ELSE Boolean(v.v = cs[i].v)
      BY EqualFacts
    <3> QED
      BY <2>2, <3>1, <3>2, Zenon
  <2> QED
    BY <2>3
<1>2. Membership(v, cs) \in {Null} \cup ScalarValues("BOOLEAN")
  <2>1. Membership(v, cs) \in {Null, Boolean(FALSE), Boolean(TRUE)}
    BY MembershipFacts
  <2> QED
    BY <2>1, ValueFacts
<1> QED
  BY <1>1, <1>2 DEF Fits

(* A value of a column is one of its scalar type, or NULL if it may be.    *)
LEMMA ConformsFacts ==
  ASSUME NEW d \in Descriptors, NEW v \in Values, Conforms(v, d)
  PROVE  v \in ScalarValues(d.scalar) \/ (v = Null /\ d.nullable)
<1>1. d.scalar \in Scalars /\ "null" \notin Scalars
  BY DescriptorFacts DEF Scalars
<1>2. CASE v = Null
  BY <1>1, <1>2, ValueFacts DEF Conforms
<1>3. CASE v # Null
  <2>1. PICK s \in Scalars : v \in ScalarValues(s)
    BY <1>3 DEF Values
  <2>2. v.scalar = s
    BY <2>1, ValueFacts
  <2> QED
    BY <1>3, <2>1, <2>2 DEF Conforms
<1> QED
  BY <1>2, <1>3

LEMMA InListFits ==
  ASSUME NEW r \in Seq(Results), NEW a \in Seq(Descriptors), Len(r) = Len(a),
         \A i \in 1 .. Len(a) : Fits(r[i], a[i]), InListDescriptor(a) # Invalid
  PROVE  Fits(Require(r, Membership(r[1], Tail(r))), InListDescriptor(a))
<1> DEFINE n == Len(a)
           e == InListDescriptor(a)
           s == a[1].scalar
<1>1. n \in Nat /\ n > 1 /\ \A i \in DOMAIN a : a[i].scalar = s
  BY Zenon, LenProperties DEF InListDescriptor
<1>2. e = Descriptor("BOOLEAN", \E i \in DOMAIN a : a[i].nullable)
  BY <1>1, Zenon DEF InListDescriptor
<1>3. e.scalar = "BOOLEAN" /\ \A i \in DOMAIN a : a[i].nullable => e.nullable
  BY <1>2 DEF Descriptor
<1>4. DOMAIN a = 1 .. n /\ DOMAIN r = 1 .. n
  OBVIOUS
<1> HIDE DEF e
<1>5. ASSUME NEW i \in 1 .. n
      PROVE  /\ Failed(r[i]) => r[i] \in Errors
             /\ ~ Failed(r[i]) => r[i] \in ScalarValues(s) \cup {Null}
             /\ r[i] = Null => e.nullable
  <2>1. a[i] \in Descriptors /\ Fits(r[i], a[i]) /\ a[i].scalar = s /\ (a[i].nullable => e.nullable)
    BY <1>1, <1>3, <1>4
  <2> QED
    BY <2>1, FitsFacts
<1>6. s \in Scalars
  BY <1>1, DescriptorFacts
<1>7. ASSUME \A i \in DOMAIN r : ~ Failed(r[i])
      PROVE  Fits(Membership(r[1], Tail(r)), e)
  <2>1. DOMAIN Tail(r) = 1 .. n - 1 /\ \A i \in 1 .. n - 1 : Tail(r)[i] = r[i + 1]
    BY <1>1
  <2> DEFINE cs == Tail(r)
             v  == r[1]
  <2>2. v \in ScalarValues(s) \cup {Null} /\ (v = Null => e.nullable)
    BY <1>1, <1>4, <1>5, <1>7
  <2>3. ASSUME NEW i \in DOMAIN cs
        PROVE  cs[i] \in ScalarValues(s) \cup {Null} /\ (cs[i] = Null => e.nullable)
    <3>1. i + 1 \in 1 .. n /\ cs[i] = r[i + 1]
      BY <1>1, <2>1
    <3> QED
      BY <1>4, <1>5, <1>7, <3>1
  <2> HIDE DEF cs, v
  <2>4. Fits(Membership(v, cs), e)
    BY <1>3, <1>6, <2>2, <2>3, MembershipFits
  <2> QED
    BY <2>4 DEF cs, v
<1>8. Fits(Require(r, Membership(r[1], Tail(r))), e)
  BY <1>4, <1>5, <1>7, RequireFits
<1> QED
  BY <1>8 DEF e

(* A query fails with an error or has rows of its schema.                  *)
LEMMA QueryFacts ==
  ASSUME NEW q \in DOMAIN Queries
  PROVE  /\ Failed(Queries[q].failure) => Queries[q].failure \in Errors
         /\ Queries[q].rows \in Seq(RowsOf(Queries[q].schema))
         /\ Len(Queries[q].schema) = 1 =>
              DOMAIN Queries[q].schema = {1} /\ Queries[q].schema[1].descriptor \in Descriptors
<1> DEFINE schema == Queries[q].schema
           S == [id : FieldIds(schema), descriptor : Descriptors]
<1>1. ~ Failed(Null)
  BY DEF Failed, Null, Tagged
<1>2. schema \in Seq(S)
  BY QueriesAssumption DEF IsSchema
<1>3. \A f \in S : f.descriptor \in Descriptors
  OBVIOUS
<1> HIDE DEF schema, S
<1>4. Len(schema) = 1 => DOMAIN schema = {1} /\ schema[1] \in S
  BY <1>2
<1>5. Failed(Queries[q].failure) => Queries[q].failure \in Errors
  BY <1>1, QueriesAssumption
<1>6. Queries[q].rows \in Seq(RowsOf(Queries[q].schema))
  BY QueriesAssumption
<1> QED
  BY <1>3, <1>4, <1>5, <1>6 DEF schema

LEMMA ExistsFits ==
  ASSUME NEW q \in DOMAIN Queries
  PROVE  Fits(Require(<<Queries[q].failure>>, Boolean(Queries[q].rows # <<>>)),
              Descriptor("BOOLEAN", FALSE))
<1> DEFINE value == Boolean(Queries[q].rows # <<>>)
           e == Descriptor("BOOLEAN", FALSE)
           r == <<Queries[q].failure>>
<1>1. value \in ScalarValues("BOOLEAN")
  BY TruthFacts
<1>2. Fits(value, e)
  BY <1>1 DEF Fits, Descriptor
<1>3. DOMAIN r = {1} /\ (Failed(r[1]) => r[1] \in Errors)
  BY QueryFacts
<1> HIDE DEF value, e, r
<1>4. Fits(Require(r, value), e)
  BY <1>2, <1>3, RequireFits
<1> QED
  BY <1>4 DEF value, e, r

LEMMA InQueryFits ==
  ASSUME NEW q \in DOMAIN Queries, NEW d \in Descriptors, NEW v, Fits(v, d),
         InQueryDescriptor(d, Queries[q].schema) # Invalid
  PROVE  Fits(Require(<<v, Queries[q].failure>>, Membership(v, Column(Queries[q].rows))),
              InQueryDescriptor(d, Queries[q].schema))
<1> DEFINE schema == Queries[q].schema
           rows == Queries[q].rows
           column == schema[1].descriptor
           cs == Column(rows)
           e == InQueryDescriptor(d, schema)
           s == d.scalar
           r == <<v, Queries[q].failure>>
<1>1. Len(schema) = 1 /\ column.scalar = s /\ e = Descriptor("BOOLEAN", d.nullable \/ column.nullable)
  <2>1. Len(schema) = 1 /\ column.scalar = s
    BY Zenon DEF InQueryDescriptor
  <2> QED
    BY <2>1, Zenon DEF InQueryDescriptor
<1>2. DOMAIN schema = {1} /\ column \in Descriptors
  BY <1>1, QueryFacts
<1> HIDE DEF e, column
<1>3. e.scalar = "BOOLEAN" /\ (d.nullable => e.nullable) /\ (column.nullable => e.nullable)
  BY <1>1, Zenon DEF Descriptor
<1>4. s \in Scalars
  BY DescriptorFacts
<1>5. ASSUME NEW i \in DOMAIN cs
      PROVE  cs[i] \in ScalarValues(s) \cup {Null} /\ (cs[i] = Null => e.nullable)
  <2>1. i \in DOMAIN rows /\ cs[i] = rows[i][1]
    BY DEF Column
  <2>2. rows[i] \in RowsOf(schema)
    BY <2>1, QueryFacts
  <2>3. cs[i] \in Values /\ Conforms(cs[i], column)
    BY <1>2, <2>1, <2>2, Zenon DEF RowsOf, RowConforms, column
  <2>4. cs[i] \in ScalarValues(column.scalar) \/ (cs[i] = Null /\ column.nullable)
    BY <1>2, <2>3, ConformsFacts
  <2>5. cs[i] = Null => cs[i] \notin ScalarValues(s)
    <3>1. "null" \notin Scalars
      BY DEF Scalars
    <3> QED
      BY <1>4, <3>1, ValueFacts
  <2> QED
    BY <1>1, <1>3, <2>4, <2>5
<1> HIDE DEF cs
<1>6. ASSUME ~ Failed(v) PROVE Fits(Membership(v, cs), e)
  <2>1. v \in ScalarValues(s) \cup {Null} /\ (v = Null => e.nullable)
    BY <1>3, <1>6, FitsFacts
  <2> QED
    BY <1>3, <1>4, <1>5, <2>1, MembershipFits
<1>7. Failed(v) => v \in Errors
  BY FitsFacts
<1>8. /\ DOMAIN r = {1, 2} /\ r[1] = v
      /\ \A i \in DOMAIN r : Failed(r[i]) => r[i] \in Errors
  BY <1>7, QueryFacts
<1> HIDE DEF r
<1>9. Fits(Require(r, Membership(v, cs)), e)
  BY <1>6, <1>8, RequireFits
<1> QED
  BY <1>9 DEF cs, e, r

LEMMA LiteralFits ==
  ASSUME NEW v \in Values, NEW d \in Descriptors,
         d = IF v = Null THEN Descriptor(d.scalar, TRUE) ELSE Descriptor(v.scalar, FALSE)
  PROVE  Fits(v, d)
<1>1. CASE v = Null
  <2>1. d.nullable
    BY <1>1 DEF Descriptor
  <2> QED
    BY <1>1, <2>1 DEF Fits
<1>2. CASE v # Null
  <2>1. PICK s \in Scalars : v \in ScalarValues(s)
    BY <1>2 DEF Values
  <2>2. v.scalar = s /\ d.scalar = v.scalar
    BY <1>2, <2>1, ValueFacts DEF Descriptor
  <2> QED
    BY <2>1, <2>2 DEF Fits
<1> QED
  BY <1>1, <1>2

LEMMA FieldFits ==
  ASSUME NEW schema, IsSchema(schema), NEW id \in FieldIds(schema), NEW row \in RowsOf(schema)
  PROVE  Fits(row[FieldPosition(schema, id)], schema[FieldPosition(schema, id)].descriptor)
<1> DEFINE i == FieldPosition(schema, id)
<1>1. i \in DOMAIN schema
  BY DEF FieldIds, FieldPosition
<1> HIDE DEF i
<1>2. schema[i].descriptor \in Descriptors
  <2> DEFINE S == [id : FieldIds(schema), descriptor : Descriptors]
  <2>1. schema \in Seq(S) /\ \A f \in S : f.descriptor \in Descriptors
    BY DEF IsSchema
  <2> HIDE DEF S
  <2>2. schema[i] \in S
    BY <1>1, <2>1
  <2> QED
    BY <2>1, <2>2
<1>3. row[i] \in Values /\ Conforms(row[i], schema[i].descriptor)
  BY <1>1 DEF RowsOf, RowConforms
<1>4. Fits(row[i], schema[i].descriptor)
  BY <1>2, <1>3, ConformsFacts DEF Fits
<1> QED
  BY <1>4 DEF i

(* One step of validate_expression and one of evaluate_expression agree.   *)
LEMMA OperatorFits ==
  ASSUME NEW e, NEW r \in Seq(Results), NEW a \in Seq(Descriptors), Len(r) = Len(a),
         \A i \in 1 .. Len(a) : Fits(r[i], a[i]), HasForm(e, Len(a)),
         NEW schema, IsSchema(schema), NEW row \in RowsOf(schema),
         e.descriptor = DescriptorOf(e, schema, a), e.descriptor \in Descriptors
  PROVE  Fits(ValueOf(e, schema, row, r), e.descriptor)
<1> DEFINE d == e.descriptor
           v == ValueOf(e, schema, row, r)
<1>1. d # Invalid /\ d.scalar # "invalid"
  BY DescriptorFacts DEF Scalars
<1>2. CASE e.kind = "literal" /\ e.value \in Values
  <2>1. v = e.value
    BY <1>2 DEF ValueOf
  <2>2. d = IF e.value = Null THEN Descriptor(d.scalar, TRUE) ELSE Descriptor(e.value.scalar, FALSE)
    BY <1>2 DEF DescriptorOf
  <2> QED
    BY <1>2, <2>1, <2>2, LiteralFits
<1>3. CASE e.kind = "field"
  <2>1. e.ref \in FieldIds(schema) /\ d = schema[FieldPosition(schema, e.ref)].descriptor
    BY <1>1, <1>3 DEF DescriptorOf
  <2>2. v = row[FieldPosition(schema, e.ref)]
    BY <1>3, <2>1 DEF ValueOf
  <2> QED
    BY <2>1, <2>2, FieldFits
<1>4. CASE e.kind = "exists" /\ e.ref \in DOMAIN Queries
  <2>1. v = Require(<<Queries[e.ref].failure>>, Boolean(Queries[e.ref].rows # <<>>))
    BY <1>4 DEF ValueOf
  <2>2. d = Descriptor("BOOLEAN", FALSE)
    BY <1>4 DEF DescriptorOf
  <2> QED
    BY <1>4, <2>1, <2>2, ExistsFits
<1>5. Len(a) = 1 => a[1] \in Descriptors /\ Fits(r[1], a[1])
  OBVIOUS
<1>6. Len(a) = 2 => /\ a[1] \in Descriptors /\ Fits(r[1], a[1])
                    /\ a[2] \in Descriptors /\ Fits(r[2], a[2])
  <2>1. Len(a) = 2 => 1 \in 1 .. Len(a) /\ 2 \in 1 .. Len(a)
    OBVIOUS
  <2>2. \A i \in 1 .. Len(a) : a[i] \in Descriptors /\ Fits(r[i], a[i])
    OBVIOUS
  <2> QED
    BY <2>1, <2>2
<1>7. CASE e.kind = "unary" /\ e.op \in {"positive", "negative", "not"} /\ Len(a) = 1
  <2>1. v = Require(<<r[1]>>, IF r[1] = Null THEN Null ELSE Unary(e.op, r[1]))
    BY <1>7 DEF ValueOf
  <2>2. d = a[1] /\ a[1].scalar = IF e.op = "not" THEN "BOOLEAN" ELSE "INT64"
    BY <1>1, <1>7 DEF DescriptorOf
  <2> QED
    BY <1>5, <1>7, <2>1, <2>2, UnaryFits
<1>8. CASE /\ e.kind = "binary" /\ Len(a) = 2
           /\ e.op \in ArithmeticOps \cup ComparisonOps \cup {"and", "or"}
  <2>1. d = BinaryDescriptor(e.op, a[1], a[2])
    BY <1>8 DEF DescriptorOf
  <2>2. CASE e.op \notin {"and", "or"}
    <3>1. v = Strict(e.op, r[1], r[2])
      BY <1>8, <2>2 DEF ValueOf
    <3> QED
      BY <1>1, <1>6, <1>8, <2>1, <2>2, <3>1, StrictFits
  <2>3. CASE e.op \in {"and", "or"}
    <3>1. v = Conditional(FALSE, r[1], r[2]) \/ v = Conditional(TRUE, r[1], r[2])
      BY <1>8, <2>3 DEF ValueOf
    <3>2. /\ a[1].scalar = "BOOLEAN" /\ a[2].scalar = "BOOLEAN"
          /\ d = Descriptor("BOOLEAN", a[1].nullable \/ a[2].nullable)
      <4>1. e.op \notin ArithmeticOps /\ e.op \notin ComparisonOps
        BY <2>3 DEF ArithmeticOps, ComparisonOps
      <4>2. CASE a[1].scalar = "BOOLEAN" /\ a[2].scalar = "BOOLEAN"
        BY <2>1, <2>3, <4>1, <4>2, Zenon DEF BinaryDescriptor
      <4>3. CASE ~ (a[1].scalar = "BOOLEAN" /\ a[2].scalar = "BOOLEAN")
        <5>1. d = Invalid
          BY <2>1, <2>3, <4>1, <4>3, Zenon DEF BinaryDescriptor
        <5> QED
          BY <1>1, <5>1
      <4> QED
        BY <4>2, <4>3, Zenon
    <3>3. d.scalar = "BOOLEAN" /\ (a[1].nullable => d.nullable) /\ (a[2].nullable => d.nullable)
      <4> DEFINE x == a[1].nullable
                 y == a[2].nullable
      <4>1. d = Descriptor("BOOLEAN", x \/ y)
        BY <3>2
      <4> HIDE DEF d, x, y
      <4>2. d.scalar = "BOOLEAN" /\ (x => d.nullable) /\ (y => d.nullable)
        BY <4>1, WidenedFacts, Zenon
      <4> QED
        BY <4>2 DEF x, y
    <3> HIDE DEF d, v
    <3>4. d \in Descriptors
      BY DEF d
    <3>5. Fits(Conditional(FALSE, r[1], r[2]), d) /\ Fits(Conditional(TRUE, r[1], r[2]), d)
      <4>1. /\ a[1] \in Descriptors /\ Fits(r[1], a[1])
            /\ a[2] \in Descriptors /\ Fits(r[2], a[2])
        BY <1>6, <1>8
      <4>2. a[1].scalar = "BOOLEAN" /\ a[2].scalar = "BOOLEAN"
        BY <3>2
      <4> HIDE <3>2
      <4>3. \A dominant \in BOOLEAN : Fits(Conditional(dominant, r[1], r[2]), d)
        BY <3>3, <3>4, <4>1, <4>2, ConditionalFits
      <4> QED
        BY <4>3
    <3>6. Fits(v, d)
      BY <3>1, <3>5
    <3> QED
      BY <3>6 DEF d, v
  <2> QED
    BY <2>2, <2>3
<1>9. CASE e.kind = "is_null" /\ Len(a) = 1
  <2> DEFINE b == e.op = "negated"
  <2>1. v = Require(<<r[1]>>, Boolean((r[1] = Null) # b))
    BY <1>9, Zenon DEF ValueOf
  <2>2. d = Descriptor("BOOLEAN", FALSE)
    BY <1>9 DEF DescriptorOf
  <2>3. b \in BOOLEAN
    OBVIOUS
  <2> HIDE DEF b, v, d
  <2>4. Fits(Require(<<r[1]>>, Boolean((r[1] = Null) # b)), Descriptor("BOOLEAN", FALSE))
    BY <1>5, <1>9, <2>3, IsNullFits
  <2>5. Fits(v, d)
    BY <2>1, <2>2, <2>4, Zenon
  <2> QED
    BY <2>5 DEF d, v
<1>10. CASE e.kind = "cast" /\ e.op \in Scalars /\ Len(a) = 1
  <2>1. v = Require(<<r[1]>>, IF r[1] = Null THEN Null ELSE Cast(r[1], e.op))
    BY <1>10 DEF ValueOf
  <2>2. CastPermitted(a[1].scalar, e.op) /\ d = Descriptor(e.op, a[1].nullable)
    BY <1>1, <1>10 DEF DescriptorOf
  <2> QED
    BY <1>5, <1>10, <2>1, <2>2, CastFits
<1>11. CASE e.kind = "case"
  <2>1. v = CaseValue(r) /\ d = CaseDescriptor(a)
    BY <1>11 DEF ValueOf, DescriptorOf
  <2> QED
    BY <1>1, <2>1, CaseFits
<1>12. CASE e.kind = "in_list"
  <2>1. v = Require(r, Membership(r[1], Tail(r))) /\ d = InListDescriptor(a)
    BY <1>12 DEF ValueOf, DescriptorOf
  <2> QED
    BY <1>1, <2>1, InListFits
<1>13. CASE e.kind = "in_query" /\ e.ref \in DOMAIN Queries /\ Len(a) = 1
  <2>1. v = Require(<<r[1], Queries[e.ref].failure>>,
                    Membership(r[1], Column(Queries[e.ref].rows)))
    BY <1>13 DEF ValueOf
  <2>2. d = InQueryDescriptor(a[1], Queries[e.ref].schema)
    BY <1>13 DEF DescriptorOf
  <2> QED
    BY <1>1, <1>5, <1>13, <2>1, <2>2, InQueryFits
<1> QED
  BY <1>2, <1>3, <1>4, <1>7, <1>8, <1>9, <1>10, <1>11, <1>12, <1>13 DEF HasForm
=============================================================================
