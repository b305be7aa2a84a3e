-------------------------- MODULE ExpressionProofs --------------------------
(***************************************************************************)
(* Theorems about ExpressionEvaluation: for every width of INT64, every    *)
(* set of strings and queries and expressions of every size, the           *)
(* descriptor of an expression is sound, its connectives are Kleene's and  *)
(* its divisions are exact.                                                *)
(***************************************************************************)
EXTENDS ExpressionEvaluation, ScalarProofs

-----------------------------------------------------------------------------
(* The inductive invariant: what is at hand is an expression of a known    *)
(* form over sound arguments.                                              *)

IsSound(t) ==
  /\ t.expr.descriptor \in Descriptors
  /\ \A n \in DOMAIN Rows : Fits(t.values[n], t.expr.descriptor)

ArgumentsAreSound(e) ==
  /\ e.args \in Seq(Range(e.args))
  /\ \A i \in DOMAIN e.args : IsSound(e.args[i])

IsFormed(e) ==
  /\ e.descriptor \in Descriptors
  /\ ArgumentsAreSound(e)
  /\ HasForm(e, Len(e.args))

ExpressionInvariant ==
  /\ \A t \in made : IsSound(t)
  /\ IsFormed(expr)
  /\ IsValid(expr)
  /\ values = ValuesOf(expr)

DescriptorsOf(e)  == [i \in DOMAIN e.args |-> e.args[i].expr.descriptor]
ResultsAt(e, n)   == [i \in DOMAIN e.args |-> e.args[i].values[n]]

LEMMA ArgumentFacts ==
  ASSUME NEW e, IsFormed(e), NEW n \in DOMAIN Rows
  PROVE  /\ ResultsAt(e, n) \in Seq(Results) /\ DescriptorsOf(e) \in Seq(Descriptors)
         /\ Len(e.args) \in Nat /\ DOMAIN e.args = 1 .. Len(e.args)
         /\ Len(ResultsAt(e, n)) = Len(e.args) /\ Len(DescriptorsOf(e)) = Len(e.args)
         /\ \A i \in 1 .. Len(e.args) : /\ DescriptorsOf(e)[i] \in Descriptors
                                        /\ Fits(ResultsAt(e, n)[i], DescriptorsOf(e)[i])
<1> DEFINE r == ResultsAt(e, n)
           a == DescriptorsOf(e)
           k == Len(e.args)
<1>1. k \in Nat /\ DOMAIN e.args = 1 .. k
  BY DEF IsFormed, ArgumentsAreSound
<1>2. ASSUME NEW i \in 1 .. k
      PROVE  a[i] \in Descriptors /\ r[i] \in Results /\ Fits(r[i], a[i])
  <2>1. IsSound(e.args[i]) /\ a[i] = e.args[i].expr.descriptor /\ r[i] = e.args[i].values[n]
    BY <1>1 DEF IsFormed, ArgumentsAreSound, ResultsAt, DescriptorsOf
  <2>2. a[i] \in Descriptors /\ Fits(r[i], a[i])
    BY <2>1 DEF IsSound
  <2> QED
    BY <2>2, FitsFacts
<1>3. DOMAIN r = 1 .. k /\ DOMAIN a = 1 .. k /\ r = [i \in 1 .. k |-> r[i]] /\ a = [i \in 1 .. k |-> a[i]]
  BY <1>1 DEF ResultsAt, DescriptorsOf
<1> HIDE DEF r, a, k
<1>4. r \in [1 .. k -> Results] /\ a \in [1 .. k -> Descriptors]
  BY <1>2, <1>3
<1>5. r \in Seq(Results) /\ a \in Seq(Descriptors) /\ Len(r) = k /\ Len(a) = k
  BY <1>1, <1>4
<1> QED
  BY <1>1, <1>2, <1>5 DEF r, a, k

(* A row is one of the schema, which gives each field a value.             *)
LEMMA RowFacts ==
  ASSUME NEW n \in DOMAIN Rows
  PROVE  Rows[n] \in RowsOf(Schema)
BY RowsAssumption

(* The walk of the validator, one step from the leaves outwards.           *)
LEMMA FormedIsSound ==
  ASSUME NEW e, IsFormed(e), IsValid(e)
  PROVE  IsSound(WithValues(e, ValuesOf(e)))
<1>1. ASSUME NEW n \in DOMAIN Rows PROVE Fits(ValuesOf(e)[n], e.descriptor)
  <2>1. ValuesOf(e)[n] = ValueOf(e, Schema, Rows[n], ResultsAt(e, n))
    BY <1>1 DEF ValuesOf, ResultsAt
  <2>2. DescriptorOf(e, Schema, DescriptorsOf(e)) = e.descriptor
    BY DEF IsValid, DescriptorsOf
  <2>3. e.descriptor \in Descriptors /\ HasForm(e, Len(DescriptorsOf(e)))
    BY <1>1, ArgumentFacts DEF IsFormed
  <2>4. /\ ResultsAt(e, n) \in Seq(Results) /\ DescriptorsOf(e) \in Seq(Descriptors)
        /\ Len(ResultsAt(e, n)) = Len(DescriptorsOf(e))
        /\ \A i \in 1 .. Len(DescriptorsOf(e)) : Fits(ResultsAt(e, n)[i], DescriptorsOf(e)[i])
    BY <1>1, ArgumentFacts
  <2> QED
    BY <1>1, <2>1, <2>2, <2>3, <2>4, RowFacts, SchemaAssumption, OperatorFits
<1>2. e.descriptor \in Descriptors
  BY DEF IsFormed
<1> QED
  BY <1>1, <1>2 DEF IsSound, WithValues

LEMMA LeafFields ==
  /\ \A x, y : /\ Literal(x, y).args = <<>> /\ Literal(x, y).kind = "literal"
                /\ Literal(x, y).value = x /\ Literal(x, y).descriptor = y
  /\ \A x, y : /\ FieldRef(x, y).args = <<>> /\ FieldRef(x, y).kind = "field"
                /\ FieldRef(x, y).ref = x /\ FieldRef(x, y).descriptor = y
  /\ \A x : /\ Exists(x).args = <<>> /\ Exists(x).kind = "exists"
             /\ Exists(x).ref = x /\ Exists(x).descriptor = Descriptor("BOOLEAN", FALSE)
BY DEF Literal, FieldRef, Exists, Expr

LEMMA LeafFacts ==
  ASSUME NEW e \in Leaves \cup Companions, IsValid(e)
  PROVE  IsFormed(e)
<1> DEFINE v == e.value
           d == e.descriptor
           q == e.ref
<1>1. \/ e = Literal(v, d) /\ v \in Values /\ d \in Descriptors
      \/ e = FieldRef(q, d) /\ d \in Descriptors
      \/ e = Exists(q) /\ q \in DOMAIN Queries
  BY LeavesAssumption
<1>2. Descriptor("BOOLEAN", FALSE) \in Descriptors
  <2>1. "BOOLEAN" \in Scalars /\ \A s \in Scalars, b \in BOOLEAN : Descriptor(s, b) \in Descriptors
    BY DEF Scalars, Descriptors
  <2> QED
    BY <2>1
<1>3. e.args = <<>> /\ d \in Descriptors /\ HasForm(e, 0)
  <2> HIDE DEF v, d, q
  <2>1. CASE e = Literal(v, d) /\ v \in Values /\ d \in Descriptors
    <3>1. e.args = <<>> /\ e.kind = "literal" /\ e.value = v /\ e.descriptor = d
      BY <2>1, LeafFields
    <3> QED
      BY <2>1, <3>1, Zenon DEF HasForm
  <2>2. CASE e = FieldRef(q, d) /\ d \in Descriptors
    <3>1. e.args = <<>> /\ e.kind = "field"
      BY <2>2, LeafFields
    <3> QED
      BY <2>2, <3>1, Zenon DEF HasForm
  <2>3. CASE e = Exists(q) /\ q \in DOMAIN Queries
    <3>1. e.args = <<>> /\ e.kind = "exists" /\ e.ref = q
          /\ e.descriptor = Descriptor("BOOLEAN", FALSE)
      BY <2>3, LeafFields
    <3>2. HasForm(e, 0)
      BY <2>3, <3>1, Zenon DEF HasForm
    <3> QED
      BY <1>2, <3>1, <3>2 DEF d
  <2> QED
    BY <1>1, <2>1, <2>2, <2>3
<1>4. Len(e.args) = 0 /\ DOMAIN e.args = {} /\ e.args \in Seq(Range(e.args))
  BY <1>3
<1> QED
  BY <1>3, <1>4 DEF IsFormed, ArgumentsAreSound

(* What an operator is applied to is sound.                                *)
LEMMA AroundFacts ==
  ASSUME ExpressionInvariant, NEW n \in Nat, NEW args \in Around(n)
  PROVE  /\ args \in Seq(Range(args)) /\ Len(args) = n /\ DOMAIN args = 1 .. n
         /\ \A i \in DOMAIN args : IsSound(args[i])
<1>1. args \in [1 .. n -> Arguments]
  BY DEF Around
<1>2. args \in [1 .. n -> Range(args)]
  BY <1>1 DEF Range
<1>3. args \in Seq(Range(args)) /\ Len(args) = n /\ DOMAIN args = 1 .. n
  BY <1>2
<1>4. \A t \in AtHand : IsSound(t)
  BY LeafFacts, FormedIsSound DEF AtHand
<1>5. IsSound(WithValues(expr, values))
  BY FormedIsSound DEF ExpressionInvariant
<1>6. \A t \in Arguments : IsSound(t)
  BY <1>4, <1>5 DEF Arguments, ExpressionInvariant
<1> QED
  BY <1>1, <1>3, <1>6

LEMMA OperatorFields ==
  ASSUME NEW kind, NEW o, NEW xs, NEW y
  PROVE  /\ Apply(kind, o, xs, y).kind = kind /\ Apply(kind, o, xs, y).op = o
         /\ Apply(kind, o, xs, y).args = xs /\ Apply(kind, o, xs, y).descriptor = y
BY DEF Apply, Expr

LEMMA InQueryFields ==
  ASSUME NEW x, NEW r, NEW y
  PROVE  /\ InQuery(x, r, y).kind = "in_query" /\ InQuery(x, r, y).ref = r
         /\ InQuery(x, r, y).args = <<x>> /\ InQuery(x, r, y).descriptor = y
BY DEF InQuery, Expr

LEMMA ApplyIsFormed ==
  ASSUME ExpressionInvariant, NEW n \in Nat, NEW args \in Around(n), NEW d \in Descriptors,
         NEW k, NEW o, HasForm(Apply(k, o, args, d), n)
  PROVE  IsFormed(Apply(k, o, args, d))
<1> DEFINE e == Apply(k, o, args, d)
<1>1. e.args = args /\ e.descriptor = d
  BY OperatorFields
<1> HIDE DEF e
<1>2. ArgumentsAreSound(e) /\ Len(e.args) = n
  BY <1>1, AroundFacts DEF ArgumentsAreSound
<1>3. HasForm(e, n)
  BY DEF e
<1>4. IsFormed(e)
  BY <1>1, <1>2, <1>3 DEF IsFormed
<1> QED
  BY <1>4 DEF e

LEMMA InQueryIsFormed ==
  ASSUME ExpressionInvariant, NEW q \in DOMAIN Queries, NEW d \in Descriptors
  PROVE  IsFormed(InQuery(WithValues(expr, values), q, d))
<1> DEFINE t == WithValues(expr, values)
           e == InQuery(t, q, d)
<1>1. e.args = <<t>> /\ e.descriptor = d /\ e.kind = "in_query" /\ e.ref = q
  BY InQueryFields
<1>2. IsSound(t)
  BY FormedIsSound DEF ExpressionInvariant
<1> HIDE DEF e, t
<1>3. Len(e.args) = 1 /\ DOMAIN e.args = {1} /\ e.args[1] = t /\ e.args \in Seq(Range(e.args))
  <2>1. t \in Range(e.args)
    BY <1>1 DEF Range
  <2> QED
    BY <1>1, <2>1
<1>4. HasForm(e, 1)
  BY <1>1 DEF HasForm
<1>5. IsFormed(e)
  BY <1>1, <1>2, <1>3, <1>4 DEF IsFormed, ArgumentsAreSound
<1> QED
  BY <1>5 DEF e, t

LEMMA GrowKeepsInvariant ==
  ASSUME ExpressionInvariant, NEW e, IsFormed(e), Grow(e)
  PROVE  ExpressionInvariant'
<1>1. expr' = e /\ values' = ValuesOf(e) /\ made' = made /\ IsValid(e)
  BY DEF Grow
<1> QED
  BY <1>1 DEF ExpressionInvariant

LEMMA InvariantInitially == Init => ExpressionInvariant
<1> SUFFICES ASSUME Init PROVE ExpressionInvariant
  OBVIOUS
<1>1. expr \in Leaves /\ IsValid(expr) /\ values = ValuesOf(expr) /\ made = {}
  BY DEF Init
<1>2. IsFormed(expr)
  BY <1>1, LeafFacts
<1> QED
  BY <1>1, <1>2 DEF ExpressionInvariant

LEMMA InvariantKept == ExpressionInvariant /\ [Next]_expressionVars => ExpressionInvariant'
<1> SUFFICES ASSUME ExpressionInvariant, [Next]_expressionVars PROVE ExpressionInvariant'
  OBVIOUS
<1>1. CASE Begin
  <2>1. /\ made' = made \cup {WithValues(expr, values)}
        /\ expr' \in Leaves /\ IsValid(expr') /\ values' = ValuesOf(expr')
    BY <1>1 DEF Begin
  <2>2. IsSound(WithValues(expr, values))
    BY FormedIsSound DEF ExpressionInvariant
  <2>3. \A t \in made' : IsSound(t)
    BY <2>1, <2>2 DEF ExpressionInvariant
  <2>4. IsFormed(expr')
    BY <2>1, LeafFacts
  <2> QED
    BY <2>1, <2>3, <2>4 DEF ExpressionInvariant
<1>2. CASE GrowUnary
  <2>1. PICK op \in {"positive", "negative", "not"}, args \in Around(1), d \in Descriptors :
          Grow(Apply("unary", op, args, d))
    BY <1>2 DEF GrowUnary
  <2>2. HasForm(Apply("unary", op, args, d), 1)
    BY OperatorFields DEF HasForm
  <2> QED
    BY <2>1, <2>2, ApplyIsFormed, GrowKeepsInvariant
<1>3. CASE GrowBinary
  <2>1. PICK op \in ArithmeticOps \cup ComparisonOps \cup {"and", "or"},
             args \in Around(2), d \in Descriptors :
          Grow(Apply("binary", op, args, d))
    BY <1>3 DEF GrowBinary
  <2>2. HasForm(Apply("binary", op, args, d), 2)
    BY OperatorFields DEF HasForm
  <2> QED
    BY <2>1, <2>2, ApplyIsFormed, GrowKeepsInvariant
<1>4. CASE GrowIsNull
  <2>1. PICK op \in {"", "negated"}, args \in Around(1), d \in Descriptors :
          Grow(Apply("is_null", op, args, d))
    BY <1>4 DEF GrowIsNull
  <2>2. Apply("is_null", op, args, d).kind = "is_null"
    BY Zenon DEF Apply, Expr
  <2>3. HasForm(Apply("is_null", op, args, d), 1)
    BY <2>2, Zenon DEF HasForm
  <2> QED
    BY <2>1, <2>3, ApplyIsFormed, GrowKeepsInvariant
<1>5. CASE GrowCast
  <2>1. PICK target \in Scalars, args \in Around(1), d \in Descriptors :
          Grow(Apply("cast", target, args, d))
    BY <1>5 DEF GrowCast
  <2>2. HasForm(Apply("cast", target, args, d), 1)
    BY OperatorFields DEF HasForm
  <2> QED
    BY <2>1, <2>2, ApplyIsFormed, GrowKeepsInvariant
<1>6. CASE GrowCase
  <2>1. PICK n \in {m \in 3 .. MaxArguments : m % 2 = 1} :
          \E args \in Around(n), d \in Descriptors : Grow(Apply("case", "", args, d))
    BY <1>6 DEF GrowCase
  <2>2. PICK args \in Around(n), d \in Descriptors : Grow(Apply("case", "", args, d))
    BY <2>1
  <2>3. n \in Nat
    BY BoundsAssumption
  <2>4. Apply("case", "", args, d).kind = "case"
    BY Zenon DEF Apply, Expr
  <2>5. HasForm(Apply("case", "", args, d), n)
    BY <2>4, Zenon DEF HasForm
  <2> QED
    BY <2>2, <2>3, <2>5, ApplyIsFormed, GrowKeepsInvariant
<1>7. CASE GrowInList
  <2>1. PICK n \in 2 .. MaxArguments :
          \E args \in Around(n), d \in Descriptors : Grow(Apply("in_list", "", args, d))
    BY <1>7 DEF GrowInList
  <2>2. PICK args \in Around(n), d \in Descriptors : Grow(Apply("in_list", "", args, d))
    BY <2>1
  <2>3. n \in Nat
    BY BoundsAssumption
  <2>4. Apply("in_list", "", args, d).kind = "in_list"
    BY Zenon DEF Apply, Expr
  <2>5. HasForm(Apply("in_list", "", args, d), n)
    BY <2>4, Zenon DEF HasForm
  <2> QED
    BY <2>2, <2>3, <2>5, ApplyIsFormed, GrowKeepsInvariant
<1>8. CASE GrowInQuery
  <2>1. PICK q \in DOMAIN Queries, d \in Descriptors : Grow(InQuery(WithValues(expr, values), q, d))
    BY <1>8 DEF GrowInQuery
  <2> QED
    BY <2>1, InQueryIsFormed, GrowKeepsInvariant
<1>9. CASE UNCHANGED expressionVars
  BY <1>9 DEF expressionVars, ExpressionInvariant
<1> QED
  BY <1>1, <1>2, <1>3, <1>4, <1>5, <1>6, <1>7, <1>8, <1>9 DEF Next

(* Whatever is built is an expression of a known form over sound arguments,*)
(* valid, with the values evaluate_expression gives it.                    *)
THEOREM ExpressionsAreFormed == Spec => []ExpressionInvariant
<1> QED
  BY InvariantInitially, InvariantKept, PTL DEF Spec

LEMMA SoundValues ==
  ASSUME ExpressionInvariant
  PROVE  DescriptorIsSound
<1>1. IsSound(WithValues(expr, values))
  BY FormedIsSound DEF ExpressionInvariant
<1>2. expr.descriptor \in Descriptors /\ \A n \in DOMAIN Rows : Fits(values[n], expr.descriptor)
  BY <1>1 DEF IsSound, WithValues
<1>3. ASSUME NEW n \in DOMAIN Rows
      PROVE  values[n].scalar = "error" \/ Conforms(values[n], expr.descriptor)
  <2>1. Fits(values[n], expr.descriptor) /\ expr.descriptor.scalar \in Scalars
    BY <1>2, DescriptorFacts
  <2> QED
    BY <2>1, ValueFacts DEF Fits, Conforms
<1> QED
  BY <1>3 DEF DescriptorIsSound

(* The descriptor the validator derives is sound for the evaluator: no     *)
(* expression it accepts reaches an unreachable!(), gives a value of       *)
(* another type, or gives NULL where the descriptor excludes it.           *)
THEOREM DescriptorsAreSound == Spec => []DescriptorIsSound
<1> QED
  BY ExpressionsAreFormed, SoundValues, PTL

-----------------------------------------------------------------------------
(* Division.                                                               *)

LEMMA IntegerFacts ==
  ASSUME NEW d \in Descriptors, NEW v, Fits(v, d), v.scalar = "INT64"
  PROVE  ~ Failed(v) /\ v # Null /\ \E n \in Int64Values : v = Int64(n) /\ v.v = n
<1>1. ~ Failed(v) /\ v # Null
  BY ValueFacts DEF Failed
<1>2. v \in ScalarValues("INT64")
  BY <1>1, FitsFacts
<1>3. PICK n \in Int64Values : v = Int64(n)
  BY <1>2, ValueFacts
<1>4. v.v = n
  BY <1>3 DEF Int64, Tagged
<1> QED
  BY <1>1, <1>3, <1>4

LEMMA StrictValue ==
  ASSUME NEW op \in ArithmeticOps, NEW a \in Int64Values, NEW b \in Int64Values
  PROVE  Strict(op, Int64(a), Int64(b)) = Arithmetic(op, a, b)
<1>1. ~ Failed(Int64(a)) /\ ~ Failed(Int64(b)) /\ Int64(a) # Null /\ Int64(b) # Null
  BY DEF Failed, Int64, Null, Tagged
<1>2. Binary(op, Int64(a), Int64(b)) = Arithmetic(op, a, b)
  BY DEF Binary, Int64, Tagged
<1> DEFINE r == <<Int64(a), Int64(b)>>
<1>3. DOMAIN r = {1, 2} /\ \A i \in DOMAIN r : ~ Failed(r[i])
  BY <1>1
<1> HIDE DEF r
<1>4. Require(r, Arithmetic(op, a, b)) = Arithmetic(op, a, b)
  BY <1>3 DEF Require
<1> QED
  BY <1>1, <1>2, <1>4 DEF Strict, r

(* What the invariant says of an operator with its arguments.              *)
LEMMA ValuesFacts ==
  ASSUME ExpressionInvariant, NEW n \in DOMAIN Rows
  PROVE  /\ values[n] = ValueOf(expr, Schema, Rows[n], ResultsAt(expr, n))
         /\ DescriptorOf(expr, Schema, DescriptorsOf(expr)) = expr.descriptor
         /\ expr.descriptor # Invalid
         /\ HasForm(expr, Len(expr.args))
         /\ \A i \in DOMAIN expr.args : ResultsAt(expr, n)[i] = expr.args[i].values[n]
<1>1. values[n] = ValueOf(expr, Schema, Rows[n], ResultsAt(expr, n))
  BY DEF ExpressionInvariant, ValuesOf, ResultsAt
<1>2. DescriptorOf(expr, Schema, DescriptorsOf(expr)) = expr.descriptor /\ expr.descriptor # Invalid
  BY DEF ExpressionInvariant, IsValid, DescriptorsOf
<1>3. HasForm(expr, Len(expr.args))
  BY DEF ExpressionInvariant, IsFormed
<1>4. \A i \in DOMAIN expr.args : ResultsAt(expr, n)[i] = expr.args[i].values[n]
  BY DEF ResultsAt
<1> QED
  BY <1>1, <1>2, <1>3, <1>4

LEMMA ExactValues ==
  ASSUME ExpressionInvariant
  PROVE  DivisionIsExact
<1>1. SUFFICES ASSUME expr.kind = "binary", expr.op \in {"divide", "remainder"},
                      NEW n \in DOMAIN Rows,
                      expr.args[1].values[n].scalar = "INT64",
                      expr.args[2].values[n].scalar = "INT64"
               PROVE  ExactDivision(expr.op, expr.args[1].values[n].v, expr.args[2].values[n].v, values[n])
  BY DEF DivisionIsExact
<1> DEFINE r == ResultsAt(expr, n)
           d == DescriptorsOf(expr)
<1>2. Len(expr.args) = 2
  BY <1>1, ValuesFacts DEF HasForm
<1>3. /\ r[1] = expr.args[1].values[n] /\ d[1] \in Descriptors /\ Fits(r[1], d[1])
      /\ r[2] = expr.args[2].values[n] /\ d[2] \in Descriptors /\ Fits(r[2], d[2])
  <2>1. DOMAIN expr.args = {1, 2} /\ 1 .. Len(expr.args) = {1, 2}
    BY <1>1, <1>2, ArgumentFacts DEF ExpressionInvariant
  <2> QED
    BY <1>1, <2>1, ArgumentFacts, ValuesFacts DEF ExpressionInvariant
<1>4. values[n] = Strict(expr.op, r[1], r[2])
  BY <1>1, ValuesFacts DEF ValueOf
<1> HIDE DEF r, d
<1>5. PICK a \in Int64Values : r[1] = Int64(a) /\ r[1].v = a
  BY <1>1, <1>3, IntegerFacts
<1>6. PICK b \in Int64Values : r[2] = Int64(b) /\ r[2].v = b
  BY <1>1, <1>3, IntegerFacts
<1>7. values[n] = Arithmetic(expr.op, a, b)
  BY <1>1, <1>4, <1>5, <1>6, StrictValue DEF ArithmeticOps
<1>8. ExactDivision(expr.op, a, b, values[n])
  BY <1>1, <1>7, DivisionFacts
<1> QED
  BY <1>3, <1>5, <1>6, <1>8

(* Division and remainder are exact for every width of INT64, its ends     *)
(* included: the quotient is refused where it is not an INT64, the         *)
(* remainder by -1 is not.                                                 *)
THEOREM DivisionsAreExact == Spec => []DivisionIsExact
<1> QED
  BY ExpressionsAreFormed, ExactValues, PTL

-----------------------------------------------------------------------------
(* Logic.                                                                  *)

LEMMA DegreeFacts ==
  /\ Degree(Null) = 1 /\ Degree(Boolean(FALSE)) = 0 /\ Degree(Boolean(TRUE)) = 2
  /\ Verdict(1) = Null /\ Verdict(0) = Boolean(FALSE) /\ Verdict(2) = Boolean(TRUE)
  /\ Null # Boolean(FALSE) /\ Null # Boolean(TRUE) /\ Boolean(FALSE) # Boolean(TRUE)
<1>1. Null # Boolean(FALSE) /\ Null # Boolean(TRUE) /\ Boolean(FALSE) # Boolean(TRUE)
  BY DEF Null, Boolean, Tagged
<1>2. Boolean(FALSE).v = 0 /\ Boolean(TRUE).v = 1
  BY DEF Boolean, Tagged
<1>3. Degree(Null) = 1 /\ Degree(Boolean(FALSE)) = 0 /\ Degree(Boolean(TRUE)) = 2
  <2>1. Degree(Null) = 1
    BY DEF Degree
  <2>2. Degree(Boolean(FALSE)) = 2 * 0
    BY <1>1, <1>2, Zenon DEF Degree
  <2>3. Degree(Boolean(TRUE)) = 2 * 1
    BY <1>1, <1>2, Zenon DEF Degree
  <2>4. 2 * 0 = 0 /\ 2 * 1 = 2
    OBVIOUS
  <2> QED
    BY <2>1, <2>2, <2>3, <2>4, Zenon
<1>4. Verdict(1) = Null /\ Verdict(0) = Boolean(FALSE) /\ Verdict(2) = Boolean(TRUE)
  BY DEF Verdict, Boolean
<1> QED
  BY <1>1, <1>3, <1>4

LEMMA MaxFacts ==
  ASSUME NEW S \in SUBSET {0, 1, 2}, S # {}
  PROVE  Max(S) = IF 2 \in S THEN 2 ELSE IF 1 \in S THEN 1 ELSE 0
<1> DEFINE top == IF 2 \in S THEN 2 ELSE IF 1 \in S THEN 1 ELSE 0
<1>1. top \in S /\ \A y \in S : top >= y
  <2>1. \A y \in S : y = 0 \/ y = 1 \/ y = 2
    OBVIOUS
  <2>2. CASE 2 \in S
    <3>1. top = 2
      BY <2>2
    <3> QED
      BY <2>1, <2>2, <3>1
  <2>3. CASE 2 \notin S /\ 1 \in S
    <3>1. top = 1 /\ \A y \in S : y = 0 \/ y = 1
      BY <2>1, <2>3
    <3> HIDE DEF top
    <3> QED
      BY <2>3, <3>1
  <2>4. CASE 2 \notin S /\ 1 \notin S
    <3>1. top = 0 /\ \A y \in S : y = 0
      BY <2>1, <2>4
    <3>2. PICK z \in S : TRUE
      OBVIOUS
    <3> HIDE DEF top
    <3> QED
      BY <3>1, <3>2
  <2> QED
    BY <2>2, <2>3, <2>4
<1>2. \A x \in S : (\A y \in S : x >= y) => x = top
  <2>1. top \in {0, 1, 2}
    OBVIOUS
  <2> HIDE DEF top
  <2> QED
    BY <1>1, <2>1
<1> HIDE DEF top
<1>3. Max(S) = top
  BY <1>1, <1>2 DEF Max
<1> QED
  BY <1>3 DEF top

LEMMA PairFacts ==
  ASSUME NEW x \in {0, 1, 2}, NEW y \in {0, 1, 2}
  PROVE  /\ Min({x, y}) = IF x <= y THEN x ELSE y
         /\ Max({x, y}) = IF x >= y THEN x ELSE y
<1>1. Min({x, y}) = IF x <= y THEN x ELSE y
  <2> DEFINE S == {x, y}
  <2>1. S \in SUBSET Nat /\ S # {} /\ \A z : z \in S <=> z = x \/ z = y
    OBVIOUS
  <2> HIDE DEF S
  <2>2. Min(S) \in S /\ \A z \in S : Min(S) <= z
    BY <2>1, MinFacts
  <2> DEFINE m == Min(S)
  <2> HIDE DEF m
  <2>3. m = IF x <= y THEN x ELSE y
    BY <2>1, <2>2 DEF m
  <2> QED
    BY <2>3 DEF m, S
<1>2. Max({x, y}) = IF 2 \in {x, y} THEN 2 ELSE IF 1 \in {x, y} THEN 1 ELSE 0
  BY MaxFacts
<1>3. (IF 2 \in {x, y} THEN 2 ELSE IF 1 \in {x, y} THEN 1 ELSE 0) = IF x >= y THEN x ELSE y
  OBVIOUS
<1> QED
  BY <1>1, <1>2, <1>3

(* AND and OR are the least and the greatest degree.                       *)
ConnectsAsKleene(v, w) ==
  /\ Failed(v) => Conditional(FALSE, v, w) = v /\ Conditional(TRUE, v, w) = v
  /\ ~ Failed(v) /\ Degree(v) = 0 => Conditional(FALSE, v, w) = v
  /\ ~ Failed(v) /\ Degree(v) = 2 => Conditional(TRUE, v, w) = v
  /\ ~ Failed(v) /\ Degree(v) # 0 /\ Failed(w) => Conditional(FALSE, v, w) = w
  /\ ~ Failed(v) /\ Degree(v) # 2 /\ Failed(w) => Conditional(TRUE, v, w) = w
  /\ ~ Failed(v) /\ Degree(v) # 0 /\ ~ Failed(w) =>
       Conditional(FALSE, v, w) = Verdict(Min({Degree(v), Degree(w)}))
  /\ ~ Failed(v) /\ Degree(v) # 2 /\ ~ Failed(w) =>
       Conditional(TRUE, v, w) = Verdict(Max({Degree(v), Degree(w)}))

LEMMA ConditionalIsKleene ==
  ASSUME NEW c \in Descriptors, NEW d \in Descriptors, c.scalar = "BOOLEAN", d.scalar = "BOOLEAN",
         NEW v, NEW w, Fits(v, c), Fits(w, d)
  PROVE  ConnectsAsKleene(v, w)
<1> DEFINE F == Boolean(FALSE)
           T == Boolean(TRUE)
           least == Min({Degree(v), Degree(w)})
           most  == Max({Degree(v), Degree(w)})
<1>1. Failed(v) \/ (~ Failed(v) /\ v \in {Null, F, T})
  BY BooleanFacts
<1>2. Failed(w) \/ (~ Failed(w) /\ w \in {Null, F, T})
  BY BooleanFacts
<1>3. \A b \in BOOLEAN : Boolean(~ b) = IF b THEN F ELSE T
  BY DEF Boolean
<1>4. /\ Conditional(FALSE, v, w) =
           IF v = F \/ Failed(v) THEN v ELSE IF v = T THEN w
           ELSE IF v # Null THEN Unreachable ELSE IF w = T THEN Null ELSE w
      /\ Conditional(TRUE, v, w) =
           IF v = T \/ Failed(v) THEN v ELSE IF v = F THEN w
           ELSE IF v # Null THEN Unreachable ELSE IF w = F THEN Null ELSE w
  <2>1. (~ FALSE) = TRUE /\ (~ TRUE) = FALSE
    OBVIOUS
  <2> QED
    BY <2>1, Zenon DEF Conditional
<1>5. /\ Degree(Null) = 1 /\ Degree(F) = 0 /\ Degree(T) = 2
      /\ Verdict(1) = Null /\ Verdict(0) = F /\ Verdict(2) = T
      /\ Null # F /\ Null # T /\ F # T
  BY DegreeFacts
<1>6. ASSUME v \in {Null, F, T}, w \in {Null, F, T}
      PROVE  /\ Verdict(least) = IF v = F \/ w = F THEN F ELSE IF v = T /\ w = T THEN T ELSE Null
             /\ Verdict(most) = IF v = T \/ w = T THEN T ELSE IF v = F /\ w = F THEN F ELSE Null
  <2> DEFINE x == Degree(v)
             y == Degree(w)
  <2> HIDE DEF F, T
  <2>1. /\ (v = F /\ x = 0) \/ (v = Null /\ x = 1) \/ (v = T /\ x = 2)
        /\ (w = F /\ y = 0) \/ (w = Null /\ y = 1) \/ (w = T /\ y = 2)
    BY <1>5, <1>6
  <2>2. x \in {0, 1, 2} /\ y \in {0, 1, 2}
    BY <2>1
  <2>3. least = (IF x <= y THEN x ELSE y) /\ most = (IF x >= y THEN x ELSE y)
    BY <2>2, PairFacts
  <2> HIDE DEF x, y, least, most
  <2>4. CASE v = F
    BY <1>5, <2>1, <2>3, <2>4
  <2>5. CASE v = Null
    BY <1>5, <2>1, <2>3, <2>5
  <2>6. CASE v = T
    BY <1>5, <2>1, <2>3, <2>6
  <2> QED
    BY <2>1, <2>4, <2>5, <2>6
<1> HIDE DEF F, T, least, most
<1>7. ~ Failed(F) /\ ~ Failed(T)
  BY DEF Failed, F, T, Boolean, Tagged
<1>8. /\ Conditional(FALSE, v, w) =
           IF Failed(v) THEN v ELSE IF Degree(v) = 0 THEN v ELSE IF Failed(w) THEN w
           ELSE Verdict(least)
      /\ Conditional(TRUE, v, w) =
           IF Failed(v) THEN v ELSE IF Degree(v) = 2 THEN v ELSE IF Failed(w) THEN w
           ELSE Verdict(most)
  <2>1. CASE Failed(v)
    BY <1>4, <2>1
  <2>2. CASE ~ Failed(v) /\ Failed(w)
    BY <1>1, <1>4, <1>5, <1>7, <2>2
  <2>3. CASE ~ Failed(v) /\ ~ Failed(w)
    <3>1. v \in {Null, F, T} /\ w \in {Null, F, T}
      BY <1>1, <1>2, <2>3
    <3>2. CASE v = Null
      BY <1>4, <1>5, <1>6, <2>3, <3>1, <3>2
    <3>3. CASE v = F
      BY <1>4, <1>5, <1>6, <2>3, <3>1, <3>3
    <3>4. CASE v = T
      BY <1>4, <1>5, <1>6, <2>3, <3>1, <3>4
    <3> QED
      BY <3>1, <3>2, <3>3, <3>4
  <2> QED
    BY <2>1, <2>2, <2>3
<1>9. /\ Failed(v) => Conditional(FALSE, v, w) = v /\ Conditional(TRUE, v, w) = v
      /\ ~ Failed(v) /\ Degree(v) = 0 => Conditional(FALSE, v, w) = v
      /\ ~ Failed(v) /\ Degree(v) = 2 => Conditional(TRUE, v, w) = v
      /\ ~ Failed(v) /\ Degree(v) # 0 /\ Failed(w) => Conditional(FALSE, v, w) = w
      /\ ~ Failed(v) /\ Degree(v) # 2 /\ Failed(w) => Conditional(TRUE, v, w) = w
      /\ ~ Failed(v) /\ Degree(v) # 0 /\ ~ Failed(w) => Conditional(FALSE, v, w) = Verdict(least)
      /\ ~ Failed(v) /\ Degree(v) # 2 /\ ~ Failed(w) => Conditional(TRUE, v, w) = Verdict(most)
  BY <1>8
<1> QED
  BY <1>9 DEF least, most, ConnectsAsKleene

(* NOT turns the degrees round.                                            *)
LEMMA NotIsKleene ==
  ASSUME NEW d \in Descriptors, d.scalar = "BOOLEAN", NEW v, Fits(v, d)
  PROVE  Require(<<v>>, IF v = Null THEN Null ELSE Unary("not", v)) =
           IF Failed(v) THEN v ELSE Verdict(2 - Degree(v))
<1> DEFINE value == IF v = Null THEN Null ELSE Unary("not", v)
           r == <<v>>
<1>1. DOMAIN r = {1} /\ r[1] = v
  OBVIOUS
<1>2. ASSUME ~ Failed(v) PROVE value = Verdict(2 - Degree(v))
  <2>1. v \in {Null, Boolean(FALSE), Boolean(TRUE)}
    BY <1>2, BooleanFacts
  <2>2. 2 - 0 = 2 /\ 2 - 1 = 1 /\ 2 - 2 = 0
    OBVIOUS
  <2>3. CASE v = Null
    BY <2>2, <2>3, DegreeFacts, Zenon
  <2>4. CASE v = Boolean(FALSE)
    <3>1. v.v = 0 /\ v.scalar = "BOOLEAN" /\ v # Null
      BY <2>4 DEF Boolean, Tagged, Null
    <3>2. value = Boolean(TRUE)
      BY <3>1 DEF Unary
    <3> QED
      BY <2>2, <2>4, <3>2, DegreeFacts, Zenon
  <2>5. CASE v = Boolean(TRUE)
    <3>1. v.v = 1 /\ v.scalar = "BOOLEAN" /\ v # Null
      BY <2>5 DEF Boolean, Tagged, Null
    <3>2. Unary("not", v) = Boolean(v.v = 0)
      BY <3>1 DEF Unary
    <3>3. Boolean(v.v = 0) = Boolean(FALSE)
      BY <3>1 DEF Boolean
    <3>4. value = Boolean(FALSE)
      BY <3>1, <3>2, <3>3, Zenon
    <3> QED
      BY <2>2, <2>5, <3>4, DegreeFacts, Zenon
  <2> QED
    BY <2>1, <2>3, <2>4, <2>5
<1> HIDE DEF value, r
<1>3. Require(r, value) = IF Failed(v) THEN v ELSE Verdict(2 - Degree(v))
  <2>1. CASE Failed(v)
    BY <1>1, <2>1, RequireFacts
  <2>2. CASE ~ Failed(v)
    BY <1>1, <1>2, <2>2, RequireFacts
  <2> QED
    BY <2>1, <2>2
<1> QED
  BY <1>3 DEF value, r

(* IN is the OR of its comparisons.                                        *)
LEMMA MembershipIsKleene ==
  ASSUME NEW s \in Scalars, NEW v \in ScalarValues(s) \cup {Null}, NEW cs, DOMAIN cs # {},
         \A i \in DOMAIN cs : cs[i] \in ScalarValues(s) \cup {Null}
  PROVE  Membership(v, cs) = Verdict(Max(Equalities(v, {cs[i] : i \in DOMAIN cs})))
<1> DEFINE F == Boolean(FALSE)
           T == Boolean(TRUE)
           S == Equalities(v, {cs[i] : i \in DOMAIN cs})
<1>1. \A x : x \in S <=> \E i \in DOMAIN cs : Degree(OrdinaryEqual(v, cs[i])) = x
  BY DEF Equalities
<1>2. ASSUME NEW i \in DOMAIN cs
      PROVE  OrdinaryEqual(v, cs[i]) \in {Null, F, T}
  BY EqualFacts
<1>3. /\ Degree(Null) = 1 /\ Degree(F) = 0 /\ Degree(T) = 2
      /\ Verdict(1) = Null /\ Verdict(0) = F /\ Verdict(2) = T
      /\ Null # F /\ Null # T /\ F # T
  BY DegreeFacts
<1>4. /\ Membership(v, cs) \in {Null, F, T}
      /\ Membership(v, cs) = T <=> \E i \in DOMAIN cs : OrdinaryEqual(v, cs[i]) = T
      /\ Membership(v, cs) = Null <=> /\ \E i \in DOMAIN cs : OrdinaryEqual(v, cs[i]) = Null
                                      /\ ~ \E i \in DOMAIN cs : OrdinaryEqual(v, cs[i]) = T
  BY MembershipFacts DEF True
<1> HIDE DEF F, T, S
<1>5. ASSUME NEW i \in DOMAIN cs
      PROVE  /\ OrdinaryEqual(v, cs[i]) = T <=> Degree(OrdinaryEqual(v, cs[i])) = 2
             /\ OrdinaryEqual(v, cs[i]) = Null <=> Degree(OrdinaryEqual(v, cs[i])) = 1
             /\ Degree(OrdinaryEqual(v, cs[i])) \in {0, 1, 2}
  BY <1>2, <1>3
<1>6. /\ 2 \in S <=> \E i \in DOMAIN cs : OrdinaryEqual(v, cs[i]) = T
      /\ 1 \in S <=> \E i \in DOMAIN cs : OrdinaryEqual(v, cs[i]) = Null
  BY <1>1, <1>5
<1>7. S \in SUBSET {0, 1, 2} /\ S # {}
  BY <1>1, <1>5
<1>8. Max(S) = IF 2 \in S THEN 2 ELSE IF 1 \in S THEN 1 ELSE 0
  BY <1>7, MaxFacts
<1>9. Membership(v, cs) = Verdict(Max(S))
  <2>1. CASE 2 \in S
    <3>1. Max(S) = 2 /\ Membership(v, cs) = T
      BY <1>4, <1>6, <1>8, <2>1
    <3> QED
      BY <1>3, <3>1
  <2>2. CASE 2 \notin S /\ 1 \in S
    <3>1. Max(S) = 1 /\ Membership(v, cs) = Null
      BY <1>4, <1>6, <1>8, <2>2
    <3> QED
      BY <1>3, <3>1
  <2>3. CASE 2 \notin S /\ 1 \notin S
    <3>1. Max(S) = 0 /\ Membership(v, cs) = F
      BY <1>4, <1>6, <1>8, <2>3
    <3> QED
      BY <1>3, <3>1
  <2> QED
    BY <2>1, <2>2, <2>3
<1> QED
  BY <1>9 DEF S

(* IN over a list, the failures of its operands included.                  *)
LEMMA InListIsKleene ==
  ASSUME NEW r \in Seq(Results), NEW a \in Seq(Descriptors), Len(r) = Len(a),
         \A i \in 1 .. Len(a) : Fits(r[i], a[i]), InListDescriptor(a) # Invalid
  PROVE  LET v == Require(r, Membership(r[1], Tail(r)))
         IN IF \E i \in DOMAIN r : Failed(r[i]) THEN v.scalar = "error"
            ELSE v = Verdict(Max(Equalities(r[1], {r[i] : i \in 2 .. Len(r)})))
<1> DEFINE n == Len(a)
           s == a[1].scalar
           value == Membership(r[1], Tail(r))
           v == Require(r, value)
<1>1. n \in Nat /\ n > 1 /\ \A i \in DOMAIN a : a[i].scalar = s
  BY Zenon, LenProperties DEF InListDescriptor
<1>2. DOMAIN a = 1 .. n /\ DOMAIN r = 1 .. n
  OBVIOUS
<1>3. s \in Scalars
  BY <1>1, DescriptorFacts
<1>4. ASSUME NEW i \in 1 .. n
      PROVE  /\ Failed(r[i]) => r[i] \in Errors
             /\ ~ Failed(r[i]) => r[i] \in ScalarValues(s) \cup {Null}
  <2>1. a[i] \in Descriptors /\ Fits(r[i], a[i]) /\ a[i].scalar = s
    BY <1>1, <1>2
  <2> QED
    BY <2>1, FitsFacts
<1>5. CASE \E i \in DOMAIN r : Failed(r[i])
  <2> HIDE DEF value
  <2>1. v \in Errors
    BY <1>2, <1>4, <1>5, RequireFacts
  <2>2. v.scalar = "error"
    BY <2>1, ValueFacts
  <2> QED
    BY <1>5, <2>2 DEF value
<1>6. CASE ~ \E i \in DOMAIN r : Failed(r[i])
  <2> DEFINE cs == Tail(r)
  <2>1. DOMAIN cs = 1 .. n - 1 /\ \A i \in 1 .. n - 1 : cs[i] = r[i + 1]
    BY <1>1
  <2>2. v = value
    BY <1>6 DEF Require
  <2>3. r[1] \in ScalarValues(s) \cup {Null}
    BY <1>1, <1>2, <1>4, <1>6
  <2>4. ASSUME NEW i \in DOMAIN cs PROVE cs[i] \in ScalarValues(s) \cup {Null}
    <3>1. i + 1 \in 1 .. n /\ cs[i] = r[i + 1]
      BY <1>1, <2>1
    <3> QED
      BY <1>2, <1>4, <1>6, <3>1
  <2>5. DOMAIN cs # {}
    BY <1>1, <2>1
  <2>6. {cs[i] : i \in DOMAIN cs} = {r[i] : i \in 2 .. Len(r)}
    <3>1. \A j \in 2 .. n : j - 1 \in 1 .. n - 1 /\ (j - 1) + 1 = j
      BY <1>1
    <3>2. \A i \in 1 .. n - 1 : i + 1 \in 2 .. n
      BY <1>1
    <3> HIDE DEF cs
    <3>3. \A x \in {cs[i] : i \in DOMAIN cs} : \E j \in 2 .. n : x = r[j]
      BY <2>1, <3>2
    <3>4. \A j \in 2 .. n : \E i \in DOMAIN cs : r[j] = cs[i]
      BY <2>1, <3>1
    <3> QED
      BY <3>3, <3>4
  <2> HIDE DEF cs
  <2>7. Membership(r[1], cs) = Verdict(Max(Equalities(r[1], {cs[i] : i \in DOMAIN cs})))
    BY <1>3, <2>3, <2>4, <2>5, MembershipIsKleene
  <2> QED
    BY <1>6, <2>2, <2>6, <2>7 DEF cs
<1> QED
  BY <1>5, <1>6

LEMMA LogicalValues ==
  ASSUME ExpressionInvariant
  PROVE  LogicIsKleene
<1> SUFFICES ASSUME NEW n \in DOMAIN Rows
             PROVE  LET v == values[n]
                        arg(i) == expr.args[i].values[n]
                    IN /\ expr.kind = "binary" /\ expr.op \in {"and", "or"} =>
                            LET settled == IF expr.op = "and" THEN 0 ELSE 2
                            IN IF Failed(arg(1)) THEN v = arg(1)
                               ELSE IF Degree(arg(1)) = settled THEN v = arg(1)
                               ELSE IF Failed(arg(2)) THEN v = arg(2)
                               ELSE v = Verdict(IF expr.op = "and"
                                                THEN Min({Degree(arg(1)), Degree(arg(2))})
                                                ELSE Max({Degree(arg(1)), Degree(arg(2))}))
                       /\ expr.kind = "unary" /\ expr.op = "not" =>
                            v = IF Failed(arg(1)) THEN arg(1) ELSE Verdict(2 - Degree(arg(1)))
                       /\ expr.kind = "in_list" =>
                            IF \E i \in DOMAIN expr.args : Failed(arg(i)) THEN v.scalar = "error"
                            ELSE v = Verdict(Max(Equalities(arg(1), {arg(i) : i \in 2 .. Len(expr.args)})))
  BY DEF LogicIsKleene
<1> DEFINE arg(i) == expr.args[i].values[n]
           r == ResultsAt(expr, n)
           a == DescriptorsOf(expr)
           k == Len(expr.args)
           e == expr.descriptor
           result == values[n]
<1>1. /\ result = ValueOf(expr, Schema, Rows[n], r) /\ DescriptorOf(expr, Schema, a) = e
      /\ e # Invalid /\ HasForm(expr, k)
      /\ \A i \in DOMAIN expr.args : r[i] = arg(i)
  BY ValuesFacts
<1>2. /\ r \in Seq(Results) /\ a \in Seq(Descriptors) /\ k \in Nat
      /\ DOMAIN expr.args = 1 .. k /\ Len(r) = k /\ Len(a) = k
      /\ \A i \in 1 .. k : a[i] \in Descriptors /\ Fits(r[i], a[i])
  BY ArgumentFacts DEF ExpressionInvariant
<1> HIDE DEF r, a, k, e, result
<1>3. ASSUME expr.kind = "binary", expr.op \in {"and", "or"}
      PROVE  IF Failed(r[1]) THEN result = r[1]
             ELSE IF Degree(r[1]) = (IF expr.op = "and" THEN 0 ELSE 2) THEN result = r[1]
             ELSE IF Failed(r[2]) THEN result = r[2]
             ELSE result = Verdict(IF expr.op = "and" THEN Min({Degree(r[1]), Degree(r[2])})
                                                 ELSE Max({Degree(r[1]), Degree(r[2])}))
  <2>1. k = 2 /\ e = BinaryDescriptor(expr.op, a[1], a[2])
    BY <1>1, <1>3 DEF HasForm, DescriptorOf
  <2>2. 1 \in 1 .. k /\ 2 \in 1 .. k
    BY <2>1
  <2>3. a[1].scalar = "BOOLEAN" /\ a[2].scalar = "BOOLEAN"
    BY <1>1, <1>3, <2>1 DEF BinaryDescriptor, ArithmeticOps, ComparisonOps
  <2>4. /\ a[1] \in Descriptors /\ Fits(r[1], a[1])
        /\ a[2] \in Descriptors /\ Fits(r[2], a[2])
    BY <1>2, <2>2
  <2>5. ConnectsAsKleene(r[1], r[2])
    BY <2>3, <2>4, ConditionalIsKleene
  <2>6. CASE expr.op = "and"
    <3>1. result = Conditional(FALSE, r[1], r[2])
      BY <1>1, <1>3, <2>6 DEF ValueOf
    <3> QED
      BY <2>5, <2>6, <3>1 DEF ConnectsAsKleene
  <2>7. CASE expr.op = "or"
    <3>1. result = Conditional(TRUE, r[1], r[2])
      BY <1>1, <1>3, <2>7 DEF ValueOf
    <3> QED
      BY <2>5, <2>7, <3>1 DEF ConnectsAsKleene
  <2> QED
    BY <1>3, <2>6, <2>7
<1>4. ASSUME expr.kind = "unary", expr.op = "not"
      PROVE  result = IF Failed(r[1]) THEN r[1] ELSE Verdict(2 - Degree(r[1]))
  <2>1. k = 1 /\ a[1].scalar = "BOOLEAN"
    BY <1>1, <1>4 DEF HasForm, DescriptorOf
  <2>2. a[1] \in Descriptors /\ Fits(r[1], a[1])
    BY <1>2, <2>1
  <2>3. result = Require(<<r[1]>>, IF r[1] = Null THEN Null ELSE Unary("not", r[1]))
    BY <1>1, <1>4 DEF ValueOf
  <2> QED
    BY <2>1, <2>2, <2>3, NotIsKleene
<1>5. ASSUME expr.kind = "in_list"
      PROVE  IF \E i \in DOMAIN r : Failed(r[i]) THEN result.scalar = "error"
             ELSE result = Verdict(Max(Equalities(r[1], {r[i] : i \in 2 .. Len(r)})))
  <2>1. result = Require(r, Membership(r[1], Tail(r))) /\ e = InListDescriptor(a)
    BY <1>1, <1>5 DEF ValueOf, DescriptorOf
  <2> QED
    BY <1>1, <1>2, <2>1, InListIsKleene
<1>6. DOMAIN r = DOMAIN expr.args /\ \A i \in 1 .. k : r[i] = arg(i)
  BY <1>1, <1>2
<1> HIDE DEF arg
<1>7. expr.kind = "binary" => k = 2
  BY <1>1 DEF HasForm
<1>8. expr.kind = "unary" => k = 1
  BY <1>1 DEF HasForm
<1>9. expr.kind = "in_list" => k > 1
  <2>1. expr.kind = "in_list" => e = InListDescriptor(a)
    BY <1>1 DEF DescriptorOf
  <2> QED
    BY <1>1, <1>2, <2>1 DEF InListDescriptor
<1>10. ASSUME expr.kind = "binary", expr.op \in {"and", "or"}
       PROVE  IF Failed(arg(1)) THEN result = arg(1)
              ELSE IF Degree(arg(1)) = (IF expr.op = "and" THEN 0 ELSE 2) THEN result = arg(1)
              ELSE IF Failed(arg(2)) THEN result = arg(2)
              ELSE result = Verdict(IF expr.op = "and" THEN Min({Degree(arg(1)), Degree(arg(2))})
                                                  ELSE Max({Degree(arg(1)), Degree(arg(2))}))
  <2>1. r[1] = arg(1) /\ r[2] = arg(2)
    BY <1>6, <1>7, <1>10
  <2> QED
    BY <1>3, <1>10, <2>1
<1>11. ASSUME expr.kind = "unary", expr.op = "not"
       PROVE  result = IF Failed(arg(1)) THEN arg(1) ELSE Verdict(2 - Degree(arg(1)))
  <2>1. r[1] = arg(1)
    BY <1>6, <1>8, <1>11
  <2> QED
    BY <1>4, <1>11, <2>1
<1>12. ASSUME expr.kind = "in_list"
       PROVE  IF \E i \in DOMAIN expr.args : Failed(arg(i)) THEN result.scalar = "error"
              ELSE result = Verdict(Max(Equalities(arg(1), {arg(i) : i \in 2 .. k})))
  <2>1. r[1] = arg(1) /\ \A i \in DOMAIN expr.args : r[i] = arg(i)
    BY <1>2, <1>6, <1>9, <1>12
  <2>2. {r[i] : i \in 2 .. Len(r)} = {arg(i) : i \in 2 .. k}
    <3>1. \A i \in 2 .. k : i \in 1 .. k
      BY <1>2
    <3> QED
      BY <1>2, <1>6, <3>1
  <2> QED
    BY <1>5, <1>6, <1>12, <2>1, <2>2
<1> QED
  BY <1>10, <1>11, <1>12 DEF arg, result, k

(* AND, OR, NOT and IN are Kleene's connectives, demand and failures       *)
(* included, whatever their operands are.                                  *)
THEOREM ConnectivesAreKleene == Spec => []LogicIsKleene
<1> QED
  BY ExpressionsAreFormed, LogicalValues, PTL
=============================================================================
