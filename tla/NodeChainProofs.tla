-------------------------- MODULE NodeChainProofs --------------------------
(***************************************************************************)
(* Proofs about graphs grown node by node, for every schema, relation,     *)
(* node and height: what the validator derives for a node - its schema,    *)
(* value keys and peer constants - is true of the rows the evaluator gives *)
(* for it, and the evaluator comes to no branch it marks unreachable.      *)
(***************************************************************************)
EXTENDS NodeChain, ScalarProofs

(* A set of numbers that is not empty has a least one.                    *)
LEMMA LeastFacts ==
  ASSUME NEW S \in SUBSET Nat, S # {}
  PROVE  \E n \in S : \A m \in 0 .. n - 1 : m \notin S
<1>1. PICK n \in S : \A m \in S : n <= m
  BY MinFacts
<1>2. n \in Nat
  OBVIOUS
<1>3. ASSUME NEW m \in 0 .. n - 1 PROVE m \notin S
  BY <1>1, <1>2
<1> QED
  BY <1>3

(* Terms of every height are defined by recursion.                        *)
LEMMA TermsExist ==
  ASSUME NEW m \in 0 .. MaxHeight
  PROVE  \E f : f = [n \in 0 .. m |-> IF n = 0 THEN {} ELSE Over(f[n - 1])]
<1> DEFINE IsUpTo(f, k) == f = [n \in 0 .. k |-> IF n = 0 THEN {} ELSE Over(f[n - 1])]
           S == {k \in 0 .. MaxHeight : ~ \E f : IsUpTo(f, k)}
<1>1. SUFFICES S = {}
  OBVIOUS
<1>2. SUFFICES ASSUME S # {} PROVE FALSE
  OBVIOUS
<1>3. S \subseteq Nat
  BY HeightAssumption
<1>4. PICK k \in S : \A i \in 0 .. k - 1 : i \notin S
  BY <1>2, <1>3, LeastFacts
<1>5. CASE k = 0
  <2> DEFINE f == [n \in 0 .. 0 |-> {}]
  <2>1. f = [n \in 0 .. 0 |-> IF n = 0 THEN {} ELSE Over(f[n - 1])]
    BY SMT
  <2>2. IsUpTo(f, k)
    BY <1>5, <2>1
  <2> QED
    BY <2>2
<1>6. CASE k # 0
  <2>1. k \in 1 .. MaxHeight /\ k - 1 \in 0 .. MaxHeight /\ k - 1 \in 0 .. k - 1
    BY <1>6, HeightAssumption
  <2>2. PICK f : IsUpTo(f, k - 1)
    BY <1>4, <2>1
  <2> DEFINE g == [n \in 0 .. k |-> IF n = 0 THEN {} ELSE Over(f[n - 1])]
  <2>3. \A n \in 0 .. k - 1 : f[n] = IF n = 0 THEN {} ELSE Over(f[n - 1])
    BY <2>2
  <2>4. \A n \in 0 .. k - 1 : g[n] = f[n]
    BY <2>1, <2>3
  <2>5. \A n \in 0 .. k : n # 0 => n - 1 \in 0 .. k - 1
    BY <2>1
  <2>6. g = [n \in 0 .. k |-> IF n = 0 THEN {} ELSE Over(g[n - 1])]
    BY <2>4, <2>5
  <2> HIDE DEF g
  <2>7. IsUpTo(g, k)
    BY <2>6
  <2> QED
    BY <2>7
<1> QED
  BY <1>5, <1>6

(* The terms of a height, from those one below.                           *)
LEMMA TermsEquation ==
  ASSUME NEW n \in 0 .. MaxHeight
  PROVE  Terms[n] = IF n = 0 THEN {} ELSE Over(Terms[n - 1])
<1>1. MaxHeight \in 0 .. MaxHeight
  BY HeightAssumption
<1>2. \E f : f = [i \in 0 .. MaxHeight |-> IF i = 0 THEN {} ELSE Over(f[i - 1])]
  BY <1>1, TermsExist
<1>3. Terms = [i \in 0 .. MaxHeight |-> IF i = 0 THEN {} ELSE Over(Terms[i - 1])]
  BY <1>2, Zenon DEF Terms
<1> QED
  BY <1>3

(* Terms of one height are terms of the next.                             *)
LEMMA TermsGrow ==
  ASSUME NEW n \in 1 .. MaxHeight
  PROVE  Terms[n - 1] \subseteq Terms[n]
<1> DEFINE S == {k \in 1 .. MaxHeight : ~ Terms[k - 1] \subseteq Terms[k]}
<1>1. SUFFICES ASSUME S # {} PROVE FALSE
  OBVIOUS
<1>2. S \subseteq Nat
  BY HeightAssumption
<1>3. PICK k \in S : \A i \in 0 .. k - 1 : i \notin S
  BY <1>1, <1>2, LeastFacts
<1>4. CASE k = 1
  <2>1. Terms[k - 1] = {}
    BY <1>4, TermsEquation, HeightAssumption
  <2> QED
    BY <2>1
<1>5. CASE k # 1
  <2>1. k - 1 \in 1 .. MaxHeight /\ k - 1 \in 0 .. k - 1 /\ k - 1 \in 0 .. MaxHeight /\ k \in 0 .. MaxHeight
    BY <1>5, HeightAssumption
  <2>2. Terms[k - 2] \subseteq Terms[k - 1]
    <3>1. k - 1 \notin S /\ (k - 1) - 1 = k - 2
      BY <1>3, <2>1
    <3> QED
      BY <2>1, <3>1
  <2>3. Terms[k - 1] = Over(Terms[k - 2]) /\ Terms[k] = Over(Terms[k - 1])
    <3>1. k # 0 /\ k - 1 # 0 /\ (k - 1) - 1 = k - 2
      BY <1>5, <2>1
    <3> QED
      BY <2>1, <3>1, TermsEquation
  <2>4. Seq(Terms[k - 2]) \subseteq Seq(Terms[k - 1])
    BY <2>2
  <2>5. Over(Terms[k - 2]) \subseteq Over(Terms[k - 1])
    BY <2>4 DEF Over
  <2> QED
    BY <2>3, <2>5
<1> QED
  BY <1>4, <1>5

(* Every term is an expression.                                           *)
LEMMA TermsBelow ==
  ASSUME NEW n \in 0 .. MaxHeight
  PROVE  Terms[n] \subseteq Expressions
<1> DEFINE S == {k \in Nat : k <= MaxHeight /\ ~ Terms[MaxHeight - k] \subseteq Expressions}
<1>1. S = {}
  <2>1. SUFFICES ASSUME S # {} PROVE FALSE
    OBVIOUS
  <2>2. PICK k \in S : \A i \in 0 .. k - 1 : i \notin S
    BY <2>1, LeastFacts
  <2>3. k # 0
    BY HeightAssumption DEF Expressions
  <2>4. k - 1 \in 0 .. k - 1 /\ k - 1 \in Nat /\ k - 1 <= MaxHeight
    BY <2>3, HeightAssumption
  <2>5. k - 1 \notin S
    BY <2>2, <2>4
  <2>6. Terms[MaxHeight - (k - 1)] \subseteq Expressions
    BY <2>4, <2>5
  <2>7. MaxHeight - (k - 1) \in 1 .. MaxHeight /\ (MaxHeight - (k - 1)) - 1 = MaxHeight - k
    BY <2>3, HeightAssumption
  <2>8. Terms[MaxHeight - k] \subseteq Terms[MaxHeight - (k - 1)]
    BY <2>7, TermsGrow
  <2> QED
    BY <2>6, <2>8
<1>2. MaxHeight - n \in Nat /\ MaxHeight - n <= MaxHeight /\ MaxHeight - (MaxHeight - n) = n
  BY HeightAssumption
<1>3. MaxHeight - n \notin S
  BY <1>1
<1> QED
  BY <1>2, <1>3

(* What every term is, and that its arguments are one level below.         *)
LEMMA OverFacts ==
  ASSUME NEW terms, NEW x \in Over(terms)
  PROVE  /\ x.args \in Seq(terms) /\ Len(x.args) \in Nat /\ DOMAIN x.args = 1 .. Len(x.args)
         /\ \A i \in DOMAIN x.args : x.args[i] \in terms
         /\ HasForm(x, Len(x.args))
         /\ x.descriptor \in Descriptors \cup {Invalid}
         /\ x \in [kind : STRING, op : STRING, ref : Refs, args : Seq(terms), value : Values,
                   descriptor : Descriptors \cup {Invalid}]
<1>1. x \in [kind : STRING, op : STRING, ref : Refs, args : Seq(terms), value : Values,
             descriptor : Descriptors \cup {Invalid}] /\ HasForm(x, Len(x.args))
  BY DEF Over
<1>2. x.args \in Seq(terms) /\ x.descriptor \in Descriptors \cup {Invalid}
  BY <1>1
<1> QED
  BY <1>1, <1>2

(* The arguments of an expression are expressions.                         *)
LEMMA ExpressionFacts ==
  ASSUME NEW x \in Expressions
  PROVE  x \in Over(Expressions)
<1>1. MaxHeight \in 0 .. MaxHeight /\ (MaxHeight # 0 => MaxHeight \in 1 .. MaxHeight)
  BY HeightAssumption
<1>2. MaxHeight # 0 /\ x \in Over(Terms[MaxHeight - 1])
  BY <1>1, TermsEquation DEF Expressions
<1>3. Terms[MaxHeight - 1] \subseteq Expressions
  BY <1>1, <1>2, TermsGrow DEF Expressions
<1>4. Seq(Terms[MaxHeight - 1]) \subseteq Seq(Expressions)
  BY <1>3
<1> QED
  BY <1>2, <1>4 DEF Over

(* Induction over expressions, for a property that a set P stands for: it  *)
(* has every expression whose arguments it has.                            *)
LEMMA ExpressionInduction ==
  ASSUME NEW P, \A x \in Expressions : (\A i \in DOMAIN x.args : x.args[i] \in P) => x \in P
  PROVE  Expressions \subseteq P
<1> DEFINE S == {k \in 0 .. MaxHeight : ~ Terms[k] \subseteq P}
<1>1. MaxHeight \in 0 .. MaxHeight /\ S \subseteq Nat
  BY HeightAssumption
<1>2. S = {}
  <2>1. SUFFICES ASSUME S # {} PROVE FALSE
    OBVIOUS
  <2>2. PICK k \in S : \A i \in 0 .. k - 1 : i \notin S
    BY <1>1, <2>1, LeastFacts
  <2>3. k # 0 /\ k - 1 \in 0 .. MaxHeight /\ k - 1 \in 0 .. k - 1 /\ k \in 0 .. MaxHeight
    BY TermsEquation, HeightAssumption
  <2>4. Terms[k] = Over(Terms[k - 1]) /\ Terms[k - 1] \subseteq P
    <3>1. k - 1 \notin S
      BY <2>2, <2>3
    <3> QED
      BY <2>3, <3>1, TermsEquation
  <2>5. ASSUME NEW x \in Terms[k] PROVE x \in P
    <3>1. \A i \in DOMAIN x.args : x.args[i] \in P
      BY <2>4, OverFacts
    <3>2. x \in Expressions
      BY <2>3, TermsBelow
    <3> QED
      BY <3>1, <3>2
  <2> QED
    BY <2>5
<1> QED
  BY <1>1, <1>2 DEF Expressions
(* A function that gives each term its value on a row. *)
Evaluates(f, terms, schema, row) ==
  f = [x \in terms |-> ValueOf(x, schema, row, [i \in DOMAIN x.args |-> f[x.args[i]]])]

(* Evaluation is defined on the terms of every height.                    *)
LEMMA EvaluationExist ==
  ASSUME NEW schema, NEW row, NEW n \in 0 .. MaxHeight
  PROVE  \E f : Evaluates(f, Terms[n], schema, row)
<1> DEFINE S == {k \in 0 .. MaxHeight : ~ \E f : Evaluates(f, Terms[k], schema, row)}
<1>1. SUFFICES ASSUME S # {} PROVE FALSE
  OBVIOUS
<1>2. S \subseteq Nat
  BY HeightAssumption
<1>3. PICK k \in S : \A i \in 0 .. k - 1 : i \notin S
  BY <1>1, <1>2, LeastFacts
<1>4. CASE k = 0
  <2>1. Terms[k] = {}
    BY <1>4, TermsEquation
  <2> DEFINE f == [x \in {} |-> x]
  <2>2. Evaluates(f, {}, schema, row)
    BY Zenon DEF Evaluates
  <2> QED
    BY <2>1, <2>2
<1>5. CASE k # 0
  <2>1. k \in 1 .. MaxHeight /\ k - 1 \in 0 .. MaxHeight /\ k - 1 \in 0 .. k - 1
    BY <1>5, HeightAssumption
  <2>2. PICK f : Evaluates(f, Terms[k - 1], schema, row)
    BY <1>3, <2>1
  <2>3. Terms[k - 1] \subseteq Terms[k] /\ Terms[k] = Over(Terms[k - 1])
    BY <1>5, <2>1, TermsGrow, TermsEquation
  <2>4. \A x \in Terms[k] : \A i \in DOMAIN x.args : x.args[i] \in Terms[k - 1]
    BY <2>3, OverFacts
  <2> DEFINE g == [x \in Terms[k] |-> ValueOf(x, schema, row, [i \in DOMAIN x.args |-> f[x.args[i]]])]
  <2>5. ASSUME NEW x \in Terms[k - 1] PROVE g[x] = f[x]
    BY <2>2, <2>3, Zenon DEF Evaluates
  <2> HIDE DEF g
  <2>6. ASSUME NEW x \in Terms[k]
        PROVE  [i \in DOMAIN x.args |-> f[x.args[i]]] = [i \in DOMAIN x.args |-> g[x.args[i]]]
    BY <2>4, <2>5
  <2>7. g = [x \in Terms[k] |-> ValueOf(x, schema, row, [i \in DOMAIN x.args |-> g[x.args[i]]])]
    <3>1. g = [x \in Terms[k] |-> ValueOf(x, schema, row, [i \in DOMAIN x.args |-> f[x.args[i]]])]
      BY DEF g
    <3>2. \A x \in Terms[k] : (ValueOf(x, schema, row, [i \in DOMAIN x.args |-> f[x.args[i]]]))
           = (ValueOf(x, schema, row, [i \in DOMAIN x.args |-> g[x.args[i]]]))
      BY <2>6, Zenon
    <3> QED
      BY <3>1, <3>2, Zenon
  <2>8. Evaluates(g, Terms[k], schema, row)
    BY <2>7, Zenon DEF Evaluates
  <2> QED
    BY <2>8
<1> QED
  BY <1>4, <1>5

(* evaluate_expression, from the values of the arguments. *)
LEMMA EvaluationEquation ==
  ASSUME NEW schema, NEW row, NEW e \in Expressions
  PROVE  Evaluate(e, schema, row)
           = ValueOf(e, schema, row,
                     [i \in DOMAIN e.args |-> Evaluate(e.args[i], schema, row)])
<1>1. MaxHeight \in 0 .. MaxHeight
  BY HeightAssumption
<1> DEFINE f == CHOOSE f : Evaluates(f, Expressions, schema, row)
<1>2. Evaluates(f, Expressions, schema, row)
  BY <1>1, EvaluationExist, Zenon DEF Expressions
<1>3. \A x \in Expressions : Evaluate(x, schema, row) = f[x]
  BY Zenon DEF Evaluate, Evaluates
<1> HIDE DEF f
<1>4. f[e] = ValueOf(e, schema, row, [i \in DOMAIN e.args |-> f[e.args[i]]])
  BY <1>2, Zenon DEF Evaluates
<1>5. [i \in DOMAIN e.args |-> f[e.args[i]]] = [i \in DOMAIN e.args |-> Evaluate(e.args[i], schema, row)]
  <2>1. \A i \in DOMAIN e.args : e.args[i] \in Expressions
    BY ExpressionFacts, OverFacts
  <2> QED
    BY <1>3, <2>1
<1> QED
  BY <1>3, <1>4, <1>5, Zenon

(* A function that gives each term the descriptor it is accepted with. *)
Validates(f, terms, schema) ==
  f = [x \in terms |-> Confirmed(x, schema, [i \in DOMAIN x.args |-> f[x.args[i]]])]

(* Validation is defined on the terms of every height.                    *)
LEMMA ValidationExist ==
  ASSUME NEW schema, NEW n \in 0 .. MaxHeight
  PROVE  \E f : Validates(f, Terms[n], schema)
<1> DEFINE S == {k \in 0 .. MaxHeight : ~ \E f : Validates(f, Terms[k], schema)}
<1>1. SUFFICES ASSUME S # {} PROVE FALSE
  OBVIOUS
<1>2. S \subseteq Nat
  BY HeightAssumption
<1>3. PICK k \in S : \A i \in 0 .. k - 1 : i \notin S
  BY <1>1, <1>2, LeastFacts
<1>4. CASE k = 0
  <2>1. Terms[k] = {}
    BY <1>4, TermsEquation
  <2> DEFINE f == [x \in {} |-> x]
  <2>2. Validates(f, {}, schema)
    BY Zenon DEF Validates
  <2> QED
    BY <2>1, <2>2
<1>5. CASE k # 0
  <2>1. k \in 1 .. MaxHeight /\ k - 1 \in 0 .. MaxHeight /\ k - 1 \in 0 .. k - 1
    BY <1>5, HeightAssumption
  <2>2. PICK f : Validates(f, Terms[k - 1], schema)
    BY <1>3, <2>1
  <2>3. Terms[k - 1] \subseteq Terms[k] /\ Terms[k] = Over(Terms[k - 1])
    BY <1>5, <2>1, TermsGrow, TermsEquation
  <2>4. \A x \in Terms[k] : \A i \in DOMAIN x.args : x.args[i] \in Terms[k - 1]
    BY <2>3, OverFacts
  <2> DEFINE g == [x \in Terms[k] |-> Confirmed(x, schema, [i \in DOMAIN x.args |-> f[x.args[i]]])]
  <2>5. ASSUME NEW x \in Terms[k - 1] PROVE g[x] = f[x]
    BY <2>2, <2>3, Zenon DEF Validates
  <2> HIDE DEF g
  <2>6. ASSUME NEW x \in Terms[k]
        PROVE  [i \in DOMAIN x.args |-> f[x.args[i]]] = [i \in DOMAIN x.args |-> g[x.args[i]]]
    BY <2>4, <2>5
  <2>7. g = [x \in Terms[k] |-> Confirmed(x, schema, [i \in DOMAIN x.args |-> g[x.args[i]]])]
    <3>1. g = [x \in Terms[k] |-> Confirmed(x, schema, [i \in DOMAIN x.args |-> f[x.args[i]]])]
      BY DEF g
    <3>2. \A x \in Terms[k] : (Confirmed(x, schema, [i \in DOMAIN x.args |-> f[x.args[i]]]))
           = (Confirmed(x, schema, [i \in DOMAIN x.args |-> g[x.args[i]]]))
      BY <2>6, Zenon
    <3> QED
      BY <3>1, <3>2, Zenon
  <2>8. Validates(g, Terms[k], schema)
    BY <2>7, Zenon DEF Validates
  <2> QED
    BY <2>8
<1> QED
  BY <1>4, <1>5

(* validate_expression, from the descriptors of the arguments. *)
LEMMA ValidationEquation ==
  ASSUME NEW schema, NEW e \in Expressions
  PROVE  ValidateExpression(e, schema)
           = Confirmed(e, schema, [i \in DOMAIN e.args |-> ValidateExpression(e.args[i], schema)])
<1>1. MaxHeight \in 0 .. MaxHeight
  BY HeightAssumption
<1> DEFINE f == CHOOSE f : Validates(f, Expressions, schema)
<1>2. Validates(f, Expressions, schema)
  BY <1>1, ValidationExist, Zenon DEF Expressions
<1>3. \A x \in Expressions : ValidateExpression(x, schema) = f[x]
  BY Zenon DEF ValidateExpression, Validates
<1> HIDE DEF f
<1>4. f[e] = Confirmed(e, schema, [i \in DOMAIN e.args |-> f[e.args[i]]])
  BY <1>2, Zenon DEF Validates
<1>5. [i \in DOMAIN e.args |-> f[e.args[i]]] = [i \in DOMAIN e.args |-> ValidateExpression(e.args[i], schema)]
  <2>1. \A i \in DOMAIN e.args : e.args[i] \in Expressions
    BY ExpressionFacts, OverFacts
  <2> QED
    BY <1>3, <2>1
<1> QED
  BY <1>3, <1>4, <1>5, Zenon

(* A function that annotates each term. *)
Annotates(f, terms, schema) ==
  f = [x \in terms |-> WithAnnotation(x, schema, [i \in DOMAIN x.args |-> f[x.args[i]]])]

(* Annotation is defined on the terms of every height.                    *)
LEMMA AnnotationExist ==
  ASSUME NEW schema, NEW n \in 0 .. MaxHeight
  PROVE  \E f : Annotates(f, Terms[n], schema)
<1> DEFINE S == {k \in 0 .. MaxHeight : ~ \E f : Annotates(f, Terms[k], schema)}
<1>1. SUFFICES ASSUME S # {} PROVE FALSE
  OBVIOUS
<1>2. S \subseteq Nat
  BY HeightAssumption
<1>3. PICK k \in S : \A i \in 0 .. k - 1 : i \notin S
  BY <1>1, <1>2, LeastFacts
<1>4. CASE k = 0
  <2>1. Terms[k] = {}
    BY <1>4, TermsEquation
  <2> DEFINE f == [x \in {} |-> x]
  <2>2. Annotates(f, {}, schema)
    BY Zenon DEF Annotates
  <2> QED
    BY <2>1, <2>2
<1>5. CASE k # 0
  <2>1. k \in 1 .. MaxHeight /\ k - 1 \in 0 .. MaxHeight /\ k - 1 \in 0 .. k - 1
    BY <1>5, HeightAssumption
  <2>2. PICK f : Annotates(f, Terms[k - 1], schema)
    BY <1>3, <2>1
  <2>3. Terms[k - 1] \subseteq Terms[k] /\ Terms[k] = Over(Terms[k - 1])
    BY <1>5, <2>1, TermsGrow, TermsEquation
  <2>4. \A x \in Terms[k] : \A i \in DOMAIN x.args : x.args[i] \in Terms[k - 1]
    BY <2>3, OverFacts
  <2> DEFINE g == [x \in Terms[k] |-> WithAnnotation(x, schema, [i \in DOMAIN x.args |-> f[x.args[i]]])]
  <2>5. ASSUME NEW x \in Terms[k - 1] PROVE g[x] = f[x]
    BY <2>2, <2>3, Zenon DEF Annotates
  <2> HIDE DEF g
  <2>6. ASSUME NEW x \in Terms[k]
        PROVE  [i \in DOMAIN x.args |-> f[x.args[i]]] = [i \in DOMAIN x.args |-> g[x.args[i]]]
    BY <2>4, <2>5
  <2>7. g = [x \in Terms[k] |-> WithAnnotation(x, schema, [i \in DOMAIN x.args |-> g[x.args[i]]])]
    <3>1. g = [x \in Terms[k] |-> WithAnnotation(x, schema, [i \in DOMAIN x.args |-> f[x.args[i]]])]
      BY DEF g
    <3>2. \A x \in Terms[k] : (WithAnnotation(x, schema, [i \in DOMAIN x.args |-> f[x.args[i]]]))
           = (WithAnnotation(x, schema, [i \in DOMAIN x.args |-> g[x.args[i]]]))
      BY <2>6, Zenon
    <3> QED
      BY <3>1, <3>2, Zenon
  <2>8. Annotates(g, Terms[k], schema)
    BY <2>7, Zenon DEF Annotates
  <2> QED
    BY <2>8
<1> QED
  BY <1>4, <1>5

(* An expression is annotated over its annotated arguments. *)
LEMMA AnnotationEquation ==
  ASSUME NEW schema, NEW e \in Expressions
  PROVE  Annotated(e, schema)
           = WithAnnotation(e, schema, [i \in DOMAIN e.args |-> Annotated(e.args[i], schema)])
<1>1. MaxHeight \in 0 .. MaxHeight
  BY HeightAssumption
<1> DEFINE f == CHOOSE f : Annotates(f, Expressions, schema)
<1>2. Annotates(f, Expressions, schema)
  BY <1>1, AnnotationExist, Zenon DEF Expressions
<1>3. \A x \in Expressions : Annotated(x, schema) = f[x]
  BY Zenon DEF Annotated, Annotates
<1> HIDE DEF f
<1>4. f[e] = WithAnnotation(e, schema, [i \in DOMAIN e.args |-> f[e.args[i]]])
  BY <1>2, Zenon DEF Annotates
<1>5. [i \in DOMAIN e.args |-> f[e.args[i]]] = [i \in DOMAIN e.args |-> Annotated(e.args[i], schema)]
  <2>1. \A i \in DOMAIN e.args : e.args[i] \in Expressions
    BY ExpressionFacts, OverFacts
  <2> QED
    BY <1>3, <2>1
<1> QED
  BY <1>3, <1>4, <1>5, Zenon

(* A function that gives each term the fields in it. *)
Refers(f, terms) ==
  f = [x \in terms |-> FieldsOf(x, [i \in DOMAIN x.args |-> f[x.args[i]]])]

(* The fields in an expression are defined at every height.               *)
LEMMA ReferenceExist ==
  ASSUME NEW n \in 0 .. MaxHeight
  PROVE  \E f : Refers(f, Terms[n])
<1> DEFINE S == {k \in 0 .. MaxHeight : ~ \E f : Refers(f, Terms[k])}
<1>1. SUFFICES ASSUME S # {} PROVE FALSE
  OBVIOUS
<1>2. S \subseteq Nat
  BY HeightAssumption
<1>3. PICK k \in S : \A i \in 0 .. k - 1 : i \notin S
  BY <1>1, <1>2, LeastFacts
<1>4. CASE k = 0
  <2>1. Terms[k] = {}
    BY <1>4, TermsEquation
  <2> DEFINE f == [x \in {} |-> x]
  <2>2. Refers(f, {})
    BY Zenon DEF Refers
  <2> QED
    BY <2>1, <2>2
<1>5. CASE k # 0
  <2>1. k \in 1 .. MaxHeight /\ k - 1 \in 0 .. MaxHeight /\ k - 1 \in 0 .. k - 1
    BY <1>5, HeightAssumption
  <2>2. PICK f : Refers(f, Terms[k - 1])
    BY <1>3, <2>1
  <2>3. Terms[k - 1] \subseteq Terms[k] /\ Terms[k] = Over(Terms[k - 1])
    BY <1>5, <2>1, TermsGrow, TermsEquation
  <2>4. \A x \in Terms[k] : \A i \in DOMAIN x.args : x.args[i] \in Terms[k - 1]
    BY <2>3, OverFacts
  <2> DEFINE g == [x \in Terms[k] |-> FieldsOf(x, [i \in DOMAIN x.args |-> f[x.args[i]]])]
  <2>5. ASSUME NEW x \in Terms[k - 1] PROVE g[x] = f[x]
    BY <2>2, <2>3, Zenon DEF Refers
  <2> HIDE DEF g
  <2>6. ASSUME NEW x \in Terms[k]
        PROVE  [i \in DOMAIN x.args |-> f[x.args[i]]] = [i \in DOMAIN x.args |-> g[x.args[i]]]
    BY <2>4, <2>5
  <2>7. g = [x \in Terms[k] |-> FieldsOf(x, [i \in DOMAIN x.args |-> g[x.args[i]]])]
    <3>1. g = [x \in Terms[k] |-> FieldsOf(x, [i \in DOMAIN x.args |-> f[x.args[i]]])]
      BY DEF g
    <3>2. \A x \in Terms[k] : (FieldsOf(x, [i \in DOMAIN x.args |-> f[x.args[i]]]))
           = (FieldsOf(x, [i \in DOMAIN x.args |-> g[x.args[i]]]))
      BY <2>6, Zenon
    <3> QED
      BY <3>1, <3>2, Zenon
  <2>8. Refers(g, Terms[k])
    BY <2>7, Zenon DEF Refers
  <2> QED
    BY <2>8
<1> QED
  BY <1>4, <1>5

(* The fields of an expression are those of its arguments. *)
LEMMA ReferenceEquation ==
  ASSUME NEW e \in Expressions
  PROVE  ReferencedFields(e)
           = FieldsOf(e, [i \in DOMAIN e.args |-> ReferencedFields(e.args[i])])
<1>1. MaxHeight \in 0 .. MaxHeight
  BY HeightAssumption
<1> DEFINE f == CHOOSE f : Refers(f, Expressions)
<1>2. Refers(f, Expressions)
  BY <1>1, ReferenceExist, Zenon DEF Expressions
<1>3. \A x \in Expressions : ReferencedFields(x) = f[x]
  BY Zenon DEF ReferencedFields, Refers
<1> HIDE DEF f
<1>4. f[e] = FieldsOf(e, [i \in DOMAIN e.args |-> f[e.args[i]]])
  BY <1>2, Zenon DEF Refers
<1>5. [i \in DOMAIN e.args |-> f[e.args[i]]] = [i \in DOMAIN e.args |-> ReferencedFields(e.args[i])]
  <2>1. \A i \in DOMAIN e.args : e.args[i] \in Expressions
    BY ExpressionFacts, OverFacts
  <2> QED
    BY <1>3, <2>1
<1> QED
  BY <1>3, <1>4, <1>5, Zenon

(* A function on an initial interval is a sequence. *)
LEMMA SequenceIntro ==
  ASSUME NEW S, NEW n \in Nat, NEW f, f = [i \in 1 .. n |-> f[i]], \A i \in 1 .. n : f[i] \in S
  PROVE  f \in Seq(S) /\ Len(f) = n /\ DOMAIN f = 1 .. n
<1>1. f \in [1 .. n -> S]
  OBVIOUS
<1> QED
  BY <1>1

(* Where a schema has a field. *)
LEMMA PositionFacts ==
  ASSUME NEW schema, NEW id \in FieldIds(schema)
  PROVE  /\ FieldPosition(schema, id) \in DOMAIN schema
         /\ schema[FieldPosition(schema, id)].id = id
<1>1. \E i \in DOMAIN schema : schema[i].id = id
  BY DEF FieldIds
<1> QED
  BY <1>1, Zenon DEF FieldPosition

(* What a schema is.                                                      *)
LEMMA SchemaFacts ==
  ASSUME NEW schema, IsSchema(schema)
  PROVE  /\ schema \in Seq([id : FieldIds(schema), descriptor : Descriptors])
         /\ Len(schema) \in Nat /\ DOMAIN schema = 1 .. Len(schema)
         /\ \A i \in DOMAIN schema : /\ schema[i].descriptor \in Descriptors
                                     /\ schema[i].id \in FieldIds(schema)
<1> DEFINE S == [id : FieldIds(schema), descriptor : Descriptors]
<1>1. schema \in Seq(S)
  BY DEF IsSchema
<1>2. \A x \in S : x.id \in FieldIds(schema) /\ x.descriptor \in Descriptors
  OBVIOUS
<1> HIDE DEF S
<1>3. Len(schema) \in Nat /\ DOMAIN schema = 1 .. Len(schema) /\ \A i \in DOMAIN schema : schema[i] \in S
  BY <1>1
<1>4. schema \in Seq([id : FieldIds(schema), descriptor : Descriptors])
  BY <1>1 DEF S
<1> QED
  BY <1>2, <1>3, <1>4

Annotations == Descriptors \cup {Invalid}

(* Descriptors, and the refusal.                                          *)
LEMMA AnnotationFacts ==
  /\ \A s \in Scalars, n \in BOOLEAN : Descriptor(s, n) \in Annotations /\ Descriptor(s, n) \in Descriptors
  /\ Invalid \in Annotations
  /\ \A d \in Annotations : d.nullable \in BOOLEAN /\ (d \in Descriptors <=> d.scalar \in Scalars)
  /\ \A d \in Annotations : d.scalar \in Scalars \cup {"invalid"} /\ d = Descriptor(d.scalar, d.nullable)
  /\ \A d \in Annotations : d # Invalid <=> d \in Descriptors
  /\ {"BOOLEAN", "INT64", "TEXT"} = Scalars
<1>1. \A d \in Descriptors : \E s \in Scalars, n \in BOOLEAN : d = Descriptor(s, n)
  BY DEF Descriptors
<1>2. "invalid" \notin Scalars
  BY DEF Scalars
<1>3. \A s \in Scalars, n \in BOOLEAN : Descriptor(s, n) \in Annotations /\ Descriptor(s, n) \in Descriptors
  BY DEF Descriptors, Annotations
<1>4. Invalid.scalar = "invalid" /\ Invalid.nullable = FALSE /\ Invalid = Descriptor("invalid", FALSE)
  BY DEF Invalid, Descriptor
<1>5. \A s, n : Descriptor(s, n).scalar = s /\ Descriptor(s, n).nullable = n
  BY DEF Descriptor
<1>6. \A d \in Descriptors : d.scalar \in Scalars /\ d.nullable \in BOOLEAN /\ d = Descriptor(d.scalar, d.nullable)
  BY DescriptorFacts
<1> QED
  BY <1>2, <1>3, <1>4, <1>6 DEF Annotations, Scalars

(* Descriptors of a scalar type.                                          *)
LEMMA DescriptorType ==
  ASSUME NEW s \in Scalars, NEW n \in BOOLEAN
  PROVE  Descriptor(s, n) \in Descriptors /\ Descriptor(s, n) \in Annotations
BY DEF Descriptors, Annotations

(* A literal that is annotated has a scalar type of its own. *)
LEMMA LiteralDescriptor ==
  ASSUME NEW e, e.kind = "literal", e.value \in Values, e.descriptor \in Descriptors, NEW schema, NEW a
  PROVE  DescriptorOf(e, schema, a) \in Descriptors
<1>1. DescriptorOf(e, schema, a) = IF e.value = Null THEN Descriptor(e.descriptor.scalar, TRUE)
                                   ELSE Descriptor(e.value.scalar, FALSE)
  BY DEF DescriptorOf
<1>2. e.value # Null => e.value.scalar \in Scalars
  BY ValueFacts DEF Values
<1>3. Descriptor(e.descriptor.scalar, TRUE) \in Descriptors
  BY DescriptorFacts, DescriptorType
<1>4. e.value # Null => Descriptor(e.value.scalar, FALSE) \in Descriptors
  BY <1>2, DescriptorType
<1> QED
  BY <1>1, <1>3, <1>4

(* A binary operator has a descriptor or is refused.                      *)
LEMMA BinaryDescriptorType ==
  ASSUME NEW op, NEW c \in Annotations, NEW d \in Annotations
  PROVE  BinaryDescriptor(op, c, d) \in Annotations
<1> DEFINE n == c.nullable \/ d.nullable
<1>1. n \in BOOLEAN
  BY AnnotationFacts
<1>2. BinaryDescriptor(op, c, d) \in {Descriptor("INT64", n), Descriptor("BOOLEAN", n), Invalid}
  BY DEF BinaryDescriptor
<1>3. "INT64" \in Scalars /\ "BOOLEAN" \in Scalars
  BY DEF Scalars
<1> QED
  BY <1>1, <1>2, <1>3, AnnotationFacts

(* So has CASE.                                                           *)
LEMMA CaseDescriptorType ==
  ASSUME NEW a \in Seq(Annotations)
  PROVE  CaseDescriptor(a) \in Annotations
<1> DEFINE n == Len(a)
           b == \E i \in Outcomes(n) : a[i].nullable
<1>1. CaseDescriptor(a) = Invalid \/ (/\ n > 1 /\ CaseDescriptor(a) = Descriptor(a[n].scalar, b)
                                      /\ \A i \in Outcomes(n) : a[i].scalar = a[n].scalar)
  BY DEF CaseDescriptor
<1>2. b \in BOOLEAN
  OBVIOUS
<1>3. CASE n > 1 /\ CaseDescriptor(a) = Descriptor(a[n].scalar, b) /\ \A i \in Outcomes(n) : a[i].scalar = a[n].scalar
  <2>1. n \in Outcomes(n) /\ Outcomes(n) \subseteq 1 .. n /\ n \in 1 .. n
    BY <1>3 DEF Outcomes
  <2>2. \A i \in 1 .. n : a[i] \in Annotations
    OBVIOUS
  <2>3. CASE a[n].scalar \in Scalars
    <3> HIDE DEF b
    <3>1. Descriptor(a[n].scalar, b) \in Annotations
      BY <1>2, <2>3, DescriptorType
    <3> QED
      BY <1>3, <3>1
  <2>4. CASE a[n].scalar \notin Scalars
    <3>1. \A i \in Outcomes(n) : a[i] \in Annotations /\ a[i].scalar \notin Scalars
      BY <1>3, <2>1, <2>2, <2>4
    <3>2. \A i \in Outcomes(n) : a[i] = Invalid
      BY <3>1, AnnotationFacts
    <3>3. Invalid.nullable = FALSE
      BY DEF Invalid, Descriptor
    <3>4. b = FALSE
      BY <3>2, <3>3
    <3>5. a[n].scalar = "invalid"
      BY <2>1, <3>2 DEF Invalid, Descriptor
    <3>6. CaseDescriptor(a) = Invalid
      BY <1>3, <3>4, <3>5 DEF Invalid
    <3> QED
      BY <3>6, AnnotationFacts
  <2> QED
    BY <2>3, <2>4
<1> QED
  BY <1>1, <1>3, AnnotationFacts

(* What validate_expression derives is a descriptor or a refusal. *)
LEMMA DescriptorOfType ==
  ASSUME NEW schema, IsSchema(schema), NEW e, NEW a \in Seq(Annotations), HasForm(e, Len(a))
  PROVE  DescriptorOf(e, schema, a) \in Annotations
<1> DEFINE d == DescriptorOf(e, schema, a)
<1>0. \A n \in BOOLEAN : Descriptor("BOOLEAN", n) \in Annotations
  BY AnnotationFacts DEF Scalars
<1>1. CASE e.kind = "literal" /\ e.value \in Values /\ e.descriptor \in Descriptors
  BY <1>1, LiteralDescriptor DEF Annotations
<1>2. CASE e.kind = "field"
  <2>1. CASE e.ref \in FieldIds(schema)
    <3>1. d = schema[FieldPosition(schema, e.ref)].descriptor
      BY <1>2, <2>1 DEF DescriptorOf
    <3>2. FieldPosition(schema, e.ref) \in DOMAIN schema
      BY <2>1, PositionFacts
    <3>3. d \in Descriptors
      BY <3>1, <3>2, SchemaFacts
    <3> QED
      BY <3>3 DEF Annotations
  <2>2. CASE e.ref \notin FieldIds(schema)
    BY <1>2, <2>2, AnnotationFacts DEF DescriptorOf
  <2> QED
    BY <2>1, <2>2
<1>12. \A i \in 1 .. Len(a) : a[i] \in Annotations
  OBVIOUS
<1>3. Len(a) = 1 => a[1] \in Annotations
  <2>1. Len(a) = 1 => 1 \in 1 .. Len(a)
    OBVIOUS
  <2> QED
    BY <1>12, <2>1
<1>4. Len(a) = 2 => a[1] \in Annotations /\ a[2] \in Annotations
  <2>1. Len(a) = 2 => 1 \in 1 .. Len(a) /\ 2 \in 1 .. Len(a)
    OBVIOUS
  <2> QED
    BY <1>12, <2>1
<1>5. CASE e.kind = "unary" /\ Len(a) = 1
  <2>1. d = a[1] \/ d = Invalid
    BY <1>5 DEF DescriptorOf
  <2> QED
    BY <1>3, <1>5, <2>1, AnnotationFacts
<1>6. CASE e.kind = "binary" /\ Len(a) = 2
  <2>1. d = BinaryDescriptor(e.op, a[1], a[2])
    BY <1>6 DEF DescriptorOf
  <2> QED
    BY <1>4, <1>6, <2>1, BinaryDescriptorType
<1>7. CASE e.kind = "is_null" \/ e.kind = "exists"
  <2>1. d = Descriptor("BOOLEAN", FALSE)
    BY <1>7 DEF DescriptorOf
  <2> QED
    BY <1>0, <2>1
<1>8. CASE e.kind = "cast" /\ e.op \in Scalars /\ Len(a) = 1
  <2>1. d = Descriptor(e.op, a[1].nullable) \/ d = Invalid
    BY <1>8 DEF DescriptorOf
  <2> QED
    BY <1>3, <1>8, <2>1, AnnotationFacts
<1>9. CASE e.kind = "case"
  <2>1. d = CaseDescriptor(a)
    BY <1>9 DEF DescriptorOf
  <2> QED
    BY <2>1, CaseDescriptorType
<1>10. CASE e.kind = "in_list"
  <2> DEFINE n == \E i \in DOMAIN a : a[i].nullable
  <2>1. d = InListDescriptor(a)
    BY <1>10 DEF DescriptorOf
  <2>2. InListDescriptor(a) \in {Invalid, Descriptor("BOOLEAN", n)}
    BY DEF InListDescriptor
  <2>3. n \in BOOLEAN
    OBVIOUS
  <2> HIDE DEF n, d
  <2>4. d \in Annotations
    BY <1>0, <2>1, <2>2, <2>3, AnnotationFacts
  <2> QED
    BY <2>4 DEF d
<1>11. CASE e.kind = "in_query" /\ e.ref \in DOMAIN Queries /\ Len(a) = 1
  <2> DEFINE s == Queries[e.ref].schema
             n == a[1].nullable \/ s[1].descriptor.nullable
  <2>1. d = InQueryDescriptor(a[1], s)
    BY <1>11 DEF DescriptorOf
  <2>2. InQueryDescriptor(a[1], s) \in {Invalid, Descriptor("BOOLEAN", n)}
    BY DEF InQueryDescriptor
  <2>3. n \in BOOLEAN
    OBVIOUS
  <2> HIDE DEF n, d
  <2>4. d \in Annotations
    BY <1>0, <2>1, <2>2, <2>3, AnnotationFacts, SMTT(30)
  <2> QED
    BY <2>4, Zenon DEF d
<1> QED
  BY <1>1, <1>2, <1>5, <1>6, <1>7, <1>8, <1>9, <1>10, <1>11 DEF HasForm

(* The annotations given to an expression leave it one. *)
LEMMA AnnotatedLevel ==
  ASSUME NEW schema, IsSchema(schema), NEW n \in 0 .. MaxHeight
  PROVE  \A x \in Terms[n] : Annotated(x, schema) \in Terms[n]
<1> DEFINE S == {k \in 0 .. MaxHeight : \E x \in Terms[k] : Annotated(x, schema) \notin Terms[k]}
<1>1. SUFFICES ASSUME S # {} PROVE FALSE
  OBVIOUS
<1>2. S \subseteq Nat
  BY HeightAssumption
<1>3. PICK k \in S : \A i \in 0 .. k - 1 : i \notin S
  BY <1>1, <1>2, LeastFacts
<1>4. PICK e \in Terms[k] : Annotated(e, schema) \notin Terms[k]
  OBVIOUS
<1>5. k \in 1 .. MaxHeight /\ k - 1 \in 0 .. MaxHeight /\ k - 1 \in 0 .. k - 1 /\ k \in 0 .. MaxHeight
  BY <1>4, TermsEquation, HeightAssumption
<1>6. Terms[k] = Over(Terms[k - 1]) /\ \A x \in Terms[k - 1] : Annotated(x, schema) \in Terms[k - 1]
  BY <1>3, <1>5, TermsEquation
<1> DEFINE args == [i \in DOMAIN e.args |-> Annotated(e.args[i], schema)]
           a == [i \in DOMAIN args |-> args[i].descriptor]
           d == DescriptorOf(e, schema, a)
<1>7. /\ e.args \in Seq(Terms[k - 1]) /\ Len(e.args) \in Nat /\ DOMAIN e.args = 1 .. Len(e.args)
      /\ \A i \in DOMAIN e.args : e.args[i] \in Terms[k - 1]
      /\ HasForm(e, Len(e.args))
      /\ e \in [kind : STRING, op : STRING, ref : Refs, args : Seq(Terms[k - 1]), value : Values,
               descriptor : Descriptors \cup {Invalid}]
  BY <1>6, OverFacts
<1>8. \A i \in DOMAIN e.args : args[i] \in Terms[k - 1]
  BY <1>6, <1>7
<1>9. args \in Seq(Terms[k - 1]) /\ Len(args) = Len(e.args) /\ DOMAIN args = DOMAIN e.args
  BY <1>7, <1>8, SMTT(30)
<1>10. \A x \in Terms[k - 1] : x.descriptor \in Annotations
  BY <1>5, TermsBelow, ExpressionFacts, OverFacts DEF Annotations
<1>11. \A i \in DOMAIN args : a[i] \in Annotations
  BY <1>8, <1>9, <1>10
<1>12. a \in Seq(Annotations) /\ Len(a) = Len(e.args)
  BY <1>7, <1>9, <1>11
<1>13. d \in Annotations
  BY <1>7, <1>12, DescriptorOfType
<1>14. Annotated(e, schema) = [e EXCEPT !.args = args, !.descriptor = d]
  <2>1. e \in Expressions
    BY <1>5, TermsBelow
  <2> QED
    BY <2>1, AnnotationEquation, ZenonT(40) DEF WithAnnotation
<1> DEFINE z == [e EXCEPT !.args = args, !.descriptor = d]
<1>15. /\ z \in [kind : STRING, op : STRING, ref : Refs, args : Seq(Terms[k - 1]), value : Values,
                 descriptor : Descriptors \cup {Invalid}]
       /\ z.kind = e.kind /\ z.op = e.op /\ z.ref = e.ref /\ z.args = args /\ z.value = e.value
       /\ z.descriptor = d
  <2> HIDE DEF args, d
  <2> QED
    BY <1>7, <1>9, <1>13 DEF Annotations
<1>16. HasForm(z, Len(z.args))
  <2>1. z.kind = "literal" /\ e.value \in Values /\ e.descriptor \in Descriptors => z.descriptor \in Descriptors
    BY <1>15, LiteralDescriptor
  <2> HIDE DEF z
  <2> QED
    BY <1>7, <1>9, <1>15, <2>1 DEF HasForm
<1> QED
  BY <1>4, <1>6, <1>14, <1>15, <1>16, Zenon DEF Over

(* An annotated expression is an expression.                              *)
LEMMA AnnotatedType ==
  ASSUME NEW schema, IsSchema(schema), NEW e \in Expressions
  PROVE  Annotated(e, schema) \in Expressions
<1>1. MaxHeight \in 0 .. MaxHeight
  BY HeightAssumption
<1> QED
  BY <1>1, AnnotatedLevel DEF Expressions

(* An expression the validator accepts is one whose arguments it accepts.  *)
LEMMA TypedFacts ==
  ASSUME NEW schema, NEW e \in Expressions, Typed(e, schema)
  PROVE  LET a == [i \in DOMAIN e.args |-> ValidateExpression(e.args[i], schema)]
         IN /\ \A i \in DOMAIN e.args : e.args[i] \in Expressions /\ Typed(e.args[i], schema)
            /\ ValidateExpression(e, schema) = e.descriptor
            /\ e.descriptor = DescriptorOf(e, schema, a)
            /\ e.descriptor \in Descriptors
<1> DEFINE a == [i \in DOMAIN e.args |-> ValidateExpression(e.args[i], schema)]
<1>1. ValidateExpression(e, schema) = Confirmed(e, schema, a)
  BY ValidationEquation
<1>2. Confirmed(e, schema, a) # Invalid
  BY <1>1 DEF Typed
<1>3. /\ \A i \in DOMAIN a : a[i] # Invalid
      /\ DescriptorOf(e, schema, a) = e.descriptor /\ Confirmed(e, schema, a) = e.descriptor
  BY <1>2, Zenon DEF Confirmed
<1>4. \A i \in DOMAIN e.args : e.args[i] \in Expressions
  BY ExpressionFacts, OverFacts
<1>5. e.descriptor \in Descriptors \cup {Invalid}
  BY ExpressionFacts, OverFacts
<1> QED
  BY <1>1, <1>2, <1>3, <1>4, <1>5 DEF Typed

(* What the validator accepts, the evaluator gives a value for that fits   *)
(* the annotation, on every row of the schema.                             *)
LEMMA Soundness ==
  ASSUME NEW schema, IsSchema(schema), NEW row \in RowsOf(schema), NEW e \in Expressions,
         Typed(e, schema)
  PROVE  Fits(Evaluate(e, schema, row), e.descriptor)
<1> DEFINE P == {x \in Expressions : Typed(x, schema) => Fits(Evaluate(x, schema, row), x.descriptor)}
<1>1. ASSUME NEW x \in Expressions, \A i \in DOMAIN x.args : x.args[i] \in P, Typed(x, schema)
      PROVE  Fits(Evaluate(x, schema, row), x.descriptor)
  <2> DEFINE a == [i \in DOMAIN x.args |-> ValidateExpression(x.args[i], schema)]
             r == [i \in DOMAIN x.args |-> Evaluate(x.args[i], schema, row)]
  <2>1. /\ \A i \in DOMAIN x.args : x.args[i] \in Expressions /\ Typed(x.args[i], schema)
        /\ x.descriptor = DescriptorOf(x, schema, a)
        /\ x.descriptor \in Descriptors
    BY <1>1, TypedFacts
  <2>2. \A i \in DOMAIN x.args : /\ ValidateExpression(x.args[i], schema) = x.args[i].descriptor
                                 /\ x.args[i].descriptor \in Descriptors
    BY <2>1, TypedFacts
  <2>3. \A i \in DOMAIN x.args : Fits(Evaluate(x.args[i], schema, row), x.args[i].descriptor)
    BY <1>1, <2>1
  <2>4. Len(x.args) \in Nat /\ DOMAIN x.args = 1 .. Len(x.args) /\ HasForm(x, Len(x.args))
    BY ExpressionFacts, OverFacts
  <2>5. \A i \in 1 .. Len(x.args) : a[i] \in Descriptors /\ Fits(r[i], a[i]) /\ r[i] \in Results
    BY <2>2, <2>3, <2>4, FitsFacts
  <2>6. a = [i \in 1 .. Len(x.args) |-> a[i]] /\ r = [i \in 1 .. Len(x.args) |-> r[i]]
    BY <2>4
  <2> HIDE DEF P
  <2>7. Evaluate(x, schema, row) = ValueOf(x, schema, row, r)
    BY EvaluationEquation
  <2> HIDE DEF a, r
  <2>8. a \in Seq(Descriptors) /\ r \in Seq(Results) /\ Len(a) = Len(x.args) /\ Len(r) = Len(x.args)
    BY <2>4, <2>5, <2>6, SequenceIntro
  <2>9. Fits(ValueOf(x, schema, row, r), x.descriptor)
    BY <2>1, <2>4, <2>5, <2>8, OperatorFits
  <2> QED
    BY <2>7, <2>9
<1>2. \A x \in Expressions : (\A i \in DOMAIN x.args : x.args[i] \in P) => x \in P
  BY <1>1
<1> HIDE DEF P
<1>3. Expressions \subseteq P
  BY <1>2, ExpressionInduction
<1> QED
  BY <1>3 DEF P

(* The value depends on no field but those the expression names. *)
LEMMA Locality ==
  ASSUME NEW schema, NEW row, NEW twin, NEW e \in Expressions,
         \A f \in ReferencedFields(e) \cap FieldIds(schema) :
           row[FieldPosition(schema, f)] = twin[FieldPosition(schema, f)]
  PROVE  Evaluate(e, schema, row) = Evaluate(e, schema, twin)
<1> DEFINE Alike(x) == \A f \in ReferencedFields(x) \cap FieldIds(schema) :
                         row[FieldPosition(schema, f)] = twin[FieldPosition(schema, f)]
           P == {x \in Expressions : Alike(x) => Evaluate(x, schema, row) = Evaluate(x, schema, twin)}
<1>1. ASSUME NEW x \in Expressions, \A i \in DOMAIN x.args : x.args[i] \in P, Alike(x)
      PROVE  Evaluate(x, schema, row) = Evaluate(x, schema, twin)
  <2> DEFINE r == [i \in DOMAIN x.args |-> Evaluate(x.args[i], schema, row)]
             s == [i \in DOMAIN x.args |-> Evaluate(x.args[i], schema, twin)]
             fields == [i \in DOMAIN x.args |-> ReferencedFields(x.args[i])]
  <2>1. Evaluate(x, schema, row) = ValueOf(x, schema, row, r)
        /\ Evaluate(x, schema, twin) = ValueOf(x, schema, twin, s)
    BY EvaluationEquation
  <2>2. ReferencedFields(x) = FieldsOf(x, fields)
    BY ReferenceEquation
  <2>3. CASE x.kind = "field"
    <3>1. x.ref \in ReferencedFields(x)
      BY <2>2, <2>3 DEF FieldsOf
    <3>2. CASE x.ref \in FieldIds(schema)
      <4>1. row[FieldPosition(schema, x.ref)] = twin[FieldPosition(schema, x.ref)]
        BY <1>1, <3>1, <3>2
      <4>2. /\ ValueOf(x, schema, row, r) = row[FieldPosition(schema, x.ref)]
            /\ ValueOf(x, schema, twin, s) = twin[FieldPosition(schema, x.ref)]
        BY <2>3, <3>2 DEF ValueOf
      <4> QED
        BY <2>1, <4>1, <4>2
    <3>3. CASE x.ref \notin FieldIds(schema)
      <4>1. ValueOf(x, schema, row, r) = Unreachable /\ ValueOf(x, schema, twin, s) = Unreachable
        BY <2>3, <3>3 DEF ValueOf
      <4> QED
        BY <2>1, <4>1
    <3> QED
      BY <3>2, <3>3
  <2>4. CASE x.kind # "field"
    <3>1. \A i \in DOMAIN x.args : ReferencedFields(x.args[i]) \subseteq ReferencedFields(x)
      <4>1. ReferencedFields(x) = UNION Range(fields)
        BY <2>2, <2>4 DEF FieldsOf
      <4>2. \A i \in DOMAIN x.args : fields[i] \in Range(fields)
        BY DEF Range
      <4>3. \A i \in DOMAIN x.args : fields[i] = ReferencedFields(x.args[i])
        OBVIOUS
      <4> QED
        BY <4>1, <4>2, <4>3
    <3>2. \A i \in DOMAIN x.args : Evaluate(x.args[i], schema, row) = Evaluate(x.args[i], schema, twin)
      <4>1. \A i \in DOMAIN x.args : Alike(x.args[i])
        BY <1>1, <3>1
      <4>2. \A i \in DOMAIN x.args : x.args[i] \in P
        BY <1>1
      <4> QED
        BY <4>1, <4>2
    <3>3. r = s
      BY <3>2
    <3>4. ValueOf(x, schema, row, r) = ValueOf(x, schema, twin, r)
      <4> HIDE DEF r
      <4> QED
        BY <2>4 DEF ValueOf
    <3> QED
      BY <2>1, <3>3, <3>4
  <2> QED
    BY <2>3, <2>4
<1>2. \A x \in Expressions : (\A i \in DOMAIN x.args : x.args[i] \in P) => x \in P
  BY <1>1
<1> HIDE DEF P
<1>3. Expressions \subseteq P
  BY <1>2, ExpressionInduction
<1> QED
  BY <1>3 DEF P

-----------------------------------------------------------------------------
(* Sets arranged in an order. *)

Orders(R, S) ==
  /\ \A i \in S : <<i, i>> \notin R
  /\ \A i, j \in S : i # j => <<i, j>> \in R \/ <<j, i>> \in R
  /\ \A i, j, k \in S : <<i, j>> \in R /\ <<j, k>> \in R => <<i, k>> \in R

(* In a finite set with an order, the members have different numbers of    *)
(* members before them: every number below the size of the set.            *)
LEMMA RankFacts ==
  ASSUME NEW S, IsFiniteSet(S), NEW R, Orders(R, S)
  PROVE  LET Rank(i) == Cardinality({j \in S : <<j, i>> \in R})
         IN /\ \A i \in S : Rank(i) \in 0 .. Cardinality(S) - 1
            /\ \A i, j \in S : <<i, j>> \in R <=> Rank(i) < Rank(j)
            /\ \A n \in 0 .. Cardinality(S) - 1 : \E i \in S : Rank(i) = n
<1> DEFINE Before(i) == {j \in S : <<j, i>> \in R}
           Rank(i) == Cardinality(Before(i))
           N == Cardinality(S)
<1>1. N \in Nat
  BY FS_CardinalityType
<1>2. ASSUME NEW i \in S PROVE Rank(i) \in 0 .. N - 1 /\ IsFiniteSet(Before(i)) /\ Rank(i) \in Nat
  <2>1. Before(i) \subseteq S /\ i \notin Before(i) /\ Before(i) # S
    BY DEF Orders
  <2> HIDE DEF Before
  <2>2. IsFiniteSet(Before(i)) /\ Rank(i) <= N /\ Rank(i) # N
    BY <2>1, FS_Subset
  <2>3. Rank(i) \in Nat
    BY <2>2, FS_CardinalityType
  <2> QED
    BY <1>1, <2>2, <2>3
<1>3. ASSUME NEW i \in S, NEW j \in S, <<i, j>> \in R PROVE Rank(i) < Rank(j)
  <2>1. Before(i) \subseteq Before(j) /\ i \in Before(j) /\ i \notin Before(i)
    BY <1>3 DEF Orders
  <2>2. IsFiniteSet(Before(j)) /\ Rank(i) \in Nat /\ Rank(j) \in Nat
    BY <1>2
  <2> HIDE DEF Before
  <2>3. Rank(i) <= Rank(j) /\ Rank(i) # Rank(j)
    BY <2>1, <2>2, FS_Subset
  <2> QED
    BY <2>2, <2>3
<1>4. \A i \in S : Rank(i) \in Nat
  BY <1>2
<1> HIDE DEF Rank
<1>5. ASSUME NEW i \in S, NEW j \in S, Rank(i) < Rank(j) PROVE <<i, j>> \in R
  <2>1. ~ Rank(j) < Rank(i) /\ Rank(i) # Rank(j)
    BY <1>4, <1>5
  <2> QED
    BY <1>3, <2>1 DEF Orders
<1>6. \A i, j \in S : Rank(i) = Rank(j) => i = j
  <2>1. \A i, j \in S : i # j => <<i, j>> \in R \/ <<j, i>> \in R
    BY DEF Orders
  <2>2. \A i, j \in S : <<i, j>> \in R => Rank(i) # Rank(j)
    BY <1>3, <1>4
  <2> QED
    BY <2>1, <2>2
<1> DEFINE T == 0 .. N - 1
           f == [i \in S |-> Rank(i)]
<1>7. f \in Injection(S, T)
  <2>1. f \in [S -> T]
    BY <1>2
  <2>2. \A i, j \in S : f[i] = f[j] => i = j
    BY <1>6
  <2> HIDE DEF f
  <2> QED
    BY <2>1, <2>2 DEF Injection, IsInjective
<1>8. IsFiniteSet(T) /\ Cardinality(T) = N
  BY <1>1, FS_Interval
<1>9. f \in Surjection(S, T)
  <2> HIDE DEF f, T
  <2> QED
    BY <1>7, <1>8, FS_Injection
<1>10. \A n \in T : \E i \in S : Rank(i) = n
  BY <1>9 DEF Surjection
<1>11. \A i \in S : Rank(i) \in 0 .. N - 1
  BY <1>2
<1>12. \A i, j \in S : <<i, j>> \in R <=> Rank(i) < Rank(j)
  BY <1>3, <1>5
<1> QED
  BY <1>10, <1>11, <1>12 DEF Rank

(* A set arranged in an order is listed once, and in that order. *)
LEMMA ArrangedFacts ==
  ASSUME NEW S, IsFiniteSet(S), NEW R, Orders(R, S)
  PROVE  LET f == Arranged(S, R)
         IN /\ f \in Seq(S) /\ Len(f) = Cardinality(S) /\ DOMAIN f = 1 .. Cardinality(S)
            /\ Cardinality(S) \in Nat
            /\ \A p, q \in DOMAIN f : p < q <=> <<f[p], f[q]>> \in R
            /\ \A p, q \in DOMAIN f : f[p] = f[q] => p = q
            /\ \A i \in S : \E p \in DOMAIN f : f[p] = i
            /\ Range(f) = S
<1> DEFINE Rank(i) == Cardinality({j \in S : <<j, i>> \in R})
           N == Cardinality(S)
           f == Arranged(S, R)
<1>1. /\ \A i \in S : Rank(i) \in 0 .. N - 1
      /\ \A i, j \in S : <<i, j>> \in R <=> Rank(i) < Rank(j)
      /\ \A n \in 0 .. N - 1 : \E i \in S : Rank(i) = n
  BY RankFacts
<1>2. N \in Nat
  BY FS_CardinalityType
<1>3. f = [p \in 1 .. N |-> CHOOSE i \in S : Rank(i) = p - 1]
  BY DEF Arranged
<1> HIDE DEF Rank
<1>4. ASSUME NEW p \in 1 .. N PROVE f[p] \in S /\ Rank(f[p]) = p - 1
  <2>1. p - 1 \in 0 .. N - 1
    BY <1>2
  <2>2. f[p] = CHOOSE i \in S : Rank(i) = p - 1
    BY <1>3
  <2> HIDE DEF f
  <2> QED
    BY <1>1, <2>1, <2>2
<1>5. f = [p \in 1 .. N |-> f[p]]
  BY <1>3
<1> HIDE DEF f, N
<1>6. f \in Seq(S) /\ Len(f) = N /\ DOMAIN f = 1 .. N
  BY <1>2, <1>4, <1>5, SequenceIntro
<1>7. \A p, q \in 1 .. N : p < q <=> Rank(f[p]) < Rank(f[q])
  BY <1>2, <1>4
<1>8. \A p, q \in 1 .. N : f[p] = f[q] => p = q
  BY <1>2, <1>4
<1>9. ASSUME NEW i \in S PROVE \E p \in 1 .. N : f[p] = i
  <2>1. Rank(i) \in 0 .. N - 1 /\ Rank(i) + 1 \in 1 .. N
    BY <1>1, <1>2
  <2>2. f[Rank(i) + 1] \in S /\ Rank(f[Rank(i) + 1]) = Rank(i)
    BY <1>4, <2>1
  <2>3. \A j \in S : Rank(j) = Rank(i) => j = i
    <3>1. \A j \in S : <<i, j>> \notin R /\ <<j, i>> \notin R => j = i
      BY DEF Orders
    <3>2. \A j \in S : Rank(j) = Rank(i) => ~ Rank(i) < Rank(j) /\ ~ Rank(j) < Rank(i)
      BY <2>1
    <3> QED
      BY <1>1, <3>1, <3>2
  <2> QED
    BY <2>1, <2>2, <2>3
<1>10. Range(f) = S
  BY <1>4, <1>6, <1>9 DEF Range
<1>11. \A p, q \in 1 .. N : p < q <=> <<f[p], f[q]>> \in R
  BY <1>1, <1>4, <1>7
<1> QED
  BY <1>2, <1>6, <1>8, <1>9, <1>10, <1>11 DEF f, N

(* Some positions in increasing order. *)
LEMMA IncreasingFacts ==
  ASSUME NEW S, IsFiniteSet(S), S \subseteq Int
  PROVE  LET f == Increasing(S)
         IN /\ f \in Seq(S) /\ Len(f) = Cardinality(S) /\ DOMAIN f = 1 .. Cardinality(S)
            /\ Cardinality(S) \in Nat
            /\ \A p, q \in DOMAIN f : p < q <=> f[p] < f[q]
            /\ \A p, q \in DOMAIN f : f[p] = f[q] => p = q
            /\ \A i \in S : \E p \in DOMAIN f : f[p] = i
            /\ Range(f) = S
<1> DEFINE R == {pair \in S \X S : pair[1] < pair[2]}
           f == Increasing(S)
<1>1. \A i, j \in S : <<i, j>> \in R <=> i < j
  OBVIOUS
<1>2. f = Arranged(S, R)
  BY DEF Increasing
<1> HIDE DEF R
<1>3. Orders(R, S)
  BY <1>1 DEF Orders
<1>4. /\ f \in Seq(S) /\ Len(f) = Cardinality(S) /\ DOMAIN f = 1 .. Cardinality(S)
      /\ Cardinality(S) \in Nat
      /\ \A p, q \in DOMAIN f : p < q <=> <<f[p], f[q]>> \in R
      /\ \A p, q \in DOMAIN f : f[p] = f[q] => p = q
      /\ \A i \in S : \E p \in DOMAIN f : f[p] = i
      /\ Range(f) = S
  BY <1>2, <1>3, ArrangedFacts
<1> HIDE DEF f
<1>5. \A p \in DOMAIN f : f[p] \in S
  BY <1>4
<1>6. \A p, q \in DOMAIN f : p < q <=> f[p] < f[q]
  BY <1>1, <1>4, <1>5
<1> QED
  BY <1>4, <1>6 DEF f

(* A set of positions is finite. *)
LEMMA PositionSets ==
  ASSUME NEW n \in Nat, NEW S, S \subseteq 1 .. n
  PROVE  IsFiniteSet(S) /\ S \subseteq Int /\ S \subseteq Nat
<1>1. IsFiniteSet(1 .. n)
  BY FS_Interval
<1>2. IsFiniteSet(S)
  BY <1>1, FS_Subset
<1> QED
  BY <1>2

(* A value of a descriptor, as a cell of a row. *)
Cell(v, d) == v \in Values /\ Conforms(v, d)

(* A cell is what an expression fits and does not fail with.              *)
LEMMA CellFacts ==
  ASSUME NEW d \in Descriptors, NEW v
  PROVE  /\ Cell(v, d) <=> v \in ScalarValues(d.scalar) \/ (v = Null /\ d.nullable)
         /\ Cell(v, d) <=> Fits(v, d) /\ ~ Failed(v)
         /\ Cell(v, d) => v \in Values /\ ~ Failed(v)
<1>1. d.scalar \in Scalars
  BY DescriptorFacts
<1>2. v \in ScalarValues(d.scalar) => v.scalar = d.scalar /\ v \in Values
  BY <1>1, ValueFacts DEF Values
<1>3. Null \in Values
  BY DEF Values
<1>4. Cell(v, d) <=> v \in ScalarValues(d.scalar) \/ (v = Null /\ d.nullable)
  BY <1>2, <1>3, ConformsFacts DEF Cell, Conforms
<1>5. Cell(v, d) => Fits(v, d) /\ ~ Failed(v)
  <2>1. Cell(v, d) => v \notin Errors
    <3>1. \A s \in Scalars : s \notin {"error", "null"}
      BY DEF Scalars
    <3> QED
      BY <1>1, <1>2, <1>4, <3>1, ValueFacts
  <2> QED
    BY <1>4, <2>1, FitsFacts DEF Fits
<1>6. Fits(v, d) /\ ~ Failed(v) => Cell(v, d)
  BY <1>4, FitsFacts DEF Fits
<1> QED
  BY <1>4, <1>5, <1>6 DEF Cell

(* A row, cell by cell.                                                   *)
LEMMA RowFacts ==
  ASSUME NEW schema, NEW row
  PROVE  row \in RowsOf(schema) <=>
           row = [i \in DOMAIN schema |-> row[i]] /\ \A i \in DOMAIN schema : Cell(row[i], schema[i].descriptor)
BY DEF RowsOf, RowConforms, Cell

(* A row is a sequence of values as long as its schema.                   *)
LEMMA RowSequence ==
  ASSUME NEW schema, IsSchema(schema), NEW row \in RowsOf(schema)
  PROVE  row \in Seq(Values) /\ Len(row) = Len(schema) /\ DOMAIN row = 1 .. Len(schema)
         /\ \A i \in 1 .. Len(schema) : Cell(row[i], schema[i].descriptor) /\ row[i] \in Values
<1>1. DOMAIN schema = 1 .. Len(schema) /\ Len(schema) \in Nat
  BY SchemaFacts
<1>2. row = [i \in 1 .. Len(schema) |-> row[i]] /\ \A i \in 1 .. Len(schema) : Cell(row[i], schema[i].descriptor)
  BY <1>1, RowFacts
<1>3. \A i \in 1 .. Len(schema) : row[i] \in Values
  BY <1>2 DEF Cell
<1> QED
  BY <1>1, <1>2, <1>3, SequenceIntro

(* Fields with descriptors make a schema.                                 *)
LEMMA SchemaIntro ==
  ASSUME NEW n \in Nat, NEW schema, schema = [i \in 1 .. n |-> schema[i]],
         \A i \in 1 .. n : /\ schema[i].descriptor \in Descriptors
                           /\ schema[i] = Field(schema[i].id, schema[i].descriptor)
  PROVE  IsSchema(schema) /\ Len(schema) = n
<1>1. \A i \in 1 .. n : schema[i] \in [id : FieldIds(schema), descriptor : Descriptors]
  <2>1. \A i \in 1 .. n : schema[i].id \in FieldIds(schema)
    BY DEF FieldIds
  <2>2. \A x \in FieldIds(schema), d \in Descriptors : Field(x, d) \in [id : FieldIds(schema), descriptor : Descriptors]
    BY DEF Field
  <2>3. ASSUME NEW i \in 1 .. n
        PROVE  schema[i] \in [id : FieldIds(schema), descriptor : Descriptors]
    <3>1. Field(schema[i].id, schema[i].descriptor) \in [id : FieldIds(schema), descriptor : Descriptors]
      BY <2>1, <2>2
    <3> QED
      BY <3>1, Zenon
  <2> QED
    BY <2>3
<1> DEFINE S == [id : FieldIds(schema), descriptor : Descriptors]
<1>2. \A i \in 1 .. n : schema[i] \in S
  BY <1>1
<1> HIDE DEF S
<1>3. schema \in Seq(S) /\ Len(schema) = n
  BY <1>2, SequenceIntro
<1> QED
  BY <1>3 DEF IsSchema, S

(* The parts of a field.                                                  *)
LEMMA FieldValues ==
  ASSUME NEW id, NEW d
  PROVE  Field(id, d).id = id /\ Field(id, d).descriptor = d
BY DEF Field

(* A field of a schema, from its parts.                                   *)
LEMMA SchemaFields ==
  ASSUME NEW schema, IsSchema(schema), NEW i \in DOMAIN schema
  PROVE  schema[i] = Field(schema[i].id, schema[i].descriptor)
<1> DEFINE S == [id : FieldIds(schema), descriptor : Descriptors]
<1>1. schema \in Seq(S)
  BY DEF IsSchema
<1>2. \A x \in S : x = Field(x.id, x.descriptor)
  BY DEF Field
<1> HIDE DEF S
<1> QED
  BY <1>1, <1>2

(* The concatenation of two sequences.                                    *)
LEMMA ConcatFacts ==
  ASSUME NEW S, NEW s \in Seq(S), NEW t \in Seq(S)
  PROVE  /\ s \o t \in Seq(S) /\ Len(s \o t) = Len(s) + Len(t)
         /\ Len(s) \in Nat /\ Len(t) \in Nat /\ Len(s) + Len(t) \in Nat
         /\ DOMAIN (s \o t) = 1 .. Len(s) + Len(t)
         /\ s \o t = [i \in 1 .. Len(s) + Len(t) |-> (s \o t)[i]]
         /\ \A i \in 1 .. Len(s) : (s \o t)[i] = s[i] /\ i \in 1 .. Len(s) + Len(t)
         /\ \A i \in 1 .. Len(t) : (s \o t)[Len(s) + i] = t[i] /\ Len(s) + i \in 1 .. Len(s) + Len(t)
         /\ \A i \in 1 .. Len(s) + Len(t) :
              \/ i \in 1 .. Len(s) /\ (s \o t)[i] = s[i]
              \/ \E j \in 1 .. Len(t) : i = Len(s) + j /\ (s \o t)[i] = t[j]
<1> DEFINE u == s \o t
<1>1. u \in Seq(S) /\ Len(u) = Len(s) + Len(t) /\ Len(s) \in Nat /\ Len(t) \in Nat
  OBVIOUS
<1>2. \A i \in 1 .. Len(s) : u[i] = s[i] /\ i \in 1 .. Len(s) + Len(t)
  OBVIOUS
<1>3. \A i \in 1 .. Len(t) : u[Len(s) + i] = t[i] /\ Len(s) + i \in 1 .. Len(s) + Len(t)
  OBVIOUS
<1> HIDE DEF u
<1>4. u = [i \in 1 .. Len(s) + Len(t) |-> u[i]] /\ DOMAIN u = 1 .. Len(s) + Len(t)
  BY <1>1
<1>5. ASSUME NEW i \in 1 .. Len(s) + Len(t)
      PROVE  i \in 1 .. Len(s) \/ \E j \in 1 .. Len(t) : i = Len(s) + j
  <2> DEFINE j == i - Len(s)
  <2>1. i = Len(s) + j /\ (i \in 1 .. Len(s) \/ j \in 1 .. Len(t))
    BY <1>1
  <2> HIDE DEF j
  <2> QED
    BY <2>1
<1> QED
  BY <1>1, <1>2, <1>3, <1>4, <1>5 DEF u

(* Schemas one after the other, and their rows. *)
LEMMA SchemaConcat ==
  ASSUME NEW s, IsSchema(s), NEW t, IsSchema(t)
  PROVE  /\ IsSchema(s \o t) /\ Len(s \o t) = Len(s) + Len(t)
         /\ \A i \in 1 .. Len(s) : (s \o t)[i] = s[i]
         /\ \A i \in 1 .. Len(t) : (s \o t)[Len(s) + i] = t[i]
         /\ FieldIds(s \o t) = FieldIds(s) \cup FieldIds(t)
<1> DEFINE S == {s[i] : i \in DOMAIN s} \cup {t[i] : i \in DOMAIN t}
           u == s \o t
<1>1. Len(s) \in Nat /\ Len(t) \in Nat /\ DOMAIN s = 1 .. Len(s) /\ DOMAIN t = 1 .. Len(t)
  BY SchemaFacts
<1>2. s \in Seq(S) /\ t \in Seq(S)
  <2>1. ASSUME NEW x, IsSchema(x) PROVE x = [i \in 1 .. Len(x) |-> x[i]]
    <3> DEFINE T == [id : FieldIds(x), descriptor : Descriptors]
    <3>1. x \in Seq(T)
      BY <2>1 DEF IsSchema
    <3> HIDE DEF T
    <3> QED
      BY <3>1
  <2>2. \A i \in 1 .. Len(s) : s[i] \in S
    BY <1>1
  <2>3. \A i \in 1 .. Len(t) : t[i] \in S
    BY <1>1
  <2> HIDE DEF S
  <2> QED
    BY <1>1, <2>1, <2>2, <2>3, SequenceIntro
<1> HIDE DEF S
<1>3. /\ u = [i \in 1 .. Len(s) + Len(t) |-> u[i]]
      /\ \A i \in 1 .. Len(s) : u[i] = s[i] /\ i \in 1 .. Len(s) + Len(t)
      /\ \A i \in 1 .. Len(t) : u[Len(s) + i] = t[i] /\ Len(s) + i \in 1 .. Len(s) + Len(t)
      /\ Len(s) + Len(t) \in Nat
      /\ DOMAIN u = 1 .. Len(s) + Len(t)
  BY <1>2, ConcatFacts
<1>5. \A i \in 1 .. Len(s) + Len(t) :
        \/ i \in 1 .. Len(s) /\ u[i] = s[i]
        \/ \E j \in 1 .. Len(t) : i = Len(s) + j /\ u[i] = t[j]
  BY <1>2, ConcatFacts
<1> HIDE DEF u
<1>6. \A i \in 1 .. Len(s) + Len(t) : /\ u[i].descriptor \in Descriptors
                                      /\ u[i] = Field(u[i].id, u[i].descriptor)
  <2>1. \A i \in 1 .. Len(s) : s[i].descriptor \in Descriptors /\ s[i] = Field(s[i].id, s[i].descriptor)
    BY <1>1, SchemaFacts, SchemaFields
  <2>2. \A i \in 1 .. Len(t) : t[i].descriptor \in Descriptors /\ t[i] = Field(t[i].id, t[i].descriptor)
    BY <1>1, SchemaFacts, SchemaFields
  <2> QED
    BY <1>5, <2>1, <2>2
<1>7. IsSchema(u) /\ Len(u) = Len(s) + Len(t)
  BY <1>3, <1>6, SchemaIntro
<1>8. FieldIds(u) = FieldIds(s) \cup FieldIds(t)
  <2>1. ASSUME NEW f \in FieldIds(u) PROVE f \in FieldIds(s) \cup FieldIds(t)
    <3>1. PICK i \in 1 .. Len(s) + Len(t) : u[i].id = f
      BY <1>3 DEF FieldIds
    <3> QED
      BY <1>1, <1>5, <3>1 DEF FieldIds
  <2>2. ASSUME NEW f \in FieldIds(s) PROVE f \in FieldIds(u)
    <3>1. PICK i \in 1 .. Len(s) : s[i].id = f
      BY <1>1 DEF FieldIds
    <3> QED
      BY <1>3, <3>1 DEF FieldIds
  <2>3. ASSUME NEW f \in FieldIds(t) PROVE f \in FieldIds(u)
    <3>1. PICK i \in 1 .. Len(t) : t[i].id = f
      BY <1>1 DEF FieldIds
    <3> QED
      BY <1>3, <3>1 DEF FieldIds
  <2> QED
    BY <2>1, <2>2, <2>3
<1> QED
  BY <1>3, <1>7, <1>8 DEF u

(* Rows one after the other are rows of the schemas so.                   *)
LEMMA RowConcat ==
  ASSUME NEW s, IsSchema(s), NEW t, IsSchema(t), NEW r \in RowsOf(s), NEW q \in RowsOf(t)
  PROVE  r \o q \in RowsOf(s \o t)
<1>1. /\ Len(s) \in Nat /\ Len(t) \in Nat
      /\ r \in Seq(Values) /\ Len(r) = Len(s) /\ q \in Seq(Values) /\ Len(q) = Len(t)
      /\ \A i \in 1 .. Len(s) : Cell(r[i], s[i].descriptor)
      /\ \A i \in 1 .. Len(t) : Cell(q[i], t[i].descriptor)
  BY RowSequence, SchemaFacts
<1> DEFINE x == r \o q
           u == s \o t
<1>2. /\ x = [i \in 1 .. Len(r) + Len(q) |-> x[i]]
      /\ \A i \in 1 .. Len(r) : x[i] = r[i]
      /\ \A i \in 1 .. Len(q) : x[Len(r) + i] = q[i]
  <2>1. r \in Seq(Values) /\ q \in Seq(Values)
    BY <1>1
  <2> HIDE <1>1
  <2> QED
    BY <2>1, ConcatFacts
<1>3. /\ IsSchema(u) /\ Len(u) = Len(s) + Len(t)
      /\ \A i \in 1 .. Len(s) : u[i] = s[i]
      /\ \A i \in 1 .. Len(t) : u[Len(s) + i] = t[i]
  BY SchemaConcat
<1>4. DOMAIN u = 1 .. Len(s) + Len(t)
  BY <1>3, SchemaFacts
<1>5. \A i \in 1 .. Len(s) + Len(t) : i \in 1 .. Len(s) \/ (i - Len(s) \in 1 .. Len(t) /\ i = Len(s) + (i - Len(s)))
  BY <1>1
<1> HIDE DEF x, u
<1>6. \A i \in DOMAIN u : Cell(x[i], u[i].descriptor)
  <2>1. SUFFICES ASSUME NEW i \in 1 .. Len(s) + Len(t) PROVE Cell(x[i], u[i].descriptor)
    BY <1>4
  <2>2. CASE i \in 1 .. Len(s)
    BY <1>1, <1>2, <1>3, <2>2
  <2>3. CASE i - Len(s) \in 1 .. Len(t) /\ i = Len(s) + (i - Len(s))
    <3> DEFINE j == i - Len(s)
    <3>1. x[Len(s) + j] = q[j] /\ u[Len(s) + j] = t[j] /\ Cell(q[j], t[j].descriptor)
      BY <1>1, <1>2, <1>3, <2>3
    <3> QED
      BY <2>3, <3>1
  <2> QED
    BY <1>5, <2>2, <2>3
<1>7. x = [i \in DOMAIN u |-> x[i]]
  BY <1>1, <1>2, <1>4
<1> QED
  BY <1>6, <1>7, RowFacts DEF x, u

-----------------------------------------------------------------------------
(* Rows chosen among others. *)
LEMMA PickFacts ==
  ASSUME NEW S, NEW rows \in Seq(S), NEW indices \in Seq(DOMAIN rows)
  PROVE  /\ Pick(rows, indices) \in Seq(S) /\ Len(Pick(rows, indices)) = Len(indices)
         /\ DOMAIN Pick(rows, indices) = DOMAIN indices
         /\ \A k \in DOMAIN indices : Pick(rows, indices)[k] = rows[indices[k]] /\ indices[k] \in DOMAIN rows
<1> DEFINE n == Len(indices)
           f == Pick(rows, indices)
<1>1. n \in Nat /\ DOMAIN indices = 1 .. n /\ \A k \in 1 .. n : indices[k] \in DOMAIN rows
  OBVIOUS
<1>2. f = [k \in 1 .. n |-> rows[indices[k]]]
  BY <1>1 DEF Pick
<1>3. \A i \in DOMAIN rows : rows[i] \in S
  OBVIOUS
<1>4. \A k \in 1 .. n : f[k] = rows[indices[k]] /\ f[k] \in S
  BY <1>1, <1>2, <1>3
<1>5. f = [k \in 1 .. n |-> f[k]]
  BY <1>2
<1> HIDE DEF f, n
<1>6. f \in Seq(S) /\ Len(f) = n /\ DOMAIN f = 1 .. n
  BY <1>1, <1>4, <1>5, SequenceIntro
<1> QED
  BY <1>1, <1>4, <1>6 DEF f, n

(* Rows chosen in increasing order.                                       *)
LEMMA SelectionFacts ==
  ASSUME NEW S, NEW rows \in Seq(S), NEW I, I \subseteq DOMAIN rows
  PROVE  /\ IsFiniteSet(I) /\ I \subseteq Int
         /\ Increasing(I) \in Seq(DOMAIN rows)
         /\ Pick(rows, Increasing(I)) \in Seq(S)
<1>1. DOMAIN rows = 1 .. Len(rows) /\ Len(rows) \in Nat
  OBVIOUS
<1>2. IsFiniteSet(I) /\ I \subseteq Int
  BY <1>1, PositionSets
<1>3. Increasing(I) \in Seq(I)
  BY <1>2, IncreasingFacts
<1>4. Increasing(I) \in Seq(DOMAIN rows)
  BY <1>3
<1> QED
  BY <1>2, <1>4, PickFacts
-----------------------------------------------------------------------------
(* Results. *)
LEMMA FailuresFacts ==
  ASSUME NEW grid, DOMAIN grid \subseteq Nat, \A r \in DOMAIN grid : DOMAIN grid[r] \subseteq Nat
  PROVE  /\ DOMAIN Failures(grid) = DOMAIN grid
         /\ \A r \in DOMAIN grid :
              \/ \E k \in DOMAIN grid[r] : Failed(grid[r][k]) /\ Failures(grid)[r] = grid[r][k]
              \/ (\A k \in DOMAIN grid[r] : ~ Failed(grid[r][k])) /\ Failures(grid)[r] = Null
<1>1. \A r \in DOMAIN grid : Failures(grid)[r] = Require(grid[r], Null)
  BY DEF Failures
<1>2. DOMAIN Failures(grid) = DOMAIN grid
  BY DEF Failures
<1>3. ASSUME NEW r \in DOMAIN grid
      PROVE  \/ \E k \in DOMAIN grid[r] : Failed(grid[r][k]) /\ Failures(grid)[r] = grid[r][k]
             \/ (\A k \in DOMAIN grid[r] : ~ Failed(grid[r][k])) /\ Failures(grid)[r] = Null
  <2> DEFINE x == grid[r]
  <2>1. DOMAIN x \subseteq Nat
    OBVIOUS
  <2> HIDE DEF x
  <2>2. \/ \E i \in DOMAIN x : Failed(x[i]) /\ Require(x, Null) = x[i]
        \/ (\A i \in DOMAIN x : ~ Failed(x[i])) /\ Require(x, Null) = Null
    BY <2>1, RequireFacts
  <2> QED
    BY <1>1, <2>2 DEF x
<1> QED
  BY <1>2, <1>3

(* NULL is no failure, and every error is one.                            *)
LEMMA NullFacts == ~ Failed(Null) /\ Null \notin Errors /\ \A v \in Errors : Failed(v) /\ v # Null
<1>1. Null.scalar = "null" /\ \A v \in Errors : v.scalar = "error"
  BY ValueFacts
<1> QED
  BY <1>1 DEF Failed

Good(result, schema) ==
  /\ result.failure \in Errors \cup {Null, UnfitInput}
  /\ result.rows \in Seq(RowsOf(schema))

(* A node whose required results fail with errors only is good.           *)
LEMMA CompleteFacts ==
  ASSUME NEW required, DOMAIN required \subseteq Nat, NEW rows, NEW schema,
         \A i \in DOMAIN required : Failed(required[i]) => required[i] \in Errors,
         (\A i \in DOMAIN required : ~ Failed(required[i])) => rows \in Seq(RowsOf(schema))
  PROVE  /\ Good(Complete(required, rows), schema)
         /\ Complete(required, rows).failure = Null
              => (\A i \in DOMAIN required : ~ Failed(required[i])) /\ Complete(required, rows).rows = rows
<1> DEFINE failure == Require(required, Null)
<1>1. \/ failure \in Errors /\ failure # Null
      \/ failure = Null /\ \A i \in DOMAIN required : ~ Failed(required[i])
  BY RequireFacts, NullFacts
<1>2. Complete(required, rows) = IF failure = Null THEN Result(Null, rows) ELSE Result(failure, <<>>)
  BY DEF Complete
<1> HIDE DEF failure
<1>3. <<>> \in Seq(RowsOf(schema))
  OBVIOUS
<1> QED
  BY <1>1, <1>2, <1>3 DEF Good, Result

(* What Rust's types say of a node and its entries. *)
LEMMA NodeFacts ==
  ASSUME NEW node, IsNode(node)
  PROVE  /\ node.entries \in Seq(Entries) /\ Len(node.entries) \in Nat
         /\ DOMAIN node.entries = 1 .. Len(node.entries)
         /\ node.bounds \in Seq(Int)
         /\ \A i \in 1 .. Len(node.entries) : node.entries[i] \in Entries
         /\ HasEntries(node, Len(node.entries))
<1>1. node \in [kind : STRING, how : STRING, entries : Seq(Entries), bounds : Seq(Int)]
  BY DEF IsNode
<1> HIDE DEF Entries
<1>2. node.entries \in Seq(Entries) /\ node.bounds \in Seq(Int)
  BY <1>1
<1> QED
  BY <1>2 DEF IsNode

(* What an entry is.                                                      *)
LEMMA EntryFacts ==
  ASSUME NEW entry \in Entries
  PROVE  /\ entry.args \in Seq(Expressions) /\ entry.partition \in Seq(Expressions)
         /\ entry.order \in Seq(OrderingItems)
         /\ DOMAIN entry.args = 1 .. Len(entry.args) /\ Len(entry.args) \in Nat
         /\ \A i \in 1 .. Len(entry.args) : entry.args[i] \in Expressions
<1>1. entry.args \in Seq(Expressions) /\ entry.partition \in Seq(Expressions)
      /\ entry.order \in Seq(OrderingItems)
  BY DEF Entries
<1> QED
  BY <1>1

(* The value of an accepted expression is an error or a cell. *)
LEMMA TypedValue ==
  ASSUME NEW schema, IsSchema(schema), NEW row \in RowsOf(schema), NEW e \in Expressions,
         Typed(e, schema)
  PROVE  /\ e.descriptor \in Descriptors /\ ValidateExpression(e, schema) = e.descriptor
         /\ Fits(Evaluate(e, schema, row), e.descriptor)
BY Soundness, TypedFacts

(* A condition is an accepted expression that gives truth values.         *)
LEMMA ConditionFacts ==
  ASSUME NEW schema, IsSchema(schema), NEW e \in Expressions, IsCondition(e, schema)
  PROVE  Typed(e, schema) /\ e.descriptor.scalar = "BOOLEAN"
<1>1. Invalid.scalar = "invalid"
  BY DEF Invalid, Descriptor
<1>2. Typed(e, schema)
  BY <1>1 DEF IsCondition, Typed
<1> QED
  BY <1>2, TypedFacts DEF IsCondition

(* A grid of values that fit a schema gives rows of it, unless one fails. *)
LEMMA AllValuesGood ==
  ASSUME NEW schema, IsSchema(schema), NEW m \in Nat, NEW grid,
         grid = [r \in 1 .. m |-> grid[r]],
         \A r \in 1 .. m : grid[r] = [k \in DOMAIN schema |-> grid[r][k]],
         \A r \in 1 .. m : \A k \in DOMAIN schema : Fits(grid[r][k], schema[k].descriptor)
  PROVE  /\ Good(AllValues(grid), schema)
         /\ AllValues(grid).failure = Null =>
              /\ AllValues(grid).rows = grid
              /\ \A r \in 1 .. m : \A k \in DOMAIN schema : ~ Failed(grid[r][k])
<1>1. DOMAIN schema = 1 .. Len(schema) /\ \A k \in DOMAIN schema : schema[k].descriptor \in Descriptors
  BY SchemaFacts
<1>2. DOMAIN grid = 1 .. m /\ \A r \in 1 .. m : DOMAIN grid[r] = 1 .. Len(schema)
  BY <1>1
<1>3. \A n : 1 .. n \subseteq Nat
  OBVIOUS
<1>4. /\ DOMAIN Failures(grid) = 1 .. m
      /\ \A r \in 1 .. m :
              \/ \E k \in DOMAIN grid[r] : Failed(grid[r][k]) /\ Failures(grid)[r] = grid[r][k]
              \/ (\A k \in DOMAIN grid[r] : ~ Failed(grid[r][k])) /\ Failures(grid)[r] = Null
  BY <1>2, <1>3, FailuresFacts
<1>5. \A r \in 1 .. m : \A k \in DOMAIN schema :
        /\ Failed(grid[r][k]) => grid[r][k] \in Errors
        /\ ~ Failed(grid[r][k]) => Cell(grid[r][k], schema[k].descriptor)
  BY <1>1, FitsFacts, CellFacts
<1>6. \A r \in 1 .. m : Failed(Failures(grid)[r]) => Failures(grid)[r] \in Errors
  BY <1>1, <1>2, <1>4, <1>5, NullFacts, ZenonT(40)
<1>7. ASSUME \A r \in 1 .. m : ~ Failed(Failures(grid)[r])
      PROVE  \A r \in 1 .. m : \A k \in DOMAIN schema : ~ Failed(grid[r][k])
  BY <1>1, <1>2, <1>4, <1>7
<1>8. ASSUME \A r \in 1 .. m : ~ Failed(Failures(grid)[r])
      PROVE  grid \in Seq(RowsOf(schema))
  <2>1. \A r \in 1 .. m : grid[r] \in RowsOf(schema)
    BY <1>5, <1>7, <1>8, RowFacts
  <2> QED
    BY <2>1, SequenceIntro
<1>9. DOMAIN Failures(grid) \subseteq Nat
  BY <1>3, <1>4
<1>10. /\ Good(Complete(Failures(grid), grid), schema)
       /\ Complete(Failures(grid), grid).failure = Null =>
            /\ \A r \in 1 .. m : ~ Failed(Failures(grid)[r])
            /\ Complete(Failures(grid), grid).rows = grid
  BY <1>4, <1>6, <1>8, <1>9, CompleteFacts
<1> QED
  BY <1>7, <1>10 DEF AllValues

-----------------------------------------------------------------------------
(* Project. *)
LEMMA ProjectEntry ==
  ASSUME NEW node, IsNode(node), node.kind = "project", NEW in, IsSchema(in.schema),
         AcceptsProject(node, in), NEW k \in 1 .. Len(node.entries)
  PROVE  LET entry == node.entries[k]
         IN \/ /\ entry.function = "keep" /\ entry.output \in FieldIds(in.schema)
               /\ ProjectField(entry, in) = in.schema[FieldPosition(in.schema, entry.output)]
            \/ /\ entry.function = "compute" /\ entry.args[1] \in Expressions /\ Typed(entry.args[1], in.schema)
               /\ ProjectField(entry, in) = Field(entry.output, entry.args[1].descriptor)
<1> DEFINE entry == node.entries[k]
<1>1. entry \in Entries /\ k \in DOMAIN node.entries
  BY NodeFacts
<1>2. entry.function = "keep" \/ (entry.function = "compute" /\ Len(entry.args) = 1)
  BY NodeFacts DEF HasEntries, Each
<1>3. CASE entry.function = "keep"
  <2>1. entry.output \in FieldIds(in.schema)
    BY <1>1, <1>3, Zenon DEF AcceptsProject
  <2> QED
    BY <1>3, <2>1 DEF ProjectField
<1>4. CASE entry.function = "compute" /\ Len(entry.args) = 1
  <2>1. Typed(entry.args[1], in.schema)
    BY <1>1, <1>4 DEF AcceptsProject
  <2>2. entry.args[1] \in Expressions
    BY <1>1, <1>4, EntryFacts
  <2> QED
    BY <1>4, <2>1, <2>2 DEF ProjectField
<1> QED
  BY <1>2, <1>3, <1>4

(* A Project node gives rows of its schema, or an error.                  *)
LEMMA ProjectGood ==
  ASSUME NEW node, IsNode(node), node.kind = "project", NEW in, IsSchema(in.schema),
         AcceptsProject(node, in), NEW rows \in Seq(RowsOf(in.schema))
  PROVE  /\ IsSchema(ProjectProperties(node, in).schema)
         /\ Good(EvaluateProject(node, in.schema, rows), ProjectProperties(node, in).schema)
         /\ DOMAIN ProjectProperties(node, in).schema = DOMAIN node.entries
         /\ EvaluateProject(node, in.schema, rows).failure = Null =>
              EvaluateProject(node, in.schema, rows).rows =
                [r \in DOMAIN rows |->
                  [k \in DOMAIN node.entries |-> EntryValue(node.entries[k], in.schema, rows[r])]]
<1> DEFINE n == Len(node.entries)
           schema == [i \in DOMAIN node.entries |-> ProjectField(node.entries[i], in)]
           grid == [r \in DOMAIN rows |->
                     [k \in DOMAIN node.entries |-> EntryValue(node.entries[k], in.schema, rows[r])]]
<1>1. n \in Nat /\ DOMAIN node.entries = 1 .. n
  BY NodeFacts
<1>2. ASSUME NEW k \in 1 .. n
      PROVE  /\ schema[k] = ProjectField(node.entries[k], in)
             /\ schema[k].descriptor \in Descriptors
             /\ schema[k] = Field(schema[k].id, schema[k].descriptor)
  <2>1. schema[k] = ProjectField(node.entries[k], in)
    BY <1>1
  <2> HIDE DEF schema
  <2>2. CASE /\ node.entries[k].output \in FieldIds(in.schema)
             /\ schema[k] = in.schema[FieldPosition(in.schema, node.entries[k].output)]
    <3>1. FieldPosition(in.schema, node.entries[k].output) \in DOMAIN in.schema
      BY <2>2, PositionFacts
    <3> QED
      BY <2>1, <2>2, <3>1, SchemaFacts, SchemaFields, ZenonT(40)
  <2>3. CASE /\ node.entries[k].args[1] \in Expressions /\ Typed(node.entries[k].args[1], in.schema)
             /\ schema[k] = Field(node.entries[k].output, node.entries[k].args[1].descriptor)
    <3>1. node.entries[k].args[1].descriptor \in Descriptors
      BY <2>3, TypedFacts
    <3> QED
      BY <2>1, <2>3, <3>1, FieldValues
  <2> QED
    BY <2>1, <2>2, <2>3, ProjectEntry
<1>3. IsSchema(schema) /\ Len(schema) = n /\ DOMAIN schema = 1 .. n
  <2>1. schema = [i \in 1 .. n |-> schema[i]]
    BY <1>1
  <2> HIDE DEF schema, n
  <2> QED
    BY <1>1, <1>2, <2>1, SchemaIntro
<1>4. ProjectProperties(node, in).schema = schema
  BY DEF ProjectProperties, Properties
<1>5. DOMAIN rows = 1 .. Len(rows) /\ Len(rows) \in Nat /\ \A r \in 1 .. Len(rows) : rows[r] \in RowsOf(in.schema)
  OBVIOUS
<1>6. ASSUME NEW r \in 1 .. Len(rows), NEW k \in 1 .. n
      PROVE  Fits(EntryValue(node.entries[k], in.schema, rows[r]), schema[k].descriptor)
  <2> DEFINE entry == node.entries[k]
             row == rows[r]
  <2>1. schema[k] = ProjectField(entry, in)
    BY <1>2
  <2>2. row \in RowsOf(in.schema)
    BY <1>5
  <2> HIDE DEF schema, row
  <2>3. CASE /\ entry.function = "keep" /\ entry.output \in FieldIds(in.schema)
             /\ schema[k] = in.schema[FieldPosition(in.schema, entry.output)]
    <3>1. EntryValue(entry, in.schema, row) = row[FieldPosition(in.schema, entry.output)]
      BY <2>3 DEF EntryValue
    <3>2. Fits(row[FieldPosition(in.schema, entry.output)],
            in.schema[FieldPosition(in.schema, entry.output)].descriptor)
      BY <2>2, <2>3, FieldFits
    <3> QED
      BY <2>3, <3>1, <3>2 DEF row
  <2>4. CASE /\ entry.function = "compute" /\ entry.args[1] \in Expressions /\ Typed(entry.args[1], in.schema)
             /\ schema[k] = Field(entry.output, entry.args[1].descriptor)
    <3>1. EntryValue(entry, in.schema, row) = Evaluate(entry.args[1], in.schema, row)
      BY <2>4 DEF EntryValue
    <3>2. Fits(Evaluate(entry.args[1], in.schema, row), entry.args[1].descriptor)
      BY <2>2, <2>4, TypedValue
    <3>3. schema[k].descriptor = entry.args[1].descriptor
      BY <2>4, FieldValues
    <3> QED
      BY <3>1, <3>2, <3>3 DEF row
  <2> QED
    BY <2>1, <2>3, <2>4, ProjectEntry
<1>7. EvaluateProject(node, in.schema, rows) = AllValues(grid)
  BY DEF EvaluateProject
<1>8. grid = [r \in 1 .. Len(rows) |-> grid[r]]
  BY <1>5
<1>9. \A r \in 1 .. Len(rows) : grid[r] = [k \in DOMAIN schema |-> grid[r][k]]
  <2>1. \A r \in 1 .. Len(rows) : grid[r] = [k \in 1 .. n |-> EntryValue(node.entries[k], in.schema, rows[r])]
    BY <1>1, <1>5
  <2> HIDE DEF grid, n, schema
  <2> QED
    BY <1>3, <2>1
<1>10. \A r \in 1 .. Len(rows) : \A k \in DOMAIN schema : Fits(grid[r][k], schema[k].descriptor)
  <2>1. \A r \in 1 .. Len(rows) : \A k \in 1 .. n : grid[r][k] = EntryValue(node.entries[k], in.schema, rows[r])
    BY <1>1, <1>5
  <2> HIDE DEF grid, n, schema
  <2> QED
    BY <1>3, <1>6, <2>1
<1>11. Good(AllValues(grid), schema) /\ (AllValues(grid).failure = Null => AllValues(grid).rows = grid)
  <2> HIDE DEF grid, n, schema
  <2> QED
    BY <1>3, <1>5, <1>8, <1>9, <1>10, AllValuesGood, ZenonT(40)
<1> QED
  BY <1>1, <1>3, <1>4, <1>7, <1>11

-----------------------------------------------------------------------------
(* Filter. *)
LEMMA GridFacts ==
  ASSUME NEW exprs, NEW schema, NEW rows, DOMAIN rows \subseteq Nat, DOMAIN exprs \subseteq Nat
  PROVE  /\ DOMAIN Grid(exprs, schema, rows) = DOMAIN rows
         /\ \A r \in DOMAIN rows : /\ DOMAIN Grid(exprs, schema, rows)[r] = DOMAIN exprs
              /\ \A k \in DOMAIN exprs : Grid(exprs, schema, rows)[r][k] = Evaluate(exprs[k], schema, rows[r])
BY DEF Grid

(* What the values of accepted expressions fail with. *)
LEMMA GridFailures ==
  ASSUME NEW schema, IsSchema(schema), NEW rows \in Seq(RowsOf(schema)), NEW exprs \in Seq(Expressions),
         \A k \in DOMAIN exprs : Typed(exprs[k], schema)
  PROVE  LET grid == Grid(exprs, schema, rows)
         IN /\ DOMAIN Failures(grid) = DOMAIN rows
            /\ \A r \in DOMAIN rows :
                 /\ Failed(Failures(grid)[r]) => Failures(grid)[r] \in Errors
                 /\ Failed(Failures(grid)[r]) <=> \E k \in DOMAIN exprs : Failed(Evaluate(exprs[k], schema, rows[r]))
            /\ \A r \in DOMAIN rows, k \in DOMAIN exprs : Fits(Evaluate(exprs[k], schema, rows[r]), exprs[k].descriptor)
            /\ \A k \in DOMAIN exprs : exprs[k] \in Expressions /\ exprs[k].descriptor \in Descriptors
<1> DEFINE grid == Grid(exprs, schema, rows)
<1>1. DOMAIN rows \subseteq Nat /\ DOMAIN exprs \subseteq Nat /\ \A r \in DOMAIN rows : rows[r] \in RowsOf(schema)
  OBVIOUS
<1>2. /\ DOMAIN grid = DOMAIN rows
      /\ \A r \in DOMAIN rows : /\ DOMAIN grid[r] = DOMAIN exprs
              /\ \A k \in DOMAIN exprs : grid[r][k] = Evaluate(exprs[k], schema, rows[r])
  BY <1>1, GridFacts
<1> HIDE DEF grid
<1>3. \A k \in DOMAIN exprs : exprs[k] \in Expressions /\ exprs[k].descriptor \in Descriptors
  <2>1. \A k \in DOMAIN exprs : exprs[k] \in Expressions
    OBVIOUS
  <2> QED
    BY <2>1, TypedFacts
<1>4. \A r \in DOMAIN rows, k \in DOMAIN exprs : Fits(Evaluate(exprs[k], schema, rows[r]), exprs[k].descriptor)
  BY <1>1, <1>3, TypedValue
<1>5. /\ DOMAIN Failures(grid) = DOMAIN rows
      /\ \A r \in DOMAIN rows :
              \/ \E k \in DOMAIN grid[r] : Failed(grid[r][k]) /\ Failures(grid)[r] = grid[r][k]
              \/ (\A k \in DOMAIN grid[r] : ~ Failed(grid[r][k])) /\ Failures(grid)[r] = Null
  BY <1>1, <1>2, FailuresFacts
<1>6. \A r \in DOMAIN rows, k \in DOMAIN exprs :
     Failed(Evaluate(exprs[k], schema, rows[r])) => Evaluate(exprs[k], schema, rows[r]) \in Errors
  BY <1>3, <1>4, FitsFacts
<1>7. ASSUME NEW r \in DOMAIN rows
      PROVE  /\ Failed(Failures(grid)[r]) => Failures(grid)[r] \in Errors
             /\ Failed(Failures(grid)[r]) <=> \E k \in DOMAIN exprs : Failed(Evaluate(exprs[k], schema, rows[r]))
  BY <1>2, <1>5, <1>6, NullFacts
<1> QED
  BY <1>3, <1>4, <1>5, <1>7 DEF grid

(* A Filter node gives rows of its input, or an error.                    *)
LEMMA FilterGood ==
  ASSUME NEW node, IsNode(node), node.kind = "filter", NEW in, IsSchema(in.schema),
         AcceptsFilter(node, in), NEW rows \in Seq(RowsOf(in.schema))
  PROVE  /\ Good(EvaluateFilter(node, in.schema, rows), in.schema)
         /\ FilterIndices(node, in.schema, rows) \in Seq(DOMAIN rows)
         /\ EvaluateFilter(node, in.schema, rows).failure = Null =>
              EvaluateFilter(node, in.schema, rows).rows = Pick(rows, FilterIndices(node, in.schema, rows))
<1> DEFINE args == node.entries[1].args
           schema == in.schema
           required == Failures(Grid(args, schema, rows))
<1>1. Len(node.entries) = 1 /\ Len(args) = 1
  BY NodeFacts DEF HasEntries, Each
<1>2. node.entries[1] \in Entries
  BY <1>1, NodeFacts
<1>3. args \in Seq(Expressions) /\ args[1] \in Expressions /\ DOMAIN args = {1}
  BY <1>1, <1>2, EntryFacts
<1>4. \A k \in DOMAIN args : Typed(args[k], schema)
  BY <1>3, ConditionFacts DEF AcceptsFilter
<1> HIDE DEF args
<1>5. /\ DOMAIN required = DOMAIN rows
      /\ \A r \in DOMAIN rows : Failed(required[r]) => required[r] \in Errors
  BY <1>3, <1>4, GridFailures
<1>6. FilterIndices(node, in.schema, rows) \in Seq(DOMAIN rows)
      /\ Pick(rows, FilterIndices(node, in.schema, rows)) \in Seq(RowsOf(schema))
  BY SelectionFacts DEF FilterIndices
<1>7. EvaluateFilter(node, in.schema, rows) = Complete(required, Pick(rows, FilterIndices(node, in.schema, rows)))
  BY DEF EvaluateFilter, args
<1>8. DOMAIN rows \subseteq Nat
  OBVIOUS
<1> HIDE DEF required, schema
<1>9. /\ Good(EvaluateFilter(node, in.schema, rows), schema)
      /\ EvaluateFilter(node, in.schema, rows).failure = Null =>
           EvaluateFilter(node, in.schema, rows).rows = Pick(rows, FilterIndices(node, in.schema, rows))
  BY <1>5, <1>6, <1>7, <1>8, CompleteFacts
<1> QED
  BY <1>6, <1>9 DEF schema

-----------------------------------------------------------------------------
(* Slice and Distinct. *)
LEMMA ResultFacts ==
  ASSUME NEW schema, NEW rows \in Seq(RowsOf(schema))
  PROVE  Good(Result(Null, rows), schema) /\ Result(Null, rows).failure = Null /\ Result(Null, rows).rows = rows
BY DEF Good, Result

(* A Slice node gives rows of its input.                                  *)
LEMMA SliceGood ==
  ASSUME NEW node, NEW schema, NEW rows \in Seq(RowsOf(schema))
  PROVE  /\ Good(EvaluateSlice(node, rows), schema)
         /\ SliceIndices(node, Len(rows)) \in Seq(DOMAIN rows)
         /\ EvaluateSlice(node, rows).rows = Pick(rows, SliceIndices(node, Len(rows)))
<1> DEFINE Chosen == {i \in 1 .. Len(rows) :
                        /\ i > node.bounds[1]
                        /\ Len(node.bounds) > 1 => i <= node.bounds[1] + node.bounds[2]}
<1>1. Chosen \subseteq DOMAIN rows
  OBVIOUS
<1>2. SliceIndices(node, Len(rows)) = Increasing(Chosen)
  BY DEF SliceIndices
<1> HIDE DEF Chosen
<1>3. Increasing(Chosen) \in Seq(DOMAIN rows) /\ Pick(rows, Increasing(Chosen)) \in Seq(RowsOf(schema))
  BY <1>1, SelectionFacts
<1> QED
  BY <1>2, <1>3, ResultFacts DEF EvaluateSlice

(* DISTINCT keeps some of the rows.                                       *)
LEMMA DistinctType ==
  ASSUME NEW S, NEW rows \in Seq(S)
  PROVE  Distinct(rows) \in Seq(S)
BY SelectionFacts DEF Distinct

(* A Distinct node gives rows of its input.                               *)
LEMMA DistinctGood ==
  ASSUME NEW schema, NEW rows \in Seq(RowsOf(schema))
  PROVE  Good(EvaluateDistinct(rows), schema)
BY DistinctType, ResultFacts DEF EvaluateDistinct

-----------------------------------------------------------------------------
(* Set operations. *)
IsTaking(f, n, left, right, keepTaken) ==
  f = [k \in 0 .. n |-> IF k = 0 THEN [remaining |-> ToBag(right), rows |-> <<>>]
                        ELSE TakeOne(f[k - 1], left[k], keepTaken)]

(* The loop of take_one is defined.                                       *)
LEMMA TakingExists ==
  ASSUME NEW left, NEW right, NEW keepTaken, NEW n \in Nat
  PROVE  \E f : IsTaking(f, n, left, right, keepTaken)
<1> DEFINE S == {k \in 0 .. n : ~ \E f : IsTaking(f, k, left, right, keepTaken)}
<1>1. SUFFICES ASSUME S # {} PROVE FALSE
  OBVIOUS
<1>2. S \subseteq Nat
  OBVIOUS
<1>3. PICK m \in S : \A i \in 0 .. m - 1 : i \notin S
  BY <1>1, <1>2, LeastFacts
<1>4. CASE m = 0
  <2> DEFINE f == [k \in 0 .. 0 |-> [remaining |-> ToBag(right), rows |-> <<>>]]
  <2>1. f = [k \in 0 .. 0 |-> IF k = 0 THEN [remaining |-> ToBag(right), rows |-> <<>>]
                              ELSE TakeOne(f[k - 1], left[k], keepTaken)]
    <3>1. \A k \in 0 .. 0 : k = 0
      OBVIOUS
    <3> QED
      BY <3>1
  <2>2. IsTaking(f, m, left, right, keepTaken)
    BY <1>4, <2>1 DEF IsTaking
  <2> QED
    BY <2>2
<1>5. CASE m # 0
  <2>1. m \in 1 .. n /\ m - 1 \in 0 .. n /\ m - 1 \in 0 .. m - 1
    BY <1>5
  <2>2. PICK f : IsTaking(f, m - 1, left, right, keepTaken)
    BY <1>3, <2>1
  <2> DEFINE g == [k \in 0 .. m |-> IF k = 0 THEN [remaining |-> ToBag(right), rows |-> <<>>]
                                    ELSE TakeOne(f[k - 1], left[k], keepTaken)]
  <2>3. \A k \in 0 .. m - 1 : k \in 0 .. m /\ f[k] = IF k = 0 THEN [remaining |-> ToBag(right), rows |-> <<>>]
                                    ELSE TakeOne(f[k - 1], left[k], keepTaken)
    <3>1. \A k \in 0 .. m - 1 : k \in 0 .. m
      BY <2>1
    <3>2. \A k \in 0 .. m - 1 : f[k] = IF k = 0 THEN [remaining |-> ToBag(right), rows |-> <<>>]
                                    ELSE TakeOne(f[k - 1], left[k], keepTaken)
      BY <2>2, Zenon DEF IsTaking
    <3> QED
      BY <3>1, <3>2
  <2>4. \A k \in 0 .. m - 1 : g[k] = f[k]
    BY <2>3
  <2>5. \A k \in 0 .. m : k # 0 => k - 1 \in 0 .. m - 1
    BY <2>1
  <2>6. g = [k \in 0 .. m |-> IF k = 0 THEN [remaining |-> ToBag(right), rows |-> <<>>]
                              ELSE TakeOne(g[k - 1], left[k], keepTaken)]
    BY <2>4, <2>5
  <2> HIDE DEF g
  <2>7. IsTaking(g, m, left, right, keepTaken)
    BY <2>6, Zenon DEF IsTaking
  <2> QED
    BY <2>7
<1> QED
  BY <1>4, <1>5

(* take_one, row after row. *)
Takes(f, left, right, keepTaken) ==
  /\ TakeAll(left, right, keepTaken) = f[Len(left)].rows
  /\ f[0] = [remaining |-> ToBag(right), rows |-> <<>>]
  /\ \A k \in 1 .. Len(left) : f[k] = TakeOne(f[k - 1], left[k], keepTaken)

(* The loop of take_one, step by step.                                    *)
LEMMA TakeAllFacts ==
  ASSUME NEW left, NEW right, NEW keepTaken, Len(left) \in Nat
  PROVE  \E f : Takes(f, left, right, keepTaken)
<1> DEFINE f == CHOOSE f : IsTaking(f, Len(left), left, right, keepTaken)
<1>1. IsTaking(f, Len(left), left, right, keepTaken)
  BY TakingExists, Zenon
<1>2. TakeAll(left, right, keepTaken) = f[Len(left)].rows
  BY Zenon DEF TakeAll, IsTaking
<1> HIDE DEF f
<1>3. \A k \in 0 .. Len(left) : f[k] = IF k = 0 THEN [remaining |-> ToBag(right), rows |-> <<>>]
                                      ELSE TakeOne(f[k - 1], left[k], keepTaken)
  BY <1>1, Zenon DEF IsTaking
<1>4. 0 \in 0 .. Len(left) /\ \A k \in 1 .. Len(left) : k \in 0 .. Len(left) /\ k # 0
  OBVIOUS
<1>5. f[0] = [remaining |-> ToBag(right), rows |-> <<>>]
  BY <1>3, <1>4
<1>6. \A k \in 1 .. Len(left) : f[k] = TakeOne(f[k - 1], left[k], keepTaken)
  BY <1>3, <1>4
<1> QED
  BY <1>2, <1>5, <1>6 DEF Takes

(* The loop of take_one keeps some of the left rows.                      *)
LEMMA TakeAllType ==
  ASSUME NEW S, NEW left \in Seq(S), NEW right, NEW keepTaken
  PROVE  TakeAll(left, right, keepTaken) \in Seq(S)
<1>1. Len(left) \in Nat /\ \A k \in 1 .. Len(left) : left[k] \in S
  OBVIOUS
<1>2. PICK f : Takes(f, left, right, keepTaken)
  BY <1>1, TakeAllFacts
<1> DEFINE T == {k \in 0 .. Len(left) : f[k].rows \notin Seq(S)}
<1>3. T = {}
  <2>1. SUFFICES ASSUME T # {} PROVE FALSE
    OBVIOUS
  <2>2. T \subseteq Nat
    OBVIOUS
  <2>3. PICK m \in T : \A i \in 0 .. m - 1 : i \notin T
    BY <2>1, <2>2, LeastFacts
  <2>4. f[0].rows \in Seq(S)
    BY <1>2 DEF Takes
  <2>5. m \in 1 .. Len(left) /\ m - 1 \in 0 .. m - 1 /\ m - 1 \in 0 .. Len(left)
    BY <1>1, <2>4
  <2>6. f[m - 1].rows \in Seq(S)
    BY <2>3, <2>5
  <2>7. f[m].rows = f[m - 1].rows \/ f[m].rows = Append(f[m - 1].rows, left[m])
    <3>1. f[m] = TakeOne(f[m - 1], left[m], keepTaken)
      BY <1>2, <2>5 DEF Takes
    <3> QED
      BY <3>1 DEF TakeOne
  <2>8. Append(f[m - 1].rows, left[m]) \in Seq(S)
    BY <1>1, <2>5, <2>6
  <2>9. f[m].rows \in Seq(S)
    BY <2>6, <2>7, <2>8
  <2> QED
    BY <2>9
<1>4. Len(left) \in 0 .. Len(left)
  BY <1>1
<1> QED
  BY <1>2, <1>3, <1>4 DEF Takes

SetOperators == {"union", "union all", "intersect", "intersect all", "except", "except all"}

(* A set operation gives rows of the two sides.                           *)
LEMMA CombinedType ==
  ASSUME NEW S, NEW left \in Seq(S), NEW right \in Seq(S), NEW how \in SetOperators
  PROVE  Combined(how, left, right) \in Seq(S)
<1>1. left \o right \in Seq(S)
  OBVIOUS
<1>2. CASE how = "union all"
  BY <1>1, <1>2 DEF Combined
<1>3. CASE how = "union"
  BY <1>1, <1>3, DistinctType DEF Combined
<1>4. CASE how = "intersect all"
  BY <1>4, TakeAllType DEF Combined
<1>5. CASE how = "except all"
  BY <1>5, TakeAllType DEF Combined
<1>6. CASE how = "intersect"
  <2> DEFINE kept == {i \in DOMAIN left : left[i] \in Range(right)}
  <2>1. Combined(how, left, right) = Distinct(Pick(left, Increasing(kept)))
    BY <1>6 DEF Combined, Where
  <2>2. kept \subseteq DOMAIN left
    OBVIOUS
  <2> HIDE DEF kept
  <2> QED
    BY <2>1, <2>2, SelectionFacts, DistinctType
<1>7. CASE how = "except"
  <2> DEFINE kept == {i \in DOMAIN left : left[i] \notin Range(right)}
  <2>1. Combined(how, left, right) = Distinct(Pick(left, Increasing(kept)))
    BY <1>7 DEF Combined, Where
  <2>2. kept \subseteq DOMAIN left
    OBVIOUS
  <2> HIDE DEF kept
  <2> QED
    BY <2>1, <2>2, SelectionFacts, DistinctType
<1> QED
  BY <1>2, <1>3, <1>4, <1>5, <1>6, <1>7 DEF SetOperators

(* Rows of a schema are rows of one with the same scalar types that lets   *)
(* NULL into at least the same fields. *)
LEMMA RowWiden ==
  ASSUME NEW s, IsSchema(s), NEW t, IsSchema(t), Len(s) = Len(t),
         \A i \in 1 .. Len(s) : /\ t[i].descriptor.scalar = s[i].descriptor.scalar
                                /\ s[i].descriptor.nullable => t[i].descriptor.nullable
  PROVE  RowsOf(s) \subseteq RowsOf(t)
<1>1. /\ DOMAIN s = 1 .. Len(s) /\ DOMAIN t = 1 .. Len(s)
      /\ \A i \in 1 .. Len(s) : s[i].descriptor \in Descriptors /\ t[i].descriptor \in Descriptors
  BY SchemaFacts
<1>2. ASSUME NEW row \in RowsOf(s) PROVE row \in RowsOf(t)
  <2>1. row = [i \in 1 .. Len(s) |-> row[i]] /\ \A i \in 1 .. Len(s) : Cell(row[i], s[i].descriptor)
    BY <1>1, RowFacts
  <2>2. \A i \in 1 .. Len(s) : Cell(row[i], t[i].descriptor)
    BY <1>1, <2>1, CellFacts
  <2> QED
    BY <1>1, <2>1, <2>2, RowFacts
<1> QED
  BY <1>2

(* A set operation gives rows of its schema.                              *)
LEMMA SetGood ==
  ASSUME NEW node, IsNode(node), node.kind = "set", NEW left, IsSchema(left.schema),
         NEW right, IsSchema(right.schema), AcceptsSet(node, left, right),
         NEW ls \in Seq(RowsOf(left.schema)), NEW rs \in Seq(RowsOf(right.schema))
  PROVE  /\ IsSchema(SetProperties(node, left, right).schema)
         /\ DOMAIN SetProperties(node, left, right).schema = DOMAIN node.entries
         /\ Good(EvaluateSet(node, ls, rs), SetProperties(node, left, right).schema)
<1> DEFINE n == Len(left.schema)
           schema == [i \in DOMAIN left.schema |->
                       Field(node.entries[i].output,
                             Descriptor(left.schema[i].descriptor.scalar,
                                        EitherNullable(left.schema[i].descriptor,
                                                       right.schema[i].descriptor)))]
<1>1. SetProperties(node, left, right).schema = schema
  BY DEF SetProperties, BagOf, Properties
<1>2. /\ n \in Nat /\ DOMAIN left.schema = 1 .. n /\ Len(right.schema) = n /\ DOMAIN right.schema = 1 .. n
      /\ DOMAIN node.entries = 1 .. n
      /\ \A i \in 1 .. n : /\ left.schema[i].descriptor \in Descriptors /\ right.schema[i].descriptor \in Descriptors
                           /\ left.schema[i].descriptor.scalar = right.schema[i].descriptor.scalar
  BY SchemaFacts, NodeFacts DEF AcceptsSet
<1>3. ASSUME NEW i \in 1 .. n
      PROVE  /\ schema[i].descriptor \in Descriptors
             /\ schema[i] = Field(schema[i].id, schema[i].descriptor)
             /\ schema[i].descriptor.scalar = left.schema[i].descriptor.scalar
             /\ left.schema[i].descriptor.nullable => schema[i].descriptor.nullable
             /\ right.schema[i].descriptor.nullable => schema[i].descriptor.nullable
  <2> DEFINE l == left.schema[i].descriptor
             r == right.schema[i].descriptor
             x == EitherNullable(l, r)
  <2>1. schema[i] = Field(node.entries[i].output, Descriptor(l.scalar, x))
    BY <1>2
  <2>2. l \in Descriptors /\ r \in Descriptors
    BY <1>2
  <2>3. l.scalar \in Scalars /\ x \in BOOLEAN /\ (l.nullable => x) /\ (r.nullable => x)
    BY <2>2, DescriptorFacts DEF EitherNullable
  <2> HIDE DEF schema, x
  <2>4. Descriptor(l.scalar, x) \in Descriptors /\ Descriptor(l.scalar, x).scalar = l.scalar
        /\ Descriptor(l.scalar, x).nullable = x
    BY <2>3, DescriptorType DEF Descriptor
  <2> QED
    BY <2>1, <2>3, <2>4, FieldValues
<1>4. schema = [i \in 1 .. n |-> schema[i]] /\ DOMAIN schema = 1 .. n
  BY <1>2
<1> HIDE DEF schema, n
<1>5. IsSchema(schema) /\ Len(schema) = n
  BY <1>2, <1>3, <1>4, SchemaIntro
<1>6. RowsOf(left.schema) \subseteq RowsOf(schema)
  BY <1>2, <1>3, <1>5, RowWiden DEF n
<1>7. RowsOf(right.schema) \subseteq RowsOf(schema)
  <2>1. \A i \in 1 .. n : schema[i].descriptor.scalar = right.schema[i].descriptor.scalar
    BY <1>2, <1>3
  <2> QED
    BY <1>2, <1>3, <1>5, <2>1, RowWiden
<1> DEFINE R == RowsOf(schema)
<1>8. ls \in Seq(R) /\ rs \in Seq(R)
  BY <1>6, <1>7
<1> HIDE DEF R
<1>9. node.how \in SetOperators
  BY NodeFacts DEF HasEntries, SetOperators
<1>10. Combined(node.how, ls, rs) \in Seq(R)
  BY <1>8, <1>9, CombinedType
<1>11. Good(EvaluateSet(node, ls, rs), schema)
  BY <1>10, ResultFacts DEF EvaluateSet, R
<1> QED
  BY <1>1, <1>2, <1>4, <1>5, <1>11

(* Join. *)
LEMMA NullableFacts ==
  ASSUME NEW s, IsSchema(s)
  PROVE  LET t == NullableFields(s)
         IN /\ IsSchema(t) /\ Len(t) = Len(s) /\ RowsOf(s) \subseteq RowsOf(t)
            /\ Nulls(Len(s)) \in RowsOf(t)
            /\ \A i \in 1 .. Len(s) : t[i].id = s[i].id
            /\ FieldIds(t) = FieldIds(s)
<1> DEFINE t == NullableFields(s)
           n == Len(s)
<1>1. n \in Nat /\ DOMAIN s = 1 .. n /\ \A i \in 1 .. n : s[i].descriptor \in Descriptors
  BY SchemaFacts
<1>2. ASSUME NEW i \in 1 .. n
      PROVE  /\ t[i] = Field(s[i].id, Descriptor(s[i].descriptor.scalar, TRUE))
             /\ t[i].id = s[i].id
             /\ t[i].descriptor \in Descriptors /\ t[i] = Field(t[i].id, t[i].descriptor)
             /\ t[i].descriptor.scalar = s[i].descriptor.scalar
             /\ t[i].descriptor.nullable
  <2> DEFINE d == Descriptor(s[i].descriptor.scalar, TRUE)
  <2>1. t[i] = Field(s[i].id, d)
    BY <1>1 DEF NullableFields
  <2>2. s[i].descriptor.scalar \in Scalars
    BY <1>1, DescriptorFacts
  <2>3. d \in Descriptors /\ d.scalar = s[i].descriptor.scalar /\ d.nullable
    BY <2>2, DescriptorType DEF Descriptor
  <2> HIDE DEF t, d
  <2>4. t[i].id = s[i].id /\ t[i].descriptor = d
    BY <2>1, FieldValues
  <2> QED
    BY <2>1, <2>3, <2>4 DEF d
<1>3. t = [i \in 1 .. n |-> t[i]] /\ DOMAIN t = 1 .. n
  BY <1>1 DEF NullableFields
<1> HIDE DEF t, n
<1>4. IsSchema(t) /\ Len(t) = n
  BY <1>1, <1>2, <1>3, SchemaIntro
<1>5. RowsOf(s) \subseteq RowsOf(t)
  BY <1>2, <1>4, RowWiden DEF n
<1>6. Nulls(n) \in RowsOf(t)
  <2>1. Nulls(n) = [i \in 1 .. n |-> Nulls(n)[i]] /\ \A i \in 1 .. n : Nulls(n)[i] = Null
    BY DEF Nulls
  <2>2. \A i \in 1 .. n : Cell(Null, t[i].descriptor)
    BY <1>2, CellFacts
  <2> QED
    <3> DEFINE z == Nulls(n)
    <3>1. z = [i \in 1 .. n |-> z[i]] /\ \A i \in 1 .. n : Cell(z[i], t[i].descriptor)
      BY <2>1, <2>2
    <3> HIDE DEF z
    <3>2. z \in RowsOf(t)
      BY <1>3, <3>1, RowFacts
    <3> QED
      BY <3>2 DEF z
<1>7. FieldIds(t) = FieldIds(s)
  BY <1>1, <1>2, <1>3, ZenonT(40) DEF FieldIds
<1> QED
  BY <1>2, <1>4, <1>5, <1>6, <1>7 DEF t, n

(* A sequence over a set is one over a larger set.                        *)
LEMMA SequenceWiden ==
  ASSUME NEW S, NEW T, S \subseteq T, NEW f \in Seq(S)
  PROVE  f \in Seq(T)
OBVIOUS

(* Every candidate is a pair of rows. *)
LEMMA PairFacts ==
  ASSUME NEW m \in Nat, NEW n \in Nat, NEW left, Len(left) = m, NEW right, Len(right) = n
  PROVE  /\ m * n \in Nat /\ DOMAIN Pairs(left, right) = 1 .. m * n
         /\ \A k \in 1 .. m * n : /\ Pairs(left, right)[k][1] = ((k - 1) \div n) + 1
                                  /\ Pairs(left, right)[k][2] = ((k - 1) % n) + 1
                                  /\ Pairs(left, right)[k][1] \in 1 .. m
                                  /\ Pairs(left, right)[k][2] \in 1 .. n
<1>1. m * n \in Nat
  OBVIOUS
<1>2. DOMAIN Pairs(left, right) = 1 .. m * n
  BY DEF Pairs
<1>3. ASSUME NEW k \in 1 .. m * n
      PROVE  ((k - 1) \div n) + 1 \in 1 .. m /\ ((k - 1) % n) + 1 \in 1 .. n
  <2>1. n # 0 /\ k - 1 \in Nat /\ k - 1 < m * n
    <3>1. n = 0 => m * n = 0
      OBVIOUS
    <3> QED
      BY <1>1, <3>1
  <2> DEFINE q == (k - 1) \div n
             r == (k - 1) % n
  <2>2. q \in Int /\ r \in 0 .. n - 1 /\ k - 1 = n * q + r
    BY <2>1
  <2> HIDE DEF q, r
  <2>3. n * q < m * n
    BY <1>1, <2>1, <2>2
  <2>4. q < m
    <3>1. SUFFICES ASSUME q >= m PROVE FALSE
      BY <2>2
    <3>2. q = m + (q - m) /\ q - m \in Nat
      BY <2>2, <3>1
    <3>3. n * q = m * n + n * (q - m) /\ n * (q - m) >= 0
      BY <2>2, <3>1, <3>2
    <3> QED
      BY <1>1, <2>2, <2>3, <3>3
  <2>5. q >= 0
    <3>1. SUFFICES ASSUME q <= -1 PROVE FALSE
      BY <2>2
    <3>2. n * q <= -n
      BY <2>1, <2>2, <3>1
    <3> QED
      BY <2>1, <2>2, <3>2
  <2> QED
    BY <2>2, <2>4, <2>5 DEF q, r
<1>4. \A k \in 1 .. m * n : /\ Pairs(left, right)[k][1] = ((k - 1) \div n) + 1
                            /\ Pairs(left, right)[k][2] = ((k - 1) % n) + 1
  BY DEF Pairs
<1> QED
  BY <1>1, <1>2, <1>3, <1>4, Zenon

(* Rows padded on both sides. *)
LEMMA PaddedType ==
  ASSUME NEW S, NEW T, NEW rows \in Seq(S), NEW before, NEW after,
         \A row \in S : before \o row \o after \in T
  PROVE  [k \in DOMAIN rows |-> before \o rows[k] \o after] \in Seq(T)
<1> DEFINE f == [k \in DOMAIN rows |-> before \o rows[k] \o after]
<1>1. Len(rows) \in Nat /\ DOMAIN rows = 1 .. Len(rows) /\ \A k \in 1 .. Len(rows) : rows[k] \in S
  OBVIOUS
<1>2. f = [k \in 1 .. Len(rows) |-> f[k]]
  BY <1>1
<1>3. \A k \in 1 .. Len(rows) : f[k] = before \o rows[k] \o after
  BY <1>1
<1> HIDE DEF f
<1>4. f \in Seq(T)
  <2>1. \A k \in 1 .. Len(rows) : f[k] \in T
    BY <1>1, <1>3
  <2> QED
    BY <1>1, <1>2, <2>1, SequenceIntro
<1> QED
  BY <1>4 DEF f

(* What the rows of the two sides are in the rows of a join. *)
LEMMA JoinSchemaFacts ==
  ASSUME NEW how, NEW s, IsSchema(s), NEW t, IsSchema(t)
  PROVE  LET u == JoinSchema(how, s, t)
         IN /\ IsSchema(u) /\ Len(u) = Len(s) + Len(t)
            /\ FieldIds(u) = FieldIds(s) \cup FieldIds(t)
            /\ \A i \in 1 .. Len(s) : u[i].id = s[i].id
            /\ \A i \in 1 .. Len(t) : u[Len(s) + i].id = t[i].id
            /\ \A l \in RowsOf(s), r \in RowsOf(t) : l \o r \in RowsOf(u)
            /\ how \in {"left", "full"} => \A l \in RowsOf(s) : l \o Nulls(Len(t)) \in RowsOf(u)
            /\ how \in {"right", "full"} => \A r \in RowsOf(t) : Nulls(Len(s)) \o r \in RowsOf(u)
<1> DEFINE ls == IF how \in {"right", "full"} THEN NullableFields(s) ELSE s
           rs == IF how \in {"left", "full"} THEN NullableFields(t) ELSE t
           u == JoinSchema(how, s, t)
<1>1. u = ls \o rs
  BY DEF JoinSchema
<1>2. /\ IsSchema(ls) /\ Len(ls) = Len(s) /\ RowsOf(s) \subseteq RowsOf(ls) /\ FieldIds(ls) = FieldIds(s)
      /\ \A i \in 1 .. Len(s) : ls[i].id = s[i].id
      /\ how \in {"right", "full"} => Nulls(Len(s)) \in RowsOf(ls)
  BY NullableFacts
<1>3. /\ IsSchema(rs) /\ Len(rs) = Len(t) /\ RowsOf(t) \subseteq RowsOf(rs) /\ FieldIds(rs) = FieldIds(t)
      /\ \A i \in 1 .. Len(t) : rs[i].id = t[i].id
      /\ how \in {"left", "full"} => Nulls(Len(t)) \in RowsOf(rs)
  BY NullableFacts
<1> HIDE DEF ls, rs, u
<1>4. \A l \in RowsOf(ls), r \in RowsOf(rs) : l \o r \in RowsOf(u)
  BY <1>1, <1>2, <1>3, RowConcat
<1>5. /\ IsSchema(u) /\ Len(u) = Len(ls) + Len(rs)
      /\ \A i \in 1 .. Len(ls) : u[i] = ls[i]
      /\ \A i \in 1 .. Len(rs) : u[Len(ls) + i] = rs[i]
      /\ FieldIds(u) = FieldIds(ls) \cup FieldIds(rs)
  BY <1>1, <1>2, <1>3, SchemaConcat, SMTT(30)
<1>6. \A i \in 1 .. Len(s) : u[i].id = s[i].id
  BY <1>2, <1>5
<1>7. \A i \in 1 .. Len(t) : u[Len(s) + i].id = t[i].id
  BY <1>2, <1>3, <1>5
<1> QED
  BY <1>2, <1>3, <1>4, <1>5, <1>6, <1>7 DEF u

(* A row padded with nothing.                                             *)
LEMMA NoRowFacts ==
  ASSUME NEW s, IsSchema(s), NEW row \in RowsOf(s)
  PROVE  <<>> \o row = row /\ row \o <<>> = row
BY RowSequence

(* Matched pairs and padded rows are rows of the schema of the join.      *)
LEMMA JoinRowsType ==
  ASSUME NEW how, NEW s, IsSchema(s), NEW t, IsSchema(t),
         NEW ls \in Seq(RowsOf(s)), NEW rs \in Seq(RowsOf(t)),
         NEW matches \in Seq(1 .. Len(ls) * Len(rs))
  PROVE  JoinRows(how, ls, rs, <<Nulls(Len(s)), Nulls(Len(t))>>, Pairs(ls, rs), matches)
           \in Seq(RowsOf(JoinSchema(how, s, t)))
<1> DEFINE u == JoinSchema(how, s, t)
           pairs == Pairs(ls, rs)
           matched == [k \in DOMAIN matches |-> ls[pairs[matches[k]][1]] \o rs[pairs[matches[k]][2]]]
           aloneL == Pick(ls, Unmatched(1, Len(ls), pairs, matches))
           aloneR == Pick(rs, Unmatched(2, Len(rs), pairs, matches))
           paddedL == [k \in DOMAIN aloneL |-> <<>> \o aloneL[k] \o Nulls(Len(t))]
           paddedR == [k \in DOMAIN aloneR |-> Nulls(Len(s)) \o aloneR[k] \o <<>>]
           R == RowsOf(u)
           ifL == IF how \in {"left", "full"} THEN paddedL ELSE <<>>
           ifR == IF how \in {"right", "full"} THEN paddedR ELSE <<>>
<1>1. JoinRows(how, ls, rs, <<Nulls(Len(s)), Nulls(Len(t))>>, Pairs(ls, rs), matches)
        = matched \o ifL \o ifR
  BY Zenon DEF JoinRows
<1>2. /\ Len(ls) \in Nat /\ Len(rs) \in Nat /\ DOMAIN ls = 1 .. Len(ls) /\ DOMAIN rs = 1 .. Len(rs)
      /\ \A i \in 1 .. Len(ls) : ls[i] \in RowsOf(s)
      /\ \A i \in 1 .. Len(rs) : rs[i] \in RowsOf(t)
  OBVIOUS
<1>3. \A k \in 1 .. Len(ls) * Len(rs) : pairs[k][1] \in 1 .. Len(ls) /\ pairs[k][2] \in 1 .. Len(rs)
  BY <1>2, PairFacts
<1>4. /\ \A l \in RowsOf(s), r \in RowsOf(t) : l \o r \in R
      /\ how \in {"left", "full"} => \A l \in RowsOf(s) : l \o Nulls(Len(t)) \in R
      /\ how \in {"right", "full"} => \A r \in RowsOf(t) : Nulls(Len(s)) \o r \in R
  BY JoinSchemaFacts
<1>5. matched \in Seq(R)
  <2>1. Len(matches) \in Nat /\ DOMAIN matches = 1 .. Len(matches)
        /\ \A k \in 1 .. Len(matches) : matches[k] \in 1 .. Len(ls) * Len(rs)
    OBVIOUS
  <2>2. matched = [k \in 1 .. Len(matches) |-> matched[k]]
    BY <2>1, Zenon
  <2>3. \A k \in 1 .. Len(matches) : matched[k] = ls[pairs[matches[k]][1]] \o rs[pairs[matches[k]][2]]
    BY <2>1, Zenon
  <2> HIDE DEF matched, pairs, R
  <2>4. \A k \in 1 .. Len(matches) : matched[k] \in R
    <3>1. ASSUME NEW k \in 1 .. Len(matches)
          PROVE  ls[pairs[matches[k]][1]] \in RowsOf(s) /\ rs[pairs[matches[k]][2]] \in RowsOf(t)
      <4> DEFINE c == matches[k]
      <4>1. c \in 1 .. Len(ls) * Len(rs)
        BY <2>1
      <4>2. pairs[c][1] \in 1 .. Len(ls) /\ pairs[c][2] \in 1 .. Len(rs)
        BY <1>3, <4>1, Zenon
      <4> HIDE DEF c
      <4>3. ls[pairs[c][1]] \in RowsOf(s) /\ rs[pairs[c][2]] \in RowsOf(t)
        BY <1>2, <4>2, Zenon
      <4> QED
        BY <4>3 DEF c
    <3> QED
      BY <1>4, <2>3, <3>1, Zenon
  <2> QED
    BY <2>1, <2>2, <2>4, SequenceIntro
<1>6. aloneL \in Seq(RowsOf(s))
  <2> DEFINE chosen == {i \in 1 .. Len(ls) : \A k \in Range(matches) : pairs[k][1] # i}
  <2>1. Unmatched(1, Len(ls), pairs, matches) = Increasing(chosen)
    BY DEF Unmatched
  <2>2. chosen \subseteq DOMAIN ls
    OBVIOUS
  <2> HIDE DEF chosen
  <2> QED
    BY <2>1, <2>2, SelectionFacts
<1>7. aloneR \in Seq(RowsOf(t))
  <2> DEFINE chosen == {i \in 1 .. Len(rs) : \A k \in Range(matches) : pairs[k][2] # i}
  <2>1. Unmatched(2, Len(rs), pairs, matches) = Increasing(chosen)
    BY DEF Unmatched
  <2>2. chosen \subseteq DOMAIN rs
    OBVIOUS
  <2> HIDE DEF chosen
  <2> QED
    BY <2>1, <2>2, SelectionFacts
<1> HIDE DEF aloneL, aloneR, matched, pairs
<1>8. ifL \in Seq(R)
  <2>1. CASE how \in {"left", "full"}
    <3>1. \A l \in RowsOf(s) : <<>> \o l \o Nulls(Len(t)) \in R
      BY <1>4, <2>1, NoRowFacts
    <3> HIDE DEF R
    <3>2. paddedL \in Seq(R)
      BY <1>6, <3>1, PaddedType
    <3> QED
      BY <2>1, <3>2
  <2>2. CASE how \notin {"left", "full"}
    BY <2>2
  <2> QED
    BY <2>1, <2>2
<1>9. ifR \in Seq(R)
  <2>1. CASE how \in {"right", "full"}
    <3>1. \A r \in RowsOf(t) : Nulls(Len(s)) \o r \o <<>> \in R
      <4>1. ASSUME NEW r \in RowsOf(t) PROVE Nulls(Len(s)) \o r \o <<>> \in R
        <5>1. Nulls(Len(s)) \o r \in R /\ IsSchema(u)
          BY <1>4, <2>1, JoinSchemaFacts
        <5> HIDE DEF u
        <5> QED
          BY <5>1, NoRowFacts
      <4> QED
        BY <4>1
    <3> HIDE DEF R
    <3>2. paddedR \in Seq(R)
      BY <1>7, <3>1, PaddedType
    <3> QED
      BY <2>1, <3>2
  <2>2. CASE how \notin {"right", "full"}
    BY <2>2
  <2> QED
    BY <2>1, <2>2
<1> HIDE DEF ifL, ifR, R
<1>10. matched \o ifL \o ifR \in Seq(R)
  BY <1>5, <1>8, <1>9
<1> QED
  BY <1>1, <1>10 DEF R

(* The verdicts on the candidates. *)
Verdicts(node, s, t, ls, rs) ==
  [k \in DOMAIN Pairs(ls, rs) |->
     IF node.how = "cross" THEN True
     ELSE Evaluate(node.entries[1].args[1], s \o t, ls[Pairs(ls, rs)[k][1]] \o rs[Pairs(ls, rs)[k][2]])]

(* The condition of a join is an accepted condition.                      *)
LEMMA JoinConditionFacts ==
  ASSUME NEW node, IsNode(node), node.kind = "join", NEW left, IsSchema(left.schema),
         NEW right, IsSchema(right.schema), AcceptsJoin(node, left, right), node.how # "cross"
  PROVE  LET e == node.entries[1].args[1]
         IN /\ e \in Expressions /\ Typed(e, left.schema \o right.schema)
            /\ e.descriptor.scalar = "BOOLEAN"
<1> DEFINE e == node.entries[1].args[1]
<1>1. node.entries # <<>> /\ Len(node.entries) <= 1 /\ Len(node.entries) \in Nat
      /\ Each(node.entries, 1 .. Len(node.entries), "predicate")
  BY NodeFacts DEF AcceptsJoin, HasEntries
<1>2. Len(node.entries) = 1
  <2>1. Len(node.entries) # 0
    BY <1>1, NodeFacts
  <2> DEFINE n == Len(node.entries)
  <2>2. n \in Nat /\ n <= 1 /\ n # 0
    BY <1>1, <2>1
  <2> HIDE DEF n
  <2>3. n = 1
    BY <2>2
  <2> QED
    BY <2>3 DEF n
<1>3. 1 \in 1 .. Len(node.entries) /\ 1 \in DOMAIN node.entries
  BY <1>2, NodeFacts
<1>4. node.entries[1] \in Entries /\ Len(node.entries[1].args) = 1
  BY <1>1, <1>3, NodeFacts DEF Each
<1>5. e \in Expressions
  BY <1>4, EntryFacts
<1>6. IsCondition(e, left.schema \o right.schema)
  BY <1>3 DEF AcceptsJoin
<1>7. IsSchema(left.schema \o right.schema)
  BY SchemaConcat
<1> QED
  BY <1>5, <1>6, <1>7, ConditionFacts

(* The condition gives values or errors on every candidate.               *)
LEMMA VerdictFacts ==
  ASSUME NEW node, IsNode(node), node.kind = "join", NEW left, IsSchema(left.schema),
         NEW right, IsSchema(right.schema), AcceptsJoin(node, left, right),
         NEW ls \in Seq(RowsOf(left.schema)), NEW rs \in Seq(RowsOf(right.schema))
  PROVE  LET v == Verdicts(node, left.schema, right.schema, ls, rs)
         IN /\ DOMAIN v = 1 .. Len(ls) * Len(rs)
            /\ \A k \in 1 .. Len(ls) * Len(rs) : Failed(v[k]) => v[k] \in Errors
<1> DEFINE v == Verdicts(node, left.schema, right.schema, ls, rs)
           pairs == Pairs(ls, rs)
<1>1. /\ Len(ls) \in Nat /\ Len(rs) \in Nat
      /\ \A i \in 1 .. Len(ls) : ls[i] \in RowsOf(left.schema)
      /\ \A i \in 1 .. Len(rs) : rs[i] \in RowsOf(right.schema)
  OBVIOUS
<1>2. /\ DOMAIN pairs = 1 .. Len(ls) * Len(rs)
      /\ \A k \in 1 .. Len(ls) * Len(rs) : pairs[k][1] \in 1 .. Len(ls) /\ pairs[k][2] \in 1 .. Len(rs)
  BY <1>1, PairFacts
<1>3. DOMAIN v = 1 .. Len(ls) * Len(rs)
  BY <1>2 DEF Verdicts
<1>4. ASSUME NEW k \in 1 .. Len(ls) * Len(rs), Failed(v[k]) PROVE v[k] \in Errors
  <2> DEFINE e == node.entries[1].args[1]
             row == ls[pairs[k][1]] \o rs[pairs[k][2]]
             schema == left.schema \o right.schema
  <2>1. CASE node.how = "cross"
    <3>1. v[k] = True
      BY <1>2, <2>1 DEF Verdicts
    <3>2. True.scalar = "BOOLEAN"
      BY DEF True, Boolean, Tagged
    <3> QED
      BY <1>4, <3>1, <3>2 DEF Failed
  <2>2. CASE node.how # "cross"
    <3>1. v[k] = Evaluate(e, schema, row)
      BY <1>2, <2>2 DEF Verdicts
    <3>2. IsSchema(schema) /\ row \in RowsOf(schema)
      BY <1>1, <1>2, SchemaConcat, RowConcat
    <3>3. e \in Expressions /\ Typed(e, schema)
      BY <2>2, JoinConditionFacts
    <3> HIDE DEF v, e, row, schema
    <3>4. Fits(Evaluate(e, schema, row), e.descriptor) /\ e.descriptor \in Descriptors
      BY <3>2, <3>3, TypedValue
    <3> QED
      BY <1>4, <3>1, <3>4, FitsFacts
  <2> QED
    BY <2>1, <2>2
<1> QED
  BY <1>3, <1>4

(* A Join node gives rows of its schema, or an error.                     *)
LEMMA JoinGood ==
  ASSUME NEW node, IsNode(node), node.kind = "join", NEW left, IsSchema(left.schema),
         NEW right, IsSchema(right.schema), AcceptsJoin(node, left, right),
         NEW ls \in Seq(RowsOf(left.schema)), NEW rs \in Seq(RowsOf(right.schema))
  PROVE  /\ IsSchema(JoinProperties(node, left, right).schema)
         /\ Good(EvaluateJoin(node, left.schema, right.schema, ls, rs), JoinProperties(node, left, right).schema)
<1> DEFINE v == Verdicts(node, left.schema, right.schema, ls, rs)
           N == Len(ls) * Len(rs)
           chosen == {k \in DOMAIN Pairs(ls, rs) : v[k] = True}
           nulls == <<Nulls(Len(left.schema)), Nulls(Len(right.schema))>>
           out == JoinRows(node.how, ls, rs, nulls, Pairs(ls, rs), Increasing(chosen))
           u == JoinSchema(node.how, left.schema, right.schema)
<1>1. JoinProperties(node, left, right).schema = u
  BY DEF JoinProperties, BagOf, Properties
<1>2. IsSchema(u)
  BY JoinSchemaFacts
<1>3. EvaluateJoin(node, left.schema, right.schema, ls, rs) = Complete(v, out)
  BY DEF EvaluateJoin, DecidedJoin, Verdicts
<1>4. Len(ls) \in Nat /\ Len(rs) \in Nat
  OBVIOUS
<1>5. N \in Nat /\ DOMAIN Pairs(ls, rs) = 1 .. N
  BY <1>4, PairFacts
<1>6. DOMAIN v = 1 .. N /\ DOMAIN v \subseteq Nat /\ \A k \in DOMAIN v : Failed(v[k]) => v[k] \in Errors
  BY <1>5, VerdictFacts
<1>7. Increasing(chosen) \in Seq(1 .. N)
  <2>1. chosen \subseteq 1 .. N
    BY <1>5
  <2> HIDE DEF chosen, N
  <2>2. IsFiniteSet(chosen) /\ chosen \subseteq Int
    BY <1>5, <2>1, PositionSets
  <2> DEFINE f == Increasing(chosen)
  <2>3. f \in Seq(chosen)
    BY <2>2, IncreasingFacts
  <2> HIDE DEF f
  <2>4. f \in Seq(1 .. N)
    BY <2>1, <2>3, SequenceWiden
  <2> QED
    BY <2>4 DEF f
<1>8. out \in Seq(RowsOf(u))
  BY <1>7, JoinRowsType
<1> HIDE DEF v, out, u
<1>9. Good(Complete(v, out), u)
  BY <1>6, <1>8, CompleteFacts
<1> QED
  BY <1>1, <1>2, <1>3, <1>9

-----------------------------------------------------------------------------
(* Aggregates. *)

(* The positions of an interval, in order. *)
LEMMA IntervalPositions ==
  ASSUME NEW a \in Int, NEW b \in Int, a - 1 <= b
  PROVE  Increasing(a .. b) = [p \in 1 .. b - a + 1 |-> a + p - 1]
<1> DEFINE S == a .. b
           R == {pair \in S \X S : pair[1] < pair[2]}
<1>1. Cardinality(S) = b - a + 1
  BY FS_Interval
<1>2. ASSUME NEW i \in S PROVE Cardinality({j \in S : <<j, i>> \in R}) = i - a
  <2>1. {j \in S : <<j, i>> \in R} = a .. i - 1
    OBVIOUS
  <2>2. Cardinality(a .. i - 1) = IF a > i - 1 THEN 0 ELSE (i - 1) - a + 1
    <3>1. i - 1 \in Int
      OBVIOUS
    <3> QED
      BY <3>1, FS_Interval
  <2>3. Cardinality(a .. i - 1) = i - a
    BY <2>2
  <2> QED
    BY <2>1, <2>3
<1>3. ASSUME NEW p \in 1 .. b - a + 1
      PROVE  (CHOOSE i \in S : Cardinality({j \in S : <<j, i>> \in R}) = p - 1) = a + p - 1
  <2>1. a + p - 1 \in S /\ (a + p - 1) - a = p - 1
    OBVIOUS
  <2>2. \A i \in S : Cardinality({j \in S : <<j, i>> \in R}) = p - 1 <=> i = a + p - 1
    <3>1. \A i \in S : i - a = p - 1 <=> i = a + p - 1
      OBVIOUS
    <3> QED
      BY <1>2, <3>1
  <2> HIDE DEF S, R
  <2> QED
    BY <2>1, <2>2
<1> HIDE DEF S, R
<1>4. Arranged(S, R) = [p \in 1 .. b - a + 1 |-> a + p - 1]
  BY <1>1, <1>3 DEF Arranged
<1> QED
  BY <1>4 DEF Increasing, S, R

(* The entries of an Aggregate node: its keys, then its aggregates. *)
KeyEntries(node) == Where(node.entries, LAMBDA e : e.function = "group")

AggregateEntries(node) == Where(node.entries, LAMBDA e : e.function # "group")

Splits(node, k) ==
  /\ k \in 0 .. Len(node.entries)
  /\ KeyEntries(node) \in Seq(Entries) /\ Len(KeyEntries(node)) = k
  /\ AggregateEntries(node) \in Seq(Entries)
  /\ Len(AggregateEntries(node)) = Len(node.entries) - k
  /\ \A i \in 1 .. k : /\ KeyEntries(node)[i] = node.entries[i]
                       /\ node.entries[i].function = "group" /\ Len(node.entries[i].args) = 1
  /\ \A i \in 1 .. Len(node.entries) - k :
       AggregateEntries(node)[i] = node.entries[k + i]
  /\ \A i \in k + 1 .. Len(node.entries) : node.entries[i].function \in AggregateFunctions

(* An Aggregate node has its keys first and then its aggregates.          *)
LEMMA SplitFacts ==
  ASSUME NEW node, IsNode(node), node.kind = "aggregate"
  PROVE  \E k \in 0 .. Len(node.entries) : Splits(node, k)
<1> DEFINE size == Len(node.entries)
<1>1. size \in Nat /\ DOMAIN node.entries = 1 .. size /\ node.entries \in Seq(Entries)
  BY NodeFacts
<1>2. PICK k \in 0 .. size :
         /\ Each(node.entries, 1 .. k, "group")
         /\ \A i \in k + 1 .. size : node.entries[i].function \in AggregateFunctions
  BY NodeFacts DEF HasEntries
<1>3. "group" \notin AggregateFunctions
  BY DEF AggregateFunctions
<1>4. \A i \in 1 .. k : node.entries[i].function = "group" /\ Len(node.entries[i].args) = 1
  BY <1>2 DEF Each
<1>5. {i \in DOMAIN node.entries : node.entries[i].function = "group"} = 1 .. k
  BY <1>1, <1>2, <1>3, <1>4
<1>6. {i \in DOMAIN node.entries : node.entries[i].function # "group"} = k + 1 .. size
  BY <1>1, <1>2, <1>3, <1>4
<1>7. Increasing(1 .. k) = [p \in 1 .. k |-> p]
  <2>1. Increasing(1 .. k) = [p \in 1 .. k - 1 + 1 |-> 1 + p - 1]
    BY IntervalPositions
  <2>2. k - 1 + 1 = k /\ \A p \in 1 .. k : 1 + p - 1 = p
    OBVIOUS
  <2> QED
    BY <2>1, <2>2
<1>8. Increasing(k + 1 .. size) = [p \in 1 .. size - k |-> k + p]
  <2>1. Increasing(k + 1 .. size) = [p \in 1 .. size - (k + 1) + 1 |-> (k + 1) + p - 1]
    BY <1>1, IntervalPositions
  <2>2. size - (k + 1) + 1 = size - k /\ \A p \in 1 .. size - k : (k + 1) + p - 1 = k + p
    BY <1>1
  <2> QED
    BY <2>1, <2>2
<1>9. KeyEntries(node) = [p \in 1 .. k |-> node.entries[p]]
  <2>1. KeyEntries(node) = Pick(node.entries, Increasing(1 .. k))
    BY <1>5 DEF KeyEntries, Where
  <2> QED
    BY <1>7, <2>1 DEF Pick
<1>10. AggregateEntries(node) = [p \in 1 .. size - k |-> node.entries[k + p]]
  <2>1. AggregateEntries(node) = Pick(node.entries, Increasing(k + 1 .. size))
    BY <1>6 DEF AggregateEntries, Where
  <2> QED
    BY <1>8, <2>1 DEF Pick
<1>11. \A p \in 1 .. k : KeyEntries(node)[p] = node.entries[p] /\ node.entries[p] \in Entries
  BY <1>1, <1>9
<1>12. \A p \in 1 .. size - k : AggregateEntries(node)[p] = node.entries[k + p] /\ node.entries[k + p] \in Entries
  BY <1>1, <1>10
<1>13. KeyEntries(node) = [p \in 1 .. k |-> KeyEntries(node)[p]]
  BY <1>9
<1>14. AggregateEntries(node) = [p \in 1 .. size - k |-> AggregateEntries(node)[p]]
  BY <1>10
<1>15. KeyEntries(node) \in Seq(Entries) /\ Len(KeyEntries(node)) = k
  BY <1>11, <1>13, SequenceIntro
<1>16. AggregateEntries(node) \in Seq(Entries) /\ Len(AggregateEntries(node)) = size - k
  <2> DEFINE others == AggregateEntries(node)
             rest == size - k
  <2>1. rest \in Nat
    BY <1>1
  <2>2. others = [p \in 1 .. rest |-> others[p]] /\ \A p \in 1 .. rest : others[p] \in Entries
    BY <1>12, <1>14
  <2> HIDE DEF others, rest
  <2>3. others \in Seq(Entries) /\ Len(others) = rest
    BY <2>1, <2>2, SequenceIntro
  <2> QED
    BY <2>3 DEF others, rest
<1>17. Splits(node, k)
  BY <1>2, <1>4, <1>11, <1>12, <1>15, <1>16 DEF Splits
<1> QED
  BY <1>17

(* The groups of rows: every position is in the group of its key, in order. *)
Divides(groups, keys, n) ==
  /\ groups \in Seq(Seq(1 .. n))
  /\ \A g \in DOMAIN groups :
       /\ groups[g] \in Seq(1 .. n) /\ Len(groups[g]) \in Nat \ {0}
       /\ DOMAIN groups[g] = 1 .. Len(groups[g])
       /\ groups[g][1] \in 1 .. n
       /\ Range(groups[g]) = {j \in 1 .. n : keys[j] = keys[groups[g][1]]}
       /\ Len(groups[g]) = Cardinality(Range(groups[g]))
       /\ \A p, q \in DOMAIN groups[g] : p < q <=> groups[g][p] < groups[g][q]
  /\ \A g, h \in DOMAIN groups : keys[groups[g][1]] = keys[groups[h][1]] => g = h
  /\ \A j \in 1 .. n : \E g \in DOMAIN groups : j \in Range(groups[g])

(* group_rows divides the rows by their keys.                             *)
LEMMA GroupFacts ==
  ASSUME NEW n \in Nat, NEW keys, DOMAIN keys = 1 .. n
  PROVE  Divides(Groups(keys), keys, n)
<1> DEFINE F == {i \in DOMAIN keys : \A j \in 1 .. i - 1 : keys[j] # keys[i]}
           firsts == Increasing(F)
           of(g) == {j \in DOMAIN keys : keys[j] = keys[firsts[g]]}
           groups == Groups(keys)
<1>1. F \subseteq 1 .. n
  OBVIOUS
<1>2. groups = [g \in DOMAIN firsts |-> Increasing(of(g))]
  BY DEF Groups
<1>3. \A j \in 1 .. n : \E i \in F : keys[i] = keys[j]
  <2>1. ASSUME NEW j \in 1 .. n PROVE \E i \in F : keys[i] = keys[j]
    <3> DEFINE same == {i \in 1 .. n : keys[i] = keys[j]}
    <3>1. same \in SUBSET Nat /\ same # {}
      OBVIOUS
    <3>2. PICK i \in same : \A m \in 0 .. i - 1 : m \notin same
      BY <3>1, LeastFacts
    <3>3. \A m \in 1 .. i - 1 : m \in 0 .. i - 1 /\ m \in 1 .. n
      OBVIOUS
    <3>4. i \in F
      BY <3>2, <3>3
    <3> QED
      BY <3>4
  <2> QED
    BY <2>1
<1>4. \A i, j \in F : keys[i] = keys[j] => i = j
  <2>1. \A i, j \in F : i < j => keys[i] # keys[j]
    BY <1>1
  <2> QED
    BY <1>1, <2>1
<1> HIDE DEF F
<1>5. /\ firsts \in Seq(F) /\ DOMAIN firsts = 1 .. Len(firsts) /\ Len(firsts) \in Nat
      /\ \A p, q \in DOMAIN firsts : firsts[p] = firsts[q] => p = q
      /\ \A i \in F : \E p \in DOMAIN firsts : firsts[p] = i
  BY <1>1, PositionSets, IncreasingFacts
<1> HIDE DEF firsts
<1>6. \A g \in DOMAIN firsts : firsts[g] \in F /\ firsts[g] \in 1 .. n
  <2>1. \A g \in DOMAIN firsts : firsts[g] \in F
    BY <1>5
  <2> QED
    BY <1>1, <2>1
<1>7. ASSUME NEW g \in DOMAIN firsts
      PROVE  LET group == groups[g]
             IN /\ group \in Seq(1 .. n) /\ Len(group) \in Nat \ {0}
                /\ DOMAIN group = 1 .. Len(group)
                /\ group[1] \in 1 .. n
                /\ keys[group[1]] = keys[firsts[g]]
                /\ Range(group) = {j \in 1 .. n : keys[j] = keys[group[1]]}
                /\ Len(group) = Cardinality(Range(group))
                /\ \A p, q \in DOMAIN group : p < q <=> group[p] < group[q]
  <2> DEFINE same == of(g)
             group == groups[g]
  <2>1. same \subseteq 1 .. n /\ firsts[g] \in same /\ \A j \in same : keys[j] = keys[firsts[g]]
    BY <1>6
  <2>2. group = Increasing(same)
    BY <1>2
  <2>3. same = {j \in 1 .. n : keys[j] = keys[firsts[g]]}
    OBVIOUS
  <2> HIDE DEF same, group
  <2>4. IsFiniteSet(same) /\ same \subseteq Int
    BY <2>1, PositionSets
  <2>5. /\ group \in Seq(same) /\ Len(group) = Cardinality(same)
        /\ DOMAIN group = 1 .. Cardinality(same) /\ Cardinality(same) \in Nat
        /\ \A p, q \in DOMAIN group : p < q <=> group[p] < group[q]
        /\ \A i \in same : \E p \in DOMAIN group : group[p] = i
        /\ Range(group) = same
    BY <2>2, <2>4, IncreasingFacts
  <2>6. Len(group) # 0 /\ Len(group) \in Nat /\ DOMAIN group = 1 .. Len(group)
    <3>1. PICK p \in DOMAIN group : group[p] = firsts[g]
      BY <2>1, <2>5
    <3> QED
      BY <2>5, <3>1
  <2>7. group[1] \in same
    BY <2>5, <2>6
  <2>8. group \in Seq(1 .. n)
    BY <2>1, <2>5, SequenceWiden
  <2>9. keys[group[1]] = keys[firsts[g]] /\ group[1] \in 1 .. n
    BY <2>1, <2>7
  <2> QED
    BY <2>3, <2>5, <2>6, <2>8, <2>9 DEF group
<1>8. groups \in Seq(Seq(1 .. n)) /\ DOMAIN groups = DOMAIN firsts
  <2>1. groups = [g \in 1 .. Len(firsts) |-> groups[g]]
    BY <1>2, <1>5
  <2> HIDE DEF groups
  <2>2. \A g \in 1 .. Len(firsts) : groups[g] \in Seq(1 .. n)
    BY <1>5, <1>7
  <2> QED
    BY <1>5, <2>1, <2>2, SequenceIntro
<1> HIDE DEF groups
<1>9. \A g, h \in DOMAIN groups : keys[groups[g][1]] = keys[groups[h][1]] => g = h
  BY <1>4, <1>5, <1>6, <1>7, <1>8
<1>10. ASSUME NEW j \in 1 .. n PROVE \E g \in DOMAIN groups : j \in Range(groups[g])
  <2>1. PICK i \in F : keys[i] = keys[j]
    BY <1>3
  <2>2. PICK g \in DOMAIN firsts : firsts[g] = i
    BY <1>5
  <2>3. j \in Range(groups[g])
    BY <1>7, <2>1, <2>2
  <2> QED
    BY <1>8, <2>3
<1> QED
  BY <1>7, <1>8, <1>9, <1>10 DEF Divides, groups

(* Total is a running sum over the integers. *)
IsTotal(f, n, values) ==
  f = [k \in 0 .. n |-> IF k = 0 THEN 0 ELSE f[k - 1] + values[k].v]

(* The sum is defined by recursion.                                       *)
LEMMA TotalExists ==
  ASSUME NEW values, NEW n \in Nat
  PROVE  \E f : IsTotal(f, n, values)
<1> DEFINE S == {k \in 0 .. n : ~ \E f : IsTotal(f, k, values)}
<1>1. SUFFICES ASSUME S # {} PROVE FALSE
  OBVIOUS
<1>2. S \subseteq Nat
  OBVIOUS
<1>3. PICK m \in S : \A i \in 0 .. m - 1 : i \notin S
  BY <1>1, <1>2, LeastFacts
<1>4. CASE m = 0
  <2> DEFINE f == [k \in 0 .. 0 |-> 0]
  <2>1. f = [k \in 0 .. 0 |-> IF k = 0 THEN 0 ELSE f[k - 1] + values[k].v]
    <3>1. \A k \in 0 .. 0 : k = 0
      OBVIOUS
    <3> QED
      BY <3>1
  <2>2. IsTotal(f, m, values)
    BY <1>4, <2>1 DEF IsTotal
  <2> QED
    BY <2>2
<1>5. CASE m # 0
  <2>1. m \in 1 .. n /\ m - 1 \in 0 .. n /\ m - 1 \in 0 .. m - 1
    BY <1>5
  <2>2. PICK f : IsTotal(f, m - 1, values)
    BY <1>3, <2>1
  <2> DEFINE g == [k \in 0 .. m |-> IF k = 0 THEN 0 ELSE f[k - 1] + values[k].v]
  <2>3. \A k \in 0 .. m - 1 : k \in 0 .. m /\ f[k] = IF k = 0 THEN 0 ELSE f[k - 1] + values[k].v
    <3>1. \A k \in 0 .. m - 1 : k \in 0 .. m
      BY <2>1
    <3>2. \A k \in 0 .. m - 1 : f[k] = IF k = 0 THEN 0 ELSE f[k - 1] + values[k].v
      BY <2>2, Zenon DEF IsTotal
    <3> QED
      BY <3>1, <3>2
  <2>4. \A k \in 0 .. m - 1 : g[k] = f[k]
    BY <2>3
  <2>5. \A k \in 0 .. m : k # 0 => k - 1 \in 0 .. m - 1
    BY <2>1
  <2>6. g = [k \in 0 .. m |-> IF k = 0 THEN 0 ELSE g[k - 1] + values[k].v]
    BY <2>4, <2>5
  <2> HIDE DEF g
  <2>7. IsTotal(g, m, values)
    BY <2>6, Zenon DEF IsTotal
  <2> QED
    BY <2>7
<1> QED
  BY <1>4, <1>5

Totals(f, values) ==
  /\ Total(values) = f[Len(values)]
  /\ f[0] = 0
  /\ \A k \in 1 .. Len(values) : f[k] = f[k - 1] + values[k].v

(* The sum, step by step.                                                 *)
LEMMA TotalFacts ==
  ASSUME NEW values, Len(values) \in Nat
  PROVE  \E f : Totals(f, values)
<1> DEFINE f == CHOOSE f : IsTotal(f, Len(values), values)
<1>1. IsTotal(f, Len(values), values)
  BY TotalExists, Zenon
<1>2. Total(values) = f[Len(values)]
  BY Zenon DEF Total, IsTotal
<1> HIDE DEF f
<1>3. \A k \in 0 .. Len(values) : f[k] = IF k = 0 THEN 0 ELSE f[k - 1] + values[k].v
  BY <1>1, Zenon DEF IsTotal
<1>4. 0 \in 0 .. Len(values) /\ \A k \in 1 .. Len(values) : k \in 0 .. Len(values) /\ k # 0
  OBVIOUS
<1>5. f[0] = 0
  BY <1>3, <1>4
<1>6. \A k \in 1 .. Len(values) : f[k] = f[k - 1] + values[k].v
  BY <1>3, <1>4
<1> QED
  BY <1>2, <1>5, <1>6 DEF Totals

(* A sum of integers is one.                                              *)
LEMMA TotalType ==
  ASSUME NEW values, Len(values) \in Nat, \A k \in 1 .. Len(values) : values[k].v \in Int
  PROVE  Total(values) \in Int
<1>1. PICK f : Totals(f, values)
  BY TotalFacts
<1> DEFINE T == {k \in 0 .. Len(values) : f[k] \notin Int}
<1>2. T = {}
  <2>1. SUFFICES ASSUME T # {} PROVE FALSE
    OBVIOUS
  <2>2. T \subseteq Nat
    OBVIOUS
  <2>3. PICK m \in T : \A i \in 0 .. m - 1 : i \notin T
    BY <2>1, <2>2, LeastFacts
  <2>4. m \in 1 .. Len(values) /\ m - 1 \in 0 .. m - 1 /\ m - 1 \in 0 .. Len(values)
    <3>1. f[0] \in Int
      BY <1>1 DEF Totals
    <3>2. m # 0
      BY <2>3, <3>1
    <3> QED
      BY <3>2
  <2>5. f[m - 1] \in Int
    BY <2>3, <2>4
  <2>6. f[m] = f[m - 1] + values[m].v
    BY <1>1, <2>4 DEF Totals
  <2> QED
    BY <2>4, <2>5, <2>6
<1>3. Len(values) \in 0 .. Len(values)
  OBVIOUS
<1> QED
  BY <1>1, <1>2, <1>3 DEF Totals

(* The values of one scalar type are ordered by their representation. *)
LEMMA OrderedValues ==
  ASSUME NEW s \in Scalars
  PROVE  /\ \A v \in ScalarValues(s) : v.v \in Int
         /\ \A v, w \in ScalarValues(s) : v.v = w.v => v = w
<1>1. CASE s = "BOOLEAN"
  <2> DEFINE no  == Boolean(FALSE)
             yes == Boolean(TRUE)
  <2>1. no.v = 0 /\ yes.v = 1
    BY DEF Boolean, Tagged
  <2>2. ScalarValues(s) = {no, yes}
    BY <1>1, ValueFacts
  <2> HIDE DEF no, yes
  <2> QED
    BY <2>1, <2>2
<1>2. CASE s = "INT64"
  <2>1. \A n : Int64(n).v = n
    BY DEF Int64, Tagged
  <2>2. Int64Values \subseteq Int
    BY IntRangeAssumption DEF Int64Values
  <2> QED
    BY <1>2, <2>1, <2>2, ValueFacts
<1>3. CASE s = "TEXT"
  <2>1. \A n : Text(n).v = n
    BY DEF Text, Tagged
  <2> QED
    BY <1>3, <2>1, ValueFacts, TextAssumption
<1> QED
  BY <1>1, <1>2, <1>3 DEF Scalars

(* MIN and MAX are among the values.                                      *)
LEMMA ExtremeFacts ==
  ASSUME NEW s \in Scalars, NEW set, set \subseteq ScalarValues(s), IsFiniteSet(set), set # {},
         NEW op \in {"less", "greater"}
  PROVE  (CHOOSE v \in set : \A w \in set : ~ Compared(op, w, v)) \in set
<1> DEFINE order == {pair \in set \X set : Compared(op, pair[1], pair[2])}
           f == Arranged(set, order)
<1>1. \A v \in set : v.v \in Int
  BY OrderedValues
<1>2. \A v, w \in set : v.v = w.v => v = w
  BY OrderedValues
<1>3. \A v, w \in set : Compared(op, v, w) <=> IF op = "less" THEN v.v < w.v ELSE v.v > w.v
  BY DEF Compared
<1>4. \A v, w \in set : <<v, w>> \in order <=> IF op = "less" THEN v.v < w.v ELSE v.v > w.v
  BY <1>3
<1> HIDE DEF order
<1>5. Orders(order, set)
  BY <1>1, <1>2, <1>4 DEF Orders
<1>6. /\ f \in Seq(set) /\ Len(f) = Cardinality(set) /\ DOMAIN f = 1 .. Cardinality(set)
      /\ Cardinality(set) \in Nat
      /\ \A p, q \in DOMAIN f : p < q <=> <<f[p], f[q]>> \in order
      /\ \A i \in set : \E p \in DOMAIN f : f[p] = i
  BY <1>5, ArrangedFacts
<1> HIDE DEF f
<1>7. 1 \in DOMAIN f /\ f[1] \in set
  <2>1. PICK i \in set : TRUE
    OBVIOUS
  <2>2. PICK p \in DOMAIN f : f[p] = i
    BY <1>6, <2>1
  <2> QED
    BY <1>6, <2>2
<1>8. \A w \in set : ~ Compared(op, w, f[1])
  <2>1. ASSUME NEW w \in set PROVE ~ Compared(op, w, f[1])
    <3>1. PICK p \in DOMAIN f : f[p] = w
      BY <1>6
    <3>2. ~ p < 1
      BY <1>6
    <3>3. <<w, f[1]>> \notin order
      BY <1>6, <1>7, <3>1, <3>2
    <3> QED
      BY <1>3, <1>4, <1>7, <3>3
  <2> QED
    BY <2>1
<1> QED
  BY <1>7, <1>8

(* The values an aggregate looks at: those that are not NULL. *)
Present(values) == Where(values, LAMBDA v : v # Null)

(* The values that are not NULL.                                          *)
LEMMA PresentFacts ==
  ASSUME NEW d \in Descriptors, NEW values \in Seq(Values), \A i \in DOMAIN values : Cell(values[i], d)
  PROVE  /\ Present(values) \in Seq(ScalarValues(d.scalar))
         /\ Len(Present(values)) \in Nat
         /\ Range(Present(values)) \subseteq ScalarValues(d.scalar) /\ IsFiniteSet(Range(Present(values)))
         /\ Present(values) # <<>> => Range(Present(values)) # {}
<1> DEFINE some == {i \in DOMAIN values : values[i] # Null}
           f == Present(values)
           indices == Increasing(some)
           T == ScalarValues(d.scalar)
<1>1. f = Pick(values, indices)
  BY DEF Present, Where
<1>2. \A i \in some : values[i] \in T
  BY CellFacts
<1>3. some \subseteq DOMAIN values /\ Len(values) \in Nat /\ DOMAIN values = 1 .. Len(values)
  OBVIOUS
<1> HIDE DEF some
<1>4. IsFiniteSet(some) /\ some \subseteq Int
  BY <1>3, PositionSets
<1>5. indices \in Seq(some)
  BY <1>4, IncreasingFacts
<1> HIDE DEF indices, T
<1>6. f = [k \in 1 .. Len(indices) |-> values[indices[k]]] /\ Len(indices) \in Nat
  BY <1>1, <1>5 DEF Pick
<1>7. \A k \in 1 .. Len(indices) : f[k] \in T
  BY <1>2, <1>5, <1>6
<1>8. f = [k \in 1 .. Len(indices) |-> f[k]]
  BY <1>6
<1> HIDE DEF f
<1>9. f \in Seq(T) /\ Len(f) = Len(indices) /\ DOMAIN f = 1 .. Len(indices)
  BY <1>6, <1>7, <1>8, SequenceIntro
<1>10. Range(f) = {f[k] : k \in 1 .. Len(indices)}
  BY <1>9 DEF Range
<1>11. IsFiniteSet(Range(f))
  <2>1. IsFiniteSet(1 .. Len(indices))
    BY <1>6, FS_Interval
  <2>2. f \in [1 .. Len(indices) -> Range(f)] /\ \A v \in Range(f) : \E k \in 1 .. Len(indices) : f[k] = v
    BY <1>8, <1>10
  <2>3. f \in Surjection(1 .. Len(indices), Range(f))
    BY <2>2 DEF Surjection
  <2> QED
    BY <2>1, <2>3, FS_Surjection
<1>12. f # <<>> => Range(f) # {}
  <2>1. f # <<>> => Len(indices) # 0
    BY <1>9
  <2> QED
    BY <1>6, <1>10, <2>1
<1> QED
  BY <1>6, <1>7, <1>9, <1>10, <1>11, <1>12 DEF f, T

(* The arms of an aggregate. *)
LEMMA AggregateArms ==
  ASSUME NEW n, NEW values
  PROVE  LET present == Present(values)
         IN /\ AggregateValue("count_all", n, values) = Checked(n)
            /\ AggregateValue("count", n, values) = Checked(Len(present))
            /\ present = <<>> =>
                 \A f \in {"sum", "min", "max", "bool_and", "bool_or"} : AggregateValue(f, n, values) = Null
            /\ present # <<>> =>
                 /\ AggregateValue("sum", n, values) = Checked(Total(present))
                 /\ AggregateValue("min", n, values) =
                      CHOOSE v \in Range(present) : \A w \in Range(present) : ~ Compared("less", w, v)
                 /\ AggregateValue("max", n, values) =
                      CHOOSE v \in Range(present) : \A w \in Range(present) : ~ Compared("greater", w, v)
                 /\ AggregateValue("bool_and", n, values) = Boolean(Boolean(FALSE) \notin Range(present))
                 /\ AggregateValue("bool_or", n, values) = Boolean(True \in Range(present))
<1> DEFINE present == Pick(values, Increasing({i \in DOMAIN values : values[i] # Null}))
<1>1. AggregateValue("count_all", n, values) = Checked(n)
  BY DEF AggregateValue, Accumulated, Where
<1>2. AggregateValue("count", n, values) = Checked(Len(present))
  BY DEF AggregateValue, Accumulated, Where
<1>3. ASSUME present = <<>>, NEW f \in {"sum", "min", "max", "bool_and", "bool_or"}
      PROVE  AggregateValue(f, n, values) = Null
  BY <1>3 DEF AggregateValue, Accumulated, Where
<1>4. ASSUME present # <<>> PROVE AggregateValue("sum", n, values) = Checked(Total(present))
  BY <1>4 DEF AggregateValue, Accumulated, Where, ExactSum
<1>5. ASSUME present # <<>> PROVE AggregateValue("min", n, values) =
                      CHOOSE v \in Range(present) : \A w \in Range(present) : ~ Compared("less", w, v)
  BY <1>5 DEF AggregateValue, Accumulated, Where
<1>6. ASSUME present # <<>> PROVE AggregateValue("max", n, values) =
                      CHOOSE v \in Range(present) : \A w \in Range(present) : ~ Compared("greater", w, v)
  BY <1>6 DEF AggregateValue, Accumulated, Where
<1>7. ASSUME present # <<>> PROVE AggregateValue("bool_and", n, values) = Boolean(Boolean(FALSE) \notin Range(present))
  BY <1>7 DEF AggregateValue, Accumulated, Where
<1>8. ASSUME present # <<>> PROVE AggregateValue("bool_or", n, values) = Boolean(True \in Range(present))
  BY <1>8 DEF AggregateValue, Accumulated, Where
<1> QED
  BY <1>1, <1>2, <1>3, <1>4, <1>5, <1>6, <1>7, <1>8 DEF Present, Where

(* No aggregate takes an argument that was refused.                       *)
LEMMA InvalidOver ==
  ASSUME NEW f
  PROVE  DescriptorOver(f, Invalid) = Invalid
<1>1. Invalid.scalar = "invalid"
  BY DEF Invalid, Descriptor
<1> QED
  BY <1>1 DEF DescriptorOver

(* The descriptor of an aggregate, function by function.                  *)
LEMMA DescriptorOverFacts ==
  ASSUME NEW d \in Descriptors
  PROVE  /\ DescriptorOver("count", d) = Descriptor("INT64", FALSE)
         /\ DescriptorOver("sum", d) = IF d.scalar = "INT64" THEN Descriptor("INT64", TRUE) ELSE Invalid
         /\ \A f \in {"min", "max"} : DescriptorOver(f, d) = Descriptor(d.scalar, TRUE)
         /\ \A f \in {"bool_and", "bool_or"} :
              DescriptorOver(f, d) = IF d.scalar = "BOOLEAN" THEN Descriptor("BOOLEAN", TRUE) ELSE Invalid
<1>1. Invalid.scalar = "invalid"
  BY DEF Invalid, Descriptor
<1> QED
  BY <1>1, DescriptorFacts DEF DescriptorOver

(* What an aggregate gives for values of its argument's descriptor.       *)
LEMMA AggregateFits ==
  ASSUME NEW function \in AggregateFunctions, function # "count_all", NEW d \in Descriptors,
         DescriptorOver(function, d) # Invalid,
         NEW values \in Seq(Values), \A i \in DOMAIN values : Cell(values[i], d), NEW n
  PROVE  /\ DescriptorOver(function, d) \in Descriptors
         /\ Fits(AggregateValue(function, n, values), DescriptorOver(function, d))
<1> DEFINE present == Present(values)
           all == Range(present)
           e == DescriptorOver(function, d)
           out == AggregateValue(function, n, values)
<1>1. /\ present \in Seq(ScalarValues(d.scalar)) /\ Len(present) \in Nat
      /\ all \subseteq ScalarValues(d.scalar) /\ IsFiniteSet(all)
      /\ present # <<>> => all # {}
  BY PresentFacts
<1>2. d.scalar \in Scalars /\ {"BOOLEAN", "INT64", "TEXT"} = Scalars
  BY DescriptorFacts DEF Scalars
<1>3. \A s \in Scalars, b \in BOOLEAN :
     Descriptor(s, b) \in Descriptors /\ Descriptor(s, b).scalar = s /\ Descriptor(s, b).nullable = b
  BY DescriptorType DEF Descriptor
<1>4. CASE function = "count"
  <2>1. out = Checked(Len(present)) /\ e = Descriptor("INT64", FALSE)
    BY <1>4, AggregateArms, DescriptorOverFacts
  <2>2. out \in ScalarValues("INT64") \cup Errors
    BY <1>1, <2>1, CheckedFacts
  <2>3. e \in Descriptors /\ e.scalar = "INT64"
    BY <1>2, <1>3, <2>1
  <2> QED
    BY <2>2, <2>3 DEF Fits
<1>5. CASE present = <<>> /\ function # "count"
  <2>1. function \in {"sum", "min", "max", "bool_and", "bool_or"}
    BY <1>5 DEF AggregateFunctions
  <2>2. out = Null
    BY <1>5, <2>1, AggregateArms, ZenonT(40)
  <2>3. e \in {Descriptor("INT64", TRUE), Descriptor(d.scalar, TRUE), Descriptor("BOOLEAN", TRUE)}
    BY <2>1, DescriptorOverFacts
  <2>4. e \in Descriptors /\ e.nullable
    BY <1>2, <1>3, <2>3
  <2> QED
    BY <2>2, <2>4 DEF Fits
<1>6. CASE present # <<>> /\ function = "sum"
  <2>1. out = Checked(Total(present)) /\ e = Descriptor("INT64", TRUE) /\ d.scalar = "INT64"
    BY <1>6, AggregateArms, DescriptorOverFacts, ZenonT(40)
  <2>2. \A k \in 1 .. Len(present) : present[k].v \in Int
    BY <1>1, <1>2, OrderedValues
  <2>3. Total(present) \in Int
    BY <1>1, <2>2, TotalType
  <2>4. out \in ScalarValues("INT64") \cup Errors
    BY <2>1, <2>3, CheckedFacts
  <2>5. e \in Descriptors /\ e.scalar = "INT64"
    BY <1>2, <1>3, <2>1
  <2> QED
    BY <2>4, <2>5 DEF Fits
<1>7. CASE present # <<>> /\ function \in {"min", "max"}
  <2>1. e = Descriptor(d.scalar, TRUE)
    BY <1>7, DescriptorOverFacts
  <2>2. out \in all
    <3>1. CASE function = "min"
      <4>1. out = CHOOSE v \in all : \A w \in all : ~ Compared("less", w, v)
        BY <1>7, <3>1, AggregateArms, ZenonT(40)
      <4> QED
        BY <1>1, <1>2, <1>7, <4>1, ExtremeFacts
    <3>2. CASE function = "max"
      <4>1. out = CHOOSE v \in all : \A w \in all : ~ Compared("greater", w, v)
        BY <1>7, <3>2, AggregateArms, ZenonT(40)
      <4> QED
        BY <1>1, <1>2, <1>7, <4>1, ExtremeFacts
    <3> QED
      BY <1>7, <3>1, <3>2
  <2>3. e \in Descriptors /\ e.scalar = d.scalar
    BY <1>2, <1>3, <2>1
  <2> QED
    BY <1>1, <2>2, <2>3 DEF Fits
<1>8. CASE present # <<>> /\ function \in {"bool_and", "bool_or"}
  <2>1. e = Descriptor("BOOLEAN", TRUE)
    BY <1>8, DescriptorOverFacts
  <2>2. out \in ScalarValues("BOOLEAN")
    <3>1. CASE function = "bool_and"
      <4> DEFINE b == Boolean(FALSE) \notin all
      <4>1. out = Boolean(b) /\ b \in BOOLEAN
        BY <1>8, <3>1, AggregateArms, ZenonT(40)
      <4> HIDE DEF b
      <4> QED
        BY <4>1, TruthFacts
    <3>2. CASE function = "bool_or"
      <4> DEFINE b == True \in all
      <4>1. out = Boolean(b)
        BY <1>8, <3>2, AggregateArms, Zenon
      <4>2. b \in BOOLEAN
        OBVIOUS
      <4> HIDE DEF b
      <4> QED
        BY <4>1, <4>2, TruthFacts
    <3> QED
      BY <1>8, <3>1, <3>2
  <2>3. e \in Descriptors /\ e.scalar = "BOOLEAN"
    BY <1>2, <1>3, <2>1
  <2> QED
    BY <2>2, <2>3 DEF Fits
<1>9. function \in {"count", "sum", "min", "max", "bool_and", "bool_or"}
  BY DEF AggregateFunctions
<1> QED
  BY <1>4, <1>5, <1>6, <1>7, <1>8, <1>9

(* The same, when an argument may fail.                                   *)
LEMMA RequiredFits ==
  ASSUME NEW function \in AggregateFunctions, function # "count_all", NEW found \in Descriptors,
         DescriptorOver(function, found) # Invalid, NEW n \in Nat, NEW gathered,
         gathered = [k \in 1 .. n |-> gathered[k]], \A k \in 1 .. n : Fits(gathered[k], found)
  PROVE  /\ DescriptorOver(function, found) \in Descriptors
         /\ Fits(RequiredAggregate(function, gathered), DescriptorOver(function, found))
<1> DEFINE result == DescriptorOver(function, found)
           out == AggregateValue(function, Len(gathered), gathered)
<1>1. DOMAIN gathered = 1 .. n /\ DOMAIN gathered \subseteq Nat
  <2>1. DOMAIN gathered = 1 .. n
    OBVIOUS
  <2> QED
    BY <2>1
<1>2. \A k \in 1 .. n : Failed(gathered[k]) => gathered[k] \in Errors
  BY FitsFacts
<1>3. result \in Descriptors
  <2>1. \A s \in Scalars, b \in BOOLEAN : Descriptor(s, b) \in Descriptors
    BY DescriptorType
  <2>2. found.scalar \in Scalars /\ {"BOOLEAN", "INT64", "TEXT"} = Scalars
    BY DescriptorFacts DEF Scalars
  <2>3. function \in {"count", "sum", "min", "max", "bool_and", "bool_or"}
    BY DEF AggregateFunctions
  <2>4. result \in {Descriptor("INT64", FALSE), Descriptor("INT64", TRUE), Descriptor(found.scalar, TRUE),
                    Descriptor("BOOLEAN", TRUE), Invalid}
    BY <2>3, DescriptorOverFacts
  <2> QED
    BY <2>1, <2>2, <2>4
<1>4. ASSUME \A k \in 1 .. n : ~ Failed(gathered[k]) PROVE Fits(out, result)
  <2>1. \A k \in 1 .. n : Cell(gathered[k], found)
    BY <1>4, CellFacts
  <2>2. \A k \in 1 .. n : gathered[k] \in Values
    BY <2>1 DEF Cell
  <2>3. gathered \in Seq(Values)
    BY <2>2, SequenceIntro
  <2> QED
    BY <1>1, <2>1, <2>3, AggregateFits
<1> HIDE DEF out, result
<1>5. Fits(Require(gathered, out), result)
  BY <1>1, <1>2, <1>4, RequireFits
<1> QED
  BY <1>3, <1>5 DEF RequiredAggregate, out, result

(* COUNT without an argument counts the rows, or overflows.               *)
LEMMA CountFits ==
  ASSUME NEW n \in Nat, NEW gathered,
         gathered = [k \in 1 .. n |-> gathered[k]], \A k \in 1 .. n : gathered[k] = True
  PROVE  /\ Descriptor("INT64", FALSE) \in Descriptors
         /\ Fits(RequiredAggregate("count_all", gathered), Descriptor("INT64", FALSE))
<1> DEFINE result == Descriptor("INT64", FALSE)
           out == AggregateValue("count_all", Len(gathered), gathered)
<1>1. DOMAIN gathered = 1 .. n /\ DOMAIN gathered \subseteq Nat
  <2>1. DOMAIN gathered = 1 .. n
    OBVIOUS
  <2> QED
    BY <2>1
<1>2. \A k \in 1 .. n : ~ Failed(gathered[k]) /\ gathered[k] \in {True}
  BY DEF Failed, True, Boolean, Tagged
<1>3. Len(gathered) = n
  BY <1>2, SequenceIntro
<1>4. out = Checked(n)
  BY <1>3, AggregateArms
<1>5. Checked(n) \in ScalarValues("INT64") \cup Errors
  BY CheckedFacts
<1>6. result \in Descriptors /\ result.scalar = "INT64"
  BY DescriptorType DEF Descriptor, Scalars
<1> HIDE DEF out, result
<1>7. Fits(out, result)
  BY <1>4, <1>5, <1>6 DEF Fits
<1>8. Fits(Require(gathered, out), result)
  BY <1>1, <1>2, <1>7, RequireFits
<1> QED
  BY <1>6, <1>8 DEF RequiredAggregate, out, result

(* An aggregate over some rows of the input. *)
LEMMA AggregateOfFits ==
  ASSUME NEW schema, IsSchema(schema), NEW rows \in Seq(RowsOf(schema)), NEW entry \in Entries,
         entry.function \in AggregateFunctions, EntryDescriptor(entry, schema) # Invalid,
         NEW indices \in Seq(DOMAIN rows)
  PROVE  /\ EntryDescriptor(entry, schema) \in Descriptors
         /\ Fits(AggregateOf(entry, schema, rows, indices), EntryDescriptor(entry, schema))
<1> DEFINE n == Len(indices)
           gathered == [k \in DOMAIN indices |->
                         IF entry.args = <<>> THEN True ELSE Evaluate(entry.args[1], schema, rows[indices[k]])]
<1>1. entry.function \notin Rankings /\ entry.function # "group"
  BY DEF Rankings, AggregateFunctions
<1>2. EntryDescriptor(entry, schema) = AggregateDescriptor(entry.function, entry.args, schema)
  BY <1>1 DEF EntryDescriptor
<1>3. n \in Nat /\ DOMAIN indices = 1 .. n /\ \A k \in 1 .. n : rows[indices[k]] \in RowsOf(schema)
  <2>1. n \in Nat /\ DOMAIN indices = 1 .. n /\ \A k \in 1 .. n : indices[k] \in DOMAIN rows
    OBVIOUS
  <2>2. \A i \in DOMAIN rows : rows[i] \in RowsOf(schema)
    OBVIOUS
  <2> QED
    BY <2>1, <2>2
<1>4. gathered = [k \in 1 .. n |-> gathered[k]]
  BY <1>3
<1>5. AggregateOf(entry, schema, rows, indices) = RequiredAggregate(entry.function, gathered)
  BY DEF AggregateOf
<1>6. CASE entry.function = "count_all"
  <2>1. entry.args = <<>> /\ EntryDescriptor(entry, schema) = Descriptor("INT64", FALSE)
    BY <1>2, <1>6 DEF AggregateDescriptor
  <2>2. \A k \in 1 .. n : gathered[k] = True
    BY <1>3, <2>1
  <2> HIDE DEF gathered, n
  <2>3. Fits(RequiredAggregate("count_all", gathered), Descriptor("INT64", FALSE))
        /\ Descriptor("INT64", FALSE) \in Descriptors
    BY <1>3, <1>4, <2>2, CountFits
  <2> QED
    BY <1>5, <1>6, <2>1, <2>3
<1>7. CASE entry.function # "count_all"
  <2> DEFINE term == entry.args[1]
             found == ValidateExpression(term, schema)
  <2>1. entry.args # <<>> /\ EntryDescriptor(entry, schema) = DescriptorOver(entry.function, found)
    BY <1>2, <1>7 DEF AggregateDescriptor
  <2>2. found # Invalid
    BY <2>1, InvalidOver, Zenon
  <2>3. term \in Expressions
    BY <2>1, EntryFacts
  <2>4. Typed(term, schema)
    BY <2>2 DEF Typed
  <2>5. \A k \in 1 .. n : gathered[k] = Evaluate(term, schema, rows[indices[k]])
    BY <1>3, <2>1
  <2> HIDE DEF term, gathered, n
  <2>6. found = term.descriptor /\ found \in Descriptors
    BY <2>3, <2>4, TypedFacts
  <2>7. \A k \in 1 .. n : Fits(gathered[k], found)
    BY <1>3, <2>3, <2>4, <2>5, <2>6, TypedValue
  <2> HIDE DEF found
  <2>8. /\ DescriptorOver(entry.function, found) \in Descriptors
        /\ Fits(RequiredAggregate(entry.function, gathered), DescriptorOver(entry.function, found))
    BY <1>3, <1>4, <1>7, <2>1, <2>6, <2>7, RequiredFits
  <2> QED
    BY <1>5, <2>1, <2>8
<1> QED
  BY <1>6, <1>7

(* One sequence of m members and then one of n. *)
Joined(c, a, m, b, n) ==
  /\ DOMAIN c = 1 .. m + n /\ DOMAIN c \subseteq Nat /\ m + n \in Nat
  /\ c = [i \in 1 .. m + n |-> c[i]]
  /\ \A i \in 1 .. m : c[i] = a[i] /\ i \in 1 .. m + n
  /\ \A i \in 1 .. n : c[m + i] = b[i] /\ m + i \in 1 .. m + n
  /\ \A i \in 1 .. m + n :
       \/ i \in 1 .. m /\ c[i] = a[i]
       \/ \E j \in 1 .. n : i = m + j /\ c[i] = b[j]

(* What stands where in a concatenation.                                  *)
LEMMA ConcatCases ==
  ASSUME NEW m \in Nat, NEW n \in Nat, NEW a, NEW b,
         a = [i \in 1 .. m |-> a[i]], b = [i \in 1 .. n |-> b[i]]
  PROVE  Joined(a \o b, a, m, b, n)
<1> DEFINE all == {a[i] : i \in 1 .. m} \cup {b[i] : i \in 1 .. n}
<1>1. (\A i \in 1 .. m : a[i] \in all) /\ \A i \in 1 .. n : b[i] \in all
  OBVIOUS
<1> HIDE DEF all
<1>2. a \in Seq(all) /\ Len(a) = m
  BY <1>1, SequenceIntro
<1>3. b \in Seq(all) /\ Len(b) = n
  BY <1>1, SequenceIntro
<1>4. 1 .. m + n \subseteq Nat
  OBVIOUS
<1> DEFINE c == a \o b
<1>5. /\ \A i \in 1 .. Len(a) : c[i] = a[i]
      /\ \A i \in 1 .. Len(b) : c[Len(a) + i] = b[i]
      /\ c \in Seq(all) /\ Len(c) = Len(a) + Len(b)
  BY <1>2, <1>3
<1> HIDE DEF c
<1>6. /\ \A i \in 1 .. m : c[i] = a[i]
      /\ \A i \in 1 .. n : c[m + i] = b[i]
      /\ c \in Seq(all) /\ Len(c) = m + n
  BY <1>2, <1>3, <1>5
<1>7. c = [i \in 1 .. m + n |-> c[i]] /\ DOMAIN c = 1 .. m + n /\ m + n \in Nat
  BY <1>6
<1>8. ASSUME NEW i \in 1 .. m + n
      PROVE  i \in 1 .. m \/ \E j \in 1 .. n : i = m + j
  <2> DEFINE j == i - m
  <2>1. i = m + j /\ (i \in 1 .. m \/ j \in 1 .. n)
    OBVIOUS
  <2> HIDE DEF j
  <2> QED
    BY <2>1
<1>9. (\A i \in 1 .. m : i \in 1 .. m + n) /\ \A i \in 1 .. n : m + i \in 1 .. m + n
  OBVIOUS
<1>10. \A i \in 1 .. m + n :
              \/ i \in 1 .. m /\ c[i] = a[i]
              \/ \E j \in 1 .. n : i = m + j /\ c[i] = b[j]
  BY <1>6, <1>8
<1>11. DOMAIN c \subseteq Nat
  BY <1>4, <1>7
<1> QED
  BY <1>6, <1>7, <1>9, <1>10, <1>11 DEF c, Joined

(* The schema of entries: a field for each, with its descriptor.          *)
LEMMA EntrySchemaFacts ==
  ASSUME NEW entries \in Seq(Entries), NEW schema,
         \A i \in 1 .. Len(entries) : EntryDescriptor(entries[i], schema) \in Descriptors
  PROVE  LET t == EntrySchema(entries, schema)
         IN /\ IsSchema(t) /\ Len(t) = Len(entries) /\ DOMAIN t = 1 .. Len(entries)
            /\ \A i \in 1 .. Len(entries) : /\ t[i].id = entries[i].output
                                            /\ t[i].descriptor = EntryDescriptor(entries[i], schema)
            /\ FieldIds(t) = {entries[i].output : i \in 1 .. Len(entries)}
<1> DEFINE t == EntrySchema(entries, schema)
           size == Len(entries)
<1>1. size \in Nat /\ DOMAIN entries = 1 .. size
  OBVIOUS
<1>2. t = [i \in 1 .. size |-> t[i]]
      /\ \A i \in 1 .. size : t[i] = Field(entries[i].output, EntryDescriptor(entries[i], schema))
  BY <1>1 DEF EntrySchema
<1> HIDE DEF t, size
<1>3. \A i \in 1 .. size : t[i].id = entries[i].output /\ t[i].descriptor = EntryDescriptor(entries[i], schema)
  BY <1>2, FieldValues
<1>4. \A i \in 1 .. size : t[i].descriptor \in Descriptors /\ t[i] = Field(t[i].id, t[i].descriptor)
  BY <1>2, <1>3 DEF size
<1>5. IsSchema(t) /\ Len(t) = size
  BY <1>1, <1>2, <1>4, SchemaIntro
<1>6. DOMAIN t = 1 .. size
  BY <1>2
<1>7. FieldIds(t) = {entries[i].output : i \in 1 .. size}
  BY <1>3, <1>6 DEF FieldIds
<1> QED
  BY <1>3, <1>5, <1>6, <1>7 DEF t, size

(* The keys of the rows an Aggregate node groups. *)
KeysOf(node, schema, rows) == Grid(Arguments(KeyEntries(node)), schema, rows)

GroupsOf(node, schema, rows) ==
  AggregateGroups(KeyEntries(node), KeysOf(node, schema, rows), Len(rows))

ValuesOf(node, schema, rows) ==
  LET groups == GroupsOf(node, schema, rows)
  IN [g \in DOMAIN groups |->
        [j \in DOMAIN AggregateEntries(node) |->
           AggregateOf(AggregateEntries(node)[j], schema, rows, groups[g])]]

GroupedRows(node, schema, rows) ==
  LET groups == GroupsOf(node, schema, rows)
      KeyOf(g) == IF KeyEntries(node) = <<>> THEN <<>> ELSE KeysOf(node, schema, rows)[groups[g][1]]
  IN [g \in DOMAIN groups |-> KeyOf(g) \o ValuesOf(node, schema, rows)[g]]

(* evaluate_aggregate, with its parts by name.                            *)
LEMMA EvaluateAggregateIs ==
  ASSUME NEW node, NEW schema, NEW rows
  PROVE  EvaluateAggregate(node, schema, rows)
           = Complete(Failures(KeysOf(node, schema, rows)) \o Failures(ValuesOf(node, schema, rows)),
                      GroupedRows(node, schema, rows))
<1> DEFINE keyEntries == KeyEntries(node)
           aggregates == AggregateEntries(node)
           keys == Grid(Arguments(keyEntries), schema, rows)
<1>1. EvaluateAggregate(node, schema, rows)
        = AggregateGroupRows(keyEntries, aggregates, schema, rows, keys,
                             AggregateGroups(keyEntries, keys, Len(rows)))
  BY DEF EvaluateAggregate, KeyEntries, AggregateEntries
<1> HIDE DEF keyEntries, aggregates
<1>2. keys = KeysOf(node, schema, rows)
      /\ AggregateGroups(keyEntries, keys, Len(rows)) = GroupsOf(node, schema, rows)
  BY DEF KeysOf, GroupsOf, keyEntries
<1> QED
  BY <1>1, <1>2 DEF AggregateGroupRows, GroupRows, ValuesOf, GroupedRows, keyEntries, aggregates

(* The grouping keys are accepted expressions.                            *)
LEMMA KeyFacts ==
  ASSUME NEW node, IsNode(node), node.kind = "aggregate", NEW in, IsSchema(in.schema),
         AcceptsAggregate(node, in), NEW k, Splits(node, k)
  PROVE  LET exprs == Arguments(KeyEntries(node))
         IN /\ exprs \in Seq(Expressions) /\ Len(exprs) = k /\ DOMAIN exprs = 1 .. k
            /\ \A i \in 1 .. k : /\ exprs[i] = node.entries[i].args[1]
                                 /\ Typed(exprs[i], in.schema)
                                 /\ exprs[i].descriptor = EntryDescriptor(node.entries[i], in.schema)
                                 /\ exprs[i].descriptor \in Descriptors
<1> DEFINE exprs == Arguments(KeyEntries(node))
<1>1. k \in Nat /\ k <= Len(node.entries) /\ DOMAIN node.entries = 1 .. Len(node.entries)
      /\ Len(node.entries) \in Nat
  BY NodeFacts DEF Splits
<1>2. /\ KeyEntries(node) \in Seq(Entries) /\ Len(KeyEntries(node)) = k
      /\ \A i \in 1 .. k : /\ KeyEntries(node)[i] = node.entries[i]
                           /\ node.entries[i].function = "group" /\ Len(node.entries[i].args) = 1
  BY DEF Splits
<1>3. DOMAIN KeyEntries(node) = 1 .. k
  BY <1>2
<1>4. exprs = [i \in 1 .. k |-> exprs[i]] /\ \A i \in 1 .. k : exprs[i] = node.entries[i].args[1]
  BY <1>2, <1>3 DEF Arguments
<1> HIDE DEF exprs
<1>5. ASSUME NEW i \in 1 .. k
      PROVE  /\ exprs[i] \in Expressions /\ Typed(exprs[i], in.schema)
             /\ exprs[i].descriptor = EntryDescriptor(node.entries[i], in.schema)
             /\ exprs[i].descriptor \in Descriptors
  <2>1. i \in 1 .. Len(node.entries) /\ i \in DOMAIN node.entries
    BY <1>1
  <2>2. node.entries[i] \in Entries
    BY <2>1, NodeFacts
  <2>3. exprs[i] \in Expressions
    BY <1>2, <1>4, <2>2, EntryFacts
  <2>4. EntryDescriptor(node.entries[i], in.schema) = ValidateExpression(exprs[i], in.schema)
    BY <1>2, <1>4 DEF EntryDescriptor, Rankings
  <2>5. EntryDescriptor(node.entries[i], in.schema) # Invalid
    BY <2>1 DEF AcceptsAggregate
  <2>6. Typed(exprs[i], in.schema)
    BY <2>4, <2>5 DEF Typed
  <2> QED
    BY <2>3, <2>4, <2>6, TypedFacts
<1>6. exprs \in Seq(Expressions) /\ Len(exprs) = k /\ DOMAIN exprs = 1 .. k
  BY <1>1, <1>4, <1>5, SequenceIntro
<1> QED
  BY <1>4, <1>5, <1>6 DEF exprs

(* The groups of an Aggregate node: one of all rows, or one for each key. *)
LEMMA GroupsOfFacts ==
  ASSUME NEW node, NEW k, Splits(node, k), NEW schema, NEW S, NEW rows \in Seq(S)
  PROVE  LET groups == GroupsOf(node, schema, rows)
         IN /\ groups \in Seq(Seq(DOMAIN rows)) /\ DOMAIN groups = 1 .. Len(groups) /\ Len(groups) \in Nat
            /\ \A g \in DOMAIN groups : groups[g] \in Seq(DOMAIN rows)
            /\ k = 0 => groups = <<Positions(Len(rows))>> /\ KeyEntries(node) = <<>>
            /\ k # 0 => Divides(groups, KeysOf(node, schema, rows), Len(rows)) /\ KeyEntries(node) # <<>>
            /\ k # 0 => \A g \in DOMAIN groups : groups[g][1] \in DOMAIN rows
<1> DEFINE groups == GroupsOf(node, schema, rows)
           keys == KeysOf(node, schema, rows)
           m == Len(rows)
<1>1. m \in Nat /\ DOMAIN rows = 1 .. m
  OBVIOUS
<1>2. KeyEntries(node) \in Seq(Entries) /\ Len(KeyEntries(node)) = k /\ k \in Nat
  BY DEF Splits
<1>3. KeyEntries(node) = <<>> <=> k = 0
  BY <1>2
<1>4. groups = IF KeyEntries(node) = <<>> THEN <<Positions(m)>> ELSE Groups(keys)
  BY DEF GroupsOf, AggregateGroups
<1>5. DOMAIN keys = 1 .. m
  BY <1>1 DEF KeysOf, Grid
<1> HIDE DEF groups, keys, m
<1>6. CASE k = 0
  <2>1. Positions(m) \in Seq(1 .. m)
    <3>1. Positions(m) = [i \in 1 .. m |-> Positions(m)[i]] /\ \A i \in 1 .. m : Positions(m)[i] \in 1 .. m
      BY DEF Positions
    <3> QED
      BY <1>1, <3>1, SequenceIntro
  <2>2. groups = <<Positions(m)>>
    BY <1>3, <1>4, <1>6
  <2> QED
    BY <1>1, <1>3, <1>6, <2>1, <2>2 DEF groups, m
<1>7. CASE k # 0
  <2>1. Divides(groups, keys, m)
    BY <1>1, <1>3, <1>4, <1>5, <1>7, GroupFacts
  <2>2. /\ groups \in Seq(Seq(1 .. m))
        /\ \A g \in DOMAIN groups : groups[g] \in Seq(1 .. m) /\ groups[g][1] \in 1 .. m
    BY <2>1 DEF Divides
  <2>3. DOMAIN groups = 1 .. Len(groups) /\ Len(groups) \in Nat
    BY <2>2
  <2> QED
    BY <1>1, <1>3, <1>7, <2>1, <2>2, <2>3 DEF groups, keys, m
<1> QED
  BY <1>6, <1>7

(* An aggregate that is accepted has a descriptor.                        *)
LEMMA EntryDescriptorType ==
  ASSUME NEW schema, IsSchema(schema), NEW entry \in Entries,
         entry.function \in AggregateFunctions, EntryDescriptor(entry, schema) # Invalid
  PROVE  EntryDescriptor(entry, schema) \in Descriptors
<1> DEFINE none == <<>>
<1>1. none \in Seq(RowsOf(schema)) /\ none \in Seq(DOMAIN none)
  OBVIOUS
<1> HIDE DEF none
<1> QED
  BY <1>1, AggregateOfFits

(* The entries of an accepted Aggregate node have descriptors.            *)
LEMMA AggregateDescriptors ==
  ASSUME NEW node, IsNode(node), node.kind = "aggregate", NEW in, IsSchema(in.schema),
         AcceptsAggregate(node, in), NEW k, Splits(node, k)
  PROVE  /\ \A i \in 1 .. Len(node.entries) : EntryDescriptor(node.entries[i], in.schema) \in Descriptors
         /\ \A i \in k + 1 .. Len(node.entries) :
              /\ node.entries[i] \in Entries /\ node.entries[i].function \in AggregateFunctions
              /\ EntryDescriptor(node.entries[i], in.schema) # Invalid
         /\ IsSchema(AggregateProperties(node, in).schema)
         /\ AggregateProperties(node, in).schema = EntrySchema(node.entries, in.schema)
<1> DEFINE size == Len(node.entries)
<1>1. size \in Nat /\ DOMAIN node.entries = 1 .. size /\ k \in 0 .. size
      /\ node.entries \in Seq(Entries)
  BY NodeFacts DEF Splits
<1>2. ASSUME NEW i \in k + 1 .. size
      PROVE  /\ node.entries[i] \in Entries /\ node.entries[i].function \in AggregateFunctions
             /\ EntryDescriptor(node.entries[i], in.schema) # Invalid
             /\ EntryDescriptor(node.entries[i], in.schema) \in Descriptors
  <2>1. i \in 1 .. size /\ i \in DOMAIN node.entries
    BY <1>1
  <2>2. node.entries[i] \in Entries
    BY <2>1, NodeFacts
  <2>3. node.entries[i].function \in AggregateFunctions
    BY DEF Splits
  <2>4. EntryDescriptor(node.entries[i], in.schema) # Invalid
    BY <2>1 DEF AcceptsAggregate
  <2> QED
    BY <2>2, <2>3, <2>4, EntryDescriptorType
<1>3. ASSUME NEW i \in 1 .. size
      PROVE  EntryDescriptor(node.entries[i], in.schema) \in Descriptors
  <2>1. CASE i \in 1 .. k
    BY <2>1, KeyFacts
  <2>2. CASE i \in k + 1 .. size
    BY <1>2, <2>2
  <2>3. i \in 1 .. k \/ i \in k + 1 .. size
    BY <1>1
  <2> QED
    BY <2>1, <2>2, <2>3
<1>4. AggregateProperties(node, in).schema = EntrySchema(node.entries, in.schema)
  BY DEF AggregateProperties, BagOf, Properties
<1>5. IsSchema(EntrySchema(node.entries, in.schema))
  BY <1>1, <1>3, EntrySchemaFacts
<1> QED
  BY <1>2, <1>3, <1>4, <1>5

(* The keys and aggregates of the groups of rows fit the entries' descriptors. *)
AggregateGrid(node, schema, rows, k) ==
  LET keys   == KeysOf(node, schema, rows)
      groups == GroupsOf(node, schema, rows)
      values == ValuesOf(node, schema, rows)
  IN /\ DOMAIN keys = 1 .. Len(rows) /\ Len(rows) \in Nat
     /\ \A r \in 1 .. Len(rows) : keys[r] = [i \in 1 .. k |-> keys[r][i]]
     /\ \A r \in 1 .. Len(rows), i \in 1 .. k :
          Fits(keys[r][i], EntryDescriptor(node.entries[i], schema))
     /\ DOMAIN values = DOMAIN groups
     /\ \A g \in DOMAIN groups :
          values[g] = [j \in 1 .. Len(node.entries) - k |-> values[g][j]]
     /\ \A g \in DOMAIN groups : \A j \in 1 .. Len(node.entries) - k :
          /\ values[g][j] = AggregateOf(node.entries[k + j], schema, rows, groups[g])
          /\ Fits(values[g][j], EntryDescriptor(node.entries[k + j], schema))

(* Each key and each aggregate fits the descriptor of its entry.          *)
LEMMA AggregateCells ==
  ASSUME NEW node, IsNode(node), node.kind = "aggregate", NEW in, IsSchema(in.schema),
         AcceptsAggregate(node, in), NEW rows \in Seq(RowsOf(in.schema)), NEW k, Splits(node, k)
  PROVE  AggregateGrid(node, in.schema, rows, k)
<1> DEFINE keys   == KeysOf(node, in.schema, rows)
           groups == GroupsOf(node, in.schema, rows)
           vals   == ValuesOf(node, in.schema, rows)
           exprs  == Arguments(KeyEntries(node))
           m == Len(rows)
           size == Len(node.entries)
<1>1. size \in Nat /\ DOMAIN node.entries = 1 .. size /\ k \in 0 .. size /\ size - k \in Nat
  BY NodeFacts DEF Splits
<1>2. m \in Nat /\ DOMAIN rows = 1 .. m /\ \A r \in 1 .. m : rows[r] \in RowsOf(in.schema)
  OBVIOUS
<1>3. /\ DOMAIN exprs = 1 .. k
      /\ \A i \in 1 .. k : /\ exprs[i] \in Expressions /\ Typed(exprs[i], in.schema)
                           /\ exprs[i].descriptor = EntryDescriptor(node.entries[i], in.schema)
  BY KeyFacts
<1> HIDE DEF exprs
<1>4. keys = [r \in 1 .. m |-> [i \in 1 .. k |-> Evaluate(exprs[i], in.schema, rows[r])]]
  BY <1>2, <1>3 DEF KeysOf, Grid, exprs
<1>5. /\ DOMAIN keys = 1 .. m
      /\ \A r \in 1 .. m : keys[r] = [i \in 1 .. k |-> keys[r][i]]
      /\ \A r \in 1 .. m, i \in 1 .. k : keys[r][i] = Evaluate(exprs[i], in.schema, rows[r])
  BY <1>4
<1>6. \A r \in 1 .. m, i \in 1 .. k : Fits(keys[r][i], EntryDescriptor(node.entries[i], in.schema))
  <2>1. ASSUME NEW r \in 1 .. m, NEW i \in 1 .. k
        PROVE  Fits(keys[r][i], EntryDescriptor(node.entries[i], in.schema))
    <3>1. Fits(Evaluate(exprs[i], in.schema, rows[r]), exprs[i].descriptor)
      BY <1>2, <1>3, TypedValue
    <3> QED
      BY <1>3, <1>5, <3>1
  <2> QED
    BY <2>1
<1>7. \A g \in DOMAIN groups : groups[g] \in Seq(DOMAIN rows)
  BY GroupsOfFacts
<1>8. /\ Len(AggregateEntries(node)) = size - k /\ AggregateEntries(node) \in Seq(Entries)
      /\ \A j \in 1 .. size - k : AggregateEntries(node)[j] = node.entries[k + j]
  BY DEF Splits
<1>9. DOMAIN AggregateEntries(node) = 1 .. size - k
  BY <1>8
<1>10. vals = [g \in DOMAIN groups |->
                 [j \in 1 .. size - k |-> AggregateOf(AggregateEntries(node)[j], in.schema, rows, groups[g])]]
  BY <1>9 DEF ValuesOf
<1>11. /\ DOMAIN vals = DOMAIN groups
       /\ \A g \in DOMAIN groups : vals[g] = [j \in 1 .. size - k |-> vals[g][j]]
       /\ \A g \in DOMAIN groups : \A j \in 1 .. size - k :
            vals[g][j] = AggregateOf(AggregateEntries(node)[j], in.schema, rows, groups[g])
  BY <1>10
<1> HIDE DEF vals, groups, keys
<1>12. ASSUME NEW g \in DOMAIN groups, NEW j \in 1 .. size - k
       PROVE  /\ vals[g][j] = AggregateOf(node.entries[k + j], in.schema, rows, groups[g])
              /\ Fits(vals[g][j], EntryDescriptor(node.entries[k + j], in.schema))
  <2>1. vals[g][j] = AggregateOf(node.entries[k + j], in.schema, rows, groups[g])
    BY <1>8, <1>11
  <2>2. k + j \in k + 1 .. size
    BY <1>1
  <2>3. /\ node.entries[k + j] \in Entries /\ node.entries[k + j].function \in AggregateFunctions
        /\ EntryDescriptor(node.entries[k + j], in.schema) # Invalid
    BY <2>2, AggregateDescriptors
  <2>4. groups[g] \in Seq(DOMAIN rows)
    BY <1>7
  <2>5. Fits(AggregateOf(node.entries[k + j], in.schema, rows, groups[g]),
             EntryDescriptor(node.entries[k + j], in.schema))
    BY <2>3, <2>4, AggregateOfFits
  <2> QED
    BY <2>1, <2>5
<1> QED
  BY <1>2, <1>5, <1>6, <1>11, <1>12 DEF vals, groups, keys, AggregateGrid

GroupedCells(node, schema, rows, k) ==
  LET keys   == KeysOf(node, schema, rows)
      groups == GroupsOf(node, schema, rows)
      values == ValuesOf(node, schema, rows)
      out    == GroupedRows(node, schema, rows)
  IN /\ DOMAIN out = DOMAIN groups
     /\ \A g \in DOMAIN groups :
          /\ \A i \in 1 .. k : out[g][i] = keys[groups[g][1]][i]
          /\ \A j \in 1 .. Len(node.entries) - k : out[g][k + j] = values[g][j]

(* If nothing fails, the rows of the groups are rows of the schema.       *)
LEMMA GroupedRowsType ==
  ASSUME NEW node, IsNode(node), node.kind = "aggregate", NEW in, IsSchema(in.schema),
         AcceptsAggregate(node, in), NEW rows \in Seq(RowsOf(in.schema)), NEW k, Splits(node, k),
         \A r \in 1 .. Len(rows), i \in 1 .. k : ~ Failed(KeysOf(node, in.schema, rows)[r][i]),
         \A g \in DOMAIN GroupsOf(node, in.schema, rows) : \A j \in 1 .. Len(node.entries) - k :
           ~ Failed(ValuesOf(node, in.schema, rows)[g][j])
  PROVE  /\ GroupedRows(node, in.schema, rows) \in Seq(RowsOf(EntrySchema(node.entries, in.schema)))
         /\ GroupedCells(node, in.schema, rows, k)
<1> DEFINE keys   == KeysOf(node, in.schema, rows)
           groups == GroupsOf(node, in.schema, rows)
           vals   == ValuesOf(node, in.schema, rows)
           out == GroupedRows(node, in.schema, rows)
           key(g) == IF KeyEntries(node) = <<>> THEN <<>> ELSE keys[groups[g][1]]
           size == Len(node.entries)
           rest == size - k
           t == EntrySchema(node.entries, in.schema)
<1>1. size \in Nat /\ DOMAIN node.entries = 1 .. size /\ k \in 0 .. size /\ rest \in Nat /\ k + rest = size
      /\ node.entries \in Seq(Entries)
  BY NodeFacts DEF Splits
<1>2. DOMAIN t = 1 .. size
      /\ \A i \in 1 .. size : t[i].descriptor = EntryDescriptor(node.entries[i], in.schema)
                              /\ t[i].descriptor \in Descriptors
  BY <1>1, AggregateDescriptors, EntrySchemaFacts
<1>3. /\ \A r \in 1 .. Len(rows) : keys[r] = [i \in 1 .. k |-> keys[r][i]]
      /\ \A r \in 1 .. Len(rows), i \in 1 .. k :
                 Fits(keys[r][i], EntryDescriptor(node.entries[i], in.schema))
      /\ \A g \in DOMAIN groups : vals[g] = [j \in 1 .. rest |-> vals[g][j]]
      /\ \A g \in DOMAIN groups : \A j \in 1 .. rest :
                 Fits(vals[g][j], EntryDescriptor(node.entries[k + j], in.schema))
  <2>1. AggregateGrid(node, in.schema, rows, k)
    BY AggregateCells
  <2> QED
    BY <2>1 DEF AggregateGrid
<1>4. /\ DOMAIN groups = 1 .. Len(groups) /\ Len(groups) \in Nat
      /\ k = 0 => KeyEntries(node) = <<>>
      /\ k # 0 => KeyEntries(node) # <<>> /\ \A g \in DOMAIN groups : groups[g][1] \in DOMAIN rows
  BY GroupsOfFacts
<1>5. DOMAIN rows = 1 .. Len(rows)
  OBVIOUS
<1>6. out = [g \in DOMAIN groups |-> key(g) \o vals[g]]
  BY DEF GroupedRows
<1> HIDE DEF keys, groups, vals, out, t, size, rest
<1>7. ASSUME NEW g \in DOMAIN groups
      PROVE  /\ key(g) = [i \in 1 .. k |-> key(g)[i]]
             /\ \A i \in 1 .. k : key(g)[i] = keys[groups[g][1]][i] /\ Cell(key(g)[i], t[i].descriptor)
  <2>1. CASE k = 0
    <3>1. key(g) = <<>>
      BY <1>4, <2>1
    <3>2. <<>> = [i \in 1 .. 0 |-> <<>>[i]]
      OBVIOUS
    <3> QED
      BY <2>1, <3>1, <3>2
  <2>2. CASE k # 0
    <3> DEFINE r == groups[g][1]
    <3>1. r \in 1 .. Len(rows) /\ key(g) = keys[r]
      BY <1>4, <1>5, <2>2
    <3> HIDE DEF r
    <3>2. keys[r] = [i \in 1 .. k |-> keys[r][i]]
      BY <1>3, <3>1
    <3>3. ASSUME NEW i \in 1 .. k PROVE Cell(keys[r][i], t[i].descriptor)
      <4>1. i \in 1 .. size
        BY <1>1
      <4>2. Fits(keys[r][i], t[i].descriptor) /\ ~ Failed(keys[r][i]) /\ t[i].descriptor \in Descriptors
        BY <1>2, <1>3, <3>1, <4>1 DEF keys
      <4> QED
        BY <4>2, CellFacts
    <3>4. \A i \in 1 .. k : key(g)[i] = keys[groups[g][1]][i]
      BY <3>1 DEF r
    <3> QED
      BY <3>1, <3>2, <3>3, <3>4
  <2> QED
    BY <2>1, <2>2
<1> HIDE DEF key
<1>8. ASSUME NEW g \in DOMAIN groups
      PROVE  /\ out[g] \in RowsOf(t)
             /\ \A i \in 1 .. k : out[g][i] = keys[groups[g][1]][i]
             /\ \A j \in 1 .. rest : out[g][k + j] = vals[g][j]
  <2> DEFINE front == key(g)
             back == vals[g]
             whole == front \o back
  <2>1. front = [i \in 1 .. k |-> front[i]] /\ back = [j \in 1 .. rest |-> back[j]]
    BY <1>3, <1>7
  <2>2. \A i \in 1 .. k : front[i] = keys[groups[g][1]][i] /\ Cell(front[i], t[i].descriptor)
    BY <1>7
  <2>3. ASSUME NEW j \in 1 .. rest PROVE Cell(back[j], t[k + j].descriptor)
    <3>1. k + j \in 1 .. size
      BY <1>1
    <3>2. Fits(back[j], t[k + j].descriptor) /\ t[k + j].descriptor \in Descriptors
      BY <1>2, <1>3, <3>1
    <3>3. ~ Failed(back[j])
      BY DEF vals, groups, rest, size
    <3> QED
      BY <3>2, <3>3, CellFacts
  <2>4. out[g] = whole
    BY <1>6
  <2> HIDE DEF front, back, whole
  <2>5. /\ whole = [i \in 1 .. k + rest |-> whole[i]]
        /\ \A i \in 1 .. k : whole[i] = front[i] /\ i \in 1 .. k + rest
        /\ \A i \in 1 .. rest : whole[k + i] = back[i] /\ k + i \in 1 .. k + rest
        /\ \A i \in 1 .. k + rest :
              \/ i \in 1 .. k /\ whole[i] = front[i]
              \/ \E j \in 1 .. rest : i = k + j /\ whole[i] = back[j]
    <3>1. k \in Nat
      BY <1>1
    <3>2. Joined(front \o back, front, k, back, rest)
      BY <1>1, <2>1, <3>1, ConcatCases
    <3> QED
      BY <3>2 DEF Joined, whole
  <2>6. \A i \in 1 .. size : Cell(whole[i], t[i].descriptor)
    BY <1>1, <2>2, <2>3, <2>5
  <2>7. whole \in RowsOf(t)
    BY <1>1, <1>2, <2>5, <2>6, RowFacts
  <2> QED
    BY <2>2, <2>4, <2>5, <2>7 DEF back
<1>9. out \in Seq(RowsOf(t))
  <2>1. out = [g \in 1 .. Len(groups) |-> out[g]]
    BY <1>4, <1>6
  <2>2. \A g \in 1 .. Len(groups) : out[g] \in RowsOf(t)
    BY <1>4, <1>8
  <2> QED
    BY <1>4, <2>1, <2>2, SequenceIntro
<1>10. DOMAIN out = DOMAIN groups
  BY <1>6
<1> QED
  BY <1>8, <1>9, <1>10 DEF keys, groups, vals, out, t, rest, size, GroupedCells

(* What an Aggregate node gives, unless something fails. *)
GivesGroups(node, schema, rows, k, out) ==
  LET keys   == KeysOf(node, schema, rows)
      groups == GroupsOf(node, schema, rows)
  IN /\ DOMAIN out = DOMAIN groups
     /\ \A g \in DOMAIN groups :
          /\ \A i \in 1 .. k : out[g][i] = keys[groups[g][1]][i]
          /\ \A j \in 1 .. Len(node.entries) - k :
               /\ out[g][k + j] = AggregateOf(node.entries[k + j], schema, rows, groups[g])
               /\ ~ Failed(out[g][k + j])

(* An Aggregate node gives rows of its schema, or an error.               *)
LEMMA AggregateGood ==
  ASSUME NEW node, IsNode(node), node.kind = "aggregate", NEW in, IsSchema(in.schema),
         AcceptsAggregate(node, in), NEW rows \in Seq(RowsOf(in.schema)), NEW k, Splits(node, k)
  PROVE  /\ IsSchema(AggregateProperties(node, in).schema)
         /\ AggregateProperties(node, in).schema = EntrySchema(node.entries, in.schema)
         /\ Good(EvaluateAggregate(node, in.schema, rows), AggregateProperties(node, in).schema)
         /\ EvaluateAggregate(node, in.schema, rows).failure = Null =>
              GivesGroups(node, in.schema, rows, k, EvaluateAggregate(node, in.schema, rows).rows)
<1> DEFINE keys   == KeysOf(node, in.schema, rows)
           groups == GroupsOf(node, in.schema, rows)
           vals   == ValuesOf(node, in.schema, rows)
           out    == GroupedRows(node, in.schema, rows)
           size == Len(node.entries)
           rest == size - k
           m == Len(rows)
           t == EntrySchema(node.entries, in.schema)
           front == Failures(keys)
           back  == Failures(vals)
           required == front \o back
<1>1. size \in Nat /\ DOMAIN node.entries = 1 .. size /\ k \in 0 .. size /\ rest \in Nat /\ k + rest = size
      /\ k \in Nat
  BY NodeFacts DEF Splits
<1>2. /\ DOMAIN keys = 1 .. m /\ m \in Nat
      /\ \A r \in 1 .. m : keys[r] = [i \in 1 .. k |-> keys[r][i]]
      /\ \A r \in 1 .. m, i \in 1 .. k : Fits(keys[r][i], EntryDescriptor(node.entries[i], in.schema))
      /\ DOMAIN vals = DOMAIN groups
      /\ \A g \in DOMAIN groups : vals[g] = [j \in 1 .. rest |-> vals[g][j]]
      /\ \A g \in DOMAIN groups : \A j \in 1 .. rest :
           /\ vals[g][j] = AggregateOf(node.entries[k + j], in.schema, rows, groups[g])
           /\ Fits(vals[g][j], EntryDescriptor(node.entries[k + j], in.schema))
  <2>1. AggregateGrid(node, in.schema, rows, k)
    BY AggregateCells
  <2> QED
    BY <2>1 DEF AggregateGrid
<1>3. DOMAIN groups = 1 .. Len(groups) /\ Len(groups) \in Nat
  BY GroupsOfFacts
<1>4. \A i \in 1 .. size : EntryDescriptor(node.entries[i], in.schema) \in Descriptors
  BY AggregateDescriptors
<1>5. EvaluateAggregate(node, in.schema, rows) = Complete(required, out)
  BY EvaluateAggregateIs
<1> HIDE DEF keys, groups, vals, size, rest, m
<1>6. \A n \in Nat : 1 .. n \subseteq Nat
  OBVIOUS
<1>7. /\ front = [r \in 1 .. m |-> front[r]]
      /\ \A r \in 1 .. m : Failed(front[r]) => front[r] \in Errors
      /\ (\A r \in 1 .. m : ~ Failed(front[r])) => \A r \in 1 .. m, i \in 1 .. k : ~ Failed(keys[r][i])
  <2>1. \A r \in 1 .. m : DOMAIN keys[r] = 1 .. k
    BY <1>2
  <2>2. /\ DOMAIN Failures(keys) = 1 .. m
        /\ \A r \in 1 .. m :
              \/ \E i \in 1 .. k : Failed(keys[r][i]) /\ Failures(keys)[r] = keys[r][i]
              \/ (\A i \in 1 .. k : ~ Failed(keys[r][i])) /\ Failures(keys)[r] = Null
    BY <1>1, <1>2, <1>6, <2>1, FailuresFacts
  <2>3. Failures(keys) = [r \in 1 .. m |-> Failures(keys)[r]]
    BY <1>2 DEF Failures
  <2>4. \A r \in 1 .. m, i \in 1 .. k : Failed(keys[r][i]) => keys[r][i] \in Errors
    <3>1. ASSUME NEW r \in 1 .. m, NEW i \in 1 .. k PROVE Failed(keys[r][i]) => keys[r][i] \in Errors
      <4>1. i \in 1 .. size
        BY <1>1
      <4> QED
        BY <1>2, <1>4, <4>1, FitsFacts
    <3> QED
      BY <3>1
  <2> QED
    BY <2>2, <2>3, <2>4, NullFacts
<1>8. /\ back = [g \in 1 .. Len(groups) |-> back[g]]
      /\ \A g \in 1 .. Len(groups) : Failed(back[g]) => back[g] \in Errors
      /\ (\A g \in 1 .. Len(groups) : ~ Failed(back[g])) =>
           \A g \in DOMAIN groups : \A j \in 1 .. rest : ~ Failed(vals[g][j])
  <2>1. \A g \in 1 .. Len(groups) : DOMAIN vals[g] = 1 .. rest
    BY <1>2, <1>3
  <2>2. /\ DOMAIN Failures(vals) = 1 .. Len(groups)
        /\ \A g \in 1 .. Len(groups) :
              \/ \E i \in 1 .. rest : Failed(vals[g][i]) /\ Failures(vals)[g] = vals[g][i]
              \/ (\A i \in 1 .. rest : ~ Failed(vals[g][i])) /\ Failures(vals)[g] = Null
    BY <1>1, <1>2, <1>3, <1>6, <2>1, FailuresFacts, Zenon
  <2>3. Failures(vals) = [g \in 1 .. Len(groups) |-> Failures(vals)[g]]
    BY <1>2, <1>3 DEF Failures
  <2>4. \A g \in 1 .. Len(groups), i \in 1 .. rest : Failed(vals[g][i]) => vals[g][i] \in Errors
    <3>1. ASSUME NEW g \in 1 .. Len(groups), NEW i \in 1 .. rest
          PROVE  Failed(vals[g][i]) => vals[g][i] \in Errors
      <4>1. k + i \in 1 .. size
        BY <1>1
      <4> QED
        BY <1>2, <1>3, <1>4, <4>1, FitsFacts
    <3> QED
      BY <3>1
  <2> QED
    BY <1>3, <2>2, <2>3, <2>4, NullFacts
<1> HIDE DEF front, back
<1>9. Joined(required, front, m, back, Len(groups))
  <2>1. Joined(front \o back, front, m, back, Len(groups))
    BY <1>2, <1>3, <1>7, <1>8, ConcatCases
  <2> QED
    BY <2>1
<1> HIDE DEF required
<1>10. /\ DOMAIN required \subseteq Nat
       /\ \A i \in DOMAIN required : Failed(required[i]) => required[i] \in Errors
  BY <1>7, <1>8, <1>9, Zenon DEF Joined
<1>11. ASSUME \A i \in DOMAIN required : ~ Failed(required[i])
       PROVE  /\ \A r \in 1 .. m, i \in 1 .. k : ~ Failed(keys[r][i])
              /\ \A g \in DOMAIN groups : \A j \in 1 .. rest : ~ Failed(vals[g][j])
  <2>1. \A r \in 1 .. m : ~ Failed(front[r])
    BY <1>9, <1>11 DEF Joined
  <2>2. \A g \in 1 .. Len(groups) : ~ Failed(back[g])
    BY <1>9, <1>11 DEF Joined
  <2> QED
    BY <1>7, <1>8, <2>1, <2>2
<1>12. ASSUME \A i \in DOMAIN required : ~ Failed(required[i])
       PROVE  /\ out \in Seq(RowsOf(t))
              /\ GivesGroups(node, in.schema, rows, k, out)
  <2>1. /\ \A r \in 1 .. Len(rows), i \in 1 .. k : ~ Failed(KeysOf(node, in.schema, rows)[r][i])
        /\ \A g \in DOMAIN GroupsOf(node, in.schema, rows) : \A j \in 1 .. Len(node.entries) - k :
             ~ Failed(ValuesOf(node, in.schema, rows)[g][j])
    BY <1>11, <1>12 DEF keys, groups, vals, m, rest, size
  <2>2. /\ out \in Seq(RowsOf(t)) /\ DOMAIN out = DOMAIN groups
        /\ \A g \in DOMAIN groups :
                 /\ \A i \in 1 .. k : out[g][i] = keys[groups[g][1]][i]
                 /\ \A j \in 1 .. rest : out[g][k + j] = vals[g][j]
    <3>1. GroupedRows(node, in.schema, rows) \in Seq(RowsOf(EntrySchema(node.entries, in.schema)))
          /\ GroupedCells(node, in.schema, rows, k)
      BY <2>1, GroupedRowsType
    <3> QED
      BY <3>1 DEF keys, groups, vals, rest, size, GroupedCells
  <2> HIDE DEF out
  <2>3. \A g \in DOMAIN groups : \A j \in 1 .. rest :
           /\ out[g][k + j] = AggregateOf(node.entries[k + j], in.schema, rows, groups[g])
           /\ ~ Failed(out[g][k + j])
    BY <1>2, <1>11, <1>12, <2>2
  <2> QED
    BY <2>2, <2>3 DEF GivesGroups, keys, groups, rest, size
<1> HIDE DEF out, t
<1>13. /\ Good(Complete(required, out), t)
       /\ Complete(required, out).failure = Null
              => (\A i \in DOMAIN required : ~ Failed(required[i])) /\ Complete(required, out).rows = out
  BY <1>10, <1>12, CompleteFacts
<1>14. IsSchema(AggregateProperties(node, in).schema) /\ AggregateProperties(node, in).schema = t
  BY AggregateDescriptors DEF t
<1> QED
  BY <1>5, <1>12, <1>13, <1>14 DEF t

-----------------------------------------------------------------------------
(* Order. *)

(* The keys of a row: values of the descriptors of the items. *)
Keyed(key, items) == \A i \in DOMAIN items : Cell(key[i], items[i].expr.descriptor)

(* What an ordering item is.                                              *)
LEMMA ItemFacts ==
  ASSUME NEW items \in Seq(OrderingItems)
  PROVE  /\ Len(items) \in Nat /\ DOMAIN items = 1 .. Len(items) /\ DOMAIN items \subseteq Nat
         /\ \A i \in DOMAIN items : /\ items[i].expr \in Expressions /\ items[i].descending \in BOOLEAN
                                    /\ items[i] \in OrderingItems
<1>1. \A item \in OrderingItems : item.expr \in Expressions /\ item.descending \in BOOLEAN
  BY DEF OrderingItems
<1> HIDE DEF OrderingItems
<1>2. \A i \in DOMAIN items : items[i] \in OrderingItems
  OBVIOUS
<1> QED
  BY <1>1, <1>2

(* The comparison of two values of one descriptor. *)
LEMMA ValueOrder ==
  ASSUME NEW d \in Descriptors, NEW item \in OrderingItems
  PROVE  /\ \A v, w : Cell(v, d) /\ Cell(w, d) =>
              /\ CompareValue(v, w, item) \in {-1, 0, 1}
              /\ CompareValue(v, w, item) = 0 <=> v = w
              /\ CompareValue(v, w, item) = -1 <=> CompareValue(w, v, item) = 1
         /\ \A v, w, x : /\ Cell(v, d) /\ Cell(w, d) /\ Cell(x, d)
                         /\ CompareValue(v, w, item) = -1 /\ CompareValue(w, x, item) = -1
                         => CompareValue(v, x, item) = -1
<1>1. \A v : Cell(v, d) <=> v \in ScalarValues(d.scalar) \/ (v = Null /\ d.nullable)
  BY CellFacts
<1>2. d.scalar \in Scalars /\ item.descending \in BOOLEAN
  <2>1. d.scalar \in Scalars
    BY DescriptorFacts
  <2>2. item.descending \in BOOLEAN
    BY DEF OrderingItems
  <2> QED
    BY <2>1, <2>2
<1>3. \A v \in ScalarValues(d.scalar) : v.v \in Int /\ v # Null
  <2>1. \A v \in ScalarValues(d.scalar) : v.v \in Int
    BY <1>2, OrderedValues
  <2>2. \A v \in ScalarValues(d.scalar) : v.scalar = d.scalar
    BY <1>2, ValueFacts
  <2>3. Null.scalar = "null" /\ d.scalar # "null"
    BY <1>2 DEF Null, Tagged, Scalars
  <2> QED
    BY <2>1, <2>2, <2>3
<1>4. \A v, w \in ScalarValues(d.scalar) : v.v = w.v => v = w
  BY <1>2, OrderedValues
<1>5. \A v, w : Compared("less", v, w) <=> v.v < w.v
  BY DEF Compared
<1> DEFINE scalars == ScalarValues(d.scalar)
<1> HIDE DEF scalars
<1>6. \A v \in scalars : v.v \in Int /\ v # Null
  BY <1>3 DEF scalars
<1>7. \A v, w \in scalars : v.v = w.v => v = w
  BY <1>4 DEF scalars
<1>8. \A v : Cell(v, d) => v \in scalars \/ v = Null
  BY <1>1 DEF scalars
<1>9. \A v, w \in scalars : v # w =>
        CompareValue(v, w, item) = IF (v.v < w.v) # item.descending THEN -1 ELSE 1
  <2> TAKE v, w \in scalars
  <2> HAVE v # w
  <2>1. v # Null /\ w # Null /\ v.v \in Int /\ w.v \in Int
    BY <1>6
  <2>2. CompareValue(v, w, item) = IF Compared("less", v, w) # item.descending THEN -1 ELSE 1
    BY <2>1 DEF CompareValue
  <2>3. Compared("less", v, w) = (v.v < w.v)
    BY <2>1 DEF Compared
  <2> QED
    BY <2>2, <2>3
<1>14. \A v, w \in scalars : v # w =>
         /\ item.descending => CompareValue(v, w, item) = IF v.v < w.v THEN 1 ELSE -1
         /\ ~ item.descending => CompareValue(v, w, item) = IF v.v < w.v THEN -1 ELSE 1
  <2> TAKE v, w \in scalars
  <2> HAVE v # w
  <2>1. CompareValue(v, w, item) = IF (v.v < w.v) # item.descending THEN -1 ELSE 1
    BY <1>9
  <2>2. CASE v.v < w.v
    BY <2>1, <2>2, <1>2
  <2>3. CASE ~ (v.v < w.v)
    BY <2>1, <2>3, <1>2
  <2> QED
    BY <2>2, <2>3
<1>10. \A v : CompareValue(v, v, item) = 0
  BY DEF CompareValue
<1>11. \A v \in scalars : /\ CompareValue(v, Null, item) = IF item.nulls = "first" THEN 1 ELSE -1
                          /\ CompareValue(Null, v, item) = IF item.nulls = "first" THEN -1 ELSE 1
  BY <1>6 DEF CompareValue
<1>12. ASSUME NEW v, NEW w, Cell(v, d), Cell(w, d)
       PROVE  /\ CompareValue(v, w, item) \in {-1, 0, 1}
              /\ CompareValue(v, w, item) = 0 <=> v = w
              /\ CompareValue(v, w, item) = -1 <=> CompareValue(w, v, item) = 1
  <2>1. CASE v \in scalars /\ w \in scalars
    <3>1. CASE v = w
      BY <3>1, <1>10
    <3>2. CASE v # w
      <4>1. v.v \in Int /\ w.v \in Int /\ v.v # w.v
        BY <2>1, <3>2, <1>6, <1>7
      <4> QED
        BY <2>1, <3>2, <4>1, <1>9, <1>2
    <3> QED
      BY <3>1, <3>2
  <2>2. CASE v = Null \/ w = Null
    BY <2>2, <1>12, <1>8, <1>10, <1>11, <1>6
  <2> QED
    BY <2>1, <2>2, <1>12, <1>8
<1>13. ASSUME NEW v, NEW w, NEW x, Cell(v, d), Cell(w, d), Cell(x, d),
              CompareValue(v, w, item) = -1, CompareValue(w, x, item) = -1
       PROVE  CompareValue(v, x, item) = -1
  <2>1. CASE v \in scalars /\ w \in scalars /\ x \in scalars
    <3>1. v.v \in Int /\ w.v \in Int /\ x.v \in Int /\ v # w /\ w # x
      BY <2>1, <1>6, <1>10, <1>13
    <3>2. CASE item.descending
      <4>1. ~ (v.v < w.v) /\ ~ (w.v < x.v) /\ v.v # w.v
        <5>1. /\ CompareValue(v, w, item) = IF v.v < w.v THEN 1 ELSE -1
              /\ CompareValue(w, x, item) = IF w.v < x.v THEN 1 ELSE -1
          BY <2>1, <3>1, <3>2, <1>14
        <5>2. v.v # w.v
          BY <2>1, <3>1, <1>7
        <5> QED
          BY <5>1, <5>2, <3>1, <1>13
      <4>2. ~ (v.v < x.v) /\ v.v # x.v
        BY <4>1, <3>1
      <4> QED
        BY <2>1, <3>2, <4>2, <1>9
    <3>3. CASE ~ item.descending
      <4>1. v.v < w.v /\ w.v < x.v
        <5>1. /\ CompareValue(v, w, item) = IF v.v < w.v THEN -1 ELSE 1
              /\ CompareValue(w, x, item) = IF w.v < x.v THEN -1 ELSE 1
          BY <2>1, <3>1, <3>3, <1>14
        <5> QED
          BY <5>1, <3>1, <1>13
      <4>2. v.v < x.v /\ v.v # x.v
        BY <4>1, <3>1
      <4> QED
        BY <2>1, <3>3, <4>2, <1>9
    <3> QED
      BY <3>2, <3>3
  <2>2. CASE v = Null
    <3>1. w \in scalars /\ item.nulls = "first"
      BY <2>2, <1>8, <1>10, <1>11, <1>13
    <3>2. x \in scalars
      BY <3>1, <1>8, <1>11, <1>13
    <3> QED
      BY <2>2, <3>1, <3>2, <1>11
  <2>3. CASE v \in scalars /\ w = Null
    <3>1. item.nulls # "first" /\ CompareValue(Null, x, item) = -1
      BY <2>3, <1>11, <1>13
    <3> QED
      BY <3>1, <1>8, <1>10, <1>11, <1>13
  <2>4. CASE v \in scalars /\ w \in scalars /\ x = Null
    BY <2>4, <1>11, <1>13
  <2> QED
    BY <2>1, <2>2, <2>3, <2>4, <1>8, <1>13
<1> QED
  BY <1>12, <1>13

(* The first item that tells two keys apart. *)
Apart(key, far, items, p) ==
  /\ p \in DOMAIN items /\ key[p] # far[p]
  /\ \A i \in 1 .. p - 1 : key[i] = far[i]

(* Keys are the same, or a first item tells them apart.                   *)
LEMMA KeyCases ==
  ASSUME NEW items \in Seq(OrderingItems), NEW key, NEW far
  PROVE  \/ (\A i \in DOMAIN items : key[i] = far[i]) /\ CompareKeys(key, far, items) = 0
         \/ \E p \in DOMAIN items :
              Apart(key, far, items, p) /\ CompareKeys(key, far, items) = CompareValue(key[p], far[p], items[p])
<1> DEFINE apart == {i \in DOMAIN items : key[i] # far[i]}
<1>1. CASE apart = {}
  BY <1>1 DEF CompareKeys
<1>2. CASE apart # {}
  <2>1. apart \in SUBSET Nat /\ DOMAIN items = 1 .. Len(items) /\ Len(items) \in Nat
    BY ItemFacts
  <2>2. Min(apart) \in apart /\ \A i \in apart : Min(apart) <= i
    BY <1>2, <2>1, MinFacts
  <2>3. CompareKeys(key, far, items) = CompareValue(key[Min(apart)], far[Min(apart)], items[Min(apart)])
    BY <1>2 DEF CompareKeys
  <2> HIDE DEF apart
  <2>4. \A i \in 1 .. Min(apart) - 1 : i \notin apart /\ i \in DOMAIN items
    <3>1. Min(apart) \in DOMAIN items
      BY <2>2 DEF apart
    <3> QED
      BY <2>1, <2>2, <3>1
  <2>5. Apart(key, far, items, Min(apart))
    BY <2>2, <2>4 DEF Apart, apart
  <2> QED
    BY <2>3, <2>5 DEF Apart
<1> QED
  BY <1>1, <1>2

(* The comparison of two keys is one of three, and antisymmetric.         *)
LEMMA KeyOrder ==
  ASSUME NEW items \in Seq(OrderingItems), \A i \in DOMAIN items : items[i].expr.descriptor \in Descriptors,
         NEW u, NEW v, Keyed(u, items), Keyed(v, items)
  PROVE  /\ CompareKeys(u, v, items) \in {-1, 0, 1}
         /\ CompareKeys(u, v, items) = 0 <=> \A i \in DOMAIN items : u[i] = v[i]
         /\ CompareKeys(u, v, items) = -1 <=> CompareKeys(v, u, items) = 1
<1>1. \A p \in DOMAIN items :
        /\ CompareValue(u[p], v[p], items[p]) \in {-1, 0, 1}
        /\ CompareValue(u[p], v[p], items[p]) = 0 <=> u[p] = v[p]
        /\ CompareValue(u[p], v[p], items[p]) = -1 <=> CompareValue(v[p], u[p], items[p]) = 1
  BY ItemFacts, ValueOrder DEF Keyed
<1>2. \A p, q \in DOMAIN items : Apart(u, v, items, p) /\ Apart(v, u, items, q) => p = q
  BY ItemFacts DEF Apart
<1>3. CASE \A i \in DOMAIN items : u[i] = v[i]
  <2>1. CompareKeys(u, v, items) = 0 /\ CompareKeys(v, u, items) = 0
    BY <1>3, KeyCases DEF Apart
  <2> QED
    BY <1>3, <2>1
<1>4. CASE ~ \A i \in DOMAIN items : u[i] = v[i]
  <2>1. PICK p \in DOMAIN items :
          Apart(u, v, items, p) /\ CompareKeys(u, v, items) = CompareValue(u[p], v[p], items[p])
    BY <1>4, KeyCases
  <2>2. PICK q \in DOMAIN items :
          Apart(v, u, items, q) /\ CompareKeys(v, u, items) = CompareValue(v[q], u[q], items[q])
    BY <1>4, KeyCases
  <2>3. p = q
    BY <2>1, <2>2, <1>2
  <2>4. u[p] # v[p]
    BY <2>1 DEF Apart
  <2>5. /\ CompareValue(u[p], v[p], items[p]) \in {-1, 0, 1}
        /\ CompareValue(u[p], v[p], items[p]) # 0
        /\ CompareValue(u[p], v[p], items[p]) = -1 <=> CompareValue(v[p], u[p], items[p]) = 1
    BY <1>1, <2>4
  <2> QED
    BY <1>4, <2>1, <2>2, <2>3, <2>5
<1> QED
  BY <1>3, <1>4

(* The comparison of keys is transitive.                                  *)
LEMMA KeyTransitive ==
  ASSUME NEW items \in Seq(OrderingItems), \A i \in DOMAIN items : items[i].expr.descriptor \in Descriptors,
         NEW u, NEW v, NEW w, Keyed(u, items), Keyed(v, items), Keyed(w, items),
         CompareKeys(u, v, items) <= 0, CompareKeys(v, w, items) <= 0
  PROVE  /\ CompareKeys(u, w, items) <= 0
         /\ CompareKeys(u, w, items) = 0 => CompareKeys(u, v, items) = 0 /\ CompareKeys(v, w, items) = 0
<1>1. \A p \in DOMAIN items :
        /\ CompareValue(u[p], v[p], items[p]) \in {-1, 0, 1}
        /\ CompareValue(u[p], v[p], items[p]) = 0 <=> u[p] = v[p]
        /\ CompareValue(v[p], w[p], items[p]) \in {-1, 0, 1}
        /\ CompareValue(v[p], w[p], items[p]) = 0 <=> v[p] = w[p]
        /\ CompareValue(u[p], w[p], items[p]) \in {-1, 0, 1}
        /\ CompareValue(u[p], w[p], items[p]) = 0 <=> u[p] = w[p]
        /\ CompareValue(u[p], v[p], items[p]) = -1 /\ CompareValue(v[p], w[p], items[p]) = -1
             => CompareValue(u[p], w[p], items[p]) = -1
  BY ItemFacts, ValueOrder DEF Keyed
<1>2. DOMAIN items \subseteq Nat
  BY ItemFacts
<1>3. CASE \A i \in DOMAIN items : u[i] = v[i]
  <2>1. CompareKeys(u, v, items) = 0
    BY <1>3, KeyOrder
  <2>2. CASE \A i \in DOMAIN items : v[i] = w[i]
    <3>1. \A i \in DOMAIN items : u[i] = w[i]
      BY <1>3, <2>2
    <3>2. CompareKeys(v, w, items) = 0
      BY <2>2, KeyOrder
    <3>3. CompareKeys(u, w, items) = 0
      BY <3>1, KeyOrder
    <3> QED
      BY <3>2, <3>3, <2>1
  <2>3. CASE ~ \A i \in DOMAIN items : v[i] = w[i]
    <3>1. PICK p \in DOMAIN items :
            Apart(v, w, items, p) /\ CompareKeys(v, w, items) = CompareValue(v[p], w[p], items[p])
      BY <2>3, KeyCases
    <3>2. PICK q \in DOMAIN items :
            Apart(u, w, items, q) /\ CompareKeys(u, w, items) = CompareValue(u[q], w[q], items[q])
      <4>1. ~ \A i \in DOMAIN items : u[i] = w[i]
        BY <1>3, <2>3
      <4> QED
        BY <4>1, KeyCases
    <3>3. p = q
      BY <1>3, <3>1, <3>2, ItemFacts DEF Apart
    <3>4. CompareKeys(u, w, items) = CompareKeys(v, w, items) /\ CompareKeys(v, w, items) \in {-1, 0, 1}
      BY <1>3, <1>1, <3>1, <3>2, <3>3
    <3>5. CompareKeys(v, w, items) # 0
      BY <3>1, <1>1 DEF Apart
    <3> QED
      BY <3>4, <3>5
  <2> QED
    BY <2>2, <2>3
<1>4. CASE ~ \A i \in DOMAIN items : u[i] = v[i]
  <2>1. PICK p \in DOMAIN items :
          Apart(u, v, items, p) /\ CompareKeys(u, v, items) = CompareValue(u[p], v[p], items[p])
    BY <1>4, KeyCases
  <2>2. u[p] # v[p] /\ CompareValue(u[p], v[p], items[p]) = -1
    BY <2>1, <1>1 DEF Apart
  <2>3. ASSUME NEW q \in DOMAIN items, Apart(u, w, items, q), CompareValue(u[q], w[q], items[q]) = -1
        PROVE  CompareKeys(u, w, items) = -1
    <3>1. ~ \A i \in DOMAIN items : u[i] = w[i]
      BY <2>3 DEF Apart
    <3>2. PICK r \in DOMAIN items :
            Apart(u, w, items, r) /\ CompareKeys(u, w, items) = CompareValue(u[r], w[r], items[r])
      BY <3>1, KeyCases
    <3>3. r = q
      BY <2>3, <3>2, ItemFacts, SMTT(30) DEF Apart
    <3> QED
      BY <2>3, <3>2, <3>3
  <2>4. ASSUME \A i \in DOMAIN items : v[i] = w[i] PROVE CompareKeys(u, w, items) = -1
    <3>1. Apart(u, w, items, p)
      BY <2>1, <2>4, ItemFacts DEF Apart
    <3>2. CompareValue(u[p], w[p], items[p]) = -1
      BY <2>2, <2>4
    <3> QED
      BY <2>3, <3>1, <3>2
  <2>5. ASSUME ~ \A i \in DOMAIN items : v[i] = w[i] PROVE CompareKeys(u, w, items) = -1
    <3>1. PICK q \in DOMAIN items :
            Apart(v, w, items, q) /\ CompareKeys(v, w, items) = CompareValue(v[q], w[q], items[q])
      BY <2>5, KeyCases
    <3>2. v[q] # w[q] /\ CompareValue(v[q], w[q], items[q]) = -1
      BY <3>1, <1>1 DEF Apart
    <3>3. p \in Nat /\ q \in Nat /\ DOMAIN items = 1 .. Len(items) /\ Len(items) \in Nat
      BY ItemFacts
    <3>4. CASE p < q
      <4>1. v[p] = w[p] /\ \A i \in 1 .. p - 1 : v[i] = w[i]
        BY <3>1, <3>3, <3>4 DEF Apart
      <4>2. Apart(u, w, items, p)
        BY <2>1, <4>1 DEF Apart
      <4> QED
        BY <2>2, <2>3, <4>1, <4>2
    <3>5. CASE q < p
      <4>1. u[q] = v[q] /\ \A i \in 1 .. q - 1 : u[i] = v[i]
        BY <2>1, <3>3, <3>5 DEF Apart
      <4>2. Apart(u, w, items, q)
        BY <3>1, <4>1 DEF Apart
      <4> QED
        BY <3>2, <2>3, <4>1, <4>2
    <3>6. CASE p = q
      <4>1. CompareValue(u[p], w[p], items[p]) = -1
        BY <2>2, <3>2, <3>6, <1>1
      <4>2. u[p] # w[p]
        BY <4>1, <1>1
      <4>3. Apart(u, w, items, p)
        BY <2>1, <3>1, <3>6, <4>2 DEF Apart
      <4> QED
        BY <2>3, <4>1, <4>3
    <3>7. p < q \/ q < p \/ p = q
      BY <3>3
    <3> QED
      BY <3>4, <3>5, <3>6, <3>7
  <2>6. CompareKeys(u, w, items) = -1
    BY <2>4, <2>5
  <2> QED
    BY <2>6
<1> QED
  BY <1>3, <1>4

(* The order of the stable sort. *)
LEMMA PrecedesOrders ==
  ASSUME NEW items \in Seq(OrderingItems), \A i \in DOMAIN items : items[i].expr.descriptor \in Descriptors,
         NEW chosen, chosen \subseteq Nat, NEW keys, \A i \in chosen : Keyed(keys[i], items)
  PROVE  Orders({pair \in chosen \X chosen : Precedes(keys, items, pair[1], pair[2])}, chosen)
<1> DEFINE R == {pair \in chosen \X chosen : Precedes(keys, items, pair[1], pair[2])}
           C(i, j) == CompareKeys(keys[i], keys[j], items)
<1>1. \A i, j \in chosen : <<i, j>> \in R <=> C(i, j) < 0 \/ (C(i, j) = 0 /\ i < j)
  BY DEF Precedes
<1>2. \A i, j \in chosen : /\ C(i, j) \in {-1, 0, 1}
                           /\ C(i, j) = -1 <=> C(j, i) = 1
                           /\ C(j, i) = 0 <=> C(i, j) = 0
  <2> TAKE i, j \in chosen
  <2>1. Keyed(keys[i], items) /\ Keyed(keys[j], items)
    OBVIOUS
  <2>2. C(i, j) \in {-1, 0, 1} /\ (C(i, j) = -1 <=> C(j, i) = 1)
    BY <2>1, KeyOrder
  <2>3. C(j, i) \in {-1, 0, 1} /\ (C(j, i) = -1 <=> C(i, j) = 1)
    BY <2>1, KeyOrder
  <2> HIDE DEF C
  <2> QED
    BY <2>2, <2>3
<1>3. \A i \in chosen : C(i, i) = 0
  BY KeyOrder
<1>4. \A i, j, k \in chosen : C(i, j) <= 0 /\ C(j, k) <= 0 =>
        C(i, k) <= 0 /\ (C(i, k) = 0 => C(i, j) = 0 /\ C(j, k) = 0)
  BY KeyTransitive
<1> HIDE DEF C, R
<1>5. \A i \in chosen : <<i, i>> \notin R
  BY <1>1, <1>3
<1>6. \A i, j \in chosen : i # j => <<i, j>> \in R \/ <<j, i>> \in R
  <2> TAKE i, j \in chosen
  <2>1. C(i, j) \in {-1, 0, 1} /\ C(j, i) \in {-1, 0, 1} /\ (C(i, j) = -1 <=> C(j, i) = 1)
          /\ (C(j, i) = -1 <=> C(i, j) = 1) /\ i \in Nat /\ j \in Nat
    BY <1>2
  <2> QED
    BY <2>1, <1>1
<1>7. \A i, j, k \in chosen : <<i, j>> \in R /\ <<j, k>> \in R => <<i, k>> \in R
  <2> SUFFICES ASSUME NEW i \in chosen, NEW j \in chosen, NEW k \in chosen,
                      <<i, j>> \in R, <<j, k>> \in R
               PROVE  <<i, k>> \in R
    OBVIOUS
  <2>1. C(i, j) \in {-1, 0, 1} /\ C(j, k) \in {-1, 0, 1} /\ C(i, k) \in {-1, 0, 1}
          /\ i \in Nat /\ j \in Nat /\ k \in Nat
    BY <1>2
  <2>2. C(i, j) <= 0 /\ C(j, k) <= 0
    BY <2>1, <1>1
  <2>3. C(i, k) <= 0 /\ (C(i, k) = 0 => C(i, j) = 0 /\ C(j, k) = 0)
    BY <2>2, <1>4
  <2> QED
    BY <2>1, <2>3, <1>1
<1>8. Orders(R, chosen)
  BY <1>5, <1>6, <1>7 DEF Orders
<1> QED
  BY <1>8 DEF R

(* The keys of accepted items: none is NULL without a placement. *)
OrderGrid(items, schema, rows) ==
  LET keys == OrderKeys(items, schema, rows)
  IN /\ DOMAIN keys = DOMAIN rows /\ DOMAIN rows = 1 .. Len(rows) /\ Len(rows) \in Nat
     /\ \A i \in DOMAIN items : items[i].expr.descriptor \in Descriptors
     /\ \A r \in DOMAIN rows : /\ DOMAIN keys[r] = DOMAIN items
                               /\ Failed(Failures(keys)[r]) => Failures(keys)[r] \in Errors
                               /\ ~ Failed(Failures(keys)[r]) => Keyed(keys[r], items)
     /\ \A r \in DOMAIN rows, i \in DOMAIN items :
          keys[r][i] = Evaluate(items[i].expr, schema, rows[r])
     /\ SortFailures(keys, items) = Failures(keys)
     /\ DOMAIN Failures(keys) = DOMAIN rows

(* The sort keys of accepted items are values or errors.                  *)
LEMMA OrderGridFacts ==
  ASSUME NEW schema, IsSchema(schema), NEW rows \in Seq(RowsOf(schema)), NEW items \in Seq(OrderingItems),
         AcceptsItems(items, schema)
  PROVE  OrderGrid(items, schema, rows)
<1> DEFINE exprs == ItemExprs(items)
           keys  == OrderKeys(items, schema, rows)
<1>0. /\ DOMAIN rows = 1 .. Len(rows) /\ Len(rows) \in Nat /\ DOMAIN rows \subseteq Nat
  OBVIOUS
<1>1. /\ Len(items) \in Nat /\ DOMAIN items = 1 .. Len(items)
      /\ \A i \in DOMAIN items : items[i].expr \in Expressions
  BY ItemFacts
<1>2. exprs \in Seq(Expressions) /\ DOMAIN exprs = DOMAIN items
  <2>1. exprs = [i \in 1 .. Len(items) |-> exprs[i]] /\ \A i \in 1 .. Len(items) : exprs[i] \in Expressions
    BY <1>1 DEF ItemExprs
  <2> HIDE DEF exprs
  <2> QED
    BY <1>1, <2>1, SequenceIntro
<1>3. \A i \in DOMAIN items : exprs[i] = items[i].expr
  BY DEF ItemExprs
<1>4. \A i \in DOMAIN items : /\ Typed(items[i].expr, schema)
                              /\ items[i].expr.descriptor.nullable => items[i].nulls # "not_applicable"
  BY DEF AcceptsItems
<1> HIDE DEF exprs
<1>5. \A i \in DOMAIN exprs : Typed(exprs[i], schema)
  BY <1>2, <1>3, <1>4
<1>6. keys = Grid(exprs, schema, rows)
  BY DEF OrderKeys, exprs
<1>7. /\ DOMAIN Failures(keys) = DOMAIN rows
      /\ \A r \in DOMAIN rows :
           /\ Failed(Failures(keys)[r]) => Failures(keys)[r] \in Errors
           /\ Failed(Failures(keys)[r]) <=> \E k \in DOMAIN exprs : Failed(Evaluate(exprs[k], schema, rows[r]))
      /\ \A r \in DOMAIN rows, k \in DOMAIN exprs : Fits(Evaluate(exprs[k], schema, rows[r]), exprs[k].descriptor)
      /\ \A k \in DOMAIN exprs : exprs[k] \in Expressions /\ exprs[k].descriptor \in Descriptors
  BY <1>2, <1>5, <1>6, GridFailures
<1>8. /\ DOMAIN keys = DOMAIN rows
      /\ \A r \in DOMAIN rows : /\ DOMAIN keys[r] = DOMAIN exprs
           /\ \A k \in DOMAIN exprs : keys[r][k] = Evaluate(exprs[k], schema, rows[r])
  BY <1>0, <1>1, <1>2, <1>6, GridFacts
<1> HIDE DEF keys
<1>9. \A i \in DOMAIN items : items[i].expr.descriptor \in Descriptors
  BY <1>2, <1>3, <1>7
<1>10. \A r \in DOMAIN rows, i \in DOMAIN items :
         /\ keys[r][i] = Evaluate(items[i].expr, schema, rows[r])
         /\ Fits(keys[r][i], items[i].expr.descriptor)
  BY <1>2, <1>3, <1>7, <1>8
<1>11. ~ Misplaced(keys, items)
  <2>1. ASSUME NEW r \in DOMAIN keys, NEW i \in DOMAIN items, keys[r][i] = Null
        PROVE  items[i].nulls # "not_applicable"
    <3>1. r \in DOMAIN rows
      BY <1>8
    <3>2. Fits(Null, items[i].expr.descriptor)
      BY <1>10, <2>1, <3>1
    <3>3. items[i].expr.descriptor.nullable
      BY <3>2, <1>9, FitsFacts
    <3> QED
      BY <3>3, <1>4
  <2> QED
    BY <2>1 DEF Misplaced
<1>12. SortFailures(keys, items) = Failures(keys)
  <2>1. Failures(keys) = [r \in 1 .. Len(rows) |-> Failures(keys)[r]]
    BY <1>8, <1>0 DEF Failures
  <2> DEFINE failures == Failures(keys)
  <2> HIDE DEF failures
  <2>2. failures \in Seq(Range(failures))
    <3>1. failures = [r \in 1 .. Len(rows) |-> failures[r]]
      BY <2>1 DEF failures
    <3>2. \A r \in 1 .. Len(rows) : failures[r] \in Range(failures)
      BY <3>1 DEF Range
    <3> QED
      BY <1>0, <3>1, <3>2, SequenceIntro
  <2>3. failures \o <<>> = failures
    BY <2>2
  <2> QED
    BY <2>3, <1>11 DEF SortFailures, failures
<1>13. \A r \in DOMAIN rows : ~ Failed(Failures(keys)[r]) => Keyed(keys[r], items)
  <2> TAKE r \in DOMAIN rows
  <2> HAVE ~ Failed(Failures(keys)[r])
  <2>1. \A i \in DOMAIN items : ~ Failed(keys[r][i])
    BY <1>2, <1>7, <1>8
  <2>2. \A i \in DOMAIN items : Cell(keys[r][i], items[i].expr.descriptor)
    BY <2>1, <1>9, <1>10, CellFacts
  <2> QED
    BY <2>2 DEF Keyed
<1> QED
  BY <1>0, <1>2, <1>7, <1>8, <1>9, <1>10, <1>12, <1>13 DEF OrderGrid, keys

(* Rows sorted by keys that do not fail: all of them, once. *)
InOrder(sorted, chosen, keys, items) ==
  /\ sorted \in Seq(chosen) /\ Len(sorted) = Cardinality(chosen) /\ DOMAIN sorted = 1 .. Cardinality(chosen)
  /\ Cardinality(chosen) \in Nat
  /\ \A p, q \in DOMAIN sorted : p < q <=> Precedes(keys, items, sorted[p], sorted[q])
  /\ \A p, q \in DOMAIN sorted : sorted[p] = sorted[q] => p = q
  /\ \A i \in chosen : \E p \in DOMAIN sorted : sorted[p] = i
  /\ Range(sorted) = chosen

(* Sorting lists all rows once and in order.                              *)
LEMMA SortedFacts ==
  ASSUME NEW schema, IsSchema(schema), NEW rows \in Seq(RowsOf(schema)), NEW items \in Seq(OrderingItems),
         AcceptsItems(items, schema), NEW chosen, chosen \subseteq DOMAIN rows,
         \A r \in chosen : ~ Failed(Failures(OrderKeys(items, schema, rows))[r])
  PROVE  InOrder(Sorted(chosen, OrderKeys(items, schema, rows), items), chosen,
                  OrderKeys(items, schema, rows), items)
<1> DEFINE keys == OrderKeys(items, schema, rows)
           R == {pair \in chosen \X chosen : Precedes(keys, items, pair[1], pair[2])}
<1>1. OrderGrid(items, schema, rows)
  BY OrderGridFacts
<1>2. /\ \A i \in DOMAIN items : items[i].expr.descriptor \in Descriptors
      /\ \A r \in DOMAIN rows : ~ Failed(Failures(keys)[r]) => Keyed(keys[r], items)
      /\ DOMAIN rows = 1 .. Len(rows) /\ Len(rows) \in Nat
  BY <1>1 DEF OrderGrid
<1> HIDE DEF keys
<1>3. \A r \in chosen : Keyed(keys[r], items)
  BY <1>2 DEF keys
<1>4. IsFiniteSet(chosen) /\ chosen \subseteq Nat
  BY <1>2, PositionSets
<1>5. Orders(R, chosen)
  BY <1>2, <1>3, <1>4, PrecedesOrders
<1>6. Sorted(chosen, keys, items) = Arranged(chosen, R)
  BY DEF Sorted
<1>7. \A i, j \in chosen : <<i, j>> \in R <=> Precedes(keys, items, i, j)
  OBVIOUS
<1> HIDE DEF R
<1> DEFINE sorted == Arranged(chosen, R)
<1>8. /\ sorted \in Seq(chosen) /\ Len(sorted) = Cardinality(chosen) /\ DOMAIN sorted = 1 .. Cardinality(chosen)
      /\ Cardinality(chosen) \in Nat
      /\ \A p, q \in DOMAIN sorted : p < q <=> <<sorted[p], sorted[q]>> \in R
      /\ \A p, q \in DOMAIN sorted : sorted[p] = sorted[q] => p = q
      /\ \A i \in chosen : \E p \in DOMAIN sorted : sorted[p] = i
      /\ Range(sorted) = chosen
  BY <1>4, <1>5, ArrangedFacts
<1> HIDE DEF sorted
<1>9. \A p \in DOMAIN sorted : sorted[p] \in chosen
  BY <1>8
<1>10. \A p, q \in DOMAIN sorted : p < q <=> Precedes(keys, items, sorted[p], sorted[q])
  BY <1>7, <1>8, <1>9
<1> QED
  BY <1>6, <1>8, <1>10 DEF InOrder, keys, sorted

(* The entry of an Order node has ordering items.                         *)
LEMMA OrderItems ==
  ASSUME NEW node, IsNode(node), node.kind = "order"
  PROVE  node.entries[1] \in Entries /\ node.entries[1].order \in Seq(OrderingItems)
<1>1. Len(node.entries) = 1
  BY NodeFacts DEF HasEntries
<1>2. node.entries[1] \in Entries
  BY <1>1, NodeFacts
<1> QED
  BY <1>2, EntryFacts

(* An Order node gives its rows sorted, or an error.                      *)
LEMMA OrderGood ==
  ASSUME NEW node, IsNode(node), node.kind = "order", NEW in, IsSchema(in.schema),
         AcceptsOrder(node, in), NEW rows \in Seq(RowsOf(in.schema))
  PROVE  /\ Good(EvaluateOrder(node, in.schema, rows), in.schema)
         /\ EvaluateOrder(node, in.schema, rows).failure = Null =>
              /\ EvaluateOrder(node, in.schema, rows).rows = Pick(rows, OrderIndices(node, in.schema, rows))
              /\ InOrder(OrderIndices(node, in.schema, rows), DOMAIN rows,
                          OrderKeys(node.entries[1].order, in.schema, rows), node.entries[1].order)
<1> DEFINE items == node.entries[1].order
           keys  == OrderKeys(items, in.schema, rows)
           sorted == OrderIndices(node, in.schema, rows)
<1>1. items \in Seq(OrderingItems) /\ AcceptsItems(items, in.schema)
  BY OrderItems DEF AcceptsOrder
<1>2. EvaluateOrder(node, in.schema, rows) = Complete(SortFailures(keys, items), Pick(rows, sorted))
  BY DEF EvaluateOrder
<1>3. sorted = Sorted(DOMAIN rows, keys, items)
  BY DEF OrderIndices
<1> HIDE DEF items, sorted
<1>4. OrderGrid(items, in.schema, rows)
  BY <1>1, OrderGridFacts
<1>5. /\ DOMAIN rows = 1 .. Len(rows) /\ Len(rows) \in Nat
      /\ SortFailures(keys, items) = Failures(keys)
      /\ DOMAIN Failures(keys) = DOMAIN rows
      /\ \A r \in DOMAIN rows : Failed(Failures(keys)[r]) => Failures(keys)[r] \in Errors
  BY <1>4 DEF OrderGrid
<1>6. ASSUME \A r \in DOMAIN rows : ~ Failed(Failures(keys)[r])
      PROVE  InOrder(sorted, DOMAIN rows, keys, items)
  BY <1>1, <1>3, <1>6, SortedFacts
<1> DEFINE failures == Failures(keys)
           out == Pick(rows, sorted)
<1>7. ASSUME \A r \in DOMAIN failures : ~ Failed(failures[r])
      PROVE  out \in Seq(RowsOf(in.schema)) /\ InOrder(sorted, DOMAIN rows, keys, items)
  <2>1. InOrder(sorted, DOMAIN rows, keys, items)
    BY <1>5, <1>6, <1>7
  <2>2. sorted \in Seq(DOMAIN rows)
    BY <2>1 DEF InOrder
  <2> QED
    BY <2>1, <2>2, PickFacts
<1>8. DOMAIN failures \subseteq Nat /\ \A r \in DOMAIN failures : Failed(failures[r]) => failures[r] \in Errors
  BY <1>5
<1> HIDE DEF failures, out
<1>9. /\ Good(Complete(failures, out), in.schema)
      /\ Complete(failures, out).failure = Null
           => (\A r \in DOMAIN failures : ~ Failed(failures[r])) /\ Complete(failures, out).rows = out
  BY <1>7, <1>8, CompleteFacts
<1>10. EvaluateOrder(node, in.schema, rows) = Complete(failures, out)
  BY <1>2, <1>5 DEF failures, out
<1> QED
  BY <1>7, <1>9, <1>10 DEF out, items, sorted

-----------------------------------------------------------------------------
(* Windows. *)

(* The greatest of some positions.                                        *)
LEMMA MaxFacts ==
  ASSUME NEW n \in Nat, NEW S, S \subseteq 1 .. n, S # {}
  PROVE  Max(S) \in S /\ \A i \in S : i <= Max(S)
<1> DEFINE list == Increasing(S)
           size == Cardinality(S)
<1>1. IsFiniteSet(S) /\ S \subseteq Int
  BY PositionSets
<1>2. /\ DOMAIN list = 1 .. size /\ size \in Nat
      /\ \A p, q \in DOMAIN list : p < q <=> list[p] < list[q]
      /\ \A i \in S : \E p \in DOMAIN list : list[p] = i
      /\ Range(list) = S
  BY <1>1, IncreasingFacts
<1>3. \A p \in DOMAIN list : list[p] \in S
  BY <1>2 DEF Range
<1> HIDE DEF list, size
<1>4. size \in DOMAIN list
  <2>1. PICK i \in S : TRUE
    OBVIOUS
  <2>2. PICK p \in DOMAIN list : list[p] = i
    BY <1>2
  <2> QED
    BY <1>2, <2>2
<1>5. \A i \in S : i <= list[size]
  <2> TAKE i \in S
  <2>1. PICK p \in DOMAIN list : list[p] = i
    BY <1>2
  <2>2. p = size \/ p < size
    BY <1>2, <2>1
  <2> QED
    <3>1. p \in 1 .. size /\ list[p] \in Int /\ list[size] \in Int
      BY <1>1, <1>2, <1>3, <1>4
    <3>2. p < size => list[p] < list[size]
      BY <1>2, <1>4
    <3> QED
      BY <2>1, <2>2, <3>1, <3>2
<1>6. \E i \in S : \A j \in S : i >= j
  BY <1>1, <1>3, <1>4, <1>5
<1>7. Max(S) \in S /\ \A j \in S : Max(S) >= j
  BY <1>6 DEF Max
<1> QED
  BY <1>1, <1>7

(* The group a row is in. *)
LEMMA GroupOfFacts ==
  ASSUME NEW n \in Nat, NEW keys, NEW groups, Divides(groups, keys, n), NEW r \in 1 .. n
  PROVE  GroupOf(groups, r) \in DOMAIN groups /\ r \in Range(groups[GroupOf(groups, r)])
BY DEF Divides, GroupOf

(* Partitions divide the rows.                                            *)
LEMMA PartitionFacts ==
  ASSUME NEW entry, NEW schema, NEW S, NEW rows \in Seq(S)
  PROVE  Divides(Partitions(entry, schema, rows), Grid(entry.partition, schema, rows), Len(rows))
<1> DEFINE keys == Grid(entry.partition, schema, rows)
<1>1. DOMAIN keys = 1 .. Len(rows) /\ Len(rows) \in Nat
  BY DEF Grid
<1> HIDE DEF keys
<1>2. Divides(Groups(keys), keys, Len(rows))
  BY <1>1, GroupFacts
<1> QED
  BY <1>2 DEF Partitions, keys

(* The rank of a row is the number of a position. *)
LEMMA RankFits ==
  ASSUME NEW chosen, NEW keys, NEW items, NEW sorted, InOrder(sorted, chosen, keys, items),
         NEW r \in chosen, NEW function \in Rankings
  PROVE  Fits(RankOf(r, function, sorted, keys), Descriptor("INT64", FALSE))
<1> DEFINE position == CHOOSE p \in DOMAIN sorted : sorted[p] = r
           fresh == NewPeers(sorted, keys)
           before == {p \in fresh : p <= position}
           size == Cardinality(chosen)
<1>1. size \in Nat /\ DOMAIN sorted = 1 .. size /\ position \in 1 .. size
  BY DEF InOrder
<1>2. fresh = {p \in DOMAIN sorted : p = 1 \/ keys[sorted[p]] # keys[sorted[p - 1]]}
  BY DEF NewPeers
<1> HIDE DEF position, fresh, size, before
<1>3. before \subseteq 1 .. size /\ 1 \in before
  BY <1>1, <1>2 DEF before
<1>4. Max(before) \in 1 .. size
  BY <1>1, <1>3, MaxFacts
<1>5. Cardinality(before) \in Nat
  BY <1>1, <1>3, PositionSets, FS_CardinalityType
<1>6. /\ RankingValue("row_number", position, fresh) = position
      /\ RankingValue("rank", position, fresh) = Max(before)
      /\ RankingValue("dense_rank", position, fresh) = Cardinality(before)
  BY DEF RankingValue, before
<1>7. RankingValue(function, position, fresh) \in Int
  BY <1>1, <1>4, <1>5, <1>6 DEF Rankings
<1>8. RankOf(r, function, sorted, keys) = Checked(RankingValue(function, position, fresh))
  BY DEF RankOf, position, fresh
<1>9. \A i \in Int : Fits(Checked(i), Descriptor("INT64", FALSE))
  <2> TAKE i \in Int
  <2>1. Checked(i) \in ScalarValues("INT64") \/ Checked(i) \in Errors
    BY CheckedFacts
  <2> QED
    BY <2>1 DEF Fits, Descriptor
<1> QED
  BY <1>7, <1>8, <1>9

(* What AcceptsWindow asks of an entry. *)
WindowEntry(entry, in) ==
  /\ entry \in Entries /\ entry.function \in Rankings \cup AggregateFunctions
  /\ \A k \in DOMAIN entry.partition : Typed(entry.partition[k], in.schema)
  /\ entry.function \in Rankings => AcceptsItems(entry.order, in.schema)
  /\ entry.function \notin Rankings => EntryDescriptor(entry, in.schema) # Invalid

(* What validate_window has checked of each entry.                        *)
LEMMA WindowEntries ==
  ASSUME NEW node, IsNode(node), node.kind = "window", NEW in, AcceptsWindow(node, in)
  PROVE  /\ node.entries \in Seq(Entries) /\ Len(node.entries) \in Nat
         /\ DOMAIN node.entries = 1 .. Len(node.entries)
         /\ \A i \in 1 .. Len(node.entries) : WindowEntry(node.entries[i], in)
<1>1. /\ node.entries \in Seq(Entries) /\ Len(node.entries) \in Nat
      /\ DOMAIN node.entries = 1 .. Len(node.entries)
      /\ \A i \in 1 .. Len(node.entries) : node.entries[i] \in Entries
  BY NodeFacts
<1>2. \A i \in 1 .. Len(node.entries) : node.entries[i].function \in Rankings \cup AggregateFunctions
  BY NodeFacts, Zenon DEF HasEntries
<1>3. \A i \in 1 .. Len(node.entries) :
        /\ \A k \in DOMAIN node.entries[i].partition : Typed(node.entries[i].partition[k], in.schema)
        /\ IF node.entries[i].function \in Rankings THEN AcceptsRanking(node.entries[i], in)
           ELSE EntryDescriptor(node.entries[i], in.schema) # Invalid
  BY <1>1 DEF AcceptsWindow
<1> QED
  BY <1>1, <1>2, <1>3 DEF WindowEntry, AcceptsRanking

(* A ranking is an integer that is never NULL.                            *)
LEMMA RankingDescriptor ==
  ASSUME NEW entry, entry.function \in Rankings, NEW schema
  PROVE  EntryDescriptor(entry, schema) = Descriptor("INT64", FALSE)
<1>1. entry.function # "group"
  BY DEF Rankings
<1> QED
  BY <1>1 DEF EntryDescriptor

(* The ranking of each row is an integer.                                 *)
LEMMA RankingFits ==
  ASSUME NEW in, IsSchema(in.schema), NEW rows \in Seq(RowsOf(in.schema)),
         NEW entry, WindowEntry(entry, in), entry.function \in Rankings,
         \A r \in DOMAIN rows : ~ Failed(Failures(OrderKeys(entry.order, in.schema, rows))[r]),
         NEW r \in DOMAIN rows
  PROVE  Fits(RankingColumn(entry, in.schema, rows)[r], Descriptor("INT64", FALSE))
<1> DEFINE keys == OrderKeys(entry.order, in.schema, rows)
           groups == Partitions(entry, in.schema, rows)
           grid == Grid(entry.partition, in.schema, rows)
           sorted(g) == Sorted(Range(groups[g]), keys, entry.order)
<1>1. DOMAIN rows = 1 .. Len(rows) /\ Len(rows) \in Nat
  OBVIOUS
<1>2. Divides(groups, grid, Len(rows))
  BY PartitionFacts
<1>3. entry.order \in Seq(OrderingItems) /\ AcceptsItems(entry.order, in.schema)
  BY EntryFacts DEF WindowEntry
<1>4. RankingColumn(entry, in.schema, rows)[r]
        = RankOf(r, entry.function, sorted(GroupOf(groups, r)), keys)
  <2>1. GroupOf(groups, r) \in DOMAIN groups
    BY <1>1, <1>2, GroupOfFacts
  <2> QED
    BY <2>1 DEF RankingColumn, Ranks
<1> HIDE DEF groups
<1>5. GroupOf(groups, r) \in DOMAIN groups /\ r \in Range(groups[GroupOf(groups, r)])
  BY <1>1, <1>2, GroupOfFacts
<1> DEFINE chosen == Range(groups[GroupOf(groups, r)])
<1>6. chosen \subseteq DOMAIN rows
  BY <1>1, <1>2, <1>5 DEF Divides
<1> HIDE DEF chosen
<1>7. InOrder(Sorted(chosen, keys, entry.order), chosen, keys, entry.order)
  BY <1>3, <1>6, SortedFacts
<1>8. r \in chosen
  BY <1>5 DEF chosen
<1> HIDE DEF keys
<1>9. Fits(RankOf(r, entry.function, Sorted(chosen, keys, entry.order), keys), Descriptor("INT64", FALSE))
  BY <1>7, <1>8, RankFits
<1> QED
  BY <1>4, <1>9 DEF chosen

(* The aggregate over the partition of each row fits its descriptor.      *)
LEMMA AggregateColumnFits ==
  ASSUME NEW in, IsSchema(in.schema), NEW rows \in Seq(RowsOf(in.schema)),
         NEW entry, WindowEntry(entry, in), entry.function \notin Rankings, NEW r \in DOMAIN rows
  PROVE  Fits(AggregateColumn(entry, in.schema, rows)[r], EntryDescriptor(entry, in.schema))
<1> DEFINE groups == Partitions(entry, in.schema, rows)
           grid == Grid(entry.partition, in.schema, rows)
<1>1. DOMAIN rows = 1 .. Len(rows) /\ Len(rows) \in Nat
  OBVIOUS
<1>2. Divides(groups, grid, Len(rows))
  BY PartitionFacts
<1>3. entry \in Entries /\ entry.function \in AggregateFunctions /\ EntryDescriptor(entry, in.schema) # Invalid
  BY DEF WindowEntry
<1>4. GroupOf(groups, r) \in DOMAIN groups
  BY <1>1, <1>2, GroupOfFacts
<1>5. AggregateColumn(entry, in.schema, rows)[r]
        = AggregateOf(entry, in.schema, rows, groups[GroupOf(groups, r)])
  BY <1>4 DEF AggregateColumn, Aggregates
<1> DEFINE indices == groups[GroupOf(groups, r)]
<1>6. indices \in Seq(DOMAIN rows)
  BY <1>1, <1>2, <1>4 DEF Divides
<1> HIDE DEF indices
<1>7. Fits(AggregateOf(entry, in.schema, rows, indices), EntryDescriptor(entry, in.schema))
  BY <1>3, <1>6, AggregateOfFits
<1> QED
  BY <1>5, <1>7 DEF indices

(* What must not fail before a window is computed. *)
WindowRequired(entry, schema, rows) ==
  Failures(Grid(entry.partition, schema, rows))
    \o (IF entry.function \in Rankings
        THEN SortFailures(OrderKeys(entry.order, schema, rows), entry.order) ELSE <<>>)

(* What a window requires first fails with errors only.                   *)
LEMMA WindowRequiredFacts ==
  ASSUME NEW in, IsSchema(in.schema), NEW rows \in Seq(RowsOf(in.schema)),
         NEW entry, WindowEntry(entry, in)
  PROVE  LET required == WindowRequired(entry, in.schema, rows)
         IN /\ DOMAIN required \subseteq Nat
            /\ \A i \in DOMAIN required : Failed(required[i]) => required[i] \in Errors
            /\ (\A i \in DOMAIN required : ~ Failed(required[i])) /\ entry.function \in Rankings =>
                 \A r \in DOMAIN rows : ~ Failed(Failures(OrderKeys(entry.order, in.schema, rows))[r])
<1> DEFINE grid == Grid(entry.partition, in.schema, rows)
           keys == OrderKeys(entry.order, in.schema, rows)
           size == Len(rows)
           before == Failures(grid)
           after == IF entry.function \in Rankings THEN SortFailures(keys, entry.order) ELSE <<>>
           count == IF entry.function \in Rankings THEN size ELSE 0
<1>1. size \in Nat /\ DOMAIN rows = 1 .. size /\ count \in Nat
  OBVIOUS
<1>2. entry.partition \in Seq(Expressions) /\ entry.order \in Seq(OrderingItems)
      /\ \A k \in DOMAIN entry.partition : Typed(entry.partition[k], in.schema)
  BY EntryFacts DEF WindowEntry
<1>3. DOMAIN before = DOMAIN rows /\ \A r \in DOMAIN rows : Failed(before[r]) => before[r] \in Errors
  BY <1>2, GridFailures
<1>4. before = [i \in 1 .. size |-> before[i]]
  BY <1>1, <1>3 DEF Failures
<1>5. ASSUME entry.function \in Rankings
      PROVE  /\ after = Failures(keys) /\ after = [i \in 1 .. count |-> after[i]]
             /\ \A r \in 1 .. count : Failed(after[r]) => after[r] \in Errors
  <2>1. AcceptsItems(entry.order, in.schema)
    BY <1>5 DEF WindowEntry
  <2>2. OrderGrid(entry.order, in.schema, rows)
    BY <1>2, <2>1, OrderGridFacts
  <2>3. /\ SortFailures(keys, entry.order) = Failures(keys)
        /\ DOMAIN Failures(keys) = DOMAIN rows
        /\ \A r \in DOMAIN rows : Failed(Failures(keys)[r]) => Failures(keys)[r] \in Errors
    BY <2>2 DEF OrderGrid
  <2>4. Failures(keys) = [r \in DOMAIN keys |-> Failures(keys)[r]]
    BY DEF Failures
  <2> HIDE DEF keys
  <2>5. Failures(keys) = [r \in DOMAIN rows |-> Failures(keys)[r]]
    BY <2>3, <2>4
  <2> QED
    BY <2>3, <2>5, <1>1, <1>5
<1>6. ASSUME entry.function \notin Rankings
      PROVE  after = [i \in 1 .. count |-> after[i]] /\ count = 0
  BY <1>6
<1> HIDE DEF before, after, count, size
<1>7. after = [i \in 1 .. count |-> after[i]]
  BY <1>5, <1>6
<1>8. Joined(before \o after, before, size, after, count)
  BY <1>1, <1>4, <1>7, ConcatCases
<1> DEFINE required == before \o after
<1>9. required = WindowRequired(entry, in.schema, rows)
  BY DEF WindowRequired, before, after
<1>10. \A i \in 1 .. size : Failed(before[i]) => before[i] \in Errors
  BY <1>1, <1>3
<1>11. \A i \in 1 .. count : Failed(after[i]) => after[i] \in Errors
  <2>1. CASE entry.function \in Rankings
    BY <1>5, <2>1
  <2>2. CASE entry.function \notin Rankings
    BY <1>6, <2>2
  <2> QED
    BY <2>1, <2>2
<1> HIDE DEF required
<1>12. /\ DOMAIN required = 1 .. size + count /\ DOMAIN required \subseteq Nat
       /\ \A i \in 1 .. count : required[size + i] = after[i] /\ size + i \in 1 .. size + count
       /\ \A i \in 1 .. size + count :
            \/ i \in 1 .. size /\ required[i] = before[i]
            \/ \E j \in 1 .. count : i = size + j /\ required[i] = after[j]
  BY <1>8 DEF Joined, required
<1>13. \A i \in DOMAIN required : Failed(required[i]) => required[i] \in Errors
  BY <1>10, <1>11, <1>12
<1>14. ASSUME \A i \in DOMAIN required : ~ Failed(required[i]), entry.function \in Rankings
       PROVE  \A r \in DOMAIN rows : ~ Failed(Failures(keys)[r])
  <2>1. count = size /\ after = Failures(keys)
    BY <1>5, <1>14 DEF count
  <2> HIDE DEF keys
  <2>2. \A i \in 1 .. size : ~ Failed(after[i])
    BY <2>1, <1>12, <1>14
  <2> QED
    BY <1>1, <2>1, <2>2
<1> QED
  BY <1>9, <1>12, <1>13, <1>14

(* The column of an entry has a value of its descriptor for each row.     *)
LEMMA ColumnFits ==
  ASSUME NEW in, IsSchema(in.schema), NEW rows \in Seq(RowsOf(in.schema)),
         NEW entry, WindowEntry(entry, in)
  PROVE  /\ DOMAIN WindowColumn(entry, in.schema, rows) = DOMAIN rows
         /\ EntryDescriptor(entry, in.schema) \in Descriptors
         /\ \A r \in DOMAIN rows :
              Fits(WindowColumn(entry, in.schema, rows)[r], EntryDescriptor(entry, in.schema))
<1> DEFINE required == WindowRequired(entry, in.schema, rows)
           failure == Require(required, Null)
           found == IF entry.function \in Rankings THEN RankingColumn(entry, in.schema, rows)
                    ELSE AggregateColumn(entry, in.schema, rows)
           descriptor == EntryDescriptor(entry, in.schema)
<1>1. /\ DOMAIN required \subseteq Nat
      /\ \A i \in DOMAIN required : Failed(required[i]) => required[i] \in Errors
      /\ (\A i \in DOMAIN required : ~ Failed(required[i])) /\ entry.function \in Rankings =>
           \A r \in DOMAIN rows : ~ Failed(Failures(OrderKeys(entry.order, in.schema, rows))[r])
  BY WindowRequiredFacts
<1>2. WindowColumn(entry, in.schema, rows) = Unless(failure, rows, found)
  BY DEF WindowColumn, WindowRequired
<1>3. DOMAIN found = DOMAIN rows
  BY DEF RankingColumn, Ranks, AggregateColumn, Aggregates
<1> HIDE DEF found
<1> HIDE DEF required
<1>4. \/ failure \in Errors
      \/ failure = Null /\ \A i \in DOMAIN required : ~ Failed(required[i])
  BY <1>1, RequireFacts
<1>5. descriptor \in Descriptors
  <2>1. CASE entry.function \in Rankings
    <3>1. Descriptor("INT64", FALSE) \in Descriptors
      BY DescriptorType DEF Scalars
    <3>2. descriptor = Descriptor("INT64", FALSE)
      BY <2>1, RankingDescriptor
    <3> QED
      BY <3>1, <3>2
  <2>2. CASE entry.function \notin Rankings
    <3>1. /\ entry \in Entries /\ entry.function \in AggregateFunctions
          /\ EntryDescriptor(entry, in.schema) # Invalid
      BY <2>2 DEF WindowEntry
    <3> QED
      BY <3>1, EntryDescriptorType
  <2> QED
    BY <2>1, <2>2
<1> HIDE DEF failure
<1>6. CASE failure \in Errors
  <2>1. Unless(failure, rows, found) = [r \in DOMAIN rows |-> failure]
    BY <1>6, NullFacts DEF Unless
  <2>2. Fits(failure, descriptor)
    BY <1>6 DEF Fits
  <2> QED
    BY <1>2, <1>5, <2>1, <2>2
<1>7. CASE failure = Null /\ \A i \in DOMAIN required : ~ Failed(required[i])
  <2>1. Unless(failure, rows, found) = found
    BY <1>7 DEF Unless
  <2>2. ASSUME NEW r \in DOMAIN rows
        PROVE  Fits(found[r], descriptor)
    <3>1. CASE entry.function \in Rankings
      <4>1. Fits(RankingColumn(entry, in.schema, rows)[r], Descriptor("INT64", FALSE))
        BY <1>1, <1>7, <3>1, RankingFits
      <4> QED
        BY <3>1, <4>1, RankingDescriptor DEF found
    <3>2. CASE entry.function \notin Rankings
      BY <3>2, AggregateColumnFits DEF found
    <3> QED
      BY <3>1, <3>2
  <2> QED
    BY <1>2, <1>3, <1>5, <2>1, <2>2
<1> QED
  BY <1>4, <1>6, <1>7

(* The columns of a Window node, and the row they add to each row. *)
ColumnsOf(node, schema, rows) ==
  [k \in DOMAIN node.entries |-> WindowColumn(node.entries[k], schema, rows)]

(* A Window node gives rows of its schema, or an error.                   *)
LEMMA WindowGood ==
  ASSUME NEW node, IsNode(node), node.kind = "window", NEW in, IsSchema(in.schema),
         AcceptsWindow(node, in), NEW rows \in Seq(RowsOf(in.schema))
  PROVE  /\ IsSchema(WindowProperties(node, in).schema)
         /\ IsSchema(EntrySchema(node.entries, in.schema))
         /\ WindowProperties(node, in).schema = in.schema \o EntrySchema(node.entries, in.schema)
         /\ Good(EvaluateWindow(node, in.schema, rows), WindowProperties(node, in).schema)
<1> DEFINE columns == ColumnsOf(node, in.schema, rows)
           count == Len(node.entries)
           added == EntrySchema(node.entries, in.schema)
           schema == in.schema \o added
           out == [r \in DOMAIN rows |-> rows[r] \o [k \in DOMAIN columns |-> columns[k][r]]]
           failures == Failures(columns)
<1>1. /\ node.entries \in Seq(Entries) /\ count \in Nat /\ DOMAIN node.entries = 1 .. count
      /\ \A i \in 1 .. count : WindowEntry(node.entries[i], in)
  BY WindowEntries
<1>2. \A i \in 1 .. count :
        /\ DOMAIN WindowColumn(node.entries[i], in.schema, rows) = DOMAIN rows
        /\ EntryDescriptor(node.entries[i], in.schema) \in Descriptors
        /\ \A r \in DOMAIN rows :
             Fits(WindowColumn(node.entries[i], in.schema, rows)[r], EntryDescriptor(node.entries[i], in.schema))
  BY <1>1, ColumnFits
<1>3. DOMAIN columns = 1 .. count /\ \A i \in 1 .. count : columns[i] = WindowColumn(node.entries[i], in.schema, rows)
  BY <1>1 DEF ColumnsOf
<1>4. /\ IsSchema(added) /\ Len(added) = count /\ DOMAIN added = 1 .. count
      /\ \A i \in 1 .. count : added[i].descriptor = EntryDescriptor(node.entries[i], in.schema)
  BY <1>1, <1>2, EntrySchemaFacts
<1>5. WindowProperties(node, in).schema = schema
  BY DEF WindowProperties, BagOf, Properties
<1>6. IsSchema(schema)
  BY <1>4, SchemaConcat
<1>7. EvaluateWindow(node, in.schema, rows) = Complete(failures, out)
  BY DEF EvaluateWindow, WithColumns, ColumnsOf
<1>8. \A i \in 1 .. count : /\ DOMAIN columns[i] = DOMAIN rows /\ added[i].descriptor \in Descriptors
                            /\ \A r \in DOMAIN rows : Fits(columns[i][r], added[i].descriptor)
  BY <1>2, <1>3, <1>4
<1>0. DOMAIN rows = 1 .. Len(rows) /\ Len(rows) \in Nat /\ DOMAIN rows \subseteq Nat
  OBVIOUS
<1> HIDE DEF columns, added, schema
<1>9. /\ DOMAIN failures = 1 .. count /\ DOMAIN failures \subseteq Nat
      /\ \A i \in DOMAIN failures :
           \/ \E r \in DOMAIN rows : Failed(columns[i][r]) /\ failures[i] = columns[i][r]
           \/ (\A r \in DOMAIN rows : ~ Failed(columns[i][r])) /\ failures[i] = Null
  <2>1. DOMAIN columns \subseteq Nat /\ \A i \in DOMAIN columns : DOMAIN columns[i] \subseteq Nat
    BY <1>0, <1>1, <1>3, <1>8
  <2> QED
    BY <2>1, <1>3, <1>8, FailuresFacts
<1> HIDE DEF failures
<1>10. \A i \in DOMAIN failures : Failed(failures[i]) => failures[i] \in Errors
  <2> TAKE i \in DOMAIN failures
  <2> HAVE Failed(failures[i])
  <2>1. PICK r \in DOMAIN rows : Failed(columns[i][r]) /\ failures[i] = columns[i][r]
    BY <1>9, NullFacts
  <2>2. Fits(columns[i][r], added[i].descriptor) /\ added[i].descriptor \in Descriptors
    BY <1>8, <1>9
  <2> QED
    BY <2>1, <2>2, FitsFacts
<1>11. ASSUME \A i \in DOMAIN failures : ~ Failed(failures[i])
       PROVE  out \in Seq(RowsOf(schema))
  <2>1. \A i \in 1 .. count, r \in DOMAIN rows : ~ Failed(columns[i][r])
    BY <1>9, <1>11
  <2>2. \A i \in 1 .. count, r \in DOMAIN rows : Cell(columns[i][r], added[i].descriptor)
    BY <1>8, <2>1, CellFacts
  <2>3. ASSUME NEW r \in DOMAIN rows
        PROVE  rows[r] \o [k \in DOMAIN columns |-> columns[k][r]] \in RowsOf(schema)
    <3> DEFINE row == [k \in DOMAIN columns |-> columns[k][r]]
    <3>1. row \in RowsOf(added)
      BY <1>3, <1>4, <2>2, RowFacts
    <3>2. rows[r] \in RowsOf(in.schema)
      OBVIOUS
    <3> HIDE DEF row
    <3>3. rows[r] \o row \in RowsOf(schema)
      BY <1>4, <3>1, <3>2, RowConcat DEF schema
    <3> QED
      BY <3>3 DEF row
  <2>4. out = [r \in 1 .. Len(rows) |-> out[r]] /\ \A r \in 1 .. Len(rows) : out[r] \in RowsOf(schema)
    BY <1>0, <2>3
  <2> HIDE DEF out
  <2> QED
    BY <1>0, <2>4, SequenceIntro
<1> HIDE DEF out
<1>12. Good(Complete(failures, out), schema)
  BY <1>9, <1>10, <1>11, CompleteFacts
<1> QED
  BY <1>4, <1>5, <1>6, <1>7, <1>12 DEF schema, added

-----------------------------------------------------------------------------
(* Fields and value keys. *)

(* In a schema that names no field twice, a field is found where it is.   *)
LEMMA DistinctPositions ==
  ASSUME NEW schema, DistinctFields(schema), NEW i \in DOMAIN schema
  PROVE  FieldPosition(schema, schema[i].id) = i /\ schema[i].id \in FieldIds(schema)
<1>1. schema[i].id \in FieldIds(schema)
  BY DEF FieldIds
<1>2. /\ FieldPosition(schema, schema[i].id) \in DOMAIN schema
      /\ schema[FieldPosition(schema, schema[i].id)].id = schema[i].id
  BY <1>1, PositionFacts
<1> QED
  BY <1>1, <1>2 DEF DistinctFields

(* Two rows that agree on a key are the same. *)
Identifies(key, schema, rows) ==
  /\ key \subseteq FieldIds(schema)
  /\ \A r, s \in Range(rows) :
       (\A f \in key : r[FieldPosition(schema, f)] = s[FieldPosition(schema, f)]) => r = s

(* Rows that agree on all fields are the same: add_complete_key.          *)
LEMMA AllFieldsIdentify ==
  ASSUME NEW schema, DistinctFields(schema), NEW rows \in Seq(RowsOf(schema))
  PROVE  Identifies(FieldIds(schema), schema, rows)
<1>1. Range(rows) \subseteq RowsOf(schema)
  BY DEF Range
<1>2. ASSUME NEW r \in RowsOf(schema), NEW s \in RowsOf(schema),
             \A f \in FieldIds(schema) : r[FieldPosition(schema, f)] = s[FieldPosition(schema, f)]
      PROVE  r = s
  <2>1. \A i \in DOMAIN schema : r[i] = s[i]
    BY <1>2, DistinctPositions
  <2>2. r = [i \in DOMAIN schema |-> r[i]] /\ s = [i \in DOMAIN schema |-> s[i]]
    BY RowFacts
  <2> QED
    BY <2>1, <2>2
<1> QED
  BY <1>1, <1>2 DEF Identifies

(* A value key is one of fewer rows as well.                              *)
LEMMA FewerRows ==
  ASSUME NEW key, NEW schema, NEW rows, Identifies(key, schema, rows), NEW fewer,
         Range(fewer) \subseteq Range(rows)
  PROVE  Identifies(key, schema, fewer)
BY DEF Identifies

(* Any fields are a value key of no rows.                                 *)
LEMMA NoRows ==
  ASSUME NEW key, NEW schema, key \subseteq FieldIds(schema)
  PROVE  Identifies(key, schema, <<>>)
BY DEF Identifies, Range

(* Chosen rows are among the rows.                                        *)
LEMMA PickRange ==
  ASSUME NEW S, NEW rows \in Seq(S), NEW indices \in Seq(DOMAIN rows)
  PROVE  Range(Pick(rows, indices)) \subseteq Range(rows)
BY PickFacts DEF Range

(* A node that fails gives no rows.                                       *)
LEMMA CompleteCases ==
  ASSUME NEW required, NEW rows
  PROVE  Complete(required, rows).failure # Null => Complete(required, rows).rows = <<>>
BY DEF Complete, Result

(* Schemas without a common field, one after the other.                   *)
LEMMA DistinctConcat ==
  ASSUME NEW s, IsSchema(s), NEW t, IsSchema(t), DistinctFields(s), DistinctFields(t),
         FieldIds(s) \cap FieldIds(t) = {}
  PROVE  DistinctFields(s \o t)
<1> DEFINE m == Len(s)
           n == Len(t)
           u == s \o t
<1>1. m \in Nat /\ n \in Nat /\ DOMAIN s = 1 .. m /\ DOMAIN t = 1 .. n
  BY SchemaFacts
<1>2. /\ IsSchema(u) /\ Len(u) = m + n
      /\ \A i \in 1 .. m : u[i] = s[i]
      /\ \A i \in 1 .. n : u[m + i] = t[i]
  BY SchemaConcat
<1>3. DOMAIN u = 1 .. m + n
  BY <1>2, SchemaFacts
<1>4. \A i \in 1 .. m : s[i].id \in FieldIds(s)
  BY <1>1, SchemaFacts
<1>5. \A i \in 1 .. n : t[i].id \in FieldIds(t)
  BY <1>1, SchemaFacts
<1> HIDE DEF m, n, u
<1>6. \A i \in 1 .. m + n : i \in 1 .. m \/ (i - m \in 1 .. n /\ i = m + (i - m))
  BY <1>1
<1>7. \A i \in 1 .. m + n : \/ i \in 1 .. m /\ u[i] = s[i]
                            \/ i - m \in 1 .. n /\ u[i] = t[i - m]
  BY <1>2, <1>6
<1>8. ASSUME NEW i \in 1 .. m + n, NEW j \in 1 .. m + n, u[i].id = u[j].id
      PROVE  i = j
  <2>1. CASE i \in 1 .. m /\ u[i] = s[i] /\ j \in 1 .. m /\ u[j] = s[j]
    BY <1>1, <1>8, <2>1 DEF DistinctFields
  <2>2. CASE i \in 1 .. m /\ u[i] = s[i] /\ j - m \in 1 .. n /\ u[j] = t[j - m]
    BY <1>4, <1>5, <1>8, <2>2
  <2>3. CASE i - m \in 1 .. n /\ u[i] = t[i - m] /\ j \in 1 .. m /\ u[j] = s[j]
    BY <1>4, <1>5, <1>8, <2>3
  <2>4. CASE i - m \in 1 .. n /\ u[i] = t[i - m] /\ j - m \in 1 .. n /\ u[j] = t[j - m]
    <3>1. i - m = j - m
      BY <1>1, <1>8, <2>4 DEF DistinctFields
    <3> QED
      BY <3>1, <1>1
  <2> QED
    BY <1>7, <2>1, <2>2, <2>3, <2>4
<1> QED
  BY <1>3, <1>8 DEF DistinctFields, u

(* A schema with the fields of another is as distinct. *)
LEMMA DistinctIds ==
  ASSUME NEW s, NEW t, DOMAIN s = DOMAIN t, \A i \in DOMAIN s : s[i].id = t[i].id, DistinctFields(s)
  PROVE  DistinctFields(t)
BY DEF DistinctFields

(* The fields of a join, in the order of its sides. *)
JoinedFields(schema, how, s, t) ==
  LET u == schema
  IN /\ IsSchema(u) /\ Len(u) = Len(s) + Len(t)
     /\ FieldIds(u) = FieldIds(s) \cup FieldIds(t)
     /\ \A i \in 1 .. Len(s) : u[i].id = s[i].id
     /\ \A i \in 1 .. Len(t) : u[Len(s) + i].id = t[i].id
     /\ \A l \in RowsOf(s), r \in RowsOf(t) : l \o r \in RowsOf(u)
     /\ how \in {"left", "full"} => \A l \in RowsOf(s) : l \o Nulls(Len(t)) \in RowsOf(u)
     /\ how \in {"right", "full"} => \A r \in RowsOf(t) : Nulls(Len(s)) \o r \in RowsOf(u)

(* The schema of a join has the fields of both sides.                     *)
LEMMA JoinSchemaFields ==
  ASSUME NEW how, NEW s, IsSchema(s), NEW t, IsSchema(t)
  PROVE  JoinedFields(JoinSchema(how, s, t), how, s, t)
BY JoinSchemaFacts DEF JoinedFields

(* The schema of a join names no field twice.                             *)
LEMMA JoinDistinct ==
  ASSUME NEW how, NEW s, IsSchema(s), NEW t, IsSchema(t), DistinctFields(s), DistinctFields(t),
         FieldIds(s) \cap FieldIds(t) = {}
  PROVE  DistinctFields(JoinSchema(how, s, t))
<1> DEFINE joined == JoinSchema(how, s, t)
           m == Len(s)
           n == Len(t)
<1>1. m \in Nat /\ n \in Nat
  BY SchemaFacts
<1>2. /\ IsSchema(joined) /\ Len(joined) = m + n
      /\ \A i \in 1 .. m : joined[i].id = s[i].id
      /\ \A i \in 1 .. n : joined[m + i].id = t[i].id
  <2>1. JoinedFields(joined, how, s, t)
    BY JoinSchemaFields
  <2> QED
    BY <2>1 DEF JoinedFields
<1>3. /\ IsSchema(s \o t) /\ Len(s \o t) = m + n
      /\ \A i \in 1 .. m : (s \o t)[i] = s[i]
      /\ \A i \in 1 .. n : (s \o t)[m + i] = t[i]
  BY SchemaConcat
<1>4. DOMAIN joined = 1 .. m + n /\ DOMAIN (s \o t) = 1 .. m + n
  BY <1>2, <1>3, SchemaFacts
<1> HIDE DEF joined, m, n
<1>5. \A i \in 1 .. m + n : i \in 1 .. m \/ (i - m \in 1 .. n /\ i = m + (i - m))
  BY <1>1
<1>6. \A i \in 1 .. m + n : (s \o t)[i].id = joined[i].id
  BY <1>2, <1>3, <1>5, SMTT(30)
<1>7. DistinctFields(s \o t)
  BY DistinctConcat
<1> QED
  BY <1>4, <1>6, <1>7, DistinctIds DEF joined

(* A schema made of the outputs names no field twice.                     *)
LEMMA OutputFields ==
  ASSUME NEW node, OutputsDiffer(node), NEW schema, DOMAIN schema = DOMAIN node.entries,
         \A i \in DOMAIN node.entries : schema[i].id = node.entries[i].output
  PROVE  DistinctFields(schema) /\ FieldIds(schema) = {node.entries[i].output : i \in DOMAIN node.entries}
BY DEF OutputsDiffer, DistinctFields, FieldIds

(* What Introduces(node) has of an entry.                                 *)
LEMMA IntroducedFacts ==
  ASSUME NEW node, NEW i \in DOMAIN node.entries,
         node.entries[i].function \notin {"keep", "predicate", "items"}
  PROVE  node.entries[i].output \in Introduces(node)
BY DEF Introduces, Range

(* What a projection keeps. *)
LEMMA ProjectIds ==
  ASSUME NEW node, IsNode(node), node.kind = "project", NEW in, IsSchema(in.schema),
         AcceptsProject(node, in), OutputsDiffer(node)
  PROVE  LET schema == ProjectProperties(node, in).schema
         IN /\ DOMAIN schema = DOMAIN node.entries
            /\ \A i \in DOMAIN node.entries : schema[i].id = node.entries[i].output
            /\ \A i \in DOMAIN node.entries : FieldPosition(schema, node.entries[i].output) = i
            /\ DistinctFields(schema)
            /\ FieldIds(schema) = {node.entries[i].output : i \in DOMAIN node.entries}
<1> DEFINE new == ProjectProperties(node, in).schema
<1>1. DOMAIN new = DOMAIN node.entries /\ \A i \in DOMAIN node.entries : new[i] = ProjectField(node.entries[i], in)
  BY DEF ProjectProperties, Properties
<1>2. DOMAIN node.entries = 1 .. Len(node.entries)
  BY NodeFacts
<1>3. \A i \in DOMAIN node.entries : ProjectField(node.entries[i], in).id = node.entries[i].output
  <2> TAKE i \in DOMAIN node.entries
  <2> DEFINE entry == node.entries[i]
  <2>1. \/ /\ entry.output \in FieldIds(in.schema)
           /\ ProjectField(entry, in) = in.schema[FieldPosition(in.schema, entry.output)]
        \/ ProjectField(entry, in) = Field(entry.output, entry.args[1].descriptor)
    BY <1>2, ProjectEntry
  <2> HIDE DEF entry
  <2>2. ProjectField(entry, in).id = entry.output
    BY <2>1, PositionFacts, FieldValues
  <2> QED
    BY <2>2 DEF entry
<1> HIDE DEF new
<1>4. \A i \in DOMAIN node.entries : new[i].id = node.entries[i].output
  BY <1>1, <1>3
<1>5. DistinctFields(new) /\ FieldIds(new) = {node.entries[i].output : i \in DOMAIN node.entries}
  BY <1>1, <1>4, OutputFields
<1>6. \A i \in DOMAIN node.entries : FieldPosition(new, node.entries[i].output) = i
  BY <1>1, <1>4, <1>5, DistinctPositions
<1> QED
  BY <1>1, <1>4, <1>5, <1>6 DEF new

(* The same, for one schema and one row. *)
Projected(node, in, schema) ==
  /\ DOMAIN schema = DOMAIN node.entries
  /\ \A i \in DOMAIN node.entries : schema[i].id = node.entries[i].output
  /\ \A i \in DOMAIN node.entries : FieldPosition(schema, node.entries[i].output) = i
  /\ DistinctFields(schema)
  /\ FieldIds(schema) = {node.entries[i].output : i \in DOMAIN node.entries}
  /\ \A f \in Kept(node) : f \in FieldIds(schema)
  /\ \A f \in Kept(node) : \A row :
       EntryValue(node.entries[FieldPosition(schema, f)], in.schema, row) = row[FieldPosition(in.schema, f)]
  /\ \A f \in Kept(node) : FieldPosition(schema, f) \in DOMAIN node.entries

(* An accepted projection has these facts.                                *)
LEMMA ProjectedFacts ==
  ASSUME NEW node, IsNode(node), node.kind = "project", NEW in, IsSchema(in.schema),
         AcceptsProject(node, in), OutputsDiffer(node)
  PROVE  Projected(node, in, ProjectProperties(node, in).schema)
<1> DEFINE new == ProjectProperties(node, in).schema
<1>1. /\ DOMAIN new = DOMAIN node.entries
      /\ \A i \in DOMAIN node.entries : new[i].id = node.entries[i].output
      /\ \A i \in DOMAIN node.entries : FieldPosition(new, node.entries[i].output) = i
      /\ DistinctFields(new)
      /\ FieldIds(new) = {node.entries[i].output : i \in DOMAIN node.entries}
  BY ProjectIds
<1> HIDE DEF new
<1>2. ASSUME NEW f \in Kept(node)
      PROVE  /\ f \in FieldIds(new) /\ FieldPosition(new, f) \in DOMAIN node.entries
             /\ \A row : EntryValue(node.entries[FieldPosition(new, f)], in.schema, row)
                           = row[FieldPosition(in.schema, f)]
  <2>1. PICK j \in DOMAIN node.entries : node.entries[j].function = "keep" /\ node.entries[j].output = f
    BY DEF Kept
  <2>2. FieldPosition(new, f) = j
    BY <1>1, <2>1
  <2>3. \A row : EntryValue(node.entries[j], in.schema, row) = row[FieldPosition(in.schema, f)]
    BY <2>1 DEF EntryValue
  <2> QED
    BY <1>1, <2>1, <2>2, <2>3
<1> QED
  BY <1>1, <1>2 DEF Projected, new

ProjectedRows(node, in, rows) ==
  [r \in DOMAIN rows |-> [k \in DOMAIN node.entries |-> EntryValue(node.entries[k], in.schema, rows[r])]]

(* A value key whose fields are kept is one of the projection.            *)
LEMMA ProjectIdentifies ==
  ASSUME NEW node, NEW in, NEW schema, Projected(node, in, schema), NEW rows,
         NEW key, key \subseteq Kept(node), Identifies(key, in.schema, rows)
  PROVE  Identifies(key, schema, ProjectedRows(node, in, rows))
<1> DEFINE out == ProjectedRows(node, in, rows)
<1>1. key \subseteq FieldIds(schema)
  BY DEF Projected
<1>2. DOMAIN out = DOMAIN rows
  BY DEF ProjectedRows
<1>3. \A p \in DOMAIN rows : \A f \in key : out[p][FieldPosition(schema, f)] = rows[p][FieldPosition(in.schema, f)]
  <2> TAKE p \in DOMAIN rows
  <2> TAKE f \in key
  <2>1. FieldPosition(schema, f) \in DOMAIN node.entries
    BY DEF Projected
  <2>2. out[p][FieldPosition(schema, f)]
          = EntryValue(node.entries[FieldPosition(schema, f)], in.schema, rows[p])
    BY <2>1 DEF ProjectedRows
  <2> QED
    BY <2>2 DEF Projected
<1>4. \A p, q \in DOMAIN rows : rows[p] = rows[q] => out[p] = out[q]
  BY DEF ProjectedRows
<1> HIDE DEF out
<1>5. \A p, q \in DOMAIN rows :
        (\A f \in key : out[p][FieldPosition(schema, f)] = out[q][FieldPosition(schema, f)]) => out[p] = out[q]
  <2> SUFFICES ASSUME NEW p \in DOMAIN rows, NEW q \in DOMAIN rows,
                      \A f \in key : out[p][FieldPosition(schema, f)] = out[q][FieldPosition(schema, f)]
               PROVE  out[p] = out[q]
    OBVIOUS
  <2>1. \A f \in key : rows[p][FieldPosition(in.schema, f)] = rows[q][FieldPosition(in.schema, f)]
    BY <1>3
  <2>2. rows[p] \in Range(rows) /\ rows[q] \in Range(rows)
    BY DEF Range
  <2>3. rows[p] = rows[q]
    BY <2>1, <2>2 DEF Identifies
  <2> QED
    BY <2>3, <1>4
<1>6. \A r \in Range(out) : \E p \in DOMAIN rows : r = out[p]
  BY <1>2 DEF Range
<1> QED
  BY <1>1, <1>5, <1>6 DEF Identifies, out

(* Rows of one peer group agree on these fields. *)
ConstantPeers(groups, fields, schema, rows) ==
  /\ DOMAIN groups = DOMAIN rows
  /\ \A p, q \in DOMAIN rows : groups[p] = groups[q] =>
       \A f \in fields : rows[p][FieldPosition(schema, f)] = rows[q][FieldPosition(schema, f)]

(* Peer constants that are kept, or computed from peer constants alone.   *)
LEMMA ProjectConstant ==
  ASSUME NEW node, IsNode(node), node.kind = "project", NEW in, IsSchema(in.schema),
         AcceptsProject(node, in), NEW schema, Projected(node, in, schema), NEW rows,
         NEW groups, ConstantPeers(groups, in.peerConstant, in.schema, rows)
  PROVE  ConstantPeers(groups, ProjectPeers(node, in), schema, ProjectedRows(node, in, rows))
<1> DEFINE out == ProjectedRows(node, in, rows)
<1>1. DOMAIN out = DOMAIN rows
  BY DEF ProjectedRows
<1>2. \A p \in DOMAIN rows, k \in DOMAIN node.entries : out[p][k] = EntryValue(node.entries[k], in.schema, rows[p])
  BY DEF ProjectedRows
<1> HIDE DEF out
<1>3. ASSUME NEW p \in DOMAIN rows, NEW q \in DOMAIN rows, groups[p] = groups[q], NEW f \in ProjectPeers(node, in)
      PROVE  out[p][FieldPosition(schema, f)] = out[q][FieldPosition(schema, f)]
  <2>1. \A g \in in.peerConstant : rows[p][FieldPosition(in.schema, g)] = rows[q][FieldPosition(in.schema, g)]
    BY <1>3 DEF ConstantPeers
  <2>2. CASE f \in Kept(node) \cap in.peerConstant
    <3>1. FieldPosition(schema, f) \in DOMAIN node.entries
      BY <2>2 DEF Projected
    <3>2. \A row : EntryValue(node.entries[FieldPosition(schema, f)], in.schema, row) = row[FieldPosition(in.schema, f)]
      BY <2>2 DEF Projected
    <3> QED
      BY <1>2, <2>1, <2>2, <3>1, <3>2
  <2>3. CASE \E e \in Range(node.entries) : /\ e.output = f /\ e.function = "compute"
                                            /\ ReferencedFields(e.args[1]) \subseteq in.peerConstant
    <3>1. PICK j \in DOMAIN node.entries :
            /\ node.entries[j].output = f /\ node.entries[j].function = "compute"
            /\ ReferencedFields(node.entries[j].args[1]) \subseteq in.peerConstant
      BY <2>3 DEF Range
    <3>2. FieldPosition(schema, f) = j
      BY <3>1 DEF Projected
    <3>3. node.entries[j].args[1] \in Expressions
      <4>1. DOMAIN node.entries = 1 .. Len(node.entries)
        BY NodeFacts
      <4> QED
        BY <3>1, <4>1, ProjectEntry
    <3>4. Evaluate(node.entries[j].args[1], in.schema, rows[p]) = Evaluate(node.entries[j].args[1], in.schema, rows[q])
      BY <2>1, <3>1, <3>3, Locality
    <3>5. \A row : EntryValue(node.entries[j], in.schema, row) = Evaluate(node.entries[j].args[1], in.schema, row)
      BY <3>1 DEF EntryValue
    <3> QED
      BY <1>2, <3>2, <3>4, <3>5
  <2> QED
    BY <1>3, <2>2, <2>3 DEF ProjectPeers
<1> QED
  BY <1>1, <1>3 DEF ConstantPeers, out

(* The peer groups of rows chosen among others. *)
LEMMA PickConstant ==
  ASSUME NEW S, NEW rows \in Seq(S), NEW indices \in Seq(DOMAIN rows), NEW groups, NEW fields, NEW schema,
         ConstantPeers(groups, fields, schema, rows)
  PROVE  ConstantPeers(Pick(groups, indices), fields, schema, Pick(rows, indices))
<1>1. /\ DOMAIN Pick(rows, indices) = DOMAIN indices
      /\ \A k \in DOMAIN indices : Pick(rows, indices)[k] = rows[indices[k]] /\ indices[k] \in DOMAIN rows
  BY PickFacts
<1>2. /\ DOMAIN Pick(groups, indices) = DOMAIN indices
      /\ \A k \in DOMAIN indices : Pick(groups, indices)[k] = groups[indices[k]]
  BY DEF Pick
<1> QED
  BY <1>1, <1>2 DEF ConstantPeers

(* The keys of an Aggregate node tell its rows apart. *)
LEMMA GroupingKeys ==
  ASSUME NEW node, NEW k, Splits(node, k), Len(node.entries) \in Nat,
         DOMAIN node.entries = 1 .. Len(node.entries)
  PROVE  {e.output : e \in {x \in Range(node.entries) : x.function = "group"}}
           = {node.entries[i].output : i \in 1 .. k}
<1>1. \A i \in DOMAIN node.entries : node.entries[i].function = "group" <=> i \in 1 .. k
  <2> TAKE i \in DOMAIN node.entries
  <2>1. i \in 1 .. k \/ i \in k + 1 .. Len(node.entries)
    BY DEF Splits
  <2>2. i \in 1 .. k => node.entries[i].function = "group"
    BY DEF Splits
  <2>3. i \in k + 1 .. Len(node.entries) => node.entries[i].function # "group"
    BY DEF Splits, AggregateFunctions
  <2> QED
    BY <2>1, <2>2, <2>3
<1>2. 1 .. k \subseteq DOMAIN node.entries
  BY DEF Splits
<1> QED
  BY <1>1, <1>2 DEF Range

(* The grouping keys are a value key of the groups.                       *)
LEMMA AggregateIdentifies ==
  ASSUME NEW node, IsNode(node), node.kind = "aggregate", NEW in, IsSchema(in.schema),
         AcceptsAggregate(node, in), OutputsDiffer(node), NEW rows \in Seq(RowsOf(in.schema)),
         NEW k, Splits(node, k), NEW out, GivesGroups(node, in.schema, rows, k, out)
  PROVE  Identifies({e.output : e \in {x \in Range(node.entries) : x.function = "group"}},
                    EntrySchema(node.entries, in.schema), out)
<1> DEFINE fields == {node.entries[i].output : i \in 1 .. k}
           new == EntrySchema(node.entries, in.schema)
           keys == KeysOf(node, in.schema, rows)
           groups == GroupsOf(node, in.schema, rows)
           size == Len(node.entries)
<1>1. size \in Nat /\ DOMAIN node.entries = 1 .. size
  BY NodeFacts
<1>2. {e.output : e \in {x \in Range(node.entries) : x.function = "group"}} = fields
  BY <1>1, GroupingKeys
<1>3. DOMAIN new = DOMAIN node.entries /\ \A i \in DOMAIN node.entries : new[i].id = node.entries[i].output
  BY FieldValues DEF EntrySchema
<1>4. AggregateGrid(node, in.schema, rows, k)
  BY AggregateCells
<1>5. DOMAIN keys = 1 .. Len(rows) /\ \A r \in 1 .. Len(rows) : keys[r] = [i \in 1 .. k |-> keys[r][i]]
  BY <1>4 DEF AggregateGrid
<1>6. /\ k = 0 => groups = <<Positions(Len(rows))>>
      /\ k # 0 => Divides(groups, keys, Len(rows))
      /\ k # 0 => \A g \in DOMAIN groups : groups[g][1] \in DOMAIN rows
  BY GroupsOfFacts
<1>7. DOMAIN out = DOMAIN groups /\ \A g \in DOMAIN groups : \A i \in 1 .. k : out[g][i] = keys[groups[g][1]][i]
  BY DEF GivesGroups
<1>8. k \in 0 .. size
  BY DEF Splits
<1> HIDE DEF new, keys, groups, size
<1>9. DistinctFields(new) /\ FieldIds(new) = {node.entries[i].output : i \in DOMAIN node.entries}
  BY <1>3, OutputFields
<1>10. \A i \in 1 .. k : i \in DOMAIN node.entries /\ FieldPosition(new, node.entries[i].output) = i
  BY <1>1, <1>3, <1>8, <1>9, DistinctPositions
<1>11. fields \subseteq FieldIds(new)
  BY <1>9, <1>10
<1>12. ASSUME NEW g \in DOMAIN groups, NEW h \in DOMAIN groups,
              \A f \in fields : out[g][FieldPosition(new, f)] = out[h][FieldPosition(new, f)]
       PROVE  g = h
  <2>1. \A i \in 1 .. k : out[g][i] = out[h][i]
    BY <1>10, <1>12
  <2>2. CASE k = 0
    <3>1. groups = <<Positions(Len(rows))>>
      BY <1>6, <2>2
    <3>2. DOMAIN groups = {1}
      BY <3>1
    <3> QED
      BY <3>2
  <2>3. CASE k # 0
    <3>1. \A i \in 1 .. k : keys[groups[g][1]][i] = keys[groups[h][1]][i]
      BY <1>7, <2>1
    <3>2. groups[g][1] \in 1 .. Len(rows) /\ groups[h][1] \in 1 .. Len(rows)
      BY <1>6, <2>3
    <3>3. keys[groups[g][1]] = keys[groups[h][1]]
      BY <1>5, <3>1, <3>2
    <3> QED
      BY <1>6, <2>3, <3>3 DEF Divides
  <2> QED
    BY <2>2, <2>3
<1>13. \A r \in Range(out) : \E g \in DOMAIN groups : r = out[g]
  BY <1>7 DEF Range
<1> HIDE DEF fields
<1>14. Identifies(fields, new, out)
  BY <1>11, <1>12, <1>13 DEF Identifies
<1> QED
  BY <1>2, <1>14 DEF new

-----------------------------------------------------------------------------
(* Peer groups of sorted rows. *)
PeerNumbers(sorted, keys) ==
  [p \in DOMAIN sorted |-> Cardinality({q \in NewPeers(sorted, keys) : q <= p})]

(* Rows of one peer group have one sort key.                              *)
LEMMA PeersShareKeys ==
  ASSUME NEW n \in Nat, NEW sorted, DOMAIN sorted = 1 .. n, NEW keys,
         NEW p \in 1 .. n, NEW q \in 1 .. n, p <= q, PeerNumbers(sorted, keys)[p] = PeerNumbers(sorted, keys)[q]
  PROVE  keys[sorted[p]] = keys[sorted[q]]
<1> DEFINE fresh == NewPeers(sorted, keys)
           Before(x) == {y \in fresh : y <= x}
<1>1. fresh \subseteq 1 .. n
  BY DEF NewPeers
<1>2. \A x \in 1 .. n : x \notin fresh => x # 1 /\ keys[sorted[x]] = keys[sorted[x - 1]]
  BY DEF NewPeers
<1>3. Cardinality(Before(p)) = Cardinality(Before(q))
  BY DEF PeerNumbers
<1> HIDE DEF fresh
<1>4. Before(p) \subseteq Before(q) /\ Before(q) \subseteq 1 .. n
  <2>1. \A y \in fresh : y \in 1 .. n
    BY <1>1
  <2>2. \A y \in fresh : y <= p => y <= q
    BY <2>1
  <2> QED
    BY <2>1, <2>2
<1>5. IsFiniteSet(Before(q))
  BY <1>4, PositionSets
<1>6. Before(p) = Before(q)
  BY <1>3, <1>4, <1>5, FS_Subset
<1>7. \A x \in p + 1 .. q : x \notin fresh
  BY <1>1, <1>6
<1> DEFINE differ == {x \in p .. q : keys[sorted[x]] # keys[sorted[p]]}
<1>8. CASE differ = {}
  <2>1. q \in p .. q
    OBVIOUS
  <2> QED
    BY <1>8, <2>1
<1>9. CASE differ # {}
  <2>1. differ \in SUBSET Nat
    OBVIOUS
  <2>2. PICK x \in differ : \A y \in 0 .. x - 1 : y \notin differ
    BY <1>9, <2>1, LeastFacts
  <2>3. x \in p + 1 .. q /\ x - 1 \in p .. q /\ x - 1 \in 0 .. x - 1
    BY <2>2
  <2>4. keys[sorted[x - 1]] = keys[sorted[p]]
    BY <2>2, <2>3
  <2>5. keys[sorted[x]] = keys[sorted[x - 1]]
    BY <1>2, <1>7, <2>3
  <2> QED
    BY <2>2, <2>4, <2>5
<1> QED
  BY <1>8, <1>9

(* An item that is a field has the value of that field. *)
LEMMA ItemFieldValue ==
  ASSUME NEW schema, IsSchema(schema), NEW items \in Seq(OrderingItems), AcceptsItems(items, schema),
         NEW f \in ItemFields(items)
  PROVE  \E i \in DOMAIN items : \A row : Evaluate(items[i].expr, schema, row) = row[FieldPosition(schema, f)]
<1>1. PICK i \in DOMAIN items : items[i].expr.kind = "field" /\ items[i].expr.ref = f
  BY DEF ItemFields, DirectFields
<1> DEFINE e == items[i].expr
<1>2. e \in Expressions /\ Typed(e, schema)
  BY ItemFacts DEF AcceptsItems
<1>3. e.descriptor = DescriptorOf(e, schema, [j \in DOMAIN e.args |-> ValidateExpression(e.args[j], schema)])
      /\ e.descriptor \in Descriptors
  BY <1>2, TypedFacts
<1>4. e.kind = "field" /\ e.ref = f
  BY <1>1
<1> HIDE DEF e
<1>5. f \in FieldIds(schema)
  <2>1. ASSUME f \notin FieldIds(schema) PROVE FALSE
    <3>1. e.descriptor = Invalid
      BY <1>3, <1>4, <2>1 DEF DescriptorOf
    <3> QED
      BY <1>3, <3>1, DescriptorFacts
  <2> QED
    BY <2>1
<1>6. \A row : Evaluate(e, schema, row) = row[FieldPosition(schema, f)]
  <2> TAKE row
  <2>1. Evaluate(e, schema, row) = ValueOf(e, schema, row, [j \in DOMAIN e.args |-> Evaluate(e.args[j], schema, row)])
    BY <1>2, EvaluationEquation
  <2> QED
    BY <1>4, <1>5, <2>1 DEF ValueOf
<1> QED
  BY <1>6 DEF e

(* The fields that were sorted by are constant among peers.               *)
LEMMA OrderConstant ==
  ASSUME NEW schema, IsSchema(schema), NEW rows \in Seq(RowsOf(schema)), NEW items \in Seq(OrderingItems),
         AcceptsItems(items, schema), NEW sorted,
         InOrder(sorted, DOMAIN rows, OrderKeys(items, schema, rows), items)
  PROVE  ConstantPeers(PeerNumbers(sorted, OrderKeys(items, schema, rows)), ItemFields(items), schema,
                       Pick(rows, sorted))
<1> DEFINE found == OrderKeys(items, schema, rows)
           size == Cardinality(DOMAIN rows)
           numbers == PeerNumbers(sorted, found)
           out == Pick(rows, sorted)
<1>1. OrderGrid(items, schema, rows)
  BY OrderGridFacts
<1>2. \A r \in DOMAIN rows, i \in DOMAIN items : found[r][i] = Evaluate(items[i].expr, schema, rows[r])
  BY <1>1 DEF OrderGrid
<1> HIDE DEF found
<1>3. sorted \in Seq(DOMAIN rows) /\ DOMAIN sorted = 1 .. size /\ size \in Nat
  BY DEF InOrder
<1>4. /\ DOMAIN out = DOMAIN sorted
      /\ \A x \in DOMAIN sorted : out[x] = rows[sorted[x]] /\ sorted[x] \in DOMAIN rows
  BY <1>3, PickFacts
<1>5. DOMAIN numbers = DOMAIN sorted
  BY DEF PeerNumbers
<1> HIDE DEF size, numbers, out
<1>6. ASSUME NEW x \in DOMAIN sorted, NEW y \in DOMAIN sorted, numbers[x] = numbers[y]
      PROVE  found[sorted[x]] = found[sorted[y]]
  <2>1. /\ size \in Nat /\ DOMAIN sorted = 1 .. size /\ x \in 1 .. size /\ y \in 1 .. size
        /\ PeerNumbers(sorted, found)[x] = PeerNumbers(sorted, found)[y]
    BY <1>3, <1>6 DEF numbers
  <2>2. CASE x <= y
    BY <2>1, <2>2, PeersShareKeys
  <2>3. CASE y <= x
    BY <2>1, <2>3, PeersShareKeys
  <2> QED
    BY <2>1, <2>2, <2>3
<1>7. \A f \in ItemFields(items) :
        \E i \in DOMAIN items : \A row : Evaluate(items[i].expr, schema, row) = row[FieldPosition(schema, f)]
  BY ItemFieldValue
<1>8. ASSUME NEW x \in DOMAIN out, NEW y \in DOMAIN out, numbers[x] = numbers[y], NEW f \in ItemFields(items)
      PROVE  out[x][FieldPosition(schema, f)] = out[y][FieldPosition(schema, f)]
  <2>1. PICK i \in DOMAIN items : \A row : Evaluate(items[i].expr, schema, row) = row[FieldPosition(schema, f)]
    BY <1>7
  <2>2. found[sorted[x]][i] = found[sorted[y]][i]
    BY <1>4, <1>6, <1>8
  <2>3. found[sorted[x]][i] = out[x][FieldPosition(schema, f)] /\ found[sorted[y]][i] = out[y][FieldPosition(schema, f)]
    BY <1>2, <1>4, <2>1
  <2> QED
    BY <2>2, <2>3
<1> QED
  BY <1>4, <1>5, <1>8 DEF ConstantPeers, numbers, out, found

-----------------------------------------------------------------------------
(* The top of the graph: its properties, the fields in use, what it gives *)
(* the two hosts, and the peer groups of the rows it gives the first.     *)

SoundProperties(properties, fields) ==
  /\ DOMAIN properties = {"schema", "ordered", "valueKeys", "peerConstant"}
  /\ IsSchema(properties.schema) /\ DistinctFields(properties.schema)
  /\ FieldIds(properties.schema) \subseteq fields
  /\ \A side \in Sides : FieldIds(side.properties.schema) \subseteq fields

Sound(properties, fields, first, second, groups) ==
  /\ SoundProperties(properties, fields)
  /\ Good(first, properties.schema) /\ Good(second, properties.schema)
  /\ \A key \in properties.valueKeys : Identifies(key, properties.schema, first.rows)
  /\ properties.ordered /\ first.failure = Null /\ second.failure = Null =>
       ConstantPeers(groups, properties.peerConstant, properties.schema, first.rows)

(* What the properties of a node are, field by field. *)
HasProperties(properties, schema, ordered, keys, constants) ==
  /\ properties.schema = schema /\ properties.ordered = ordered
  /\ properties.valueKeys = keys /\ properties.peerConstant = constants
  /\ DOMAIN properties = {"schema", "ordered", "valueKeys", "peerConstant"}

(* The fields of Properties(...).                                         *)
LEMMA PropertiesFacts ==
  ASSUME NEW schema, NEW ordered, NEW keys, NEW constants
  PROVE  HasProperties(Properties(schema, ordered, keys, constants), schema, ordered, keys, constants)
BY DEF Properties, HasProperties

(* The fields of BagOf(...).                                              *)
LEMMA BagFacts ==
  ASSUME NEW schema, NEW keys
  PROVE  HasProperties(BagOf(schema, keys), schema, FALSE, keys \cup {FieldIds(schema)}, {})
BY PropertiesFacts DEF BagOf

(* The properties of an Order node, field by field.                       *)
LEMMA OrderedFacts ==
  ASSUME NEW in, DOMAIN in = {"schema", "ordered", "valueKeys", "peerConstant"}, NEW constants
  PROVE  HasProperties([in EXCEPT !.ordered = TRUE, !.peerConstant = constants],
                       in.schema, TRUE, in.valueKeys, constants)
<1> DEFINE p == [in EXCEPT !.ordered = TRUE, !.peerConstant = constants]
<1>1. /\ p.schema = in.schema /\ p.ordered = TRUE /\ p.peerConstant = constants
      /\ p.valueKeys = in.valueKeys /\ DOMAIN p = {"schema", "ordered", "valueKeys", "peerConstant"}
  OBVIOUS
<1> HIDE DEF p
<1>2. HasProperties(p, in.schema, TRUE, in.valueKeys, constants)
  BY <1>1 DEF HasProperties
<1> QED
  BY <1>2 DEF p

(* The properties of a ForgetOrder node, field by field.                  *)
LEMMA UnorderedFacts ==
  ASSUME NEW in, DOMAIN in = {"schema", "ordered", "valueKeys", "peerConstant"}
  PROVE  HasProperties([in EXCEPT !.ordered = FALSE, !.peerConstant = {}], in.schema, FALSE, in.valueKeys, {})
<1> DEFINE p == [in EXCEPT !.ordered = FALSE, !.peerConstant = {}]
<1>1. /\ p.schema = in.schema /\ p.ordered = FALSE /\ p.peerConstant = {}
      /\ p.valueKeys = in.valueKeys /\ DOMAIN p = {"schema", "ordered", "valueKeys", "peerConstant"}
  OBVIOUS
<1> HIDE DEF p
<1>2. HasProperties(p, in.schema, FALSE, in.valueKeys, {})
  BY <1>1 DEF HasProperties
<1> QED
  BY <1>2 DEF p

(* A bag with a schema and value keys that are true of its rows.          *)
LEMMA BagSound ==
  ASSUME NEW schema, NEW keys, NEW fields, NEW first, NEW second, NEW groups,
         IsSchema(schema), DistinctFields(schema), FieldIds(schema) \subseteq fields,
         \A side \in Sides : FieldIds(side.properties.schema) \subseteq fields,
         Good(first, schema), Good(second, schema),
         \A key \in keys : Identifies(key, schema, first.rows)
  PROVE  Sound(BagOf(schema, keys), fields, first, second, groups)
<1> DEFINE p == BagOf(schema, keys)
<1>1. /\ p.schema = schema /\ p.ordered = FALSE /\ p.valueKeys = keys \cup {FieldIds(schema)}
      /\ DOMAIN p = {"schema", "ordered", "valueKeys", "peerConstant"}
  <2>1. HasProperties(p, schema, FALSE, keys \cup {FieldIds(schema)}, {})
    BY BagFacts
  <2> HIDE DEF p
  <2> QED
    BY <2>1 DEF HasProperties
<1> HIDE DEF p
<1>2. Identifies(FieldIds(schema), schema, first.rows)
  BY AllFieldsIdentify DEF Good
<1>3. SoundProperties(p, fields)
  BY <1>1 DEF SoundProperties
<1>4. Sound(p, fields, first, second, groups)
  BY <1>1, <1>2, <1>3 DEF Sound
<1> QED
  BY <1>4 DEF p

(* What a sound top of the graph is.                                      *)
LEMMA SoundFacts ==
  ASSUME NEW in, NEW fields, NEW first, NEW second, NEW groups, Sound(in, fields, first, second, groups)
  PROVE  /\ IsSchema(in.schema) /\ DistinctFields(in.schema) /\ FieldIds(in.schema) \subseteq fields
         /\ \A side \in Sides : FieldIds(side.properties.schema) \subseteq fields
         /\ first.rows \in Seq(RowsOf(in.schema)) /\ second.rows \in Seq(RowsOf(in.schema))
         /\ Good(first, in.schema) /\ Good(second, in.schema)
         /\ \A key \in in.valueKeys : Identifies(key, in.schema, first.rows)
BY DEF Sound, SoundProperties, Good

(* Fewer rows with the same properties. *)
LEMMA SameProperties ==
  ASSUME NEW in, NEW fields, NEW first, NEW second, NEW groups, Sound(in, fields, first, second, groups),
         NEW more, NEW left, NEW right, NEW chosen,
         Good(left, in.schema), Good(right, in.schema), Range(left.rows) \subseteq Range(first.rows),
         in.ordered /\ left.failure = Null /\ right.failure = Null =>
           ConstantPeers(chosen, in.peerConstant, in.schema, left.rows)
  PROVE  Sound(in, fields \cup more, left, right, chosen)
<1>1. SoundProperties(in, fields \cup more)
  BY DEF Sound, SoundProperties
<1>2. \A key \in in.valueKeys : Identifies(key, in.schema, left.rows)
  BY FewerRows DEF Sound
<1> QED
  BY <1>1, <1>2 DEF Sound

(* A Filter node on top.                                                  *)
LEMMA FilterSound ==
  ASSUME NEW in, NEW fields, NEW first, NEW second, NEW groups, Sound(in, fields, first, second, groups),
         NEW node, IsNode(node), node.kind = "filter", AcceptsFilter(node, in),
         first.failure = Null, second.failure = Null, NEW chosen,
         in.ordered => chosen = Pick(groups, FilterIndices(node, in.schema, first.rows))
  PROVE  Sound(in, fields \cup Introduces(node), EvaluateFilter(node, in.schema, first.rows),
               EvaluateFilter(node, in.schema, second.rows), chosen)
<1> DEFINE indices == FilterIndices(node, in.schema, first.rows)
           left == EvaluateFilter(node, in.schema, first.rows)
           right == EvaluateFilter(node, in.schema, second.rows)
<1>1. IsSchema(in.schema) /\ first.rows \in Seq(RowsOf(in.schema)) /\ second.rows \in Seq(RowsOf(in.schema))
  BY SoundFacts
<1>2. Good(left, in.schema) /\ Good(right, in.schema) /\ indices \in Seq(DOMAIN first.rows)
  BY <1>1, FilterGood
<1>3. left.failure = Null => left.rows = Pick(first.rows, indices)
  BY <1>1, FilterGood
<1>4. left.failure # Null => left.rows = <<>>
  BY CompleteCases DEF EvaluateFilter
<1> HIDE DEF left, right, indices
<1>5. Range(left.rows) \subseteq Range(first.rows)
  <2>1. CASE left.failure = Null
    BY <1>1, <1>2, <1>3, <2>1, PickRange
  <2>2. CASE left.failure # Null
    <3>1. Range(left.rows) = {}
      BY <1>4, <2>2 DEF Range
    <3> QED
      BY <3>1
  <2> QED
    BY <2>1, <2>2
<1>6. ASSUME in.ordered, left.failure = Null
      PROVE  ConstantPeers(chosen, in.peerConstant, in.schema, left.rows)
  <2>1. ConstantPeers(groups, in.peerConstant, in.schema, first.rows)
    BY <1>6 DEF Sound
  <2>2. ConstantPeers(Pick(groups, indices), in.peerConstant, in.schema, Pick(first.rows, indices))
    BY <1>1, <1>2, <2>1, PickConstant
  <2> QED
    BY <1>3, <1>6, <2>2 DEF indices
<1>7. Sound(in, fields \cup Introduces(node), left, right, chosen)
  BY <1>2, <1>5, <1>6, SameProperties
<1> QED
  BY <1>7 DEF left, right

(* A Slice node on top.                                                   *)
LEMMA SliceSound ==
  ASSUME NEW in, NEW fields, NEW first, NEW second, NEW groups, Sound(in, fields, first, second, groups),
         NEW node, first.failure = Null, second.failure = Null, NEW chosen,
         in.ordered => chosen = Pick(groups, SliceIndices(node, Len(first.rows)))
  PROVE  Sound(in, fields \cup Introduces(node), EvaluateSlice(node, first.rows),
               EvaluateSlice(node, second.rows), chosen)
<1> DEFINE indices == SliceIndices(node, Len(first.rows))
           left == EvaluateSlice(node, first.rows)
           right == EvaluateSlice(node, second.rows)
<1>1. IsSchema(in.schema) /\ first.rows \in Seq(RowsOf(in.schema)) /\ second.rows \in Seq(RowsOf(in.schema))
  BY SoundFacts
<1>2. Good(left, in.schema) /\ Good(right, in.schema) /\ indices \in Seq(DOMAIN first.rows)
      /\ left.rows = Pick(first.rows, indices)
  BY <1>1, SliceGood
<1> HIDE DEF left, right, indices
<1>3. Range(left.rows) \subseteq Range(first.rows)
  BY <1>1, <1>2, PickRange
<1>4. ASSUME in.ordered
      PROVE  ConstantPeers(chosen, in.peerConstant, in.schema, left.rows)
  <2>1. ConstantPeers(groups, in.peerConstant, in.schema, first.rows)
    BY <1>4 DEF Sound
  <2>2. ConstantPeers(Pick(groups, indices), in.peerConstant, in.schema, Pick(first.rows, indices))
    BY <1>1, <1>2, <2>1, PickConstant
  <2> QED
    BY <1>2, <1>4, <2>2 DEF indices
<1>5. Sound(in, fields \cup Introduces(node), left, right, chosen)
  BY <1>2, <1>3, <1>4, SameProperties
<1> QED
  BY <1>5 DEF left, right

(* A Distinct node on top.                                                *)
LEMMA DistinctSound ==
  ASSUME NEW in, NEW fields, NEW first, NEW second, NEW groups, Sound(in, fields, first, second, groups),
         NEW more, NEW chosen
  PROVE  Sound(DistinctProperties(in), fields \cup more, EvaluateDistinct(first.rows),
               EvaluateDistinct(second.rows), chosen)
<1>1. /\ IsSchema(in.schema) /\ DistinctFields(in.schema) /\ FieldIds(in.schema) \subseteq fields
      /\ \A side \in Sides : FieldIds(side.properties.schema) \subseteq fields
      /\ first.rows \in Seq(RowsOf(in.schema)) /\ second.rows \in Seq(RowsOf(in.schema))
  BY SoundFacts
<1>2. Good(EvaluateDistinct(first.rows), in.schema) /\ Good(EvaluateDistinct(second.rows), in.schema)
  BY <1>1, DistinctGood
<1>3. FieldIds(in.schema) \subseteq fields \cup more
      /\ \A side \in Sides : FieldIds(side.properties.schema) \subseteq fields \cup more
  BY <1>1
<1> QED
  BY <1>1, <1>2, <1>3, BagSound DEF DistinctProperties

(* A ForgetOrder node on top.                                             *)
LEMMA ForgetSound ==
  ASSUME NEW in, NEW fields, NEW first, NEW second, NEW groups, Sound(in, fields, first, second, groups),
         NEW more, NEW chosen
  PROVE  Sound(ForgetOrderProperties(in), fields \cup more, Result(Null, first.rows),
               Result(Null, second.rows), chosen)
<1> DEFINE p == ForgetOrderProperties(in)
           left == Result(Null, first.rows)
           right == Result(Null, second.rows)
<1>1. DOMAIN in = {"schema", "ordered", "valueKeys", "peerConstant"}
  BY DEF Sound, SoundProperties
<1>2. HasProperties(p, in.schema, FALSE, in.valueKeys, {})
  BY <1>1, UnorderedFacts DEF ForgetOrderProperties
<1> HIDE DEF p
<1>3. /\ p.schema = in.schema /\ p.ordered = FALSE /\ p.valueKeys = in.valueKeys
      /\ DOMAIN p = {"schema", "ordered", "valueKeys", "peerConstant"}
  BY <1>2 DEF HasProperties
<1>4. /\ IsSchema(in.schema) /\ DistinctFields(in.schema) /\ FieldIds(in.schema) \subseteq fields
      /\ \A side \in Sides : FieldIds(side.properties.schema) \subseteq fields
      /\ first.rows \in Seq(RowsOf(in.schema)) /\ second.rows \in Seq(RowsOf(in.schema))
      /\ \A key \in in.valueKeys : Identifies(key, in.schema, first.rows)
  BY SoundFacts
<1>5. Good(left, in.schema) /\ Good(right, in.schema) /\ left.rows = first.rows
  BY <1>4, ResultFacts
<1> HIDE DEF p, left, right
<1>6. SoundProperties(p, fields \cup more)
  BY <1>3, <1>4 DEF SoundProperties
<1>7. Sound(p, fields \cup more, left, right, chosen)
  BY <1>3, <1>4, <1>5, <1>6 DEF Sound
<1> QED
  BY <1>7 DEF p, left, right

(* An Order node on top.                                                  *)
LEMMA OrderSound ==
  ASSUME NEW in, NEW fields, NEW first, NEW second, NEW groups, Sound(in, fields, first, second, groups),
         NEW node, IsNode(node), node.kind = "order", AcceptsOrder(node, in), NEW chosen,
         /\ EvaluateOrder(node, in.schema, first.rows).failure = Null
         /\ EvaluateOrder(node, in.schema, second.rows).failure = Null
         => chosen = PeerNumbers(OrderIndices(node, in.schema, first.rows),
                                 OrderKeys(node.entries[1].order, in.schema, first.rows))
  PROVE  Sound(OrderProperties(node, in), fields \cup Introduces(node),
               EvaluateOrder(node, in.schema, first.rows), EvaluateOrder(node, in.schema, second.rows), chosen)
<1> DEFINE p == OrderProperties(node, in)
           left == EvaluateOrder(node, in.schema, first.rows)
           right == EvaluateOrder(node, in.schema, second.rows)
           items == node.entries[1].order
           list == OrderIndices(node, in.schema, first.rows)
           more == Introduces(node)
<1>1. DOMAIN in = {"schema", "ordered", "valueKeys", "peerConstant"}
  BY DEF Sound, SoundProperties
<1>2. HasProperties(p, in.schema, TRUE, in.valueKeys, ItemFields(items))
  BY <1>1, OrderedFacts, Zenon DEF OrderProperties
<1> HIDE DEF p
<1>3. /\ p.schema = in.schema /\ p.ordered = TRUE /\ p.valueKeys = in.valueKeys
      /\ p.peerConstant = ItemFields(items)
      /\ DOMAIN p = {"schema", "ordered", "valueKeys", "peerConstant"}
  BY <1>2 DEF HasProperties
<1>4. /\ IsSchema(in.schema) /\ DistinctFields(in.schema) /\ FieldIds(in.schema) \subseteq fields
      /\ \A side \in Sides : FieldIds(side.properties.schema) \subseteq fields
      /\ first.rows \in Seq(RowsOf(in.schema)) /\ second.rows \in Seq(RowsOf(in.schema))
      /\ \A key \in in.valueKeys : Identifies(key, in.schema, first.rows)
  BY SoundFacts
<1>5. Good(left, in.schema) /\ Good(right, in.schema)
  BY <1>4, OrderGood
<1>6. left.failure = Null =>
        /\ left.rows = Pick(first.rows, list)
        /\ InOrder(list, DOMAIN first.rows, OrderKeys(items, in.schema, first.rows), items)
  BY <1>4, OrderGood
<1>7. left.failure # Null => left.rows = <<>>
  BY CompleteCases DEF EvaluateOrder
<1>8. items \in Seq(OrderingItems) /\ AcceptsItems(items, in.schema)
  BY OrderItems DEF AcceptsOrder
<1>9. left.failure = Null /\ right.failure = Null => chosen = PeerNumbers(list, OrderKeys(items, in.schema, first.rows))
  OBVIOUS
<1> HIDE DEF p, left, right, items, list, more
<1>10. SoundProperties(p, fields \cup more)
  BY <1>3, <1>4 DEF SoundProperties
<1>11. Range(left.rows) \subseteq Range(first.rows)
  <2>1. CASE left.failure = Null
    <3>1. list \in Seq(DOMAIN first.rows)
      BY <1>6, <2>1 DEF InOrder
    <3> QED
      BY <1>4, <1>6, <2>1, <3>1, PickRange
  <2>2. CASE left.failure # Null
    <3>1. Range(left.rows) = {}
      BY <1>7, <2>2 DEF Range
    <3> QED
      BY <3>1
  <2> QED
    BY <2>1, <2>2
<1>12. \A key \in p.valueKeys : Identifies(key, in.schema, left.rows)
  BY <1>3, <1>4, <1>11, FewerRows
<1>13. ASSUME left.failure = Null, right.failure = Null
       PROVE  ConstantPeers(chosen, p.peerConstant, p.schema, left.rows)
  BY <1>3, <1>4, <1>6, <1>8, <1>9, <1>13, OrderConstant
<1>14. Sound(p, fields \cup more, left, right, chosen)
  BY <1>3, <1>5, <1>10, <1>12, <1>13 DEF Sound
<1> QED
  BY <1>14 DEF p, left, right, more

(* A Project node on top.                                                 *)
LEMMA ProjectSound ==
  ASSUME NEW in, NEW fields, NEW first, NEW second, NEW groups, Sound(in, fields, first, second, groups),
         NEW node, IsNode(node), node.kind = "project", AcceptsProject(node, in), OutputsDiffer(node),
         first.failure = Null, second.failure = Null
  PROVE  Sound(ProjectProperties(node, in), fields \cup Introduces(node),
               EvaluateProject(node, in.schema, first.rows), EvaluateProject(node, in.schema, second.rows),
               groups)
<1> DEFINE p == ProjectProperties(node, in)
           new == p.schema
           left == EvaluateProject(node, in.schema, first.rows)
           right == EvaluateProject(node, in.schema, second.rows)
           more == Introduces(node)
<1>1. /\ IsSchema(in.schema) /\ DistinctFields(in.schema) /\ FieldIds(in.schema) \subseteq fields
      /\ \A side \in Sides : FieldIds(side.properties.schema) \subseteq fields
      /\ first.rows \in Seq(RowsOf(in.schema)) /\ second.rows \in Seq(RowsOf(in.schema))
      /\ \A key \in in.valueKeys : Identifies(key, in.schema, first.rows)
  BY SoundFacts
<1>2. /\ p.ordered = in.ordered /\ p.valueKeys = ProjectKeys(node, in) \cup {FieldIds(new)}
      /\ p.peerConstant = ProjectPeers(node, in)
      /\ DOMAIN p = {"schema", "ordered", "valueKeys", "peerConstant"}
  BY DEF ProjectProperties, Properties
<1>3. IsSchema(new) /\ Good(left, new) /\ Good(right, new)
  BY <1>1, ProjectGood
<1>4. left.failure = Null => left.rows = ProjectedRows(node, in, first.rows)
  BY <1>1, ProjectGood DEF ProjectedRows
<1>5. left.failure # Null => left.rows = <<>>
  BY CompleteCases DEF EvaluateProject, AllValues
<1>6. Projected(node, in, new)
  BY <1>1, ProjectedFacts
<1>7. FieldIds(new) \subseteq fields \cup more
  <2>1. FieldIds(new) = {node.entries[i].output : i \in DOMAIN node.entries}
    BY <1>6 DEF Projected
  <2>2. ASSUME NEW i \in DOMAIN node.entries
        PROVE  node.entries[i].output \in fields \cup more
    <3>1. DOMAIN node.entries = 1 .. Len(node.entries)
      BY NodeFacts
    <3>2. \/ node.entries[i].function = "keep" /\ node.entries[i].output \in FieldIds(in.schema)
          \/ node.entries[i].function = "compute"
      BY <1>1, <3>1, ProjectEntry
    <3> QED
      BY <1>1, <3>2, IntroducedFacts
  <2> QED
    BY <2>1, <2>2
<1> HIDE DEF left, right, more, p
<1>8. SoundProperties(p, fields \cup more)
  BY <1>1, <1>2, <1>3, <1>6, <1>7 DEF SoundProperties, Projected
<1>9. ASSUME NEW key \in p.valueKeys
      PROVE  Identifies(key, new, left.rows)
  <2>1. CASE key = FieldIds(new)
    BY <1>3, <1>6, <2>1, AllFieldsIdentify DEF Good, Projected
  <2>2. CASE key # FieldIds(new)
    <3>1. key \in in.valueKeys /\ key \subseteq Kept(node)
      BY <1>2, <1>9, <2>2 DEF ProjectKeys
    <3>2. CASE left.failure = Null
      BY <1>1, <1>4, <1>6, <3>1, <3>2, ProjectIdentifies
    <3>3. CASE left.failure # Null
      BY <1>5, <1>6, <3>1, <3>3, NoRows DEF Projected
    <3> QED
      BY <3>2, <3>3
  <2> QED
    BY <2>1, <2>2
<1>10. ASSUME p.ordered, left.failure = Null
       PROVE  ConstantPeers(groups, p.peerConstant, new, left.rows)
  <2>1. ConstantPeers(groups, in.peerConstant, in.schema, first.rows)
    BY <1>2, <1>10 DEF Sound
  <2>2. ConstantPeers(groups, ProjectPeers(node, in), new, ProjectedRows(node, in, first.rows))
    BY <1>1, <1>6, <2>1, ProjectConstant
  <2> QED
    BY <1>2, <1>4, <1>10, <2>2
<1>11. Sound(p, fields \cup more, left, right, groups)
  BY <1>3, <1>8, <1>9, <1>10 DEF Sound
<1> QED
  BY <1>11 DEF p, left, right, more

(* The other graphs, and their rows in the reverse order. *)
LEMMA SideFacts ==
  ASSUME NEW side \in Sides
  PROVE  /\ IsSchema(side.properties.schema) /\ DistinctFields(side.properties.schema)
         /\ side.rows \in Seq(RowsOf(side.properties.schema))
         /\ Reverse(side.rows) \in Seq(RowsOf(side.properties.schema))
<1> DEFINE R == RowsOf(side.properties.schema)
           n == Len(side.rows)
<1>1. IsSchema(side.properties.schema) /\ DistinctFields(side.properties.schema) /\ side.rows \in Seq(R)
  BY SidesAssumption
<1>2. n \in Nat /\ DOMAIN side.rows = 1 .. n
  BY <1>1
<1>3. Reverse(side.rows) = [i \in 1 .. n |-> side.rows[(n - i) + 1]]
  BY DEF Reverse
<1>4. \A i \in 1 .. n : (n - i) + 1 \in 1 .. n
  BY <1>2
<1> HIDE DEF R, n
<1>5. \A i \in 1 .. n : side.rows[(n - i) + 1] \in R
  BY <1>1, <1>2, <1>4
<1>6. Reverse(side.rows) \in Seq(R)
  BY <1>2, <1>3, <1>5, SequenceIntro
<1> QED
  BY <1>1, <1>6 DEF R

(* A Join node on top.                                                    *)
LEMMA JoinSound ==
  ASSUME NEW in, NEW fields, NEW first, NEW second, NEW groups, Sound(in, fields, first, second, groups),
         NEW side \in Sides, NEW node, IsNode(node), node.kind = "join",
         AcceptsJoin(node, in, side.properties), NEW chosen
  PROVE  Sound(JoinProperties(node, in, side.properties), fields \cup Introduces(node),
               EvaluateJoin(node, in.schema, side.properties.schema, first.rows, side.rows),
               EvaluateJoin(node, in.schema, side.properties.schema, second.rows, Reverse(side.rows)), chosen)
<1> DEFINE far == side.properties
           new == JoinSchema(node.how, in.schema, far.schema)
           left == EvaluateJoin(node, in.schema, far.schema, first.rows, side.rows)
           right == EvaluateJoin(node, in.schema, far.schema, second.rows, Reverse(side.rows))
           more == Introduces(node)
<1>1. /\ IsSchema(in.schema) /\ DistinctFields(in.schema) /\ FieldIds(in.schema) \subseteq fields
      /\ \A s \in Sides : FieldIds(s.properties.schema) \subseteq fields
      /\ first.rows \in Seq(RowsOf(in.schema)) /\ second.rows \in Seq(RowsOf(in.schema))
  BY SoundFacts
<1>2. /\ IsSchema(far.schema) /\ DistinctFields(far.schema) /\ side.rows \in Seq(RowsOf(far.schema))
      /\ Reverse(side.rows) \in Seq(RowsOf(far.schema))
  BY SideFacts
<1>3. JoinProperties(node, in, far).schema = new /\ JoinProperties(node, in, far) = BagOf(new, {})
  BY DEF JoinProperties, BagOf, Properties
<1> HIDE DEF far
<1>4. IsSchema(new) /\ Good(left, new) /\ Good(right, new)
  <2>1. AcceptsJoin(node, in, far)
    BY DEF far
  <2>2. IsSchema(JoinProperties(node, in, far).schema) /\ Good(left, JoinProperties(node, in, far).schema)
    BY <1>1, <1>2, <2>1, JoinGood
  <2>3. Good(right, JoinProperties(node, in, far).schema)
    BY <1>1, <1>2, <2>1, JoinGood
  <2> QED
    BY <1>3, <2>2, <2>3
<1>5. FieldIds(in.schema) \cap FieldIds(far.schema) = {}
  BY DEF AcceptsJoin, far
<1>6. DistinctFields(new)
  BY <1>1, <1>2, <1>5, JoinDistinct
<1>7. FieldIds(new) = FieldIds(in.schema) \cup FieldIds(far.schema)
  <2>1. JoinedFields(new, node.how, in.schema, far.schema)
    BY <1>1, <1>2, JoinSchemaFields
  <2> HIDE DEF new
  <2> QED
    BY <2>1 DEF JoinedFields
<1>8. /\ FieldIds(new) \subseteq fields \cup more
      /\ \A s \in Sides : FieldIds(s.properties.schema) \subseteq fields \cup more
  BY <1>1, <1>7 DEF far
<1> HIDE DEF new, left, right, more
<1>9. Sound(BagOf(new, {}), fields \cup more, left, right, chosen)
  BY <1>4, <1>6, <1>8, BagSound
<1> QED
  BY <1>3, <1>9 DEF far, left, right, more

(* A set operation on top.                                                *)
LEMMA SetSound ==
  ASSUME NEW in, NEW fields, NEW first, NEW second, NEW groups, Sound(in, fields, first, second, groups),
         NEW side \in Sides, NEW node, IsNode(node), node.kind = "set", OutputsDiffer(node),
         AcceptsSet(node, in, side.properties), NEW chosen
  PROVE  Sound(SetProperties(node, in, side.properties), fields \cup Introduces(node),
               EvaluateSet(node, first.rows, side.rows), EvaluateSet(node, second.rows, Reverse(side.rows)),
               chosen)
<1> DEFINE far == side.properties
           p == SetProperties(node, in, far)
           new == p.schema
           left == EvaluateSet(node, first.rows, side.rows)
           right == EvaluateSet(node, second.rows, Reverse(side.rows))
           more == Introduces(node)
<1>1. /\ IsSchema(in.schema) /\ DistinctFields(in.schema) /\ FieldIds(in.schema) \subseteq fields
      /\ \A s \in Sides : FieldIds(s.properties.schema) \subseteq fields
      /\ first.rows \in Seq(RowsOf(in.schema)) /\ second.rows \in Seq(RowsOf(in.schema))
  BY SoundFacts
<1>2. /\ IsSchema(far.schema) /\ side.rows \in Seq(RowsOf(far.schema))
      /\ Reverse(side.rows) \in Seq(RowsOf(far.schema))
  BY SideFacts
<1>3. p = BagOf(new, {})
  BY DEF SetProperties, BagOf, Properties
<1>4. DOMAIN node.entries = 1 .. Len(node.entries) /\ HasEntries(node, Len(node.entries))
  BY NodeFacts
<1>5. DOMAIN in.schema = DOMAIN node.entries
  BY <1>1, <1>4, SchemaFacts DEF AcceptsSet
<1>6. \A i \in DOMAIN node.entries : new[i].id = node.entries[i].output
  BY <1>5 DEF SetProperties, BagOf, Properties, Field
<1> HIDE DEF far, p
<1>7. AcceptsSet(node, in, far)
  BY DEF far
<1>8. IsSchema(new) /\ DOMAIN new = DOMAIN node.entries /\ Good(left, new)
  BY <1>1, <1>2, <1>7, SetGood DEF p
<1>9. Good(right, new)
  BY <1>1, <1>2, <1>7, SetGood DEF p
<1>10. DistinctFields(new) /\ FieldIds(new) = {node.entries[i].output : i \in DOMAIN node.entries}
  BY <1>6, <1>8, OutputFields
<1>11. \A i \in DOMAIN node.entries : node.entries[i].output \in more
  <2>1. \A i \in DOMAIN node.entries : node.entries[i].function = "output"
    BY <1>4 DEF HasEntries
  <2> QED
    BY <2>1, IntroducedFacts
<1> HIDE DEF new, left, right, more
<1>12. /\ FieldIds(new) \subseteq fields \cup more
       /\ \A s \in Sides : FieldIds(s.properties.schema) \subseteq fields \cup more
  BY <1>1, <1>10, <1>11
<1>13. Sound(BagOf(new, {}), fields \cup more, left, right, chosen)
  BY <1>8, <1>9, <1>10, <1>12, BagSound
<1> QED
  BY <1>3, <1>13 DEF far, left, right, more, p

(* An Aggregate node on top.                                              *)
LEMMA AggregateSound ==
  ASSUME NEW in, NEW fields, NEW first, NEW second, NEW groups, Sound(in, fields, first, second, groups),
         NEW node, IsNode(node), node.kind = "aggregate", OutputsDiffer(node), AcceptsAggregate(node, in),
         NEW chosen
  PROVE  Sound(AggregateProperties(node, in), fields \cup Introduces(node),
               EvaluateAggregate(node, in.schema, first.rows), EvaluateAggregate(node, in.schema, second.rows),
               chosen)
<1> DEFINE new == EntrySchema(node.entries, in.schema)
           ids == {e.output : e \in {x \in Range(node.entries) : x.function = "group"}}
           left == EvaluateAggregate(node, in.schema, first.rows)
           right == EvaluateAggregate(node, in.schema, second.rows)
           more == Introduces(node)
<1>1. /\ IsSchema(in.schema) /\ DistinctFields(in.schema) /\ FieldIds(in.schema) \subseteq fields
      /\ \A s \in Sides : FieldIds(s.properties.schema) \subseteq fields
      /\ first.rows \in Seq(RowsOf(in.schema)) /\ second.rows \in Seq(RowsOf(in.schema))
  BY SoundFacts
<1>2. PICK k \in 0 .. Len(node.entries) : Splits(node, k)
  BY SplitFacts
<1>3. AggregateProperties(node, in) = BagOf(new, {ids})
  BY DEF AggregateProperties
<1>4. DOMAIN node.entries = 1 .. Len(node.entries) /\ Len(node.entries) \in Nat
      /\ HasEntries(node, Len(node.entries))
  BY NodeFacts
<1>5. DOMAIN new = DOMAIN node.entries /\ \A i \in DOMAIN node.entries : new[i].id = node.entries[i].output
  BY DEF EntrySchema, Field
<1>6. IsSchema(new) /\ Good(left, new) /\ Good(right, new)
      /\ (left.failure = Null => GivesGroups(node, in.schema, first.rows, k, left.rows))
  <2>1. /\ IsSchema(AggregateProperties(node, in).schema) /\ AggregateProperties(node, in).schema = new
        /\ Good(left, AggregateProperties(node, in).schema)
        /\ left.failure = Null => GivesGroups(node, in.schema, first.rows, k, left.rows)
    BY <1>1, <1>2, AggregateGood
  <2>2. Good(right, AggregateProperties(node, in).schema)
    BY <1>1, <1>2, AggregateGood
  <2> QED
    BY <2>1, <2>2
<1>7. left.failure # Null => left.rows = <<>>
  BY EvaluateAggregateIs, CompleteCases
<1>8. DistinctFields(new) /\ FieldIds(new) = {node.entries[i].output : i \in DOMAIN node.entries}
  BY <1>5, OutputFields
<1>9. \A i \in DOMAIN node.entries : node.entries[i].output \in more
  <2>1. \A i \in DOMAIN node.entries : node.entries[i].function \in {"group"} \cup AggregateFunctions
    BY <1>2, <1>4 DEF Splits
  <2>2. \A i \in DOMAIN node.entries : node.entries[i].function \notin {"keep", "predicate", "items"}
    BY <2>1 DEF AggregateFunctions
  <2> QED
    BY <2>2, IntroducedFacts
<1>10. Identifies(ids, new, left.rows)
  <2>1. CASE left.failure = Null
    BY <1>1, <1>2, <1>6, <2>1, AggregateIdentifies
  <2>2. CASE left.failure # Null
    <3>1. ids = {node.entries[i].output : i \in 1 .. k}
      BY <1>2, <1>4, GroupingKeys
    <3> HIDE DEF ids, new
    <3>2. 1 .. k \subseteq DOMAIN node.entries
      BY <1>2, <1>4
    <3>3. ids \subseteq FieldIds(new)
      BY <1>8, <3>1, <3>2
    <3> QED
      BY <1>7, <2>2, <3>3, NoRows
  <2> QED
    BY <2>1, <2>2
<1> HIDE DEF new, ids, left, right, more
<1>11. /\ FieldIds(new) \subseteq fields \cup more
       /\ \A s \in Sides : FieldIds(s.properties.schema) \subseteq fields \cup more
  BY <1>1, <1>8, <1>9
<1>12. \A key \in {ids} : Identifies(key, new, left.rows)
  BY <1>10
<1>13. Sound(BagOf(new, {ids}), fields \cup more, left, right, chosen)
  BY <1>6, <1>8, <1>11, <1>12, BagSound
<1> QED
  BY <1>3, <1>13 DEF left, right, more

(* A Window node on top.                                                  *)
LEMMA WindowSound ==
  ASSUME NEW in, NEW fields, NEW first, NEW second, NEW groups, Sound(in, fields, first, second, groups),
         NEW node, IsNode(node), node.kind = "window", OutputsDiffer(node), AcceptsWindow(node, in),
         Introduces(node) \cap fields = {}, NEW chosen
  PROVE  Sound(WindowProperties(node, in), fields \cup Introduces(node),
               EvaluateWindow(node, in.schema, first.rows), EvaluateWindow(node, in.schema, second.rows),
               chosen)
<1> DEFINE added == EntrySchema(node.entries, in.schema)
           new == in.schema \o added
           left == EvaluateWindow(node, in.schema, first.rows)
           right == EvaluateWindow(node, in.schema, second.rows)
           more == Introduces(node)
<1>1. /\ IsSchema(in.schema) /\ DistinctFields(in.schema) /\ FieldIds(in.schema) \subseteq fields
      /\ \A s \in Sides : FieldIds(s.properties.schema) \subseteq fields
      /\ first.rows \in Seq(RowsOf(in.schema)) /\ second.rows \in Seq(RowsOf(in.schema))
  BY SoundFacts
<1>2. WindowProperties(node, in) = BagOf(new, {})
  BY DEF WindowProperties
<1>3. DOMAIN node.entries = 1 .. Len(node.entries)
  BY NodeFacts
<1>4. DOMAIN added = DOMAIN node.entries /\ \A i \in DOMAIN node.entries : added[i].id = node.entries[i].output
  BY DEF EntrySchema, Field
<1>5. IsSchema(new) /\ IsSchema(added) /\ Good(left, new) /\ Good(right, new)
  <2>1. /\ IsSchema(WindowProperties(node, in).schema) /\ IsSchema(added)
        /\ WindowProperties(node, in).schema = new /\ Good(left, WindowProperties(node, in).schema)
    BY <1>1, WindowGood
  <2>2. Good(right, WindowProperties(node, in).schema)
    BY <1>1, WindowGood
  <2> QED
    BY <2>1, <2>2
<1>6. DistinctFields(added) /\ FieldIds(added) = {node.entries[i].output : i \in DOMAIN node.entries}
  BY <1>4, OutputFields
<1>7. \A i \in DOMAIN node.entries : node.entries[i].output \in more
  <2>1. \A i \in DOMAIN node.entries : node.entries[i].function \in Rankings \cup AggregateFunctions
    BY <1>3, WindowEntries DEF WindowEntry
  <2>2. \A i \in DOMAIN node.entries : node.entries[i].function \notin {"keep", "predicate", "items"}
    BY <2>1 DEF AggregateFunctions, Rankings
  <2> QED
    BY <2>2, IntroducedFacts
<1> HIDE DEF added
<1>8. FieldIds(added) \subseteq more
  BY <1>6, <1>7
<1>9. FieldIds(in.schema) \cap FieldIds(added) = {}
  BY <1>1, <1>8
<1>10. DistinctFields(new)
  BY <1>1, <1>5, <1>6, <1>9, DistinctConcat
<1>11. FieldIds(new) = FieldIds(in.schema) \cup FieldIds(added)
  BY <1>1, <1>5, SchemaConcat
<1> HIDE DEF new, left, right, more
<1>12. /\ FieldIds(new) \subseteq fields \cup more
       /\ \A s \in Sides : FieldIds(s.properties.schema) \subseteq fields \cup more
  BY <1>1, <1>8, <1>11
<1>13. Sound(BagOf(new, {}), fields \cup more, left, right, chosen)
  BY <1>5, <1>10, <1>12, BagSound
<1> QED
  BY <1>2, <1>13 DEF left, right, more, new, added

-----------------------------------------------------------------------------
(* The nodes put on top. *)

(* An annotated node is one, with the functions it had. *)
LEMMA AnnotatedEntry ==
  ASSUME NEW entry \in Entries, NEW schema, IsSchema(schema)
  PROVE  LET new == [entry EXCEPT !.args      = AnnotatedAll(@, schema),
                                  !.partition = AnnotatedAll(@, schema),
                                  !.order     = AnnotatedItems(@, schema)]
         IN new \in Entries /\ new.function = entry.function /\ Len(new.args) = Len(entry.args)
<1>1. /\ entry.args \in Seq(Expressions) /\ entry.partition \in Seq(Expressions)
      /\ entry.order \in Seq(OrderingItems)
  BY EntryFacts
<1>2. ASSUME NEW exprs \in Seq(Expressions)
      PROVE  AnnotatedAll(exprs, schema) \in Seq(Expressions)
             /\ Len(AnnotatedAll(exprs, schema)) = Len(exprs)
  <2> DEFINE new == AnnotatedAll(exprs, schema)
             n == Len(exprs)
  <2>1. n \in Nat /\ DOMAIN exprs = 1 .. n /\ \A i \in 1 .. n : exprs[i] \in Expressions
    OBVIOUS
  <2>2. new = [i \in 1 .. n |-> new[i]] /\ \A i \in 1 .. n : new[i] = Annotated(exprs[i], schema)
    BY <2>1 DEF AnnotatedAll
  <2> HIDE DEF new, n
  <2>3. \A i \in 1 .. n : new[i] \in Expressions
    BY <2>1, <2>2, AnnotatedType
  <2>4. new \in Seq(Expressions) /\ Len(new) = n
    BY <2>1, <2>2, <2>3, SequenceIntro
  <2> QED
    BY <2>4 DEF new, n
<1>3. AnnotatedItems(entry.order, schema) \in Seq(OrderingItems)
  <2> DEFINE items == entry.order
             new == AnnotatedItems(items, schema)
             n == Len(items)
  <2>1. n \in Nat /\ DOMAIN items = 1 .. n /\ \A i \in 1 .. n : items[i] \in OrderingItems
    BY <1>1
  <2>2. new = [i \in 1 .. n |-> new[i]]
        /\ \A i \in 1 .. n : new[i] = [items[i] EXCEPT !.expr = Annotated(items[i].expr, schema)]
    BY <2>1 DEF AnnotatedItems
  <2> HIDE DEF new, n, items
  <2>3. \A item \in OrderingItems, e \in Expressions : [item EXCEPT !.expr = e] \in OrderingItems
    BY DEF OrderingItems
  <2>4. \A item \in OrderingItems : item.expr \in Expressions
    BY DEF OrderingItems
  <2>5. \A i \in 1 .. n : new[i] \in OrderingItems
    BY <2>1, <2>2, <2>3, <2>4, AnnotatedType
  <2>6. new \in Seq(OrderingItems)
    BY <2>1, <2>2, <2>5, SequenceIntro
  <2> QED
    BY <2>6 DEF new, items
<1> DEFINE called == AnnotatedAll(entry.args, schema)
           split == AnnotatedAll(entry.partition, schema)
           sort == AnnotatedItems(entry.order, schema)
<1>5. called \in Seq(Expressions) /\ Len(called) = Len(entry.args) /\ split \in Seq(Expressions)
  BY <1>1, <1>2
<1>6. sort \in Seq(OrderingItems)
  BY <1>3
<1> HIDE DEF called, split, sort
<1> DEFINE new == [entry EXCEPT !.args = called, !.partition = split, !.order = sort]
<1>7. new \in Entries /\ new.function = entry.function /\ new.args = called
  BY <1>5, <1>6 DEF Entries
<1>8. new = [entry EXCEPT !.args = AnnotatedAll(@, schema), !.partition = AnnotatedAll(@, schema),
                          !.order = AnnotatedItems(@, schema)]
  BY DEF called, split, sort
<1> HIDE DEF new
<1> QED
  BY <1>5, <1>7, <1>8 DEF called

(* An annotated node is a node of the same kind.                          *)
LEMMA AnnotatedNodeType ==
  ASSUME NEW node, IsNode(node), NEW schema, IsSchema(schema)
  PROVE  IsNode(AnnotatedNode(node, schema)) /\ AnnotatedNode(node, schema).kind = node.kind
<1> DEFINE N == [kind : STRING, how : STRING, entries : Seq(Entries), bounds : Seq(Int)]
           n == Len(node.entries)
           entries ==
             [k \in DOMAIN node.entries |->
                [node.entries[k] EXCEPT !.args      = AnnotatedAll(@, schema),
                                        !.partition = AnnotatedAll(@, schema),
                                        !.order     = AnnotatedItems(@, schema)]]
           new == AnnotatedNode(node, schema)
<1>1. node \in N /\ HasEntries(node, n)
  BY DEF IsNode
<1>2. n \in Nat /\ DOMAIN node.entries = 1 .. n /\ \A k \in 1 .. n : node.entries[k] \in Entries
  BY NodeFacts, SMTT(30)
<1>3. entries = [k \in 1 .. n |-> entries[k]]
  BY <1>2, Zenon
<1>4. \A k \in 1 .. n : /\ entries[k] \in Entries /\ entries[k].function = node.entries[k].function
                        /\ Len(entries[k].args) = Len(node.entries[k].args)
  BY <1>2, AnnotatedEntry, Zenon
<1>5. new = [node EXCEPT !.entries = entries]
  BY DEF AnnotatedNode
<1> HIDE DEF entries, new, n
<1>6. entries \in Seq(Entries) /\ Len(entries) = n
  BY <1>2, <1>3, <1>4, SequenceIntro
<1>7. new \in N /\ new.kind = node.kind /\ new.how = node.how /\ new.bounds = node.bounds
      /\ new.entries = entries
  BY <1>1, <1>5, <1>6
<1>8. \A positions, function : positions \subseteq 1 .. n /\ Each(node.entries, positions, function)
        => Each(new.entries, positions, function)
  BY <1>4, <1>7 DEF Each
<1>9. HasEntries(new, n)
  <2>1. CASE node.kind = "project"
    <3>1. \A i \in 1 .. n : node.entries[i].function = "keep" \/ Each(node.entries, {i}, "compute")
      BY <1>1, <2>1 DEF HasEntries
    <3>2. \A i \in 1 .. n : new.entries[i].function = "keep" \/ Each(new.entries, {i}, "compute")
      BY <1>4, <1>7, <1>8, <3>1
    <3> QED
      BY <1>7, <2>1, <3>2 DEF HasEntries
  <2>2. CASE node.kind = "filter"
    <3>1. n = 1 /\ Each(node.entries, {1}, "predicate")
      BY <1>1, <2>2 DEF HasEntries
    <3>2. Each(new.entries, {1}, "predicate")
      BY <1>8, <3>1
    <3> QED
      BY <1>7, <2>2, <3>1, <3>2 DEF HasEntries
  <2>3. CASE node.kind = "join"
    <3>1. node.how \in {"inner", "left", "right", "full", "cross"} /\ n <= 1 /\ Each(node.entries, 1 .. n, "predicate")
      BY <1>1, <2>3 DEF HasEntries
    <3>2. Each(new.entries, 1 .. n, "predicate")
      BY <1>8, <3>1
    <3> QED
      BY <1>7, <2>3, <3>1, <3>2 DEF HasEntries
  <2>4. CASE node.kind = "aggregate"
    <3>1. PICK k \in 0 .. n : /\ Each(node.entries, 1 .. k, "group")
                              /\ \A i \in k + 1 .. n : node.entries[i].function \in AggregateFunctions
      BY <1>1, <2>4 DEF HasEntries
    <3>2. 1 .. k \subseteq 1 .. n /\ k + 1 .. n \subseteq 1 .. n
      BY <1>2
    <3>3. Each(new.entries, 1 .. k, "group")
      BY <1>8, <3>1, <3>2
    <3>4. \A i \in k + 1 .. n : new.entries[i].function \in AggregateFunctions
      BY <1>4, <1>7, <3>1, <3>2
    <3> QED
      BY <1>7, <2>4, <3>3, <3>4 DEF HasEntries
  <2>5. CASE node.kind = "window"
    <3>1. \A i \in 1 .. n : node.entries[i].function \in Rankings \cup AggregateFunctions
      BY <1>1, <2>5 DEF HasEntries
    <3> QED
      BY <1>4, <1>7, <2>5, <3>1 DEF HasEntries
  <2>6. CASE node.kind = "set"
    <3>1. node.how \in SetOperators /\ \A i \in 1 .. n : node.entries[i].function = "output"
      BY <1>1, <2>6 DEF HasEntries, SetOperators
    <3> QED
      BY <1>4, <1>7, <2>6, <3>1, Zenon DEF HasEntries, SetOperators
  <2>7. CASE node.kind \in {"order", "slice", "distinct", "forget_order"}
    BY <1>1, <1>7, <2>7, Zenon DEF HasEntries
  <2> QED
    BY <1>1, <2>1, <2>2, <2>3, <2>4, <2>5, <2>6, <2>7, Zenon DEF HasEntries
<1> QED
  BY <1>6, <1>7, <1>9 DEF IsNode, new

(* The nodes that may be put on top are nodes.                            *)
LEMMA CandidateFacts ==
  ASSUME NEW kind, NEW environment, IsSchema(environment), NEW node \in Candidates(kind, environment)
  PROVE  IsNode(node) /\ node.kind = kind
<1>1. PICK o \in Operations : o.kind = kind /\ node = AnnotatedNode(o, environment)
  BY DEF Candidates
<1>2. IsNode(o)
  BY OperationsAssumption
<1> QED
  BY <1>1, <1>2, AnnotatedNodeType

-----------------------------------------------------------------------------
(* The inductive invariant. *)
ChainInv == Sound(props, definedFields, given, other, peers.given)

(* evaluate_input lets in rows of the declared schema only.               *)
LEMMA InputGood ==
  ASSUME NEW relation, relation.rows \in Seq(Seq(Values))
  PROVE  Good(EvaluateInput(relation, SourceSchema), SourceSchema)
<1> DEFINE rows == relation.rows
           n == Len(SourceSchema)
           fits == /\ relation.schema = SourceSchema
                   /\ \A r \in DOMAIN rows :
                        /\ Len(rows[r]) = Len(SourceSchema)
                        /\ \A i \in DOMAIN SourceSchema : ValueFits(rows[r][i], SourceSchema[i].descriptor)
           in == EvaluateInput(relation, SourceSchema)
<1>1. in = IF fits THEN Result(Null, rows) ELSE Result(UnfitInput, <<>>)
  BY DEF EvaluateInput
<1>2. n \in Nat /\ DOMAIN SourceSchema = 1 .. n
  BY SourceAssumption, SchemaFacts
<1>3. ASSUME fits, NEW r \in DOMAIN rows
      PROVE  rows[r] \in RowsOf(SourceSchema)
  <2> DEFINE row == rows[r]
  <2>1. row \in Seq(Values) /\ Len(row) = n
    BY <1>3
  <2>2. \A i \in 1 .. n : ValueFits(row[i], SourceSchema[i].descriptor)
    BY <1>2, <1>3
  <2> HIDE DEF row, n
  <2>3. DOMAIN row = 1 .. n /\ row = [i \in 1 .. n |-> row[i]] /\ \A i \in 1 .. n : row[i] \in Values
    BY <2>1
  <2>4. \A i \in 1 .. n : Cell(row[i], SourceSchema[i].descriptor)
    BY <2>2, <2>3 DEF ValueFits, Cell, Conforms
  <2> QED
    BY <1>2, <2>3, <2>4, RowFacts DEF row
<1>4. CASE fits
  <2>1. rows \in Seq(Seq(Values)) /\ DOMAIN rows = 1 .. Len(rows) /\ Len(rows) \in Nat
        /\ rows = [r \in 1 .. Len(rows) |-> rows[r]]
    OBVIOUS
  <2>2. in = Result(Null, rows)
    BY <1>1, <1>4
  <2>3. \A r \in DOMAIN rows : rows[r] \in RowsOf(SourceSchema)
    BY <1>3, <1>4
  <2> HIDE DEF rows, in
  <2>4. rows \in Seq(RowsOf(SourceSchema))
    BY <2>1, <2>3, SequenceIntro
  <2> QED
    BY <2>2, <2>4, ResultFacts DEF in
<1>5. CASE ~ fits
  <2>1. in = Result(UnfitInput, <<>>)
    BY <1>1, <1>5
  <2> HIDE DEF in
  <2> QED
    BY <2>1 DEF Good, Result, in
<1> QED
  BY <1>4, <1>5

(* A graph of one Input node is sound.                                    *)
LEMMA InitSound == ChainInit => ChainInv
<1> SUFFICES ASSUME ChainInit PROVE ChainInv
  OBVIOUS
<1> DEFINE fields == FieldIds(SourceSchema) \cup UNION {FieldIds(s.properties.schema) : s \in Sides}
<1>1. props = BagOf(SourceSchema, {}) /\ definedFields = fields
  BY DEF ChainInit
<1>9. PICK relation \in Relations : \E order \in SetToSeqs(DOMAIN relation.rows) :
        /\ given = EvaluateInput(relation, SourceSchema)
        /\ other = EvaluateInput([relation EXCEPT !.rows = Pick(relation.rows, order)], SourceSchema)
  BY DEF ChainInit
<1>2. PICK order \in SetToSeqs(DOMAIN relation.rows) :
        /\ given = EvaluateInput(relation, SourceSchema)
        /\ other = EvaluateInput([relation EXCEPT !.rows = Pick(relation.rows, order)], SourceSchema)
  BY <1>9
<1>3. DOMAIN relation = {"schema", "rows"} /\ relation.rows \in Seq(Seq(Values))
  BY RelationsAssumption
<1>4. Good(given, SourceSchema)
  BY <1>2, <1>3, InputGood
<1>5. Good(other, SourceSchema)
  <2> DEFINE rows == relation.rows
             n == Cardinality(DOMAIN rows)
             mixed == Pick(rows, order)
  <2>1. DOMAIN rows = 1 .. Len(rows) /\ Len(rows) \in Nat
    BY <1>3
  <2>2. n \in Nat
    <3> HIDE DEF rows
    <3>1. IsFiniteSet(DOMAIN rows)
      BY <2>1, PositionSets
    <3> QED
      BY <3>1, FS_CardinalityType
  <2>8. order \in [1 .. n -> DOMAIN rows]
    <3>1. order \in SetToSeqs(DOMAIN rows)
      BY <1>2
    <3>2. \A S : \A f \in SetToSeqs(S) : f \in [1 .. Cardinality(S) -> S]
      BY DEF SetToSeqs
    <3> HIDE DEF rows
    <3> QED
      BY <3>1, <3>2
  <2>3. order = [i \in 1 .. n |-> order[i]] /\ \A i \in 1 .. n : order[i] \in DOMAIN rows
    BY <2>8
  <2> HIDE DEF n
  <2>4. order \in Seq(DOMAIN rows)
    BY <2>2, <2>3, SequenceIntro
  <2>5. mixed \in Seq(Seq(Values))
    BY <1>3, <2>4, PickFacts
  <2> HIDE DEF mixed, rows
  <2>6. [relation EXCEPT !.rows = mixed].rows = mixed
    BY <1>3
  <2>7. Good(EvaluateInput([relation EXCEPT !.rows = mixed], SourceSchema), SourceSchema)
    BY <2>5, <2>6, InputGood
  <2> QED
    BY <1>2, <2>7 DEF mixed, rows
<1>6. FieldIds(SourceSchema) \subseteq fields
      /\ \A side \in Sides : FieldIds(side.properties.schema) \subseteq fields
  OBVIOUS
<1> HIDE DEF fields
<1>7. Sound(BagOf(SourceSchema, {}), fields, given, other, peers.given)
  BY <1>4, <1>5, <1>6, SourceAssumption, BagSound
<1> QED
  BY <1>1, <1>7 DEF ChainInv

(* What putting a node on top does to all but the peer groups. *)
Puts(node, properties, left, right) ==
  /\ OutputsDiffer(node) /\ Introduces(node) \cap definedFields = {}
  /\ given.failure = Null /\ other.failure = Null
  /\ props' = properties /\ definedFields' = definedFields \cup Introduces(node)
  /\ given' = left /\ other' = right

(* Every node put on top leaves the graph sound.                          *)
LEMMA StepSound == ChainInv /\ [ChainNext]_chainVars => ChainInv'
<1> SUFFICES ASSUME ChainInv, [ChainNext]_chainVars PROVE ChainInv'
  OBVIOUS
<1> DEFINE schema == props.schema
<1>1. Sound(props, definedFields, given, other, peers.given)
  BY DEF ChainInv
<1>2. IsSchema(schema)
  BY <1>1, SoundFacts
<1>3. SUFFICES Sound(props', definedFields', given', other', peers'.given)
  BY DEF ChainInv
<1>4. CASE PutProject
  <2>1. PICK node \in Candidates("project", schema) :
          /\ AcceptsProject(node, props) /\ peers' = peers
          /\ Puts(node, ProjectProperties(node, props), EvaluateProject(node, schema, given.rows),
                  EvaluateProject(node, schema, other.rows))
    BY <1>4 DEF PutProject, Put, Puts
  <2>2. IsNode(node) /\ node.kind = "project"
    BY <1>2, CandidateFacts
  <2> QED
    BY <1>1, <2>1, <2>2, ProjectSound DEF Puts
<1>5. CASE PutFilter
  <2>1. PICK node \in Candidates("filter", schema) :
          /\ AcceptsFilter(node, props)
          /\ Puts(node, props, EvaluateFilter(node, schema, given.rows), EvaluateFilter(node, schema, other.rows))
          /\ props.ordered => peers'.given = Pick(peers.given, FilterIndices(node, schema, given.rows))
    BY <1>5 DEF PutFilter, Put, Puts, SelectPeers
  <2>2. IsNode(node) /\ node.kind = "filter"
    BY <1>2, CandidateFacts
  <2> QED
    BY <1>1, <2>1, <2>2, FilterSound DEF Puts
<1>6. CASE PutJoin
  <2>4. PICK side \in Sides : \E node \in Candidates("join", schema \o side.properties.schema) :
          /\ AcceptsJoin(node, props, side.properties)
          /\ Puts(node, JoinProperties(node, props, side.properties),
                  EvaluateJoin(node, schema, side.properties.schema, given.rows, side.rows),
                  EvaluateJoin(node, schema, side.properties.schema, other.rows, Reverse(side.rows)))
    BY <1>6 DEF PutJoin, Put, Puts
  <2>1. PICK node \in Candidates("join", schema \o side.properties.schema) :
          /\ AcceptsJoin(node, props, side.properties)
          /\ Puts(node, JoinProperties(node, props, side.properties),
                  EvaluateJoin(node, schema, side.properties.schema, given.rows, side.rows),
                  EvaluateJoin(node, schema, side.properties.schema, other.rows, Reverse(side.rows)))
    BY <2>4
  <2>2. IsSchema(schema \o side.properties.schema)
    BY <1>2, SideFacts, SchemaConcat
  <2>3. IsNode(node) /\ node.kind = "join"
    BY <2>2, CandidateFacts
  <2> QED
    BY <1>1, <2>1, <2>3, JoinSound DEF Puts
<1>7. CASE PutAggregate
  <2>1. PICK node \in Candidates("aggregate", schema) :
          /\ AcceptsAggregate(node, props)
          /\ Puts(node, AggregateProperties(node, props), EvaluateAggregate(node, schema, given.rows),
                  EvaluateAggregate(node, schema, other.rows))
    BY <1>7 DEF PutAggregate, Put, Puts
  <2>2. IsNode(node) /\ node.kind = "aggregate"
    BY <1>2, CandidateFacts
  <2> QED
    BY <1>1, <2>1, <2>2, AggregateSound DEF Puts
<1>8. CASE PutWindow
  <2>1. PICK node \in Candidates("window", schema) :
          /\ AcceptsWindow(node, props)
          /\ Puts(node, WindowProperties(node, props), EvaluateWindow(node, schema, given.rows),
                  EvaluateWindow(node, schema, other.rows))
    BY <1>8 DEF PutWindow, Put, Puts
  <2>2. IsNode(node) /\ node.kind = "window"
    BY <1>2, CandidateFacts
  <2> QED
    BY <1>1, <2>1, <2>2, WindowSound DEF Puts
<1>9. CASE PutDistinct
  <2>1. PICK node \in Candidates("distinct", schema) :
          Puts(node, DistinctProperties(props), EvaluateDistinct(given.rows), EvaluateDistinct(other.rows))
    BY <1>9 DEF PutDistinct, Put, Puts
  <2> QED
    BY <1>1, <2>1, DistinctSound DEF Puts
<1>10. CASE PutSet
  <2>1. PICK side \in Sides, node \in Candidates("set", schema) :
          /\ AcceptsSet(node, props, side.properties)
          /\ Puts(node, SetProperties(node, props, side.properties), EvaluateSet(node, given.rows, side.rows),
                  EvaluateSet(node, other.rows, Reverse(side.rows)))
    BY <1>10 DEF PutSet, Put, Puts
  <2>2. IsNode(node) /\ node.kind = "set"
    BY <1>2, CandidateFacts
  <2> QED
    BY <1>1, <2>1, <2>2, SetSound DEF Puts
<1>11. CASE PutOrder
  <2>1. PICK node \in Candidates("order", schema) :
          /\ AcceptsOrder(node, props)
          /\ Puts(node, OrderProperties(node, props), EvaluateOrder(node, schema, given.rows),
                  EvaluateOrder(node, schema, other.rows))
          /\ given'.failure = Null /\ other'.failure = Null => peers'.given = OrderPeers(node, given.rows)
    BY <1>11 DEF PutOrder, Put, Puts
  <2>2. IsNode(node) /\ node.kind = "order"
    BY <1>2, CandidateFacts
  <2>3. OrderPeers(node, given.rows)
          = PeerNumbers(OrderIndices(node, schema, given.rows),
                        OrderKeys(node.entries[1].order, schema, given.rows))
    BY DEF OrderPeers, PeerNumbers
  <2> QED
    BY <1>1, <2>1, <2>2, <2>3, OrderSound DEF Puts
<1>12. CASE PutSlice
  <2>1. PICK node \in Candidates("slice", schema) :
          /\ Puts(node, props, EvaluateSlice(node, given.rows), EvaluateSlice(node, other.rows))
          /\ props.ordered => peers'.given = Pick(peers.given, SliceIndices(node, Len(given.rows)))
    BY <1>12 DEF PutSlice, Put, Puts, SelectPeers
  <2> QED
    BY <1>1, <2>1, SliceSound DEF Puts
<1>13. CASE PutForgetOrder
  <2>1. PICK node \in Candidates("forget_order", schema) :
          Puts(node, ForgetOrderProperties(props), Result(Null, given.rows), Result(Null, other.rows))
    BY <1>13 DEF PutForgetOrder, Put, Puts
  <2> QED
    BY <1>1, <2>1, ForgetSound DEF Puts
<1>14. CASE UNCHANGED chainVars
  BY <1>1, <1>14 DEF chainVars
<1> QED
  BY <1>4, <1>5, <1>6, <1>7, <1>8, <1>9, <1>10, <1>11, <1>12, <1>13, <1>14 DEF ChainNext

(* THEOREM: the inductive invariant.  Every graph the validator accepts    *)
(* node by node is sound: its top gives both hosts rows of the schema, its *)
(* value keys identify rows and its peer constants are constant.           *)
THEOREM ChainIsSound == ChainSpec => []ChainInv
BY InitSound, StepSound, PTL DEF ChainSpec

(* THEOREM: every row a node gives, to either host, is a row of the schema *)
(* validate_node derived: NULL stands only in nullable fields.             *)
THEOREM RowsAreOfTheSchema == ChainSpec => []RowsConformToSchema
<1>1. ChainInv => RowsConformToSchema
  <2> SUFFICES ASSUME ChainInv PROVE RowsConformToSchema
    OBVIOUS
  <2>1. given.rows \in Seq(RowsOf(props.schema)) /\ other.rows \in Seq(RowsOf(props.schema))
    BY SoundFacts DEF ChainInv
  <2>2. \A row \in RowsOf(props.schema) : RowConforms(row, props.schema)
    BY DEF RowsOf
  <2>3. \A S, rows : rows \in Seq(S) => Range(rows) \subseteq S
    BY DEF Range
  <2> QED
    BY <2>1, <2>2, <2>3 DEF RowsConformToSchema
<1> QED
  BY <1>1, ChainIsSound, PTL

(* THEOREM: on a validated graph the evaluator never comes to one of its   *)
(* unreachable branches.                                                   *)
THEOREM UnreachableIsNotReached == ChainSpec => []NothingUnreachable
<1>1. Unreachable \notin Errors \cup {Null, UnfitInput}
  BY DEF Unreachable, Errors, Null, UnfitInput, IntegerOverflow, DivisionByZero, RemainderByZero,
         InvalidTextCast, Tagged
<1>2. ChainInv => NothingUnreachable
  BY <1>1 DEF ChainInv, Sound, Good, NothingUnreachable
<1> QED
  BY <1>2, ChainIsSound, PTL

(* THEOREM: two rows that agree on a value key of the validator are the    *)
(* same row, through every kind of node.                                   *)
THEOREM ValueKeysAreKeys == ChainSpec => []ValueKeysIdentifyRows
<1>1. ChainInv => ValueKeysIdentifyRows
  BY DEF ChainInv, Sound, ValueKeysIdentifyRows, Identifies, Agree
<1> QED
  BY <1>1, ChainIsSound, PTL

(* THEOREM: a peer-constant field of the validator has one value in each   *)
(* group of rows the last Order node left tied.                            *)
THEOREM PeersAgree == ChainSpec => []PeerConstantsAreConstant
<1>1. ChainInv => PeerConstantsAreConstant
  BY DEF ChainInv, Sound, PeerConstantsAreConstant, ConstantPeers, Agree, Succeeded
<1> QED
  BY <1>1, ChainIsSound, PTL

-----------------------------------------------------------------------------
(* Copies of a row. *)

(* A one-to-one correspondence keeps the size of a finite set. *)
LEMMA SameSize ==
  ASSUME NEW S, IsFiniteSet(S), NEW T, NEW f \in [S -> T],
         \A x, y \in S : f[x] = f[y] => x = y,
         \A t \in T : \E x \in S : f[x] = t
  PROVE  IsFiniteSet(T) /\ Cardinality(T) = Cardinality(S)
<1>1. f \in Bijection(S, T)
  BY DEF Bijection, Injection, Surjection, IsInjective
<1>2. ExistsBijection(S, T)
  BY <1>1 DEF ExistsBijection
<1> QED
  BY <1>2, FS_Bijection

(* The positions of a row are finitely many. *)
LEMMA CopiesFacts ==
  ASSUME NEW S, NEW rows \in Seq(S), NEW row
  PROVE  /\ IsFiniteSet({i \in DOMAIN rows : rows[i] = row})
         /\ Copies(row, rows) \in Nat
         /\ Copies(row, rows) = 0 <=> row \notin Range(rows)
<1> DEFINE I == {i \in DOMAIN rows : rows[i] = row}
<1>1. I \subseteq 1 .. Len(rows) /\ Len(rows) \in Nat
  OBVIOUS
<1>2. I = {} <=> row \notin Range(rows)
  BY DEF Range
<1>3. Copies(row, rows) = Cardinality(I)
  BY DEF Copies
<1> HIDE DEF I
<1>4. IsFiniteSet(I)
  BY <1>1, PositionSets
<1>5. Cardinality(I) \in Nat /\ (Cardinality(I) = 0 <=> I = {})
  BY <1>4, FS_CardinalityType, FS_EmptySet
<1> QED
  BY <1>2, <1>3, <1>4, <1>5 DEF I

(* Rows chosen by position: so many copies as positions that are chosen. *)
LEMMA PickCopies ==
  ASSUME NEW S, NEW rows \in Seq(S), NEW I, I \subseteq DOMAIN rows, NEW row
  PROVE  Copies(row, Pick(rows, Increasing(I))) = Cardinality({i \in I : rows[i] = row})
<1> DEFINE f == Increasing(I)
           A == {p \in DOMAIN f : rows[f[p]] = row}
           B == {i \in I : rows[i] = row}
<1>1. IsFiniteSet(I) /\ I \subseteq Int
  BY SelectionFacts
<1>2. /\ DOMAIN f = 1 .. Cardinality(I) /\ Cardinality(I) \in Nat /\ f \in Seq(I)
      /\ \A p, q \in DOMAIN f : f[p] = f[q] => p = q
      /\ \A i \in I : \E p \in DOMAIN f : f[p] = i
  BY <1>1, IncreasingFacts
<1>3. Copies(row, Pick(rows, f)) = Cardinality(A)
  <2>1. DOMAIN Pick(rows, f) = DOMAIN f /\ \A p \in DOMAIN f : Pick(rows, f)[p] = rows[f[p]]
    BY DEF Pick
  <2>2. {p \in DOMAIN Pick(rows, f) : Pick(rows, f)[p] = row} = A
    BY <2>1
  <2> QED
    BY <2>2 DEF Copies
<1> HIDE DEF f
<1>4. \A p \in DOMAIN f : f[p] \in I
  BY <1>2
<1>5. IsFiniteSet(A)
  BY <1>2, PositionSets
<1> DEFINE g == [p \in A |-> f[p]]
<1>6. g \in [A -> B]
  BY <1>4
<1>7. \A x, y \in A : g[x] = g[y] => x = y
  BY <1>2
<1>8. \A t \in B : \E x \in A : g[x] = t
  BY <1>2
<1> HIDE DEF g, A, B
<1>9. Cardinality(B) = Cardinality(A)
  BY <1>5, <1>6, <1>7, <1>8, SameSize
<1> QED
  BY <1>3, <1>9 DEF f, B

(* One list of rows after another has the copies of both. *)
LEMMA ConcatCopies ==
  ASSUME NEW S, NEW left \in Seq(S), NEW right \in Seq(S), NEW row
  PROVE  Copies(row, left \o right) = Copies(row, left) + Copies(row, right)
<1> DEFINE m == Len(left)
           n == Len(right)
           all == left \o right
           A == {i \in DOMAIN left : left[i] = row}
           B == {i \in DOMAIN right : right[i] = row}
           C == {m + i : i \in B}
           D == {i \in DOMAIN all : all[i] = row}
<1>1. /\ m \in Nat /\ n \in Nat /\ DOMAIN left = 1 .. m /\ DOMAIN right = 1 .. n
      /\ DOMAIN all = 1 .. m + n
      /\ \A i \in 1 .. m : all[i] = left[i] /\ i \in 1 .. m + n
      /\ \A i \in 1 .. n : all[m + i] = right[i] /\ m + i \in 1 .. m + n
      /\ \A i \in 1 .. m + n : i \in 1 .. m \/ \E j \in 1 .. n : i = m + j
  BY ConcatFacts
<1>2. Copies(row, left) = Cardinality(A) /\ Copies(row, right) = Cardinality(B) /\ Copies(row, all) = Cardinality(D)
  BY DEF Copies
<1>3. IsFiniteSet(A) /\ IsFiniteSet(B) /\ Cardinality(A) \in Nat /\ Cardinality(B) \in Nat
  BY CopiesFacts, FS_CardinalityType
<1> HIDE DEF all, m, n
<1>4. D = A \cup C
  <2>1. ASSUME NEW i \in D PROVE i \in A \/ i \in C
    <3>1. i \in 1 .. m + n /\ all[i] = row
      BY <1>1
    <3>2. CASE i \in 1 .. m
      BY <1>1, <3>1, <3>2
    <3>3. ASSUME NEW j \in 1 .. n, i = m + j PROVE i \in C
      <4>1. right[j] = row
        BY <1>1, <3>1, <3>3
      <4> QED
        BY <1>1, <3>3, <4>1
    <3> QED
      BY <1>1, <3>1, <3>2, <3>3
  <2>2. A \subseteq D /\ C \subseteq D
    BY <1>1
  <2> QED
    BY <2>1, <2>2
<1>5. A \cap C = {}
  <2>1. \A i \in A : i <= m
    BY <1>1
  <2>2. \A i \in C : i > m
    BY <1>1
  <2>3. A \subseteq Int
    BY <1>1
  <2> QED
    BY <2>1, <2>2, <2>3, <1>1
<1> DEFINE g == [i \in B |-> m + i]
<1>6. g \in [B -> C] /\ (\A x, y \in B : g[x] = g[y] => x = y) /\ (\A t \in C : \E x \in B : g[x] = t)
  <2>1. B \subseteq Int
    BY <1>1
  <2> QED
    BY <2>1, <1>1
<1> HIDE DEF g, A, B, C, D
<1>7. IsFiniteSet(C) /\ Cardinality(C) = Cardinality(B)
  BY <1>3, <1>6, SameSize
<1>8. Cardinality(A \cup C) = Cardinality(A) + Cardinality(C) - Cardinality(A \cap C)
  BY <1>3, <1>7, FS_Union
<1>9. Cardinality(A \cap C) = 0
  BY <1>5, FS_EmptySet
<1>10. Cardinality(D) = Cardinality(A) + Cardinality(B)
  BY <1>3, <1>4, <1>7, <1>8, <1>9
<1> QED
  BY <1>2, <1>10 DEF all

(* DISTINCT has one copy of every row. *)
LEMMA DistinctCopies ==
  ASSUME NEW S, NEW rows \in Seq(S), NEW row
  PROVE  Copies(row, Distinct(rows)) = IF row \in Range(rows) THEN 1 ELSE 0
<1> DEFINE I == {i \in DOMAIN rows : \A j \in 1 .. i - 1 : rows[j] # rows[i]}
           B == {i \in I : rows[i] = row}
<1>1. I \subseteq DOMAIN rows /\ DOMAIN rows = 1 .. Len(rows) /\ Len(rows) \in Nat
  OBVIOUS
<1>2. Copies(row, Distinct(rows)) = Cardinality(B)
  <2>1. Distinct(rows) = Pick(rows, Increasing(I))
    BY DEF Distinct
  <2> HIDE DEF I
  <2> QED
    BY <1>1, <2>1, PickCopies
<1>3. CASE row \in Range(rows)
  <2> DEFINE P == {i \in DOMAIN rows : rows[i] = row}
  <2>1. P # {} /\ P \subseteq Nat
    BY <1>1, <1>3 DEF Range
  <2>2. PICK p \in P : \A i \in 0 .. p - 1 : i \notin P
    BY <2>1, LeastFacts
  <2>3. p \in B
    <3>1. \A j \in 1 .. p - 1 : j \in 0 .. p - 1 /\ j \in DOMAIN rows
      BY <1>1
    <3> QED
      BY <2>2, <3>1
  <2>4. ASSUME NEW q \in B PROVE q = p
    <3>1. q \in P /\ p \in 1 .. Len(rows) /\ q \in 1 .. Len(rows)
      BY <1>1, <2>3
    <3>2. ~ q < p
      BY <2>2, <3>1
    <3>3. ~ p < q
      <4>1. \A j \in 1 .. q - 1 : rows[j] # rows[q]
        BY <2>4
      <4>2. rows[p] = rows[q]
        BY <3>1, <2>2
      <4> QED
        BY <3>1, <4>1, <4>2
    <3> QED
      BY <3>1, <3>2, <3>3
  <2> HIDE DEF B
  <2>5. B = {p}
    BY <2>3, <2>4
  <2> QED
    BY <1>2, <1>3, <2>5, FS_Singleton
<1>4. CASE row \notin Range(rows)
  <2>1. B = {}
    BY <1>1, <1>4 DEF Range
  <2> HIDE DEF B
  <2> QED
    BY <1>2, <1>4, <2>1, FS_EmptySet
<1> QED
  BY <1>3, <1>4

One(x, row) == IF x = row THEN 1 ELSE 0

(* How often a row is among the first k rows. *)
CopiesUpTo(row, rows, k) == Cardinality({i \in 1 .. k : rows[i] = row})

(* The copies of a row among the first rows, one row after the other.     *)
LEMMA BeforeFacts ==
  ASSUME NEW S, NEW rows \in Seq(S), NEW row
  PROVE  /\ CopiesUpTo(row, rows, 0) = 0
         /\ CopiesUpTo(row, rows, Len(rows)) = Copies(row, rows)
         /\ \A k \in 0 .. Len(rows) : CopiesUpTo(row, rows, k) \in Nat
         /\ \A k \in 1 .. Len(rows) :
              CopiesUpTo(row, rows, k) = CopiesUpTo(row, rows, k - 1) + One(rows[k], row)
<1>1. DOMAIN rows = 1 .. Len(rows) /\ Len(rows) \in Nat
  OBVIOUS
<1>2. CopiesUpTo(row, rows, 0) = 0
  <2>1. {i \in 1 .. 0 : rows[i] = row} = {}
    OBVIOUS
  <2> QED
    BY <2>1, FS_EmptySet DEF CopiesUpTo
<1>3. CopiesUpTo(row, rows, Len(rows)) = Copies(row, rows)
  BY <1>1 DEF CopiesUpTo, Copies
<1>4. ASSUME NEW k \in 0 .. Len(rows)
      PROVE  IsFiniteSet({i \in 1 .. k : rows[i] = row}) /\ CopiesUpTo(row, rows, k) \in Nat
  <2> DEFINE A == {i \in 1 .. k : rows[i] = row}
  <2>1. A \subseteq 1 .. k /\ k \in Nat
    BY <1>1
  <2>2. CopiesUpTo(row, rows, k) = Cardinality(A)
    BY DEF CopiesUpTo
  <2> HIDE DEF A
  <2>3. IsFiniteSet(A)
    BY <2>1, PositionSets
  <2> QED
    BY <2>2, <2>3, FS_CardinalityType DEF A
<1>5. ASSUME NEW k \in 1 .. Len(rows)
      PROVE  CopiesUpTo(row, rows, k) = CopiesUpTo(row, rows, k - 1) + One(rows[k], row)
  <2> DEFINE A == {i \in 1 .. k - 1 : rows[i] = row}
             B == {i \in 1 .. k : rows[i] = row}
  <2>1. k - 1 \in 0 .. Len(rows) /\ k \in Nat /\ k \notin A
    BY <1>1
  <2>2. CopiesUpTo(row, rows, k - 1) = Cardinality(A) /\ CopiesUpTo(row, rows, k) = Cardinality(B)
    BY DEF CopiesUpTo
  <2>3. IsFiniteSet(A) /\ Cardinality(A) \in Nat
    BY <1>4, <2>1, <2>2
  <2>4. CASE rows[k] = row
    <3>1. B = A \cup {k}
      BY <2>1, <2>4
    <3> HIDE DEF A, B
    <3>2. Cardinality(B) = Cardinality(A) + 1
      BY <2>1, <2>3, <3>1, FS_AddElement
    <3> QED
      BY <2>2, <2>4, <3>2 DEF One
  <2>5. CASE rows[k] # row
    <3>1. B = A
      <4>1. \A i \in B : i # k /\ i \in 1 .. k - 1
        BY <2>1, <2>5
      <4> QED
        BY <2>1, <4>1
    <3> HIDE DEF A, B
    <3> QED
      BY <2>2, <2>3, <2>5, <3>1 DEF One
  <2> QED
    BY <2>4, <2>5
<1> QED
  BY <1>2, <1>3, <1>4, <1>5

(* A row more at the end. *)
LEMMA AppendCopies ==
  ASSUME NEW S, NEW rows \in Seq(S), NEW last0 \in S, NEW row
  PROVE  Copies(row, Append(rows, last0)) = Copies(row, rows) + One(last0, row)
<1> DEFINE one == <<last0>>
           A == {i \in DOMAIN one : one[i] = row}
<1>1. Append(rows, last0) = rows \o one /\ one \in Seq(S)
  OBVIOUS
<1>2. Copies(row, one) = One(last0, row)
  <2>1. DOMAIN one = {1} /\ one[1] = last0
    OBVIOUS
  <2>2. Copies(row, one) = Cardinality(A)
    BY DEF Copies
  <2>3. CASE last0 = row
    <3>1. A = {1}
      BY <2>1, <2>3
    <3> HIDE DEF A, one
    <3> QED
      BY <2>2, <2>3, <3>1, FS_Singleton DEF One
  <2>4. CASE last0 # row
    <3>1. A = {}
      BY <2>1, <2>4
    <3> HIDE DEF A, one
    <3> QED
      BY <2>2, <2>4, <3>1, FS_EmptySet DEF One
  <2> QED
    BY <2>3, <2>4
<1> HIDE DEF one
<1> QED
  BY <1>1, <1>2, ConcatCopies

(* So many of x are in a bag. *)
Held(x, bag) == IF x \in DOMAIN bag THEN bag[x] ELSE 0

(* A bag of which one y was taken, if there is one. *)
LessOne(less, bag, y) ==
  /\ less = [x \in DOMAIN less |-> less[x]]
  /\ \A x \in DOMAIN less : less[x] \in Nat \ {0}
  /\ \A x : Held(x, bag) \in Nat
  /\ BagIn(y, bag) <=> Held(y, bag) > 0
  /\ BagIn(y, bag) => \A x : Held(x, less) = IF x = y THEN Held(x, bag) - 1 ELSE Held(x, bag)

(* A bag: so many of each of its members, at least one. *)
LEMMA TakenFacts ==
  ASSUME NEW bag, bag = [x \in DOMAIN bag |-> bag[x]], \A x \in DOMAIN bag : bag[x] \in Nat \ {0}, NEW y
  PROVE  LessOne(bag (-) SetToBag({y}), bag, y)
<1> DEFINE one == SetToBag({y})
           diff == [x \in DOMAIN bag |-> IF x \in DOMAIN one THEN bag[x] - one[x] ELSE bag[x]]
           D == {x \in DOMAIN diff : diff[x] > 0}
           less == bag (-) one
<1>2. less = [x \in D |-> diff[x]]
  BY DEF (-)
<1>3. DOMAIN diff = DOMAIN bag /\ \A x \in DOMAIN bag : diff[x] = IF x = y THEN bag[x] - 1 ELSE bag[x]
  BY DEF SetToBag
<1>4. \A x : Held(x, bag) = IF x \in DOMAIN bag THEN bag[x] ELSE 0
  BY DEF Held
<1>5. \A x : Held(x, less) = IF x \in DOMAIN less THEN less[x] ELSE 0
  BY DEF Held
<1>6. BagIn(y, bag) <=> y \in DOMAIN bag
  BY DEF BagIn, BagToSet
<1> HIDE DEF one, diff, less
<1>7. DOMAIN less = D /\ \A x \in D : less[x] = diff[x]
  BY <1>2
<1>8. \A x \in D : diff[x] \in Nat \ {0}
  BY <1>3
<1>9. \A x : Held(x, bag) \in Nat
  BY <1>4
<1>10. BagIn(y, bag) <=> Held(y, bag) > 0
  BY <1>4, <1>6
<1>11. ASSUME y \in DOMAIN bag, NEW x
       PROVE  Held(x, less) = IF x = y THEN Held(x, bag) - 1 ELSE Held(x, bag)
  <2>1. CASE x \in DOMAIN bag
    <3>1. x \in D <=> (IF x = y THEN bag[x] - 1 ELSE bag[x]) > 0
      BY <1>3, <2>1
    <3>2. bag[x] \in Nat \ {0}
      BY <2>1
    <3> QED
      BY <1>3, <1>4, <1>5, <1>7, <2>1, <3>1, <3>2
  <2>2. CASE x \notin DOMAIN bag
    <3>1. x # y /\ x \notin D
      BY <1>3, <1>11, <2>2
    <3>2. x \notin DOMAIN less
      BY <1>7, <3>1
    <3>3. Held(x, bag) = 0 /\ Held(x, less) = 0
      BY <1>4, <1>5, <2>2, <3>2
    <3> QED
      BY <3>1, <3>3
  <2> QED
    BY <2>1, <2>2
<1>12. less = [x \in DOMAIN less |-> less[x]] /\ \A x \in DOMAIN less : less[x] \in Nat \ {0}
  BY <1>2, <1>7, <1>8
<1> QED
  BY <1>6, <1>9, <1>10, <1>11, <1>12 DEF less, one, LessOne

(* The right rows as a bag. *)
LEMMA ToBagFacts ==
  ASSUME NEW S, NEW rows \in Seq(S)
  PROVE  /\ ToBag(rows) = [x \in DOMAIN ToBag(rows) |-> ToBag(rows)[x]]
         /\ \A x \in DOMAIN ToBag(rows) : ToBag(rows)[x] \in Nat \ {0}
         /\ \A row : Held(row, ToBag(rows)) = Copies(row, rows)
<1>1. ToBag(rows) = [x \in Range(rows) |-> Copies(x, rows)]
  BY DEF ToBag, Copies
<1>2. \A row : Copies(row, rows) \in Nat /\ (Copies(row, rows) = 0 <=> row \notin Range(rows))
  BY CopiesFacts
<1>3. \A row : Held(row, ToBag(rows)) = IF row \in DOMAIN ToBag(rows) THEN ToBag(rows)[row] ELSE 0
  BY DEF Held
<1> QED
  BY <1>1, <1>2, <1>3

IsBag(bag) == bag = [x \in DOMAIN bag |-> bag[x]] /\ \A x \in DOMAIN bag : bag[x] \in Nat \ {0}

(* After k left rows: what is left of the right rows, and what was kept. *)
TakingOf(state, row, l, r, keepTaken) ==
  /\ Held(row, state.remaining) = IF l < r THEN r - l ELSE 0
  /\ Copies(row, state.rows) = IF keepTaken THEN (IF l < r THEN l ELSE r)
                                            ELSE (IF l > r THEN l - r ELSE 0)

(* One left row. *)
LEMMA TakingStep ==
  ASSUME NEW S, NEW state, IsBag(state.remaining), state.rows \in Seq(S), NEW x \in S, NEW row,
         NEW l \in Nat, NEW r \in Nat, NEW keepTaken \in BOOLEAN, TakingOf(state, row, l, r, keepTaken)
  PROVE  /\ IsBag(TakeOne(state, x, keepTaken).remaining) /\ TakeOne(state, x, keepTaken).rows \in Seq(S)
         /\ TakingOf(TakeOne(state, x, keepTaken), row, l + One(x, row), r, keepTaken)
<1> DEFINE bag == state.remaining
           less == bag (-) SetToBag({x})
           next == TakeOne(state, x, keepTaken)
           more == Append(state.rows, x)
<1>1. /\ next.remaining = IF BagIn(x, bag) THEN less ELSE bag
      /\ next.rows = IF BagIn(x, bag) <=> keepTaken THEN more ELSE state.rows
  BY DEF TakeOne, BagIn
<1>2. /\ IsBag(less) /\ Held(row, bag) \in Nat
      /\ BagIn(x, bag) <=> Held(x, bag) > 0
      /\ BagIn(x, bag) => Held(row, less) = IF row = x THEN Held(row, bag) - 1 ELSE Held(row, bag)
  <2>1. bag = [y \in DOMAIN bag |-> bag[y]] /\ \A y \in DOMAIN bag : bag[y] \in Nat \ {0}
    BY DEF IsBag
  <2> HIDE DEF bag
  <2> QED
    <3>1. LessOne(less, bag, x)
      BY <2>1, TakenFacts
    <3> HIDE DEF less
    <3> QED
      BY <3>1 DEF LessOne, IsBag
<1>3. more \in Seq(S) /\ Copies(row, more) = Copies(row, state.rows) + One(x, row)
  BY AppendCopies
<1>4. Copies(row, state.rows) \in Nat
  BY CopiesFacts
<1> HIDE DEF bag, less, next, more
<1>5. IsBag(next.remaining) /\ next.rows \in Seq(S)
  BY <1>1, <1>2, <1>3 DEF bag
<1>6. CASE x # row
  <2>1. Held(row, next.remaining) = Held(row, bag) /\ Copies(row, next.rows) = Copies(row, state.rows)
    BY <1>1, <1>2, <1>3, <1>4, <1>6 DEF One
  <2>2. TakingOf(next, row, l, r, keepTaken)
    BY <2>1 DEF TakingOf, bag
  <2> QED
    BY <1>5, <1>6, <2>2 DEF next, One
<1>7. CASE x = row
  <2> DEFINE c == Held(row, bag)
             k == Copies(row, state.rows)
             m == l + 1
  <2>1. c = (IF l < r THEN r - l ELSE 0)
        /\ k = (IF keepTaken THEN (IF l < r THEN l ELSE r) ELSE (IF l > r THEN l - r ELSE 0))
    BY DEF TakingOf, bag
  <2>2. CASE l < r
    <3>1. BagIn(x, bag)
      BY <1>2, <1>7, <2>1, <2>2
    <3>2. Held(row, next.remaining) = c - 1
      BY <1>1, <1>2, <1>7, <3>1
    <3>3. Held(row, next.remaining) = IF m < r THEN r - m ELSE 0
      BY <2>1, <2>2, <3>2
    <3>4. CASE keepTaken
      <4>1. Copies(row, next.rows) = k + 1
        BY <1>1, <1>3, <1>7, <3>1, <3>4 DEF One
      <4>2. Copies(row, next.rows) = IF m < r THEN m ELSE r
        BY <2>1, <2>2, <3>4, <4>1
      <4> QED
        BY <1>5, <1>7, <3>3, <3>4, <4>2 DEF TakingOf, next, One
    <3>5. CASE ~ keepTaken
      <4>1. Copies(row, next.rows) = k
        BY <1>1, <1>3, <1>7, <3>1, <3>5 DEF One
      <4>2. Copies(row, next.rows) = IF m > r THEN m - r ELSE 0
        BY <2>1, <2>2, <3>5, <4>1
      <4> QED
        BY <1>5, <1>7, <3>3, <3>5, <4>2 DEF TakingOf, next, One
    <3> QED
      BY <3>4, <3>5
  <2>3. CASE ~ l < r
    <3>1. ~ BagIn(x, bag)
      BY <1>2, <1>7, <2>1, <2>3
    <3>2. Held(row, next.remaining) = c
      BY <1>1, <1>7, <3>1
    <3>3. Held(row, next.remaining) = IF m < r THEN r - m ELSE 0
      BY <2>1, <2>3, <3>2
    <3>4. CASE keepTaken
      <4>1. Copies(row, next.rows) = k
        BY <1>1, <1>3, <1>7, <3>1, <3>4 DEF One
      <4>2. Copies(row, next.rows) = IF m < r THEN m ELSE r
        BY <2>1, <2>3, <3>4, <4>1
      <4> QED
        BY <1>5, <1>7, <3>3, <3>4, <4>2 DEF TakingOf, next, One
    <3>5. CASE ~ keepTaken
      <4>1. Copies(row, next.rows) = k + 1
        BY <1>1, <1>3, <1>7, <3>1, <3>5 DEF One
      <4>2. Copies(row, next.rows) = IF m > r THEN m - r ELSE 0
        <5>1. k = IF l > r THEN l - r ELSE 0
          BY <2>1, <3>5
        <5>2. m > r /\ k = l - r
          BY <2>3, <5>1
        <5> HIDE DEF k
        <5> QED
          BY <4>1, <5>2
      <4> QED
        BY <1>5, <1>7, <3>3, <3>5, <4>2 DEF TakingOf, next, One
    <3> QED
      BY <3>4, <3>5
  <2> QED
    BY <2>2, <2>3
<1> QED
  BY <1>6, <1>7

(* So many of l copies find one of r to go with, or do not. *)
Fewer(keepTaken, l, r) ==
  IF keepTaken THEN (IF l < r THEN l ELSE r) ELSE (IF l > r THEN l - r ELSE 0)

(* INTERSECT ALL and EXCEPT ALL have the smaller number of copies, and the *)
(* difference. *)
LEMMA TakeAllCopies ==
  ASSUME NEW S, NEW left \in Seq(S), NEW right \in Seq(S), NEW keepTaken \in BOOLEAN, NEW row
  PROVE  Copies(row, TakeAll(left, right, keepTaken))
           = Fewer(keepTaken, Copies(row, left), Copies(row, right))
<1> DEFINE n == Len(left)
           r == Copies(row, right)
           Good0(s, k) == /\ IsBag(s.remaining) /\ s.rows \in Seq(S)
                          /\ TakingOf(s, row, CopiesUpTo(row, left, k), r, keepTaken)
<1>1. n \in Nat /\ \A k \in 1 .. n : left[k] \in S
  OBVIOUS
<1>2. PICK f : Takes(f, left, right, keepTaken)
  BY <1>1, TakeAllFacts
<1>3. r \in Nat
  BY CopiesFacts
<1>4. /\ CopiesUpTo(row, left, 0) = 0 /\ CopiesUpTo(row, left, n) = Copies(row, left)
      /\ \A k \in 0 .. n : CopiesUpTo(row, left, k) \in Nat
      /\ \A k \in 1 .. n :
           CopiesUpTo(row, left, k) = CopiesUpTo(row, left, k - 1) + One(left[k], row)
  BY BeforeFacts
<1>5. Good0(f[0], 0)
  <2> DEFINE s == [remaining |-> ToBag(right), rows |-> <<>>]
  <2>1. f[0] = s /\ s.remaining = ToBag(right) /\ s.rows = <<>>
    BY <1>2 DEF Takes
  <2>2. IsBag(ToBag(right)) /\ Held(row, ToBag(right)) = r
    BY ToBagFacts DEF IsBag
  <2>3. <<>> \in Seq(S) /\ row \notin Range(<<>>)
    BY DEF Range
  <2>4. Copies(row, <<>>) = 0
    BY <2>3, CopiesFacts
  <2> HIDE DEF s, r
  <2>5. TakingOf(s, row, 0, r, keepTaken)
    BY <1>3, <2>1, <2>2, <2>4 DEF TakingOf
  <2> QED
    BY <1>4, <2>1, <2>2, <2>3, <2>5
<1>6. ASSUME NEW k \in 1 .. n, Good0(f[k - 1], k - 1)
      PROVE  Good0(f[k], k)
  <2>1. f[k] = TakeOne(f[k - 1], left[k], keepTaken) /\ left[k] \in S /\ k - 1 \in 0 .. n
    BY <1>1, <1>2 DEF Takes
  <2> DEFINE s == f[k - 1]
             x == left[k]
             l == CopiesUpTo(row, left, k - 1)
  <2>2. l \in Nat /\ CopiesUpTo(row, left, k) = l + One(x, row) /\ x \in S
    BY <1>4, <2>1
  <2>3. IsBag(s.remaining) /\ s.rows \in Seq(S) /\ TakingOf(s, row, l, r, keepTaken)
    BY <1>6
  <2>4. f[k] = TakeOne(s, x, keepTaken)
    BY <2>1
  <2> HIDE DEF s, x, l, r
  <2> DEFINE next == TakeOne(s, x, keepTaken)
  <2>5. IsBag(next.remaining) /\ next.rows \in Seq(S)
        /\ TakingOf(next, row, l + One(x, row), r, keepTaken)
    BY <1>3, <2>2, <2>3, TakingStep
  <2> QED
    BY <2>2, <2>4, <2>5
<1> DEFINE T == {k \in 0 .. n : ~ Good0(f[k], k)}
<1> HIDE DEF Good0
<1>7. T = {}
  <2>1. SUFFICES ASSUME T # {} PROVE FALSE
    OBVIOUS
  <2>2. T \subseteq Nat
    OBVIOUS
  <2>3. PICK m \in T : \A i \in 0 .. m - 1 : i \notin T
    BY <2>1, <2>2, LeastFacts
  <2>4. m \in 1 .. n /\ m - 1 \in 0 .. m - 1 /\ m - 1 \in 0 .. n
    BY <1>1, <1>5
  <2>5. Good0(f[m - 1], m - 1)
    BY <2>3, <2>4
  <2> QED
    BY <1>6, <2>4, <2>5
<1>8. Good0(f[n], n)
  BY <1>1, <1>7
<1>9. TakingOf(f[n], row, Copies(row, left), r, keepTaken)
  BY <1>4, <1>8 DEF Good0
<1>10. TakeAll(left, right, keepTaken) = f[n].rows
  BY <1>2 DEF Takes
<1> QED
  BY <1>9, <1>10 DEF TakingOf, Fewer

(* Some rows of a list, chosen by what they are. *)
LEMMA WhereCopies ==
  ASSUME NEW S, NEW rows \in Seq(S), NEW I, NEW row, NEW chosen,
         I \subseteq DOMAIN rows, \A i \in DOMAIN rows : i \in I <=> rows[i] \in chosen
  PROVE  /\ Pick(rows, Increasing(I)) \in Seq(S)
         /\ row \in Range(Pick(rows, Increasing(I))) <=> row \in Range(rows) /\ row \in chosen
<1>1. I \subseteq DOMAIN rows
  OBVIOUS
<1> DEFINE picked == Pick(rows, Increasing(I))
           B == {i \in I : rows[i] = row}
<1>2. picked \in Seq(S) /\ IsFiniteSet(I)
  BY <1>1, SelectionFacts
<1>3. Copies(row, picked) = Cardinality(B)
  BY <1>1, PickCopies
<1>4. Copies(row, picked) = 0 <=> row \notin Range(picked)
  BY <1>2, CopiesFacts
<1>5. B = {} <=> ~ (row \in Range(rows) /\ row \in chosen)
  BY DEF Range
<1>6. B \subseteq I
  OBVIOUS
<1> HIDE DEF picked, B
<1>7. Cardinality(B) = 0 <=> B = {}
  BY <1>2, <1>6, FS_Subset, FS_EmptySet
<1> QED
  BY <1>2, <1>3, <1>4, <1>5, <1>7 DEF picked

(* The copies of a row in the result of a set operation. *)
LEMMA CombinedCopies ==
  ASSUME NEW S, NEW left \in Seq(S), NEW right \in Seq(S), NEW how \in SetOperators, NEW row
  PROVE  Copies(row, Combined(how, left, right))
           = Multiplicity(how, Copies(row, left), Copies(row, right))
<1> DEFINE l == Copies(row, left)
           r == Copies(row, right)
<1>1. /\ l \in Nat /\ (l = 0 <=> row \notin Range(left))
      /\ r \in Nat /\ (r = 0 <=> row \notin Range(right))
  BY CopiesFacts
<1>2. left \o right \in Seq(S) /\ Copies(row, left \o right) = l + r
  BY ConcatCopies
<1> HIDE DEF l, r
<1>3. CASE how = "union all"
  BY <1>2, <1>3 DEF Combined, Multiplicity, l, r
<1>4. CASE how = "union"
  <2>1. Copies(row, Combined(how, left, right)) = IF row \in Range(left \o right) THEN 1 ELSE 0
    BY <1>2, <1>4, DistinctCopies DEF Combined
  <2>2. row \in Range(left \o right) <=> l + r > 0
    <3>1. l + r = 0 <=> row \notin Range(left \o right)
      BY <1>2, CopiesFacts
    <3> QED
      BY <1>1, <3>1
  <2>3. Multiplicity(how, l, r) = IF l + r > 0 THEN 1 ELSE 0
    BY <1>4 DEF Multiplicity
  <2> QED
    BY <2>1, <2>2, <2>3 DEF l, r
<1>5. CASE how = "intersect all"
  <2>1. Copies(row, TakeAll(left, right, TRUE)) = IF l < r THEN l ELSE r
    <3>1. Copies(row, TakeAll(left, right, TRUE)) = Fewer(TRUE, l, r)
      BY TakeAllCopies, Zenon DEF l, r
    <3> QED
      BY <3>1 DEF Fewer
  <2> QED
    BY <1>5, <2>1 DEF Combined, Multiplicity, l, r
<1>6. CASE how = "except all"
  <2>1. Copies(row, TakeAll(left, right, FALSE)) = IF l > r THEN l - r ELSE 0
    <3>1. Copies(row, TakeAll(left, right, FALSE)) = Fewer(FALSE, l, r)
      BY TakeAllCopies, Zenon DEF l, r
    <3> QED
      BY <3>1 DEF Fewer
  <2> QED
    BY <1>6, <2>1 DEF Combined, Multiplicity, l, r
<1>7. CASE how = "intersect"
  <2> DEFINE kept == {i \in DOMAIN left : left[i] \in Range(right)}
             some == Pick(left, Increasing(kept))
  <2>1. Combined(how, left, right) = Distinct(some)
    BY <1>7 DEF Combined, Where
  <2>2. some \in Seq(S) /\ (row \in Range(some) <=> row \in Range(left) /\ row \in Range(right))
    <3>1. kept \subseteq DOMAIN left /\ \A i \in DOMAIN left : i \in kept <=> left[i] \in Range(right)
      OBVIOUS
    <3> HIDE DEF kept
    <3> QED
      BY <3>1, WhereCopies, ZenonT(40)
  <2> HIDE DEF some
  <2>3. Copies(row, Distinct(some)) = IF row \in Range(some) THEN 1 ELSE 0
    BY <2>2, DistinctCopies
  <2>4. Multiplicity(how, l, r) = IF l > 0 /\ r > 0 THEN 1 ELSE 0
    BY <1>7 DEF Multiplicity
  <2> QED
    BY <1>1, <2>1, <2>2, <2>3, <2>4 DEF l, r
<1>8. CASE how = "except"
  <2> DEFINE chosen == S \ Range(right)
             kept == {i \in DOMAIN left : left[i] \notin Range(right)}
             some == Pick(left, Increasing(kept))
  <2>1. Combined(how, left, right) = Distinct(some)
    BY <1>8 DEF Combined, Where
  <2>2. \A i \in DOMAIN left : left[i] \in S
    OBVIOUS
  <2>3. kept \subseteq DOMAIN left /\ \A i \in DOMAIN left : i \in kept <=> left[i] \in chosen
    BY <2>2
  <2>4. some \in Seq(S) /\ (row \in Range(some) <=> row \in Range(left) /\ row \in chosen)
    <3> HIDE DEF kept, chosen
    <3> QED
      BY <2>3, WhereCopies
  <2>5. row \in Range(left) => row \in S
    BY <2>2 DEF Range
  <2> HIDE DEF some, kept
  <2>6. Copies(row, Distinct(some)) = IF row \in Range(some) THEN 1 ELSE 0
    BY <2>4, DistinctCopies
  <2>7. Multiplicity(how, l, r) = IF l > 0 /\ r = 0 THEN 1 ELSE 0
    BY <1>8 DEF Multiplicity
  <2> QED
    BY <1>1, <2>1, <2>4, <2>5, <2>6, <2>7 DEF l, r
<1> QED
  BY <1>3, <1>4, <1>5, <1>6, <1>7, <1>8 DEF SetOperators

(* Only its own action puts a node of a kind on top. *)
LEMMA StepKinds ==
  ASSUME ChainInv, ChainNext
  PROVE  /\ last'.node.kind = "set" => PutSet
         /\ last'.node.kind = "join" => PutJoin
         /\ last'.node.kind = "aggregate" => PutAggregate
<1> DEFINE schema == props.schema
<1>1. IsSchema(schema)
  BY SoundFacts DEF ChainInv
<1>2. \A kind : \A node \in Candidates(kind, schema) : node.kind = kind
  BY <1>1, CandidateFacts
<1>3. CASE PutProject
  <2>1. PICK node \in Candidates("project", schema) : last'.node = node
    BY <1>3 DEF PutProject, Put
  <2> QED
    BY <1>2, <2>1
<1>4. CASE PutFilter
  <2>1. PICK node \in Candidates("filter", schema) : last'.node = node
    BY <1>4 DEF PutFilter, Put
  <2> QED
    BY <1>2, <2>1
<1>5. CASE PutJoin
  <2>1. PICK side \in Sides : \E node \in Candidates("join", schema \o side.properties.schema) : last'.node = node
    BY <1>5 DEF PutJoin, Put
  <2>2. IsSchema(schema \o side.properties.schema)
    BY <1>1, SideFacts, SchemaConcat
  <2>3. last'.node.kind = "join"
    BY <2>1, <2>2, CandidateFacts
  <2> QED
    BY <1>5, <2>3
<1>6. CASE PutAggregate
  <2>1. PICK node \in Candidates("aggregate", schema) : last'.node = node
    BY <1>6 DEF PutAggregate, Put
  <2> QED
    BY <1>2, <1>6, <2>1
<1>7. CASE PutWindow
  <2>1. PICK node \in Candidates("window", schema) : last'.node = node
    BY <1>7 DEF PutWindow, Put
  <2> QED
    BY <1>2, <2>1
<1>8. CASE PutDistinct
  <2>1. PICK node \in Candidates("distinct", schema) : last'.node = node
    BY <1>8 DEF PutDistinct, Put
  <2> QED
    BY <1>2, <2>1
<1>9. CASE PutSet
  <2>1. PICK node \in Candidates("set", schema) : last'.node = node
    BY <1>9 DEF PutSet, Put
  <2> QED
    BY <1>2, <1>9, <2>1
<1>10. CASE PutOrder
  <2>1. PICK node \in Candidates("order", schema) : last'.node = node
    BY <1>10 DEF PutOrder, Put
  <2> QED
    BY <1>2, <2>1
<1>11. CASE PutSlice
  <2>1. PICK node \in Candidates("slice", schema) : last'.node = node
    BY <1>11 DEF PutSlice, Put
  <2> QED
    BY <1>2, <2>1
<1>12. CASE PutForgetOrder
  <2>1. PICK node \in Candidates("forget_order", schema) : last'.node = node
    BY <1>12 DEF PutForgetOrder, Put
  <2> QED
    BY <1>2, <2>1
<1> QED
  BY <1>3, <1>4, <1>5, <1>6, <1>7, <1>8, <1>9, <1>10, <1>11, <1>12 DEF ChainNext

(* A set operation put on top counts the rows of both sides.              *)
LEMMA SetStep ==
  ASSUME ChainInv, ChainNext, last'.node.kind = "set", NEW row
  PROVE  Copies(row, given'.rows)
           = Multiplicity(last'.node.how, Copies(row, given.rows), Copies(row, last'.side.rows))
<1> DEFINE schema == props.schema
<1>1. IsSchema(schema) /\ given.rows \in Seq(RowsOf(schema))
  BY SoundFacts DEF ChainInv
<1>2. PutSet
  BY StepKinds
<1>3. PICK side \in Sides, node \in Candidates("set", schema) :
        /\ AcceptsSet(node, props, side.properties)
        /\ given' = EvaluateSet(node, given.rows, side.rows)
        /\ last' = [node |-> node, side |-> side]
  BY <1>2 DEF PutSet, Put
<1>4. IsNode(node) /\ node.kind = "set"
  BY <1>1, CandidateFacts
<1>5. node.how \in SetOperators
  BY <1>4, NodeFacts DEF HasEntries, SetOperators
<1>6. side.rows \in Seq(RowsOf(side.properties.schema))
  BY SideFacts
<1> DEFINE S == RowsOf(schema) \cup RowsOf(side.properties.schema)
<1>7. given.rows \in Seq(S) /\ side.rows \in Seq(S)
  BY <1>1, <1>6, SequenceWiden
<1> HIDE DEF S
<1>8. Copies(row, Combined(node.how, given.rows, side.rows))
        = Multiplicity(node.how, Copies(row, given.rows), Copies(row, side.rows))
  BY <1>5, <1>7, CombinedCopies
<1>9. given'.rows = Combined(node.how, given.rows, side.rows)
  BY <1>3 DEF EvaluateSet, Result
<1> QED
  BY <1>3, <1>8, <1>9

(* THEOREM: a set operation gives each row as often as its kind says,      *)
(* counted from both sides: the bag that evaluate_set takes from one by    *)
(* one leaves max(l - r, 0), keeps min(l, r), and UNION ALL gives l + r.   *)
THEOREM SetsHaveTheirCopies == ChainSpec => SetMultiplicities
<1>1. ChainInv /\ [ChainNext]_chainVars =>
        [last'.node.kind = "set" =>
           LET left == given.rows
               right == last'.side.rows
           IN \A row \in Range(left) \cup Range(right) \cup Range(given'.rows) :
                Copies(row, given'.rows)
                  = Multiplicity(last'.node.how, Copies(row, left), Copies(row, right))]_chainVars
  BY SetStep
<1> QED
  BY <1>1, ChainIsSound, PTL DEF ChainSpec, SetMultiplicities

-----------------------------------------------------------------------------
(* Copies of a row in a join. *)

(* Rows that are put together of parts of the same lengths. *)
LEMMA SameConcat ==
  ASSUME NEW S, NEW a \in Seq(S), NEW b \in Seq(S), NEW c \in Seq(S), NEW d \in Seq(S),
         Len(a) = Len(c)
  PROVE  a \o b = c \o d => a = c /\ b = d
<1> DEFINE m == Len(a)
           u == a \o b
           v == c \o d
<1>1. SUFFICES ASSUME a \o b = c \o d PROVE a = c /\ b = d
  OBVIOUS
<1>2. /\ m \in Nat /\ Len(b) \in Nat /\ Len(d) \in Nat
      /\ Len(a \o b) = m + Len(b) /\ Len(c \o d) = m + Len(d)
      /\ a = [i \in 1 .. m |-> a[i]] /\ c = [i \in 1 .. m |-> c[i]]
      /\ b = [i \in 1 .. Len(b) |-> b[i]] /\ d = [i \in 1 .. Len(d) |-> d[i]]
  OBVIOUS
<1>3. Len(b) = Len(d)
  <2>1. Len(u) = Len(v)
    BY <1>1
  <2>2. Len(u) = m + Len(b) /\ Len(v) = m + Len(d)
    BY <1>2
  <2>3. m \in Nat /\ Len(b) \in Nat /\ Len(d) \in Nat
    BY <1>2
  <2> HIDE DEF m, u, v
  <2>4. m + Len(b) = m + Len(d)
    BY <2>1, <2>2
  <2> QED
    BY <2>3, <2>4
<1>4. /\ \A i \in 1 .. m : u[i] = a[i]
      /\ \A i \in 1 .. Len(b) : u[m + i] = b[i]
  OBVIOUS
<1>5. /\ \A i \in 1 .. m : v[i] = c[i]
      /\ \A i \in 1 .. Len(d) : v[m + i] = d[i]
  OBVIOUS
<1>10. u = v
  BY <1>1
<1> HIDE DEF m, u, v
<1>6. \A i \in 1 .. m : a[i] = c[i]
  BY <1>4, <1>5, <1>10
<1>7. \A i \in 1 .. Len(b) : b[i] = d[i]
  BY <1>3, <1>4, <1>5, <1>10
<1>8. a = c
  BY <1>2, <1>6
<1>9. b = d
  BY <1>2, <1>3, <1>7
<1> QED
  BY <1>8, <1>9

(* What a list has at its positions. *)
LEMMA Members ==
  ASSUME NEW S, NEW f \in Seq(S)
  PROVE  /\ Len(f) \in Nat /\ DOMAIN f = 1 .. Len(f)
         /\ \A k \in DOMAIN f : f[k] \in S
OBVIOUS

(* Every pair of positions is a candidate once. *)
LEMMA PairsAreOnce ==
  ASSUME NEW m \in Nat, NEW n \in Nat, NEW left, Len(left) = m, NEW right, Len(right) = n
  PROVE  /\ \A j, k \in 1 .. m * n :
              /\ Pairs(left, right)[j][1] = Pairs(left, right)[k][1]
              /\ Pairs(left, right)[j][2] = Pairs(left, right)[k][2]
              => j = k
         /\ \A a \in 1 .. m, b \in 1 .. n : \E k \in 1 .. m * n :
              Pairs(left, right)[k][1] = a /\ Pairs(left, right)[k][2] = b
<1> DEFINE pairs == Pairs(left, right)
<1>0. pairs = [k \in 1 .. m * n |-> <<((k - 1) \div n) + 1, ((k - 1) % n) + 1>>]
  BY DEF Pairs
<1> HIDE DEF pairs
<1>1. /\ m * n \in Nat
      /\ \A k \in 1 .. m * n : pairs[k][1] = ((k - 1) \div n) + 1 /\ pairs[k][2] = ((k - 1) % n) + 1
  BY <1>0
<1>2. n = 0 => m * n = 0
  OBVIOUS
<1>3. ASSUME NEW j \in 1 .. m * n, NEW k \in 1 .. m * n,
             pairs[j][1] = pairs[k][1], pairs[j][2] = pairs[k][2]
      PROVE  j = k
  <2>1. n \in Nat \ {0} /\ j - 1 \in Nat /\ k - 1 \in Nat
    BY <1>1, <1>2
  <2> DEFINE p == (j - 1) \div n
             q == (k - 1) \div n
             r == (j - 1) % n
             s == (k - 1) % n
  <2>2. p \in Int /\ q \in Int /\ r \in Int /\ s \in Int /\ j - 1 = n * p + r /\ k - 1 = n * q + s
    BY <2>1
  <2>3. p + 1 = q + 1 /\ r + 1 = s + 1
    BY <1>1, <1>3
  <2> HIDE DEF p, q, r, s
  <2>4. p = q /\ r = s
    BY <2>2, <2>3
  <2>5. j - 1 = k - 1
    BY <2>2, <2>4
  <2> QED
    BY <1>1, <2>5
<1>4. ASSUME NEW a \in 1 .. m, NEW b \in 1 .. n
      PROVE  \E k \in 1 .. m * n : pairs[k][1] = a /\ pairs[k][2] = b
  <2> DEFINE q == a - 1
             r == b - 1
             k == n * q + r + 1
  <2>1. n \in Nat \ {0} /\ q \in Nat /\ r \in 0 .. n - 1 /\ q + 1 = a /\ r + 1 = b /\ m = q + 1 + (m - a)
        /\ m - a \in Nat
    OBVIOUS
  <2> HIDE DEF q, r
  <2>2. n * q \in Nat /\ n * (m - a) \in Nat
    BY <2>1
  <2>3. m * n = n * q + n + n * (m - a)
    BY <2>1
  <2>4. k \in 1 .. m * n /\ k - 1 = n * q + r
    BY <2>1, <2>2, <2>3
  <2> HIDE DEF k
  <2>5. (k - 1) \div n = q /\ (k - 1) % n = r
    <3> DEFINE p == (k - 1) \div n
               s == (k - 1) % n
    <3>1. p \in Int /\ s \in 0 .. n - 1 /\ k - 1 = n * p + s
      BY <2>1, <2>4
    <3> HIDE DEF p, s
    <3>2. n * (p - q) = r - s
      BY <2>1, <2>4, <3>1
    <3>3. ~ p - q >= 1
      <4>1. SUFFICES ASSUME p - q >= 1 PROVE FALSE
        OBVIOUS
      <4>2. n * (p - q) >= n
        BY <2>1, <3>1, <4>1
      <4> QED
        BY <2>1, <3>1, <3>2, <4>2
    <3>4. ~ p - q <= -1
      <4>1. SUFFICES ASSUME p - q <= -1 PROVE FALSE
        OBVIOUS
      <4>2. n * (p - q) <= -n
        BY <2>1, <3>1, <4>1
      <4> QED
        BY <2>1, <3>1, <3>2, <4>2
    <3>5. p = q
      BY <2>1, <3>1, <3>3, <3>4
    <3>6. r = s
      BY <2>1, <3>1, <2>4, <3>5
    <3> QED
      BY <3>5, <3>6 DEF p, s
  <2> QED
    BY <1>1, <2>1, <2>4, <2>5
<1> QED
  BY <1>3, <1>4 DEF pairs

(* A list that has y exactly where another has x. *)
LEMMA MappedCopies ==
  ASSUME NEW rows, NEW list, DOMAIN list = DOMAIN rows, NEW x, NEW y,
         \A k \in DOMAIN rows : list[k] = y <=> rows[k] = x
  PROVE  Copies(y, list) = Copies(x, rows)
<1>1. {k \in DOMAIN list : list[k] = y} = {k \in DOMAIN rows : rows[k] = x}
  OBVIOUS
<1> QED
  BY <1>1 DEF Copies

(* A list that has y nowhere. *)
LEMMA NoCopies ==
  ASSUME NEW list, NEW y, \A k \in DOMAIN list : list[k] # y
  PROVE  Copies(y, list) = 0
<1>1. {k \in DOMAIN list : list[k] = y} = {}
  OBVIOUS
<1> QED
  BY <1>1, FS_EmptySet DEF Copies

(* Chosen positions, of which those of a row are all or none. *)
LEMMA AloneCopies ==
  ASSUME NEW S, NEW rows \in Seq(S), NEW U, U \subseteq DOMAIN rows, NEW x, NEW alone \in BOOLEAN,
         \A i \in DOMAIN rows : rows[i] = x => (i \in U <=> alone)
  PROVE  Copies(x, Pick(rows, Increasing(U))) = IF alone THEN Copies(x, rows) ELSE 0
<1>1. Copies(x, Pick(rows, Increasing(U))) = Cardinality({i \in U : rows[i] = x})
  BY PickCopies
<1>2. CASE alone
  <2>1. {i \in U : rows[i] = x} = {i \in DOMAIN rows : rows[i] = x}
    BY <1>2
  <2> QED
    BY <1>1, <1>2, <2>1 DEF Copies
<1>3. CASE ~ alone
  <2>1. {i \in U : rows[i] = x} = {}
    BY <1>3
  <2> QED
    BY <1>1, <1>3, <2>1, FS_EmptySet
<1> QED
  BY <1>2, <1>3

(* The candidates made of two rows are so many as there are pairs of them. *)
LEMMA CandidateCopies ==
  ASSUME NEW S, NEW ls \in Seq(S), NEW T, NEW rs \in Seq(T), NEW l, NEW r
  PROVE  Cardinality({k \in 1 .. Len(ls) * Len(rs) :
                         ls[Pairs(ls, rs)[k][1]] = l /\ rs[Pairs(ls, rs)[k][2]] = r})
           = Copies(l, ls) * Copies(r, rs)
<1> DEFINE m == Len(ls)
           n == Len(rs)
           pairs == Pairs(ls, rs)
           A == {i \in DOMAIN ls : ls[i] = l}
           B == {i \in DOMAIN rs : rs[i] = r}
           C == {k \in 1 .. m * n : ls[pairs[k][1]] = l /\ rs[pairs[k][2]] = r}
           g == [k \in C |-> <<pairs[k][1], pairs[k][2]>>]
<1>1. m \in Nat /\ n \in Nat /\ DOMAIN ls = 1 .. m /\ DOMAIN rs = 1 .. n /\ m * n \in Nat
  OBVIOUS
<1>2. \A k \in 1 .. m * n : pairs[k][1] \in 1 .. m /\ pairs[k][2] \in 1 .. n
  BY <1>1, PairFacts
<1>3. /\ \A j, k \in 1 .. m * n : pairs[j][1] = pairs[k][1] /\ pairs[j][2] = pairs[k][2] => j = k
      /\ \A a \in 1 .. m, b \in 1 .. n : \E k \in 1 .. m * n : pairs[k][1] = a /\ pairs[k][2] = b
  BY <1>1, PairsAreOnce, SMTT(30)
<1>4. /\ IsFiniteSet(A) /\ Cardinality(A) = Copies(l, ls)
      /\ IsFiniteSet(B) /\ Cardinality(B) = Copies(r, rs)
  BY CopiesFacts DEF Copies
<1>5. IsFiniteSet(C)
  <2>1. C \subseteq 1 .. m * n
    OBVIOUS
  <2> HIDE DEF C
  <2> QED
    BY <1>1, <2>1, PositionSets
<1> HIDE DEF m, n, pairs
<1>6. g \in [C -> A \X B]
  BY <1>1, <1>2
<1>7. \A x, y \in C : g[x] = g[y] => x = y
  BY <1>3
<1>8. \A t \in A \X B : \E x \in C : g[x] = t
  <2>1. ASSUME NEW a \in A, NEW b \in B PROVE \E x \in C : g[x] = <<a, b>>
    <3>1. a \in 1 .. m /\ b \in 1 .. n /\ ls[a] = l /\ rs[b] = r
      BY <1>1
    <3>2. PICK k \in 1 .. m * n : pairs[k][1] = a /\ pairs[k][2] = b
      BY <1>3, <3>1
    <3> QED
      BY <3>1, <3>2
  <2>2. ASSUME NEW t \in A \X B PROVE \E x \in C : g[x] = t
    <3> HIDE DEF A, B, C, g
    <3>1. PICK a \in A, b \in B : t = <<a, b>>
      OBVIOUS
    <3> QED
      BY <2>1, <3>1
  <2> HIDE DEF A, B, C, g
  <2> QED
    BY <2>2
<1> DEFINE D == A \X B
<1> HIDE DEF A, B, C, D, g
<1>9. Cardinality(D) = Cardinality(C)
  <2>1. g \in [C -> D] /\ \A t \in D : \E x \in C : g[x] = t
    BY <1>6, <1>8, Zenon DEF D
  <2> QED
    BY <1>5, <1>7, <2>1, SameSize
<1>10. Cardinality(D) = Cardinality(A) * Cardinality(B)
  BY <1>4, FS_Product DEF D
<1> QED
  BY <1>4, <1>9, <1>10 DEF C, m, n, pairs

(* Rows of so many cells. *)
Wide(n) == {row \in Seq(Values) : Len(row) = n}

(* A row put together of two widths comes apart in one way.               *)
LEMMA WideFacts ==
  ASSUME NEW m \in Nat, NEW n \in Nat
  PROVE  /\ Nulls(n) \in Wide(n)
         /\ \A a, c \in Wide(m), b, d \in Wide(n) : a \o b = c \o d => a = c /\ b = d
         /\ \A a \in Wide(m), b \in Wide(n) : a \o b \in Seq(Values)
         /\ \A a \in Wide(m) : <<>> \o a = a /\ a \o <<>> = a
<1>1. Nulls(n) \in Wide(n)
  <2> DEFINE none == Nulls(n)
  <2>1. Null \in Values
    BY DEF Values
  <2>2. none = [i \in 1 .. n |-> none[i]] /\ \A i \in 1 .. n : none[i] \in Values
    BY <2>1 DEF Nulls
  <2> HIDE DEF none
  <2>3. none \in Seq(Values) /\ Len(none) = n
    BY <2>2, SequenceIntro
  <2> QED
    BY <2>3 DEF Wide, none
<1>2. \A a, c \in Wide(m), b, d \in Wide(n) : a \o b = c \o d => a = c /\ b = d
  <2>1. ASSUME NEW a \in Wide(m), NEW c \in Wide(m), NEW b \in Wide(n), NEW d \in Wide(n), a \o b = c \o d
        PROVE  a = c /\ b = d
    <3>1. /\ a \in Seq(Values) /\ c \in Seq(Values) /\ b \in Seq(Values) /\ d \in Seq(Values)
          /\ Len(a) = Len(c)
      BY DEF Wide
    <3> QED
      BY <2>1, <3>1, SameConcat, Zenon
  <2> QED
    BY <2>1
<1>3. \A a \in Wide(m), b \in Wide(n) : a \o b \in Seq(Values)
  BY DEF Wide
<1>4. \A a \in Wide(m) : <<>> \o a = a /\ a \o <<>> = a
  BY DEF Wide
<1> QED
  BY <1>1, <1>2, <1>3, <1>4

(* The rows of a schema are as wide as it. *)
LEMMA WideRows ==
  ASSUME NEW s, IsSchema(s)
  PROVE  Len(s) \in Nat /\ RowsOf(s) \subseteq Wide(Len(s))
BY SchemaFacts, RowSequence DEF Wide

(* Candidates are accepted or not by the rows they are made of. *)
Decides(V, J, ls, rs) ==
  /\ V \subseteq 1 .. Len(ls) * Len(rs)
  /\ \A k \in 1 .. Len(ls) * Len(rs) :
       k \in V <=> <<ls[Pairs(ls, rs)[k][1]], rs[Pairs(ls, rs)[k][2]]>> \in J

(* The candidates that match. *)
Matched(ls, rs, matches) ==
  [k \in DOMAIN matches |-> ls[Pairs(ls, rs)[matches[k]][1]] \o rs[Pairs(ls, rs)[matches[k]][2]]]

(* Each pair the condition accepts stands as often as its sides do.       *)
LEMMA MatchedCopies ==
  ASSUME NEW m \in Nat, NEW n \in Nat, NEW ls \in Seq(Wide(m)), NEW rs \in Seq(Wide(n)),
         NEW V, NEW J, Decides(V, J, ls, rs), NEW matches, matches = Increasing(V),
         NEW l \in Wide(m), NEW r \in Wide(n)
  PROVE  /\ Matched(ls, rs, matches) \in Seq(Seq(Values))
         /\ Copies(l \o r, Matched(ls, rs, matches))
              = IF <<l, r>> \in J THEN Copies(l, ls) * Copies(r, rs) ELSE 0
<1> DEFINE N == Len(ls) * Len(rs)
           pairs == Pairs(ls, rs)
           all == [k \in 1 .. N |-> ls[pairs[k][1]] \o rs[pairs[k][2]]]
           matched == Matched(ls, rs, matches)
           B == {k \in V : all[k] = l \o r}
           C == {k \in 1 .. N : ls[pairs[k][1]] = l /\ rs[pairs[k][2]] = r}
<1>1. /\ Len(ls) \in Nat /\ Len(rs) \in Nat
      /\ \A i \in 1 .. Len(ls) : ls[i] \in Wide(m)
      /\ \A i \in 1 .. Len(rs) : rs[i] \in Wide(n)
  OBVIOUS
<1>2. /\ N \in Nat
      /\ \A k \in 1 .. N : pairs[k][1] \in 1 .. Len(ls) /\ pairs[k][2] \in 1 .. Len(rs)
  BY <1>1, PairFacts
<1>3. V \subseteq 1 .. N /\ \A k \in 1 .. N : k \in V <=> <<ls[pairs[k][1]], rs[pairs[k][2]]>> \in J
  BY DEF Decides
<1>4. Cardinality(C) = Copies(l, ls) * Copies(r, rs)
  BY CandidateCopies
<1>13. /\ \A a, c \in Wide(m), b, d \in Wide(n) : a \o b = c \o d => a = c /\ b = d
       /\ \A a \in Wide(m), b \in Wide(n) : a \o b \in Seq(Values)
  BY WideFacts
<1> HIDE DEF N, pairs
<1>5. \A k \in 1 .. N : ls[pairs[k][1]] \in Wide(m) /\ rs[pairs[k][2]] \in Wide(n)
  BY <1>1, <1>2
<1>6. \A k \in 1 .. N : all[k] = ls[pairs[k][1]] \o rs[pairs[k][2]]
  OBVIOUS
<1>7. all \in Seq(Seq(Values)) /\ DOMAIN all = 1 .. N
  <2>1. all = [k \in 1 .. N |-> all[k]]
    OBVIOUS
  <2> HIDE DEF all
  <2>2. \A k \in 1 .. N : all[k] \in Seq(Values)
    <3>1. ASSUME NEW k \in 1 .. N PROVE all[k] \in Seq(Values)
      <4>1. ls[pairs[k][1]] \o rs[pairs[k][2]] \in Seq(Values)
        BY <1>5, <1>13, Zenon
      <4> QED
        BY <1>6, <4>1
    <3> QED
      BY <3>1
  <2> QED
    BY <1>2, <2>1, <2>2, SequenceIntro
<1>8. matched = Pick(all, matches)
  <2>3. matched = [k \in DOMAIN matches |-> ls[pairs[matches[k]][1]] \o rs[pairs[matches[k]][2]]]
    BY DEF Matched, pairs
  <2> HIDE DEF all, matched
  <2>1. \A k \in DOMAIN matches : matches[k] \in 1 .. N
    <3>1. Increasing(V) \in Seq(DOMAIN all)
      BY <1>3, <1>7, SelectionFacts
    <3>2. matches \in Seq(1 .. N)
      BY <1>7, <3>1
    <3> QED
      BY <3>2, Members, Zenon
  <2>2. \A k \in DOMAIN matches : all[matches[k]] = ls[pairs[matches[k]][1]] \o rs[pairs[matches[k]][2]]
    BY <1>6, <2>1
  <2> QED
    BY <2>2, <2>3, Zenon DEF Pick
<1> HIDE DEF all, matched
<1>9. matched \in Seq(Seq(Values)) /\ Copies(l \o r, matched) = Cardinality(B)
  <2> HIDE DEF B
  <2>1. V \subseteq DOMAIN all /\ matched = Pick(all, Increasing(V))
    BY <1>3, <1>7, <1>8
  <2>2. matched \in Seq(Seq(Values))
    BY <1>7, <2>1, SelectionFacts
  <2> DEFINE both == l \o r
  <2>3. B = {k \in V : all[k] = both}
    BY DEF B
  <2> DEFINE T == Seq(Values)
  <2>5. all \in Seq(T)
    BY <1>7
  <2> HIDE DEF both, T
  <2>4. Copies(both, Pick(all, Increasing(V))) = Cardinality({k \in V : all[k] = both})
    BY <2>1, <2>5, PickCopies
  <2> QED
    BY <2>1, <2>2, <2>3, <2>4 DEF both
<1>10. \A k \in 1 .. N : all[k] = l \o r <=> ls[pairs[k][1]] = l /\ rs[pairs[k][2]] = r
  <2>1. ASSUME NEW k \in 1 .. N, all[k] = l \o r PROVE ls[pairs[k][1]] = l /\ rs[pairs[k][2]] = r
    <3> DEFINE a == ls[pairs[k][1]]
               b == rs[pairs[k][2]]
    <3>1. a \in Wide(m) /\ b \in Wide(n)
      BY <1>5, <1>6
    <3>3. a \o b = l \o r
      BY <1>6, <2>1, Zenon
    <3> HIDE DEF a, b
    <3>2. a \o b = l \o r => a = l /\ b = r
      BY <1>13, <3>1, ZenonT(40)
    <3> QED
      BY <3>2, <3>3 DEF a, b
  <2>2. ASSUME NEW k \in 1 .. N, ls[pairs[k][1]] = l, rs[pairs[k][2]] = r PROVE all[k] = l \o r
    BY <1>6, <2>2
  <2> QED
    BY <2>1, <2>2
<1>11. CASE <<l, r>> \in J
  <2>1. B = C
    BY <1>3, <1>10, <1>11
  <2> HIDE DEF B, C
  <2> QED
    BY <1>4, <1>9, <1>11, <2>1 DEF matched
<1>12. CASE <<l, r>> \notin J
  <2>1. B = {}
    BY <1>3, <1>10, <1>12
  <2> HIDE DEF B, C
  <2> QED
    BY <1>9, <1>12, <2>1, FS_EmptySet DEF matched
<1> QED
  BY <1>11, <1>12

(* Rows without a partner, padded. *)
Padded(rows, before, after) == [k \in DOMAIN rows |-> before \o rows[k] \o after]

(* Padding makes y of x, if that fits, and of no other row. *)
PadsTo(S, before, after, x, fits, y) ==
  \A row \in S : before \o row \o after = y <=> row = x /\ fits

(* Whether a row is among those chosen shows from the row. *)
AllOrNone(rows, U, x, alone) == \A i \in DOMAIN rows : rows[i] = x => (i \in U <=> alone)

(* Each row that is alone is padded as often as it occurs.                *)
LEMMA PaddedCopies ==
  ASSUME NEW S, NEW rows \in Seq(S), NEW U, U \subseteq DOMAIN rows, NEW x, NEW alone \in BOOLEAN,
         AllOrNone(rows, U, x, alone), NEW before, NEW after, NEW y, NEW fits \in BOOLEAN,
         PadsTo(S, before, after, x, fits, y)
  PROVE  Copies(y, Padded(Pick(rows, Increasing(U)), before, after))
           = IF fits /\ alone THEN Copies(x, rows) ELSE 0
<1> DEFINE picked == Pick(rows, Increasing(U))
           padded == Padded(picked, before, after)
<1>1. picked \in Seq(S)
  BY SelectionFacts
<1>2. Copies(x, picked) = IF alone THEN Copies(x, rows) ELSE 0
  BY AloneCopies DEF AllOrNone
<1>3. DOMAIN padded = DOMAIN picked /\ \A k \in DOMAIN picked : padded[k] = before \o picked[k] \o after
  BY DEF Padded
<1> HIDE DEF picked, padded
<1>4. \A k \in DOMAIN picked : picked[k] \in S
  BY <1>1
<1>5. \A k \in DOMAIN picked : padded[k] = y <=> picked[k] = x /\ fits
  BY <1>3, <1>4 DEF PadsTo
<1>6. CASE fits
  <2>1. \A k \in DOMAIN picked : padded[k] = y <=> picked[k] = x
    BY <1>5, <1>6
  <2>2. DOMAIN padded = DOMAIN picked
    BY <1>3
  <2>3. Copies(y, padded) = Copies(x, picked)
    BY <2>1, <2>2, MappedCopies, Zenon
  <2> QED
    BY <1>2, <1>6, <2>3 DEF picked, padded
<1>7. CASE ~ fits
  <2>1. \A k \in DOMAIN padded : padded[k] # y
    BY <1>3, <1>5, <1>7
  <2>2. Copies(y, padded) = 0
    BY <2>1, NoCopies
  <2> QED
    BY <1>7, <2>2 DEF picked, padded
<1> QED
  BY <1>6, <1>7

(* Whether a row of either side is without a partner shows from the row. *)
LEMMA AlonePositions ==
  ASSUME NEW S, NEW ls \in Seq(S), NEW T, NEW rs \in Seq(T),
         NEW V, NEW J, Decides(V, J, ls, rs), NEW matches, matches = Increasing(V)
  PROVE  /\ \A i \in DOMAIN ls : (\A k \in Range(matches) : Pairs(ls, rs)[k][1] # i)
                                   <=> \A r \in Range(rs) : <<ls[i], r>> \notin J
         /\ \A i \in DOMAIN rs : (\A k \in Range(matches) : Pairs(ls, rs)[k][2] # i)
                                   <=> \A l \in Range(ls) : <<l, rs[i]>> \notin J
<1> DEFINE N == Len(ls) * Len(rs)
           pairs == Pairs(ls, rs)
<1>1. Len(ls) \in Nat /\ Len(rs) \in Nat /\ DOMAIN ls = 1 .. Len(ls) /\ DOMAIN rs = 1 .. Len(rs)
  OBVIOUS
<1>2. /\ N \in Nat
      /\ \A k \in 1 .. N : pairs[k][1] \in 1 .. Len(ls) /\ pairs[k][2] \in 1 .. Len(rs)
  BY <1>1, PairFacts
<1>3. V \subseteq 1 .. N /\ \A k \in 1 .. N : k \in V <=> <<ls[pairs[k][1]], rs[pairs[k][2]]>> \in J
  BY DEF Decides
<1>4. \A a \in 1 .. Len(ls), b \in 1 .. Len(rs) : \E k \in 1 .. N : pairs[k][1] = a /\ pairs[k][2] = b
  BY <1>1, PairsAreOnce
<1> HIDE DEF N, pairs
<1>5. Range(matches) = V
  <2>1. IsFiniteSet(V) /\ V \subseteq Int
    BY <1>2, <1>3, PositionSets
  <2> QED
    BY <2>1, IncreasingFacts
<1>6. ASSUME NEW i \in DOMAIN ls
      PROVE  (\A k \in V : pairs[k][1] # i) <=> \A r \in Range(rs) : <<ls[i], r>> \notin J
  <2>1. ASSUME \A k \in V : pairs[k][1] # i, NEW b \in DOMAIN rs PROVE <<ls[i], rs[b]>> \notin J
    <3>1. PICK k \in 1 .. N : pairs[k][1] = i /\ pairs[k][2] = b
      BY <1>1, <1>4, ZenonT(40)
    <3> QED
      BY <1>3, <2>1, <3>1
  <2>2. ASSUME NEW k \in V, pairs[k][1] = i PROVE \E b \in DOMAIN rs : <<ls[i], rs[b]>> \in J
    BY <1>1, <1>2, <1>3, <2>2
  <2> QED
    BY <2>1, <2>2 DEF Range
<1>7. ASSUME NEW i \in DOMAIN rs
      PROVE  (\A k \in V : pairs[k][2] # i) <=> \A l \in Range(ls) : <<l, rs[i]>> \notin J
  <2>1. ASSUME \A k \in V : pairs[k][2] # i, NEW a \in DOMAIN ls PROVE <<ls[a], rs[i]>> \notin J
    <3>1. PICK k \in 1 .. N : pairs[k][1] = a /\ pairs[k][2] = i
      BY <1>1, <1>4, ZenonT(40)
    <3> QED
      BY <1>3, <2>1, <3>1
  <2>2. ASSUME NEW k \in V, pairs[k][2] = i PROVE \E a \in DOMAIN ls : <<ls[a], rs[i]>> \in J
    BY <1>1, <1>2, <1>3, <2>2
  <2> QED
    BY <2>1, <2>2 DEF Range
<1> QED
  BY <1>5, <1>6, <1>7 DEF pairs

(* The rows of a side that the join pads, if it does. *)
LEMMA LeftPadded ==
  ASSUME NEW m \in Nat, NEW n \in Nat, NEW ls \in Seq(Wide(m)), NEW rs \in Seq(Wide(n)),
         NEW V, NEW J, Decides(V, J, ls, rs), NEW matches, matches = Increasing(V),
         NEW l \in Wide(m), NEW r \in Wide(n), NEW picked,
         picked = Pick(ls, Unmatched(1, Len(ls), Pairs(ls, rs), matches))
  PROVE  /\ Padded(picked, <<>>, Nulls(n)) \in Seq(Seq(Values))
         /\ Copies(l \o r, Padded(picked, <<>>, Nulls(n)))
              = IF r = Nulls(n) /\ \A b \in Range(rs) : <<l, b>> \notin J THEN Copies(l, ls) ELSE 0
<1> DEFINE U == {i \in 1 .. Len(ls) : \A k \in Range(matches) : Pairs(ls, rs)[k][1] # i}
           S == Wide(m)
           none == Nulls(n)
           both == l \o r
           alone == \A b \in Range(rs) : <<l, b>> \notin J
           fits == r = none
           before == <<>>
<1>1. picked = Pick(ls, Increasing(U)) /\ U \subseteq DOMAIN ls
  BY DEF Unmatched
<1>2. \A i \in DOMAIN ls : ls[i] = l => (i \in U <=> alone)
  <2>1. \A i \in DOMAIN ls : i \in U <=> \A b \in Range(rs) : <<ls[i], b>> \notin J
    BY AlonePositions
  <2> HIDE DEF U
  <2> QED
    BY <2>1
<1> HIDE DEF U
<1>3. none \in Wide(n) /\ \A row \in S : before \o row = row
  BY WideFacts
<1>4. \A a, c \in S, b, d \in Wide(n) : a \o b = c \o d => a = c /\ b = d
  BY WideFacts, Zenon
<1>5. \A row \in S : row \o none \in Seq(Values)
  BY WideFacts
<1> HIDE DEF none, before
<1>6. ASSUME NEW row \in S PROVE before \o row \o none = both <=> row = l /\ fits
  <2>1. before \o row \o none = row \o none
    BY <1>3
  <2>2. ASSUME row \o none = l \o r PROVE row = l /\ none = r
    <3>0. none \in Wide(n)
      BY <1>3
    <3>1. row \o none = l \o r => row = l /\ none = r
      BY <1>4, <3>0, ZenonT(40)
    <3> QED
      BY <2>2, <3>1
  <2>3. ASSUME row = l, fits PROVE row \o none = l \o r
    BY <2>3
  <2> QED
    BY <2>1, <2>2, <2>3
<1>7. \A row \in S : before \o row \o none \in Seq(Values)
  BY <1>3, <1>5
<1> HIDE DEF S, both, alone, fits
<1>8. ls \in Seq(S) /\ alone \in BOOLEAN /\ fits \in BOOLEAN
  BY DEF S, alone, fits
<1>9. Copies(both, Padded(picked, before, none))
        = IF fits /\ alone THEN Copies(l, ls) ELSE 0
  <2>1. Copies(both, Padded(Pick(ls, Increasing(U)), before, none)) = IF fits /\ alone THEN Copies(l, ls) ELSE 0
    <3>1. AllOrNone(ls, U, l, alone)
      BY <1>2 DEF AllOrNone
    <3>2. PadsTo(S, before, none, l, fits, both)
      BY <1>6 DEF PadsTo
    <3> QED
      BY <1>1, <1>8, <3>1, <3>2, PaddedCopies
  <2> QED
    BY <1>1, <2>1
<1>10. Padded(picked, before, none) \in Seq(Seq(Values))
  <2>1. picked \in Seq(S)
    BY <1>1, <1>8, SelectionFacts
  <2> DEFINE T == Seq(Values)
  <2>2. \A row \in S : before \o row \o none \in T
    BY <1>7
  <2> HIDE DEF T
  <2>3. Padded(picked, before, none) \in Seq(T)
    BY <2>1, <2>2, PaddedType, ZenonT(40) DEF Padded
  <2> QED
    BY <2>3 DEF T
<1> QED
  BY <1>9, <1>10 DEF both, alone, fits, before, none

(* The right rows without a partner, likewise.                            *)
LEMMA RightPadded ==
  ASSUME NEW m \in Nat, NEW n \in Nat, NEW ls \in Seq(Wide(m)), NEW rs \in Seq(Wide(n)),
         NEW V, NEW J, Decides(V, J, ls, rs), NEW matches, matches = Increasing(V),
         NEW l \in Wide(m), NEW r \in Wide(n), NEW picked,
         picked = Pick(rs, Unmatched(2, Len(rs), Pairs(ls, rs), matches))
  PROVE  /\ Padded(picked, Nulls(m), <<>>) \in Seq(Seq(Values))
         /\ Copies(l \o r, Padded(picked, Nulls(m), <<>>))
              = IF l = Nulls(m) /\ \A a \in Range(ls) : <<a, r>> \notin J THEN Copies(r, rs) ELSE 0
<1> DEFINE U == {i \in 1 .. Len(rs) : \A k \in Range(matches) : Pairs(ls, rs)[k][2] # i}
           S == Wide(n)
           none == Nulls(m)
           both == l \o r
           alone == \A a \in Range(ls) : <<a, r>> \notin J
           fits == l = none
           after == <<>>
<1>1. picked = Pick(rs, Increasing(U)) /\ U \subseteq DOMAIN rs
  BY DEF Unmatched
<1>2. \A i \in DOMAIN rs : rs[i] = r => (i \in U <=> alone)
  <2>1. \A i \in DOMAIN rs : i \in U <=> \A a \in Range(ls) : <<a, rs[i]>> \notin J
    BY AlonePositions
  <2> HIDE DEF U
  <2> QED
    BY <2>1
<1> HIDE DEF U
<1>3. none \in Wide(m)
  BY WideFacts
<1>4. \A a, c \in Wide(m), b, d \in S : a \o b = c \o d => a = c /\ b = d
  BY WideFacts, Zenon
<1>5. \A row \in S : none \o row \in Seq(Values)
  BY <1>3, WideFacts
<1>11. \A row \in S : none \o row \o after = none \o row
  BY <1>5
<1> HIDE DEF none, after
<1>6. ASSUME NEW row \in S PROVE none \o row \o after = both <=> row = r /\ fits
  <2>1. none \o row \o after = none \o row
    BY <1>11
  <2>2. ASSUME none \o row = l \o r PROVE none = l /\ row = r
    <3>1. none \o row = l \o r => none = l /\ row = r
      BY <1>3, <1>4, ZenonT(40)
    <3> QED
      BY <2>2, <3>1
  <2>3. ASSUME row = r, fits PROVE none \o row = l \o r
    BY <2>3
  <2> QED
    BY <2>1, <2>2, <2>3
<1>7. \A row \in S : none \o row \o after \in Seq(Values)
  BY <1>5, <1>11
<1> HIDE DEF S, both, alone, fits
<1>8. rs \in Seq(S) /\ alone \in BOOLEAN /\ fits \in BOOLEAN
  BY DEF S, alone, fits
<1>9. Copies(both, Padded(picked, none, after))
        = IF fits /\ alone THEN Copies(r, rs) ELSE 0
  <2>1. Copies(both, Padded(Pick(rs, Increasing(U)), none, after)) = IF fits /\ alone THEN Copies(r, rs) ELSE 0
    <3>1. AllOrNone(rs, U, r, alone)
      BY <1>2 DEF AllOrNone
    <3>2. PadsTo(S, none, after, r, fits, both)
      BY <1>6 DEF PadsTo
    <3> QED
      BY <1>1, <1>8, <3>1, <3>2, PaddedCopies
  <2> QED
    BY <1>1, <2>1
<1>10. Padded(picked, none, after) \in Seq(Seq(Values))
  <2>1. picked \in Seq(S)
    BY <1>1, <1>8, SelectionFacts
  <2> DEFINE T == Seq(Values)
  <2>2. \A row \in S : none \o row \o after \in T
    BY <1>7
  <2> HIDE DEF T
  <2>3. Padded(picked, none, after) \in Seq(T)
    BY <2>1, <2>2, PaddedType, ZenonT(40) DEF Padded
  <2> QED
    BY <2>3 DEF T
<1> QED
  BY <1>9, <1>10 DEF both, alone, fits, after, none

(* How often a join has the row made of l and r. *)
JoinedCopies(how, m, n, ls, rs, J, l, r) ==
  (IF <<l, r>> \in J THEN Copies(l, ls) * Copies(r, rs) ELSE 0)
    + (IF how \in {"left", "full"} /\ r = Nulls(n) /\ \A b \in Range(rs) : <<l, b>> \notin J
       THEN Copies(l, ls) ELSE 0)
    + (IF how \in {"right", "full"} /\ l = Nulls(m) /\ \A a \in Range(ls) : <<a, r>> \notin J
       THEN Copies(r, rs) ELSE 0)

(* The rows of a join, by where they come from.                           *)
LEMMA JoinRowsCopies ==
  ASSUME NEW how, NEW m \in Nat, NEW n \in Nat, NEW ls \in Seq(Wide(m)), NEW rs \in Seq(Wide(n)),
         NEW V, NEW J, Decides(V, J, ls, rs), NEW l \in Wide(m), NEW r \in Wide(n)
  PROVE  Copies(l \o r, JoinRows(how, ls, rs, <<Nulls(m), Nulls(n)>>, Pairs(ls, rs), Increasing(V)))
           = JoinedCopies(how, m, n, ls, rs, J, l, r)
<1> DEFINE matches == Increasing(V)
           pairs == Pairs(ls, rs)
           T == Seq(Values)
           row == l \o r
           matched == Matched(ls, rs, matches)
           aloneL == Pick(ls, Unmatched(1, Len(ls), pairs, matches))
           aloneR == Pick(rs, Unmatched(2, Len(rs), pairs, matches))
           paddedL == Padded(aloneL, <<>>, Nulls(n))
           paddedR == Padded(aloneR, Nulls(m), <<>>)
           ifL == IF how \in {"left", "full"} THEN paddedL ELSE <<>>
           ifR == IF how \in {"right", "full"} THEN paddedR ELSE <<>>
           loneL == r = Nulls(n) /\ \A b \in Range(rs) : <<l, b>> \notin J
           loneR == l = Nulls(m) /\ \A a \in Range(ls) : <<a, r>> \notin J
           out == JoinRows(how, ls, rs, <<Nulls(m), Nulls(n)>>, pairs, matches)
           a0 == IF <<l, r>> \in J THEN Copies(l, ls) * Copies(r, rs) ELSE 0
           a1 == IF how \in {"left", "full"} /\ loneL THEN Copies(l, ls) ELSE 0
           a2 == IF how \in {"right", "full"} /\ loneR THEN Copies(r, rs) ELSE 0
<1>1. out = matched \o ifL \o ifR
  BY Zenon DEF JoinRows, Padded, Matched
<1>2. matched \in Seq(T) /\ Copies(row, matched) = a0
  BY MatchedCopies
<1>3. paddedL \in Seq(T) /\ Copies(row, paddedL) = IF loneL THEN Copies(l, ls) ELSE 0
  BY LeftPadded
<1>4. paddedR \in Seq(T) /\ Copies(row, paddedR) = IF loneR THEN Copies(r, rs) ELSE 0
  BY RightPadded
<1>5. \A k \in DOMAIN <<>> : FALSE
  OBVIOUS
<1> HIDE DEF paddedL, paddedR, matched, out, row, T, loneL, loneR
<1>6. <<>> \in Seq(T) /\ Copies(row, <<>>) = 0
  BY <1>5, NoCopies
<1>7. ifL \in Seq(T) /\ Copies(row, ifL) = a1
  BY <1>3, <1>6
<1>8. ifR \in Seq(T) /\ Copies(row, ifR) = a2
  BY <1>4, <1>6
<1> HIDE DEF ifL, ifR, a0, a1, a2
<1>9. matched \o ifL \in Seq(T) /\ Copies(row, matched \o ifL) = a0 + a1
  BY <1>2, <1>7, ConcatCopies
<1>10. Copies(row, out) = a0 + a1 + a2
  <2> DEFINE front == matched \o ifL
  <2> HIDE DEF front
  <2>1. front \in Seq(T) /\ Copies(row, front) = a0 + a1 /\ out = front \o ifR
    BY <1>1, <1>9 DEF front
  <2> QED
    BY <1>8, <2>1, ConcatCopies
<1> QED
  <2>1. a0 + a1 + a2 = JoinedCopies(how, m, n, ls, rs, J, l, r)
    BY Zenon DEF a0, a1, a2, loneL, loneR, JoinedCopies
  <2> QED
    BY <1>10, <2>1, Zenon DEF out, row
(* The pairs of rows that a join accepts. *)
Accepted(node, schema, m, n) == {p \in Wide(m) \X Wide(n) : Joins(node, schema, p[1] \o p[2])}

(* evaluate_join, when the condition fails on no candidate.               *)
LEMMA EvaluatedJoinCopies ==
  ASSUME NEW node, NEW s, IsSchema(s), NEW t, IsSchema(t), NEW ls \in Seq(RowsOf(s)), NEW rs \in Seq(RowsOf(t)),
         NEW l \in Wide(Len(s)), NEW r \in Wide(Len(t)),
         EvaluateJoin(node, s, t, ls, rs).failure = Null
  PROVE  Copies(l \o r, EvaluateJoin(node, s, t, ls, rs).rows)
           = JoinedCopies(node.how, Len(s), Len(t), ls, rs, Accepted(node, s \o t, Len(s), Len(t)), l, r)
<1> DEFINE m == Len(s)
           n == Len(t)
           N == Len(ls) * Len(rs)
           pairs == Pairs(ls, rs)
           v == Verdicts(node, s, t, ls, rs)
           V == {k \in DOMAIN pairs : v[k] = True}
           J == Accepted(node, s \o t, m, n)
           out == JoinRows(node.how, ls, rs, <<Nulls(m), Nulls(n)>>, pairs, Increasing(V))
<1>1. EvaluateJoin(node, s, t, ls, rs) = Complete(v, out)
  BY DEF EvaluateJoin, DecidedJoin, Verdicts
<1>2. EvaluateJoin(node, s, t, ls, rs).rows = out
  <2> HIDE DEF v, out
  <2> QED
    BY <1>1 DEF Complete, Result
<1>3. /\ m \in Nat /\ n \in Nat /\ ls \in Seq(Wide(m)) /\ rs \in Seq(Wide(n))
  BY WideRows, SequenceWiden
<1>4. /\ Len(ls) \in Nat /\ Len(rs) \in Nat
      /\ \A i \in 1 .. Len(ls) : ls[i] \in Wide(m)
      /\ \A i \in 1 .. Len(rs) : rs[i] \in Wide(n)
  BY <1>3
<1>5. /\ DOMAIN pairs = 1 .. N
      /\ \A k \in 1 .. N : pairs[k][1] \in 1 .. Len(ls) /\ pairs[k][2] \in 1 .. Len(rs)
  BY <1>4, PairFacts
<1>6. ASSUME NEW k \in 1 .. N
      PROVE  k \in V <=> <<ls[pairs[k][1]], rs[pairs[k][2]]>> \in J
  <2> DEFINE a == ls[pairs[k][1]]
             b == rs[pairs[k][2]]
  <2>1. v[k] = IF node.how = "cross" THEN True ELSE Evaluate(node.entries[1].args[1], s \o t, a \o b)
    BY <1>5 DEF Verdicts
  <2>2. a \in Wide(m) /\ b \in Wide(n)
    BY <1>4, <1>5
  <2> HIDE DEF a, b, v, pairs, N, m, n
  <2>3. v[k] = True <=> Joins(node, s \o t, a \o b)
    BY <2>1 DEF Joins
  <2>4. <<a, b>> \in J <=> Joins(node, s \o t, a \o b)
    BY <2>2 DEF Accepted
  <2>5. k \in V <=> v[k] = True
    BY <1>5
  <2> QED
    BY <2>3, <2>4, <2>5 DEF a, b
<1>7. Decides(V, J, ls, rs)
  <2>1. V \subseteq 1 .. N
    BY <1>5
  <2> HIDE DEF V, J
  <2> QED
    BY <1>6, <2>1 DEF Decides
<1> HIDE DEF V, J
<1>8. Copies(l \o r, out) = JoinedCopies(node.how, m, n, ls, rs, J, l, r)
  BY <1>3, <1>7, JoinRowsCopies
<1> QED
  BY <1>2, <1>8 DEF J

(* A Join node put on top joins the rows its condition accepts.           *)
LEMMA JoinStep ==
  ASSUME ChainInv, ChainNext, last'.node.kind = "join", given'.failure = Null,
         NEW l \in Range(given.rows) \cup {Nulls(Len(props.schema))},
         NEW r \in Range(last'.side.rows) \cup {Nulls(Len(last'.side.properties.schema))}
  PROVE  /\ Copies(l \o r, given'.rows)
              = JoinedCopies(last'.node.how, Len(props.schema), Len(last'.side.properties.schema),
                             given.rows, last'.side.rows,
                             Accepted(last'.node, props.schema \o last'.side.properties.schema,
                                      Len(props.schema), Len(last'.side.properties.schema)),
                             l, r)
         /\ \A a \in Range(given.rows) \cup {l}, b \in Range(last'.side.rows) \cup {r} :
              <<a, b>> \in Accepted(last'.node, props.schema \o last'.side.properties.schema,
                                   Len(props.schema), Len(last'.side.properties.schema))
                <=> Joins(last'.node, props.schema \o last'.side.properties.schema, a \o b)
<1> DEFINE s == props.schema
<1>1. IsSchema(s) /\ given.rows \in Seq(RowsOf(s))
  BY SoundFacts DEF ChainInv
<1>2. PutJoin
  BY StepKinds
<1>3. PICK side \in Sides : \E node \in Candidates("join", s \o side.properties.schema) :
        /\ given' = EvaluateJoin(node, s, side.properties.schema, given.rows, side.rows)
        /\ last' = [node |-> node, side |-> side]
  BY <1>2 DEF PutJoin, Put
<1>4. PICK node : /\ given' = EvaluateJoin(node, s, side.properties.schema, given.rows, side.rows)
                  /\ last' = [node |-> node, side |-> side]
  BY <1>3
<1> DEFINE t == side.properties.schema
           m == Len(s)
           n == Len(t)
<1>5. IsSchema(t) /\ side.rows \in Seq(RowsOf(t))
  BY SideFacts
<1>6. last'.node = node /\ last'.side = side
  BY <1>4
<1>7. /\ m \in Nat /\ n \in Nat /\ RowsOf(s) \subseteq Wide(m) /\ RowsOf(t) \subseteq Wide(n)
      /\ Nulls(m) \in Wide(m) /\ Nulls(n) \in Wide(n)
  BY <1>1, <1>5, WideRows, WideFacts, SMTT(30)
<1>8. Range(given.rows) \subseteq RowsOf(s) /\ Range(side.rows) \subseteq RowsOf(t)
  <2>1. \A i \in DOMAIN given.rows : given.rows[i] \in RowsOf(s)
    BY <1>1
  <2>2. \A i \in DOMAIN side.rows : side.rows[i] \in RowsOf(t)
    BY <1>5
  <2> QED
    BY <2>1, <2>2 DEF Range
<1>9. l \in Wide(m) /\ r \in Wide(n)
  BY <1>6, <1>7, <1>8
<1> HIDE DEF s, t
<1>10. Copies(l \o r, given'.rows)
         = JoinedCopies(node.how, m, n, given.rows, side.rows, Accepted(node, s \o t, m, n), l, r)
  BY <1>1, <1>4, <1>5, <1>9, EvaluatedJoinCopies DEF t
<1>11. ASSUME NEW a \in Range(given.rows) \cup {l}, NEW b \in Range(side.rows) \cup {r}
       PROVE  <<a, b>> \in Accepted(node, s \o t, m, n) <=> Joins(node, s \o t, a \o b)
  <2>1. a \in Wide(m) /\ b \in Wide(n)
    BY <1>7, <1>8, <1>9
  <2> QED
    BY <2>1 DEF Accepted
<1> QED
  BY <1>6, <1>10, <1>11 DEF s, t

(* What JoinMultiplicities has of the step.                               *)
LEMMA JoinEffect ==
  ASSUME ChainInv, ChainNext, last'.node.kind = "join", given'.failure = Null,
         NEW l \in Range(given.rows) \cup {Nulls(Len(props.schema))},
         NEW r \in Range(last'.side.rows) \cup {Nulls(Len(last'.side.properties.schema))}
  PROVE  Copies(l \o r, given'.rows)
           = (IF /\ l \in Range(given.rows) /\ r \in Range(last'.side.rows)
                 /\ Joins(last'.node, props.schema \o last'.side.properties.schema, l \o r)
              THEN Copies(l, given.rows) * Copies(r, last'.side.rows) ELSE 0)
             + (IF /\ r = Nulls(Len(last'.side.properties.schema))
                   /\ last'.node.how \in {"left", "full"}
                   /\ \A b \in Range(last'.side.rows) :
                        ~ Joins(last'.node, props.schema \o last'.side.properties.schema, l \o b)
                THEN Copies(l, given.rows) ELSE 0)
             + (IF /\ l = Nulls(Len(props.schema))
                   /\ last'.node.how \in {"right", "full"}
                   /\ \A a \in Range(given.rows) :
                        ~ Joins(last'.node, props.schema \o last'.side.properties.schema, a \o r)
                THEN Copies(r, last'.side.rows) ELSE 0)
<1> DEFINE how == last'.node.how
           ls == given.rows
           rs == last'.side.rows
           m == Len(props.schema)
           n == Len(last'.side.properties.schema)
           J == Accepted(last'.node, props.schema \o last'.side.properties.schema, m, n)
           joins(a, b) == Joins(last'.node, props.schema \o last'.side.properties.schema, a \o b)
           row == l \o r
<1>1. /\ Copies(row, given'.rows) = JoinedCopies(how, m, n, ls, rs, J, l, r)
      /\ \A a \in Range(ls) \cup {l}, b \in Range(rs) \cup {r} : <<a, b>> \in J <=> joins(a, b)
  BY JoinStep
<1>2. /\ Copies(l, ls) \in Nat /\ (Copies(l, ls) = 0 <=> l \notin Range(ls))
      /\ Copies(r, rs) \in Nat /\ (Copies(r, rs) = 0 <=> r \notin Range(rs))
  <2>1. PICK side \in Sides : last'.side = side
    <3>1. PutJoin
      BY StepKinds
    <3> QED
      BY <3>1 DEF PutJoin, Put
  <2>2. given.rows \in Seq(RowsOf(props.schema)) /\ rs \in Seq(RowsOf(side.properties.schema))
    BY <2>1, SoundFacts, SideFacts DEF ChainInv
  <2> QED
    BY <2>2, CopiesFacts
<1> HIDE DEF how, ls, rs, m, n, J, joins, row
<1> DEFINE a0 == IF <<l, r>> \in J THEN Copies(l, ls) * Copies(r, rs) ELSE 0
           b0 == IF l \in Range(ls) /\ r \in Range(rs) /\ joins(l, r)
                 THEN Copies(l, ls) * Copies(r, rs) ELSE 0
           a1 == IF how \in {"left", "full"} /\ r = Nulls(n) /\ \A b \in Range(rs) : <<l, b>> \notin J
                 THEN Copies(l, ls) ELSE 0
           b1 == IF r = Nulls(n) /\ how \in {"left", "full"} /\ \A b \in Range(rs) : ~ joins(l, b)
                 THEN Copies(l, ls) ELSE 0
           a2 == IF how \in {"right", "full"} /\ l = Nulls(m) /\ \A a \in Range(ls) : <<a, r>> \notin J
                 THEN Copies(r, rs) ELSE 0
           b2 == IF l = Nulls(m) /\ how \in {"right", "full"} /\ \A a \in Range(ls) : ~ joins(a, r)
                 THEN Copies(r, rs) ELSE 0
<1>3. a0 = b0
  <2>1. <<l, r>> \in J <=> joins(l, r)
    BY <1>1
  <2>2. l \notin Range(ls) \/ r \notin Range(rs) => Copies(l, ls) * Copies(r, rs) = 0
    BY <1>2
  <2> QED
    BY <2>1, <2>2
<1>4. a1 = b1
  <2>1. \A b \in Range(rs) : <<l, b>> \in J <=> joins(l, b)
    BY <1>1
  <2> QED
    BY <2>1
<1>5. a2 = b2
  <2>1. \A a \in Range(ls) : <<a, r>> \in J <=> joins(a, r)
    BY <1>1
  <2> QED
    BY <2>1
<1>6. Copies(row, given'.rows) = a0 + a1 + a2
  BY <1>1 DEF JoinedCopies
<1>7. Copies(row, given'.rows) = b0 + b1 + b2
  <2> HIDE DEF a0, a1, a2, b0, b1, b2
  <2> QED
    BY <1>3, <1>4, <1>5, <1>6
<1> QED
  BY <1>7 DEF how, ls, rs, m, n, joins, row

(* THEOREM: a join gives each accepted pair as often as its two rows occur *)
(* together, and a padded row for just those rows that have no partner, as *)
(* often as each occurs, for every join type and condition.                *)
THEOREM JoinsHaveTheirCopies == ChainSpec => JoinMultiplicities
<1>1. ChainInv /\ [ChainNext]_chainVars =>
        [last'.node.kind = "join" /\ given'.failure = Null =>
           LET node   == last'.node
               schema == props.schema \o last'.side.properties.schema
               left   == given.rows
               right  == last'.side.rows
               noLeft  == Nulls(Len(props.schema))
               noRight == Nulls(Len(last'.side.properties.schema))
               Paired(l, r) ==
                 IF l \in Range(left) /\ r \in Range(right) /\ Joins(node, schema, l \o r)
                 THEN Copies(l, left) * Copies(r, right) ELSE 0
               LeftAlone(l) ==
                 node.how \in {"left", "full"} /\ \A r \in Range(right) : ~ Joins(node, schema, l \o r)
               RightAlone(r) ==
                 node.how \in {"right", "full"} /\ \A l \in Range(left) : ~ Joins(node, schema, l \o r)
           IN \A l \in Range(left) \cup {noLeft}, r \in Range(right) \cup {noRight} :
                Copies(l \o r, given'.rows) =
                  Paired(l, r)
                    + (IF r = noRight /\ LeftAlone(l) THEN Copies(l, left) ELSE 0)
                    + (IF l = noLeft /\ RightAlone(r) THEN Copies(r, right) ELSE 0)]_chainVars
  BY JoinEffect
<1> QED
  BY <1>1, ChainIsSound, PTL DEF ChainSpec, JoinMultiplicities

(* COUNT of the rows of a group, unless it overflows. *)
LEMMA CountedRows ==
  ASSUME NEW entry, entry.function = "count_all", entry.args = <<>>, NEW schema, NEW rows,
         NEW S, NEW indices \in Seq(S), ~ Failed(AggregateOf(entry, schema, rows, indices))
  PROVE  AggregateOf(entry, schema, rows, indices).v = Len(indices)
<1> DEFINE n == Len(indices)
           gathered == [k \in DOMAIN indices |->
                          IF entry.args = <<>> THEN True ELSE Evaluate(entry.args[1], schema, rows[indices[k]])]
           out == AggregateOf(entry, schema, rows, indices)
<1>1. n \in Nat /\ DOMAIN indices = 1 .. n
  OBVIOUS
<1>2. gathered = [k \in 1 .. n |-> gathered[k]] /\ \A k \in 1 .. n : gathered[k] = True
  BY <1>1
<1>3. out = RequiredAggregate("count_all", gathered)
  BY DEF AggregateOf
<1> HIDE DEF gathered
<1>4. Len(gathered) = n /\ DOMAIN gathered = 1 .. n
  <2>1. \A k \in 1 .. n : gathered[k] \in {True}
    BY <1>2
  <2> HIDE DEF n
  <2> QED
    BY <1>1, <1>2, <2>1, SequenceIntro
<1>5. \A k \in DOMAIN gathered : ~ Failed(gathered[k])
  BY <1>2, <1>4 DEF Failed, True, Boolean, Tagged
<1>6. out = Checked(n)
  <2>1. RequiredAggregate("count_all", gathered) = AggregateValue("count_all", Len(gathered), gathered)
    BY <1>5 DEF RequiredAggregate, Require
  <2>2. AggregateValue("count_all", Len(gathered), gathered) = Checked(Len(gathered))
    BY AggregateArms
  <2> QED
    BY <1>3, <1>4, <2>1, <2>2
<1> HIDE DEF out, n
<1>7. Failed(IntegerOverflow)
  BY DEF Failed, IntegerOverflow, Tagged
<1>8. out = Int64(n)
  BY <1>6, <1>7 DEF Checked, out
<1>9. Int64(n).v = n
  BY DEF Int64, Tagged
<1> QED
  BY <1>8, <1>9 DEF out, n

(* The sizes of the groups add up to the rows that were divided. *)
LEMMA GroupSizes ==
  ASSUME NEW n \in Nat, NEW keys, NEW groups, Divides(groups, keys, n), NEW values,
         values \in Seq(Values), Len(values) = Len(groups), \A g \in 1 .. Len(groups) : values[g].v = Len(groups[g])
  PROVE  Total(values) = n
<1> DEFINE size == Len(groups)
           U(g) == {j \in 1 .. n : \E h \in 1 .. g : j \in Range(groups[h])}
<1>1. /\ size \in Nat /\ DOMAIN groups = 1 .. size
      /\ \A g \in 1 .. size :
           /\ Range(groups[g]) = {j \in 1 .. n : keys[j] = keys[groups[g][1]]}
           /\ Len(groups[g]) = Cardinality(Range(groups[g]))
      /\ \A g, h \in 1 .. size : keys[groups[g][1]] = keys[groups[h][1]] => g = h
      /\ \A j \in 1 .. n : \E g \in 1 .. size : j \in Range(groups[g])
  <2>1. size \in Nat /\ DOMAIN groups = 1 .. size
    <3>1. groups \in Seq(Seq(1 .. n))
      BY DEF Divides
    <3> QED
      BY <3>1
  <2> HIDE DEF size
  <2>2. /\ \A g \in DOMAIN groups :
             /\ Range(groups[g]) = {j \in 1 .. n : keys[j] = keys[groups[g][1]]}
             /\ Len(groups[g]) = Cardinality(Range(groups[g]))
        /\ \A g, h \in DOMAIN groups : keys[groups[g][1]] = keys[groups[h][1]] => g = h
        /\ \A j \in 1 .. n : \E g \in DOMAIN groups : j \in Range(groups[g])
    BY Zenon DEF Divides
  <2> QED
    BY <2>1, <2>2, Zenon
<1>2. Len(values) = size /\ size \in Nat /\ \A g \in 1 .. size : values[g].v = Len(groups[g])
  BY <1>1
<1>3. PICK f : Totals(f, values)
  BY <1>2, TotalFacts
<1>4. Total(values) = f[size] /\ f[0] = 0 /\ \A g \in 1 .. size : f[g] = f[g - 1] + Len(groups[g])
  BY <1>2, <1>3 DEF Totals
<1> HIDE DEF size
<1>5. \A g \in 0 .. size : IsFiniteSet(U(g)) /\ Cardinality(U(g)) \in Nat
  <2>1. ASSUME NEW g \in 0 .. size PROVE IsFiniteSet(U(g)) /\ Cardinality(U(g)) \in Nat
    <3> DEFINE T == U(g)
    <3>1. T \subseteq 1 .. n
      OBVIOUS
    <3> HIDE DEF T
    <3>2. IsFiniteSet(T)
      BY <3>1, PositionSets
    <3> QED
      BY <3>2, FS_CardinalityType DEF T
  <2> QED
    BY <2>1
<1>6. Cardinality(U(0)) = 0
  <2>1. U(0) = {}
    OBVIOUS
  <2> QED
    BY <2>1, FS_EmptySet
<1>7. ASSUME NEW g \in 1 .. size
      PROVE  Cardinality(U(g)) = Cardinality(U(g - 1)) + Len(groups[g])
  <2> DEFINE A == U(g - 1)
             B == Range(groups[g])
             C == U(g)
  <2>1. g - 1 \in 0 .. size /\ 1 .. g = (1 .. g - 1) \cup {g} /\ 1 .. g \subseteq 1 .. size
    BY <1>1
  <2>2. B \subseteq 1 .. n
    BY <1>1
  <2>3. C = A \cup B
    BY <2>1, <2>2
  <2>4. A \cap B = {}
    <3>1. ASSUME NEW j \in A, j \in B PROVE FALSE
      <4>1. PICK h \in 1 .. g - 1 : j \in Range(groups[h])
        OBVIOUS
      <4>2. h \in 1 .. size /\ h # g
        BY <2>1
      <4>3. keys[j] = keys[groups[h][1]] /\ keys[j] = keys[groups[g][1]]
        BY <1>1, <3>1, <4>1, <4>2
      <4> QED
        BY <1>1, <4>2, <4>3
    <3> QED
      BY <3>1
  <2>5. IsFiniteSet(A) /\ Cardinality(A) \in Nat
    BY <1>5, <2>1
  <2> HIDE DEF A, B, C
  <2>6. IsFiniteSet(B) /\ Cardinality(B) \in Nat /\ Cardinality(B) = Len(groups[g])
    <3>1. IsFiniteSet(B)
      BY <2>2, PositionSets
    <3> QED
      BY <1>1, <3>1, FS_CardinalityType DEF B
  <2>7. Cardinality(A \cup B) = Cardinality(A) + Cardinality(B) - Cardinality(A \cap B)
    BY <2>5, <2>6, FS_Union
  <2>8. Cardinality(A \cap B) = 0
    BY <2>4, FS_EmptySet
  <2>9. Cardinality(C) = Cardinality(A) + Len(groups[g])
    BY <2>3, <2>5, <2>6, <2>7, <2>8
  <2> QED
    BY <2>9 DEF A, C
<1>8. Cardinality(U(size)) = n
  <2>1. U(size) = 1 .. n
    BY <1>1
  <2>2. Cardinality(1 .. n) = n
    BY FS_Interval
  <2> QED
    BY <2>1, <2>2, Zenon
<1> DEFINE D == {g \in 0 .. size : f[g] # Cardinality(U(g))}
<1> HIDE DEF U
<1>9. D = {}
  <2>1. SUFFICES ASSUME D # {} PROVE FALSE
    OBVIOUS
  <2>2. D \subseteq Nat
    OBVIOUS
  <2>3. PICK g \in D : \A i \in 0 .. g - 1 : i \notin D
    BY <2>1, <2>2, LeastFacts
  <2>4. g # 0
    BY <1>4, <1>6
  <2>5. g \in 1 .. size /\ g - 1 \in 0 .. g - 1 /\ g - 1 \in 0 .. size
    BY <1>1, <2>4
  <2>6. f[g - 1] = Cardinality(U(g - 1))
    BY <2>3, <2>5
  <2> QED
    BY <1>4, <1>7, <2>5, <2>6
<1> QED
  <2>1. size \in 0 .. size
    BY <1>1
  <2> QED
    BY <1>4, <1>8, <1>9, <2>1

(* So many rows, divided into groups by k keys. *)
GroupedInto(out, entries, k, count) ==
  /\ k = 0 => Len(out) = 1
  /\ \A i, j \in DOMAIN out : SubSeq(out[i], 1, k) = SubSeq(out[j], 1, k) => i = j
  /\ \A c \in DOMAIN entries : entries[c].function = "count_all" =>
       Total([g \in DOMAIN out |-> out[g][c]]) = count

(* The groups of an input, when nothing fails. *)
LEMMA GroupedInput ==
  ASSUME NEW node, IsNode(node), node.kind = "aggregate", NEW in, IsSchema(in.schema),
         AcceptsAggregate(node, in), NEW rows \in Seq(RowsOf(in.schema)), NEW k, Splits(node, k),
         NEW out, GivesGroups(node, in.schema, rows, k, out), NEW new, IsSchema(new),
         Len(new) = Len(node.entries), out \in Seq(RowsOf(new))
  PROVE  GroupedInto(out, node.entries, k, Len(rows))
<1> DEFINE keys == KeysOf(node, in.schema, rows)
           groups == GroupsOf(node, in.schema, rows)
           size == Len(node.entries)
           m == Len(rows)
           G == Len(groups)
<1>1. /\ size \in Nat /\ DOMAIN node.entries = 1 .. size /\ k \in 0 .. size /\ k \in Nat
      /\ m \in Nat /\ DOMAIN rows = 1 .. m /\ size - k \in Nat
  BY NodeFacts DEF Splits
<1>2. /\ groups \in Seq(Seq(DOMAIN rows)) /\ DOMAIN groups = 1 .. G /\ G \in Nat
      /\ \A g \in DOMAIN groups : groups[g] \in Seq(DOMAIN rows)
      /\ k = 0 => groups = <<Positions(m)>>
      /\ k # 0 => Divides(groups, keys, m)
      /\ k # 0 => \A g \in DOMAIN groups : groups[g][1] \in DOMAIN rows
  BY GroupsOfFacts
<1>3. /\ DOMAIN out = DOMAIN groups
      /\ \A g \in DOMAIN groups :
           /\ \A i \in 1 .. k : out[g][i] = keys[groups[g][1]][i]
           /\ \A j \in 1 .. size - k :
                /\ out[g][k + j] = AggregateOf(node.entries[k + j], in.schema, rows, groups[g])
                /\ ~ Failed(out[g][k + j])
  BY DEF GivesGroups
<1>4. \A r \in 1 .. m : keys[r] = [i \in 1 .. k |-> keys[r][i]]
  <2>1. AggregateGrid(node, in.schema, rows, k)
    BY AggregateCells
  <2> QED
    BY <2>1 DEF AggregateGrid
<1>5. Len(out) = G
  BY <1>2, <1>3
<1>6. \A g \in DOMAIN out : out[g] \in Seq(Values) /\ Len(out[g]) = size
                            /\ \A c \in 1 .. size : out[g][c] \in Values
  <2>1. \A g \in DOMAIN out : out[g] \in RowsOf(new)
    BY Members
  <2> QED
    BY <2>1, RowSequence
<1> HIDE DEF keys, groups, size, m, G
<1>7. k = 0 => G = 1 /\ Len(groups[1]) = m
  <2>1. ASSUME k = 0 PROVE G = 1 /\ Len(groups[1]) = m
    <3>1. groups = <<Positions(m)>>
      BY <1>2, <2>1
    <3>2. Len(Positions(m)) = m
      <4> DEFINE p == Positions(m)
      <4>1. p = [i \in 1 .. m |-> p[i]] /\ \A i \in 1 .. m : p[i] \in Nat
        BY DEF Positions
      <4> HIDE DEF p
      <4>2. Len(p) = m
        BY <1>1, <4>1, SequenceIntro
      <4> QED
        BY <4>2 DEF p
    <3> HIDE DEF groups
    <3> QED
      BY <3>1, <3>2 DEF G
  <2> QED
    BY <2>1
<1>8. ASSUME NEW i \in DOMAIN out, NEW j \in DOMAIN out, SubSeq(out[i], 1, k) = SubSeq(out[j], 1, k)
      PROVE  i = j
  <2>1. CASE k = 0
    BY <1>2, <1>3, <1>7, <2>1
  <2>2. CASE k # 0
    <3>1. \A p \in 1 .. k : out[i][p] = out[j][p]
      <4> DEFINE a == SubSeq(out[i], 1, k)
                 b == SubSeq(out[j], 1, k)
      <4>1. \A p \in 1 .. k : a[p] = out[i][p] /\ b[p] = out[j][p]
        BY <1>1, <1>6
      <4>2. a = b
        BY <1>8
      <4> HIDE DEF a, b
      <4> QED
        BY <4>1, <4>2
    <3>2. groups[i][1] \in 1 .. m /\ groups[j][1] \in 1 .. m
      BY <1>1, <1>2, <1>3, <2>2
    <3>3. \A p \in 1 .. k : keys[groups[i][1]][p] = keys[groups[j][1]][p]
      BY <1>3, <3>1
    <3>4. keys[groups[i][1]] = keys[groups[j][1]]
      BY <1>4, <3>2, <3>3
    <3> QED
      BY <1>2, <1>3, <2>2, <3>4 DEF Divides
  <2> QED
    BY <2>1, <2>2
<1>9. ASSUME NEW c \in DOMAIN node.entries, node.entries[c].function = "count_all"
      PROVE  Total([g \in DOMAIN out |-> out[g][c]]) = m
  <2> DEFINE values == [g \in DOMAIN out |-> out[g][c]]
             entry == node.entries[c]
  <2>1. c \in k + 1 .. size
    <3>1. c \in 1 .. k => entry.function = "group"
      BY DEF Splits
    <3> QED
      BY <1>1, <1>9, <3>1
  <2>2. c - k \in 1 .. size - k /\ c = k + (c - k)
    BY <1>1, <2>1
  <2>3. entry.args = <<>>
    <3>1. EntryDescriptor(entry, in.schema) # Invalid
      BY DEF AcceptsAggregate
    <3>2. EntryDescriptor(entry, in.schema) = AggregateDescriptor(entry.function, entry.args, in.schema)
      BY <1>9 DEF EntryDescriptor, Rankings
    <3> QED
      BY <1>9, <3>1, <3>2 DEF AggregateDescriptor
  <2>4. \A g \in DOMAIN out : values[g] = out[g][c]
    OBVIOUS
  <2>5. values \in Seq(Values) /\ Len(values) = G
    <3>1. values = [g \in 1 .. G |-> values[g]]
      BY <1>2, <1>3
    <3>2. \A g \in 1 .. G : values[g] \in Values
      BY <1>1, <1>2, <1>3, <1>6, <2>4
    <3> HIDE DEF values
    <3> QED
      BY <1>2, <3>1, <3>2, SequenceIntro
  <2> HIDE DEF values, entry
  <2>6. \A g \in 1 .. G : values[g].v = Len(groups[g])
    <3>1. ASSUME NEW g \in 1 .. G PROVE values[g].v = Len(groups[g])
      <4>1. /\ out[g][c] = AggregateOf(entry, in.schema, rows, groups[g])
            /\ ~ Failed(AggregateOf(entry, in.schema, rows, groups[g]))
        BY <1>2, <1>3, <2>2, ZenonT(40) DEF entry
      <4>2. groups[g] \in Seq(DOMAIN rows) /\ values[g] = out[g][c] /\ entry.function = "count_all"
        BY <1>2, <1>3, <1>9, <2>4 DEF entry
      <4>3. AggregateOf(entry, in.schema, rows, groups[g]).v = Len(groups[g])
        BY <2>3, <4>1, <4>2, CountedRows
      <4> QED
        BY <4>1, <4>2, <4>3
    <3> QED
      BY <3>1
  <2>7. CASE k = 0
    <3>1. G = 1 /\ Len(groups[1]) = m
      BY <1>7, <2>7
    <3>2. Len(values) = 1 /\ values[1].v = m
      BY <2>5, <2>6, <3>1
    <3>3. PICK f : Totals(f, values)
      BY <3>2, TotalFacts
    <3>4. Total(values) = f[1] /\ f[0] = 0 /\ f[1] = f[0] + values[1].v
      BY <3>2, <3>3 DEF Totals
    <3>5. Total(values) = m
      BY <1>1, <3>2, <3>4
    <3> QED
      BY <3>5 DEF values
  <2>8. CASE k # 0
    <3>1. Divides(groups, keys, m)
      BY <1>2, <2>8
    <3>2. Total(values) = m
      BY <1>1, <2>5, <2>6, <3>1, GroupSizes DEF G
    <3> QED
      BY <3>2 DEF values
  <2> QED
    BY <2>7, <2>8
<1> QED
  BY <1>5, <1>7, <1>8, <1>9 DEF m, GroupedInto

(* What GroupsDivideInput has of the step.                                *)
LEMMA GroupStep ==
  ASSUME ChainInv, ChainNext, last'.node.kind = "aggregate", given'.failure = Null
  PROVE  LET entries  == last'.node.entries
             keyCount == Cardinality({k \in DOMAIN entries : entries[k].function = "group"})
             Key(row) == SubSeq(row, 1, keyCount)
             counted  == {k \in DOMAIN entries : entries[k].function = "count_all"}
         IN /\ keyCount = 0 => Len(given'.rows) = 1
            /\ \A i, j \in DOMAIN given'.rows :
                 i # j => Key(given'.rows[i]) # Key(given'.rows[j])
            /\ \A k \in counted :
                 Total([g \in DOMAIN given'.rows |-> given'.rows[g][k]]) = Len(given.rows)
<1> DEFINE schema == props.schema
<1>1. IsSchema(schema) /\ given.rows \in Seq(RowsOf(schema))
  BY SoundFacts DEF ChainInv
<1>2. PutAggregate
  BY StepKinds
<1>3. PICK node \in Candidates("aggregate", schema) :
        /\ AcceptsAggregate(node, props)
        /\ given' = EvaluateAggregate(node, schema, given.rows)
        /\ last'.node = node
  BY <1>2 DEF PutAggregate, Put
<1>4. IsNode(node) /\ node.kind = "aggregate"
  BY <1>1, CandidateFacts
<1>5. PICK k \in 0 .. Len(node.entries) : Splits(node, k)
  BY <1>4, SplitFacts
<1> DEFINE new == AggregateProperties(node, props).schema
           out == given'.rows
<1>6. /\ IsSchema(new) /\ new = EntrySchema(node.entries, schema)
      /\ Good(EvaluateAggregate(node, schema, given.rows), new)
      /\ EvaluateAggregate(node, schema, given.rows).failure = Null =>
           GivesGroups(node, schema, given.rows, k, EvaluateAggregate(node, schema, given.rows).rows)
  BY <1>1, <1>3, <1>4, <1>5, AggregateGood
<1>7. out \in Seq(RowsOf(new)) /\ GivesGroups(node, schema, given.rows, k, out)
  BY <1>3, <1>6 DEF Good
<1>8. DOMAIN node.entries = 1 .. Len(node.entries) /\ Len(node.entries) \in Nat
  BY <1>4, NodeFacts
<1>9. Len(new) = Len(node.entries)
  <2>1. DOMAIN new = 1 .. Len(node.entries)
    BY <1>6, <1>8 DEF EntrySchema
  <2>2. DOMAIN new = 1 .. Len(new) /\ Len(new) \in Nat
    BY <1>6, SchemaFacts
  <2> HIDE DEF new
  <2> QED
    BY <1>8, <2>1, <2>2
<1> DEFINE keyed == {c \in DOMAIN node.entries : node.entries[c].function = "group"}
<1>10. Cardinality(keyed) = k
  <2>1. keyed = 1 .. k
    <3>1. \A c \in 1 .. k : node.entries[c].function = "group"
      BY <1>5 DEF Splits
    <3>2. \A c \in k + 1 .. Len(node.entries) : node.entries[c].function # "group"
      BY <1>5 DEF Splits, AggregateFunctions
    <3> QED
      BY <1>8, <3>1, <3>2
  <2>2. Cardinality(1 .. k) = k
    BY FS_Interval
  <2> QED
    BY <2>1, <2>2, Zenon
<1> HIDE DEF new, out, schema, keyed
<1>11. GroupedInto(out, node.entries, k, Len(given.rows))
  BY <1>1, <1>3, <1>4, <1>5, <1>6, <1>7, <1>9, GroupedInput DEF schema
<1> QED
  <2> DEFINE entries == last'.node.entries
             keyCount == Cardinality({c \in DOMAIN entries : entries[c].function = "group"})
  <2>1. entries = node.entries
    BY <1>3
  <2>2. keyCount = k
    <3> HIDE DEF entries
    <3> QED
      BY <1>10, <2>1 DEF keyed
  <2> HIDE DEF entries, keyCount
  <2>3. GroupedInto(out, entries, keyCount, Len(given.rows))
    BY <1>11, <2>1, <2>2
  <2>4. /\ keyCount = 0 => Len(out) = 1
        /\ \A i, j \in DOMAIN out : i # j => SubSeq(out[i], 1, keyCount) # SubSeq(out[j], 1, keyCount)
        /\ \A c \in {d \in DOMAIN entries : entries[d].function = "count_all"} :
             Total([g \in DOMAIN out |-> out[g][c]]) = Len(given.rows)
    BY <2>3, Zenon DEF GroupedInto
  <2> QED
    BY <2>4, Zenon DEF out, entries, keyCount

(* THEOREM: an Aggregate node divides its input: no two groups have one    *)
(* key, without keys there is one group, and COUNT over the groups adds up *)
(* to the rows that went in.                                               *)
THEOREM GroupsDivideTheInput == ChainSpec => GroupsDivideInput
<1>1. ChainInv /\ [ChainNext]_chainVars =>
        [last'.node.kind = "aggregate" /\ given'.failure = Null =>
           LET entries  == last'.node.entries
               keyCount == Cardinality({k \in DOMAIN entries : entries[k].function = "group"})
               Key(row) == SubSeq(row, 1, keyCount)
               counted  == {k \in DOMAIN entries : entries[k].function = "count_all"}
           IN /\ keyCount = 0 => Len(given'.rows) = 1
              /\ \A i, j \in DOMAIN given'.rows :
                   i # j => Key(given'.rows[i]) # Key(given'.rows[j])
              /\ \A k \in counted :
                   Total([g \in DOMAIN given'.rows |-> given'.rows[g][k]]) = Len(given.rows)]_chainVars
  BY GroupStep
<1> QED
  BY <1>1, ChainIsSound, PTL DEF ChainSpec, GroupsDivideInput
=============================================================================
