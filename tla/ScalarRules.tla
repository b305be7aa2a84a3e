---------------------------- MODULE ScalarRules ----------------------------
(***************************************************************************)
(* Scalar expressions of Shape IR, one operator at a time: the descriptor  *)
(* the validator derives from those of the arguments (validate_expression  *)
(* in src/shape_ir.rs), and the value the evaluator computes from theirs   *)
(* (evaluate_expression in src/evaluation.rs).                             *)
(*                                                                         *)
(* Every expression is a record of the same shape, so that expressions of  *)
(* all kinds can be compared; the fields a kind does not use are fixed.    *)
(* Concatenation is left out: it adds no control to a strict operator.     *)
(***************************************************************************)
EXTENDS ScalarValues, SequencesExt

CONSTANTS
  NoField,    \* no field and no query
  Queries     \* what EXISTS and IN may ask: name -> [schema, failure, rows]

Descriptor(scalar, nullable) == [scalar |-> scalar, nullable |-> nullable]

Descriptors == {Descriptor(s, n) : s \in Scalars, n \in BOOLEAN}

Invalid == Descriptor("invalid", FALSE)

(* kind: the ExpressionKind; op: operator, cast target or "negated";       *)
(* ref: field or query; args: subexpressions, arms before the fallback;    *)
(* descriptor: the checked annotation.                                     *)
Expr(kind, op, ref, args, value, descriptor) ==
  [kind |-> kind, op |-> op, ref |-> ref, args |-> args, value |-> value,
   descriptor |-> descriptor]

Literal(v, d)     == Expr("literal", "", NoField, <<>>, v, d)
FieldRef(f, d)    == Expr("field", "", f, <<>>, Null, d)
Apply(k, o, a, d) == Expr(k, o, NoField, a, Null, d)
Exists(q)         == Expr("exists", "", q, <<>>, Null, Descriptor("BOOLEAN", FALSE))
InQuery(a, q, d)  == Expr("in_query", "", q, <<a>>, Null, d)

(* A schema is a sequence of fields [id, descriptor].                      *)
Field(id, d) == [id |-> id, descriptor |-> d]

FieldIds(schema) == {schema[i].id : i \in DOMAIN schema}

IsSchema(schema) == schema \in Seq([id : FieldIds(schema), descriptor : Descriptors])

FieldPosition(schema, id) == CHOOSE i \in DOMAIN schema : schema[i].id = id

(* direct_expression_field, collected: the fields named by themselves.     *)
DirectFields(exprs) == {e.ref : e \in {x \in exprs : x.kind = "field"}}

-----------------------------------------------------------------------------
(* The validator.                                                          *)

BinaryDescriptor(op, a, b) ==
  LET nullable == a.nullable \/ b.nullable
  IN CASE op \in ArithmeticOps /\ a.scalar = "INT64" /\ b.scalar = "INT64" ->
            Descriptor("INT64", nullable)
       [] op \in {"and", "or"} /\ a.scalar = "BOOLEAN" /\ b.scalar = "BOOLEAN" ->
            Descriptor("BOOLEAN", nullable)
       [] op \in ComparisonOps /\ a.scalar = b.scalar -> Descriptor("BOOLEAN", nullable)
       [] OTHER -> Invalid

CastPermitted(source, target) ==
  source = target \/ "TEXT" \in {source, target}

(* Arms alternate condition and result; the fallback is last.              *)
Conditions(n) == {i \in 1 .. n - 1 : i % 2 = 1}
Outcomes(n)   == {i \in 1 .. n - 1 : i % 2 = 0} \cup {n}

CaseDescriptor(a) ==
  LET n == Len(a)
  IN IF /\ n > 1
        /\ \A i \in Conditions(n) : a[i].scalar = "BOOLEAN"
        /\ \A i \in Outcomes(n) : a[i].scalar = a[n].scalar
     THEN Descriptor(a[n].scalar, \E i \in Outcomes(n) : a[i].nullable)
     ELSE Invalid

(* Mutant: a list without NULL cannot give NULL, whatever the value.       *)
InListOfCandidates(a) ==
  IF Len(a) > 1 /\ \A i \in DOMAIN a : a[i].scalar = a[1].scalar
  THEN Descriptor("BOOLEAN", \E i \in 2 .. Len(a) : a[i].nullable)
  ELSE Invalid

InListDescriptor(a) ==
  IF Len(a) > 1 /\ \A i \in DOMAIN a : a[i].scalar = a[1].scalar
  THEN Descriptor("BOOLEAN", \E i \in DOMAIN a : a[i].nullable)
  ELSE Invalid

InQueryDescriptor(a, schema) ==
  IF Len(schema) = 1 /\ schema[1].descriptor.scalar = a.scalar
  THEN Descriptor("BOOLEAN", a.nullable \/ schema[1].descriptor.nullable)
  ELSE Invalid

(* The descriptor of an expression whose arguments have descriptors a.     *)
DescriptorOf(e, schema, a) ==
  CASE e.kind = "literal" ->
         IF e.value = Null THEN Descriptor(e.descriptor.scalar, TRUE)
                           ELSE Descriptor(e.value.scalar, FALSE)
    [] e.kind = "field" ->
         IF e.ref \in FieldIds(schema)
         THEN schema[FieldPosition(schema, e.ref)].descriptor ELSE Invalid
    [] e.kind = "unary" ->
         IF a[1].scalar = (IF e.op = "not" THEN "BOOLEAN" ELSE "INT64") THEN a[1] ELSE Invalid
    [] e.kind = "binary"  -> BinaryDescriptor(e.op, a[1], a[2])
    [] e.kind = "is_null" -> Descriptor("BOOLEAN", FALSE)
    [] e.kind = "case"    -> CaseDescriptor(a)
    [] e.kind = "cast" ->
         IF CastPermitted(a[1].scalar, e.op) THEN Descriptor(e.op, a[1].nullable) ELSE Invalid
    [] e.kind = "in_list"  -> InListDescriptor(a)
    [] e.kind = "exists"   -> Descriptor("BOOLEAN", FALSE)
    [] e.kind = "in_query" -> InQueryDescriptor(a[1], Queries[e.ref].schema)

-----------------------------------------------------------------------------
(* The evaluator.                                                          *)

(* What the required results r give: the first failure, or else `value`.   *)
FirstFailure(r) == r[Min({i \in DOMAIN r : Failed(r[i])})]

Require(r, value) == IF \E i \in DOMAIN r : Failed(r[i]) THEN FirstFailure(r) ELSE value

(* Mutant: the right side of AND and OR is not asked when the left is NULL.*)
ShortOnNull(dominant, left, right) ==
  IF left = Boolean(dominant) \/ left = Null \/ Failed(left) THEN left ELSE right

(* AND and OR: `dominant` decides alone, otherwise the right side counts.  *)
Conditional(dominant, left, right) ==
  IF left = Boolean(dominant) \/ Failed(left) THEN left
  ELSE IF left = Boolean(~ dominant) THEN right
  ELSE IF left # Null THEN Unreachable
  ELSE IF right = Boolean(~ dominant) THEN Null ELSE right

Strict(op, left, right) ==
  Require(<<left, right>>,
          IF left = Null \/ right = Null THEN Null ELSE Binary(op, left, right))

(* The first arm whose condition is TRUE or fails ends the search.         *)
CaseValue(r) ==
  LET ends == {i \in Conditions(Len(r)) : r[i] = True \/ Failed(r[i])}
  IN IF ends = {} THEN r[Len(r)]
     ELSE LET first == Min(ends) IN IF Failed(r[first]) THEN r[first] ELSE r[first + 1]

Column(rows) == [i \in DOMAIN rows |-> rows[i][1]]

(* The value of an expression whose arguments would give r; TLC, like the  *)
(* evaluator, looks at an argument only where a branch asks for it.        *)
ValueOf(e, schema, row, r) ==
  CASE e.kind = "literal" -> e.value
    [] e.kind = "field" ->
         IF e.ref \in FieldIds(schema) THEN row[FieldPosition(schema, e.ref)] ELSE Unreachable
    [] e.kind = "unary" ->
         Require(<<r[1]>>, IF r[1] = Null THEN Null ELSE Unary(e.op, r[1]))
    [] e.kind = "binary" /\ e.op = "and" -> Conditional(FALSE, r[1], r[2])
    [] e.kind = "binary" /\ e.op = "or"  -> Conditional(TRUE, r[1], r[2])
    [] e.kind = "binary" /\ e.op \notin {"and", "or"} -> Strict(e.op, r[1], r[2])
    [] e.kind = "is_null" -> Require(<<r[1]>>, Boolean((r[1] = Null) # (e.op = "negated")))
    [] e.kind = "case" -> CaseValue(r)
    [] e.kind = "cast" ->
         Require(<<r[1]>>, IF r[1] = Null THEN Null ELSE Cast(r[1], e.op))
    [] e.kind = "in_list" -> Require(r, Membership(r[1], Tail(r)))
    [] e.kind = "exists" ->
         Require(<<Queries[e.ref].failure>>, Boolean(Queries[e.ref].rows # <<>>))
    [] e.kind = "in_query" ->
         Require(<<r[1], Queries[e.ref].failure>>,
                 Membership(r[1], Column(Queries[e.ref].rows)))

-----------------------------------------------------------------------------
(* A value of a descriptor, and a row of a schema.                         *)
Values == {Null} \cup UNION {ScalarValues(s) : s \in Scalars}

Conforms(v, d) == v.scalar = d.scalar \/ (v = Null /\ d.nullable)

RowConforms(row, schema) ==
  /\ DOMAIN row = DOMAIN schema
  /\ \A i \in DOMAIN schema : Conforms(row[i], schema[i].descriptor)

RowsOf(schema) == {row \in [DOMAIN schema -> Values] : RowConforms(row, schema)}

(* What the evaluation of a query gives: an error, or rows of its schema.  *)
Errors == {IntegerOverflow, DivisionByZero, RemainderByZero, InvalidTextCast}

ASSUME QueriesAssumption ==
  \A q \in DOMAIN Queries :
    /\ IsSchema(Queries[q].schema)
    /\ Queries[q].failure \in Errors \cup {Null}
    /\ Queries[q].rows \in Seq(RowsOf(Queries[q].schema))

(* The kinds of expression, each with what Rust's types give it: so many   *)
(* arguments, an operator, a query.                                        *)
HasForm(e, arguments) ==
  \/ e.kind = "literal" /\ e.value \in Values /\ e.descriptor \in Descriptors
  \/ e.kind = "field"
  \/ e.kind = "unary" /\ e.op \in {"positive", "negative", "not"} /\ arguments = 1
  \/ e.kind = "binary" /\ e.op \in ArithmeticOps \cup ComparisonOps \cup {"and", "or"}
       /\ arguments = 2
  \/ e.kind = "is_null" /\ arguments = 1
  \/ e.kind = "cast" /\ e.op \in Scalars /\ arguments = 1
  \/ e.kind = "case"
  \/ e.kind = "in_list"
  \/ e.kind = "exists" /\ e.ref \in DOMAIN Queries
  \/ e.kind = "in_query" /\ e.ref \in DOMAIN Queries /\ arguments = 1
=============================================================================
