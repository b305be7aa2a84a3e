------------------------ MODULE ExpressionEvaluation ------------------------
(***************************************************************************)
(* Every expression the validator accepts, built up one operator at a time *)
(* from leaves, and its value on every row of the schema.  The invariants  *)
(* say what the evaluator of src/evaluation.rs relies on and what          *)
(* docs/specification/02 promises about NULL, demand and exact arithmetic. *)
(*                                                                         *)
(* validate_expression and evaluate_expression return from the leaves of   *)
(* an expression outwards; each step here is such a return.                *)
(***************************************************************************)
EXTENDS ScalarRules

CONSTANTS
  Schema,        \* the environment of the expressions
  Rows,          \* the rows of the input, in order
  Leaves,        \* literals, fields and EXISTS to start from
  Companions,    \* those that are always at hand as arguments
  MaxArguments,  \* bound on the arguments of CASE and IN
  MaxSteps       \* bound on the operators applied and leaves begun

(* What Rust's types and Snapshot, and the rules of other nodes, ensure.   *)
ASSUME BoundsAssumption == MaxArguments \in Nat /\ MaxSteps \in Nat
ASSUME SchemaAssumption == IsSchema(Schema)
ASSUME RowsAssumption == Rows \in Seq(RowsOf(Schema))
ASSUME LeavesAssumption ==
  \A e \in Leaves \cup Companions :
    \/ e = Literal(e.value, e.descriptor) /\ e.value \in Values /\ e.descriptor \in Descriptors
    \/ e = FieldRef(e.ref, e.descriptor) /\ e.descriptor \in Descriptors
    \/ e = Exists(e.ref) /\ e.ref \in DOMAIN Queries

VARIABLES
  expr,    \* an expression, whose arguments carry their own values
  values,  \* the value it has on each row
  made,    \* expressions put by, with their values
  steps

expressionVars == <<expr, values, made, steps>>

(* The annotated descriptor, which the producer of the graph chooses, is   *)
(* the one derived from the arguments, which are valid themselves.         *)
IsValid(e) ==
  /\ e.descriptor # Invalid
  /\ DescriptorOf(e, Schema, [i \in DOMAIN e.args |-> e.args[i].expr.descriptor]) = e.descriptor

ValuesOf(e) ==
  [n \in DOMAIN Rows |->
     ValueOf(e, Schema, Rows[n], [i \in DOMAIN e.args |-> e.args[i].values[n]])]

WithValues(e, v) == [expr |-> e, values |-> v]

(* The expressions an operator may be applied to.                          *)
AtHand == {WithValues(e, ValuesOf(e)) : e \in {c \in Companions : IsValid(c)}}

Arguments == AtHand \cup made \cup {WithValues(expr, values)}

Init ==
  /\ expr \in {e \in Leaves : IsValid(e)}
  /\ values = ValuesOf(expr)
  /\ made = {}
  /\ steps = 0

(* The expression is put by and another begun.                             *)
Begin ==
  /\ steps < MaxSteps
  /\ made' = made \cup {WithValues(expr, values)}
  /\ expr' \in {e \in Leaves : IsValid(e)}
  /\ values' = ValuesOf(expr')
  /\ steps' = steps + 1

(* An operator has been applied to the expression and others.              *)
Grow(e) ==
  /\ IsValid(e)
  /\ expr' = e
  /\ values' = ValuesOf(e)
  /\ steps' = steps + 1
  /\ UNCHANGED made

(* Sequences of n arguments with the expression among them.                *)
Around(n) ==
  {args \in [1 .. n -> Arguments] : \E i \in 1 .. n : args[i] = WithValues(expr, values)}

GrowUnary ==
  /\ steps < MaxSteps
  /\ \E op \in {"positive", "negative", "not"}, args \in Around(1), d \in Descriptors :
       Grow(Apply("unary", op, args, d))

GrowBinary ==
  /\ steps < MaxSteps
  /\ \E op \in ArithmeticOps \cup ComparisonOps \cup {"and", "or"},
        args \in Around(2), d \in Descriptors :
       Grow(Apply("binary", op, args, d))

GrowIsNull ==
  /\ steps < MaxSteps
  /\ \E op \in {"", "negated"}, args \in Around(1), d \in Descriptors :
       Grow(Apply("is_null", op, args, d))

GrowCast ==
  /\ steps < MaxSteps
  /\ \E target \in Scalars, args \in Around(1), d \in Descriptors :
       Grow(Apply("cast", target, args, d))

GrowCase ==
  /\ steps < MaxSteps
  /\ \E n \in {m \in 3 .. MaxArguments : m % 2 = 1} :
       \E args \in Around(n), d \in Descriptors : Grow(Apply("case", "", args, d))

GrowInList ==
  /\ steps < MaxSteps
  /\ \E n \in 2 .. MaxArguments :
       \E args \in Around(n), d \in Descriptors : Grow(Apply("in_list", "", args, d))

GrowInQuery ==
  /\ steps < MaxSteps
  /\ \E q \in DOMAIN Queries, d \in Descriptors :
       Grow(InQuery(WithValues(expr, values), q, d))

Next ==
  Begin \/ GrowUnary \/ GrowBinary \/ GrowIsNull \/ GrowCast \/ GrowCase \/ GrowInList
    \/ GrowInQuery

Spec == Init /\ [][Next]_expressionVars

-----------------------------------------------------------------------------
(* The descriptor the validator derives is sound: the evaluator reaches no *)
(* unreachable!() or expect(), a value has the derived scalar type, and it *)
(* is NULL only where the descriptor is nullable.                          *)
DescriptorIsSound ==
  \A n \in DOMAIN Rows : values[n].scalar = "error" \/ Conforms(values[n], expr.descriptor)

(* Kleene's connectives, on FALSE < UNKNOWN < TRUE.                        *)
Degree(v) == IF v = Null THEN 1 ELSE 2 * v.v

Verdict(degree) == IF degree = 1 THEN Null ELSE Boolean(degree = 2)

Equalities(v, cs) == {Degree(OrdinaryEqual(v, c)) : c \in cs}

(* AND, OR, NOT and IN are Kleene's connectives, demand included: the right*)
(* side of AND is required unless the left is FALSE, of OR unless it is    *)
(* TRUE, and every operand of IN is; a required operand that fails fails   *)
(* the whole (docs/specification/02, sections 7 and 9).                    *)
LogicIsKleene ==
  \A n \in DOMAIN Rows :
    LET v == values[n]
        arg(i) == expr.args[i].values[n]
    IN /\ expr.kind = "binary" /\ expr.op \in {"and", "or"} =>
            LET settled == IF expr.op = "and" THEN 0 ELSE 2
            IN IF Failed(arg(1)) THEN v = arg(1)
               ELSE IF Degree(arg(1)) = settled THEN v = arg(1)
               ELSE IF Failed(arg(2)) THEN v = arg(2)
               ELSE v = Verdict(IF expr.op = "and" THEN Min({Degree(arg(1)), Degree(arg(2))})
                                ELSE Max({Degree(arg(1)), Degree(arg(2))}))
       /\ expr.kind = "unary" /\ expr.op = "not" =>
            v = IF Failed(arg(1)) THEN arg(1) ELSE Verdict(2 - Degree(arg(1)))
       /\ expr.kind = "in_list" =>
            IF \E i \in DOMAIN expr.args : Failed(arg(i)) THEN v.scalar = "error"
            ELSE v = Verdict(Max(Equalities(arg(1), {arg(i) : i \in 2 .. Len(expr.args)})))

(* Division and remainder are exact at both ends of INT64 too; the only    *)
(* quotient that is refused is the one INT64 cannot hold.                  *)
DivisionIsExact ==
  expr.kind = "binary" /\ expr.op \in {"divide", "remainder"} =>
    \A n \in DOMAIN Rows :
      LET v == values[n]
          a == expr.args[1].values[n]
          b == expr.args[2].values[n]
      IN a.scalar = "INT64" /\ b.scalar = "INT64" =>
           ExactDivision(expr.op, a.v, b.v, v)
=============================================================================
