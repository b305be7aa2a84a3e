----------------------------- MODULE PlanGraphs -----------------------------
(***************************************************************************)
(* Whole graphs of Shape IR as trees: a node with its declared schema and  *)
(* collection kind, and its inputs.  `validate` derives the properties of  *)
(* every node from below and compares them with what the node declares;    *)
(* `evaluate` gives the rows of the root under a snapshot.                 *)
(***************************************************************************)
EXTENDS NodeEvaluation

PlanNode(node, inputs, schema, ordered) ==
  [node |-> node, inputs |-> inputs, schema |-> schema, ordered |-> ordered]

(* The properties of a node that is not accepted.                          *)
Rejected == Properties(<<>>, FALSE, {}, {})

Accepts(node, in) ==
  /\ OutputsDiffer(node)
  /\ CASE node.kind = "project"   -> AcceptsProject(node, in[1])
       [] node.kind = "filter"    -> AcceptsFilter(node, in[1])
       [] node.kind = "join"      -> AcceptsJoin(node, in[1], in[2])
       [] node.kind = "aggregate" -> AcceptsAggregate(node, in[1])
       [] node.kind = "window"    -> AcceptsWindow(node, in[1])
       [] node.kind = "distinct"  -> TRUE
       [] node.kind = "set"       -> AcceptsSet(node, in[1], in[2])
       [] node.kind = "order"     -> AcceptsOrder(node, in[1])
       [] node.kind = "slice"     -> AcceptsSlice(node, in[1])
       [] node.kind = "forget_order" -> AcceptsForgetOrder(in[1])

DerivedProperties(node, in) ==
  CASE node.kind = "project"   -> ProjectProperties(node, in[1])
    [] node.kind = "join"      -> JoinProperties(node, in[1], in[2])
    [] node.kind = "aggregate" -> AggregateProperties(node, in[1])
    [] node.kind = "window"    -> WindowProperties(node, in[1])
    [] node.kind = "distinct"  -> DistinctProperties(in[1])
    [] node.kind = "set"       -> SetProperties(node, in[1], in[2])
    [] node.kind = "order"     -> OrderProperties(node, in[1])
    [] node.kind = "forget_order" -> ForgetOrderProperties(in[1])
    [] node.kind \in {"filter", "slice"} -> in[1]

(* An Input names what the host is to bind; the name is not empty.         *)
AcceptsInput(plan) == plan.node.how # "" /\ ~ plan.ordered

(* A node declares the schema and the collection kind it has.              *)
AsDeclared(plan, derived) ==
  IF derived.schema = plan.schema /\ derived.ordered = plan.ordered THEN derived ELSE Rejected

RECURSIVE PlanProperties(_)
PlanProperties(plan) ==
  IF plan.node.kind = "input"
  THEN IF AcceptsInput(plan) THEN BagOf(plan.schema, {}) ELSE Rejected
  ELSE LET in == [i \in DOMAIN plan.inputs |-> PlanProperties(plan.inputs[i])]
       IN IF (\E i \in DOMAIN in : in[i] = Rejected) \/ ~ Accepts(plan.node, in) THEN Rejected
          ELSE AsDeclared(plan, DerivedProperties(plan.node, in))

(* Every field is introduced by one node, once.                            *)
RECURSIVE IntroducedFields(_)
IntroducedFields(plan) ==
  (IF plan.node.kind = "input" THEN [i \in DOMAIN plan.schema |-> plan.schema[i].id]
   ELSE SetToSeq(Introduces(plan.node)))
    \o FlattenSeq([i \in DOMAIN plan.inputs |-> IntroducedFields(plan.inputs[i])])

Validates(plan) ==
  PlanProperties(plan) # Rejected /\ IsInjective(IntroducedFields(plan))

-----------------------------------------------------------------------------
(* What a host has bound to a name, as the Input node compares it: by the  *)
(* number of fields and their descriptors, not by their identities.        *)
BoundRelation(plan, snapshot) ==
  LET relation == snapshot[plan.node.how]
  IN [schema |-> IF Len(relation.descriptors) # Len(plan.schema) THEN <<>>
                 ELSE [i \in DOMAIN plan.schema |->
                         Field(plan.schema[i].id, relation.descriptors[i])],
      rows |-> relation.rows]

EvaluateInputNode(plan, snapshot) ==
  IF plan.node.how \in DOMAIN snapshot
  THEN EvaluateInput(BoundRelation(plan, snapshot), plan.schema)
  ELSE Result(UnfitInput, <<>>)

(* The rows of a node from those of its inputs.                            *)
NodeRows(plan, rows) ==
  LET node == plan.node
      schema(i) == plan.inputs[i].schema
  IN CASE node.kind = "project"   -> EvaluateProject(node, schema(1), rows[1])
       [] node.kind = "filter"    -> EvaluateFilter(node, schema(1), rows[1])
       [] node.kind = "join"      -> EvaluateJoin(node, schema(1), schema(2), rows[1], rows[2])
       [] node.kind = "aggregate" -> EvaluateAggregate(node, schema(1), rows[1])
       [] node.kind = "window"    -> EvaluateWindow(node, schema(1), rows[1])
       [] node.kind = "distinct"  -> EvaluateDistinct(rows[1])
       [] node.kind = "set"       -> EvaluateSet(node, rows[1], rows[2])
       [] node.kind = "order"     -> EvaluateOrder(node, schema(1), rows[1])
       [] node.kind = "slice"     -> EvaluateSlice(node, rows[1])
       [] node.kind = "forget_order" -> Result(Null, rows[1])

RECURSIVE PlanResult(_, _)
PlanResult(plan, snapshot) ==
  IF plan.node.kind = "input" THEN EvaluateInputNode(plan, snapshot)
  ELSE LET in == [i \in DOMAIN plan.inputs |-> PlanResult(plan.inputs[i], snapshot)]
           failure == Require([i \in DOMAIN in |-> in[i].failure], Null)
       IN IF failure # Null THEN Result(failure, <<>>)
          ELSE NodeRows(plan, [i \in DOMAIN in |-> in[i].rows])
=============================================================================
