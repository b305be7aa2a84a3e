----------------------------- MODULE ShapeGraph -----------------------------
(***************************************************************************)
(* A Shape IR graph as its traversals see it: the validator's depth-first  *)
(* visit (src/shape_ir.rs) and the evaluator's recursion (src/evaluation.rs)*)
(* both walk the nodes along two kinds of references, the ordinary inputs  *)
(* of a node and the nodes its expressions demand (EXISTS, IN).            *)
(*                                                                         *)
(* What a node computes is abstracted: of its kind, expressions and schema *)
(* the traversals tell apart only the references, the fields the node      *)
(* defines, and whether its own rule of validate_node holds.               *)
(***************************************************************************)
EXTENDS Naturals, Sequences

CONSTANTS
  NodeId,     \* names of nodes, also of nodes a graph does not contain
  FieldId,    \* names of fields
  Graphs,     \* the graphs a caller may submit
  None        \* no node

Node == [id        : NodeId,
         inputs    : Seq(NodeId),   \* ordinary inputs, in operand order
         queries   : Seq(NodeId),   \* EXISTS / IN references, in expression order
         defines   : Seq(FieldId),  \* fields the node introduces, in output order
         rulesHold : BOOLEAN]       \* every other rule of validate_node is met

Graph == [supported : BOOLEAN,      \* version = VERSION
          nodes     : Seq(Node),
          root      : NodeId]

ASSUME GraphsAssumption == Graphs \subseteq Graph
ASSUME NoneAssumption   == None \notin NodeId

-----------------------------------------------------------------------------
Positions(g) == DOMAIN g.nodes

Ids(g) == {g.nodes[i].id : i \in Positions(g)}

(* The node an identity names: `nodes` of Validator and Evaluator.         *)
NodeOf(g, id) == g.nodes[CHOOSE i \in Positions(g) : g.nodes[i].id = id]

Elements(s) == {s[i] : i \in DOMAIN s}

(* The nodes whose properties and values a node needs.                     *)
Uses(g, id) == Elements(NodeOf(g, id).inputs) \cup Elements(NodeOf(g, id).queries)

(* node_dependencies, the order in which visit walks what a node uses:     *)
(* inputs first, then the queries of the expressions.  Mutant: the edges   *)
(* of expressions are forgotten.                                           *)
DependenciesWithoutQueries(g, id) == NodeOf(g, id).inputs

Dependencies(g, id) == NodeOf(g, id).inputs \o NodeOf(g, id).queries

(***************************************************************************)
(* Reachability and cycles, through sets closed under references.  An      *)
(* identity is reachable from a set when every closed superset holds it.   *)
(***************************************************************************)
Closed(g, S) == \A id \in S \cap Ids(g) : Uses(g, id) \subseteq S

ReachedFrom(g, from, id) ==
  \A S \in SUBSET NodeId : from \subseteq S /\ Closed(g, S) => id \in S

Reachable(g, id) == ReachedFrom(g, {g.root}, id)

OnCycle(g, id) == id \in Ids(g) /\ ReachedFrom(g, Uses(g, id), id)

(* No nonempty set of nodes in which each uses another one of the set.     *)
Acyclic(g) ==
  \A S \in SUBSET Ids(g) : S # {} => \E id \in S : Uses(g, id) \cap S = {}

RepeatedAt(g, i) == \E j \in Positions(g) : j < i /\ g.nodes[j].id = g.nodes[i].id

UniqueIds(g) == \A i \in Positions(g) : ~ RepeatedAt(g, i)

Defined(g, id) == Elements(NodeOf(g, id).defines)

RepeatsField(g, id) ==
  \E k, l \in DOMAIN NodeOf(g, id).defines :
     k # l /\ NodeOf(g, id).defines[k] = NodeOf(g, id).defines[l]

FieldsDefinedOnce(g) ==
  /\ \A id \in Ids(g) : ~ RepeatsField(g, id)
  /\ \A a, b \in Ids(g) : a # b => Defined(g, a) \cap Defined(g, b) = {}

(* The graphs the reference evaluator may be run on.                       *)
WellFormed(g) ==
  /\ g.supported
  /\ g.nodes # <<>>
  /\ UniqueIds(g)
  /\ \A id \in NodeId : Reachable(g, id) => id \in Ids(g)
  /\ Acyclic(g)
  /\ \A id \in Ids(g) : Reachable(g, id)
  /\ \A id \in Ids(g) : NodeOf(g, id).rulesHold
  /\ FieldsDefinedOnce(g)
=============================================================================
