---------------------------- MODULE GraphVerdict ----------------------------
(***************************************************************************)
(* What Graph::validate promises: one verdict, in one step, that is true   *)
(* of the graph.  A graph is accepted exactly when it is well formed; the  *)
(* error names a node that really has the reported defect.  Which of       *)
(* several defects is reported is left open here.                          *)
(***************************************************************************)
EXTENDS ShapeGraph

VARIABLES
  graph,      \* the graph submitted
  verdict     \* the result of validate, or Pending

verdictVars == <<graph, verdict>>

Verdict(kind, id) == [kind |-> kind, node |-> id]

Pending == Verdict("pending", None)
Accept  == Verdict("valid", None)

VerdictKinds ==
  {"pending", "valid", "UnsupportedVersion", "EmptyGraph", "DuplicateNode",
   "MissingNode", "CyclicGraph", "UnreachableNode", "InvalidNode", "DuplicateField"}

VerdictType == [kind : VerdictKinds, node : NodeId \cup {None}]

SharesField(g, id) ==
  \E other \in Ids(g) \ {id} : Defined(g, id) \cap Defined(g, other) # {}

(* The error v is true of the graph g.                                     *)
Justified(g, v) ==
  \/ v = Verdict("UnsupportedVersion", None) /\ ~ g.supported
  \/ v = Verdict("EmptyGraph", None) /\ g.nodes = <<>>
  \/ \E i \in Positions(g) :
        RepeatedAt(g, i) /\ v = Verdict("DuplicateNode", g.nodes[i].id)
  \/ \E id \in NodeId \ Ids(g) :
        Reachable(g, id) /\ v = Verdict("MissingNode", id)
  \/ \E id \in Ids(g) :
        \/ OnCycle(g, id) /\ Reachable(g, id) /\ v = Verdict("CyclicGraph", id)
        \/ ~ Reachable(g, id) /\ v = Verdict("UnreachableNode", id)
        \/ ~ NodeOf(g, id).rulesHold /\ v = Verdict("InvalidNode", id)
        \/ /\ RepeatsField(g, id) \/ SharesField(g, id)
           /\ v = Verdict("DuplicateField", id)

(* v is a right answer for the graph g.                                    *)
Correct(g, v) == IF WellFormed(g) THEN v = Accept ELSE Justified(g, v)

Init == graph \in Graphs /\ verdict = Pending

Decide ==
  /\ verdict = Pending
  /\ Correct(graph, verdict')
  /\ UNCHANGED graph

(* There is always a verdict in the end.                                   *)
Spec == Init /\ [][Decide]_verdictVars /\ <>(verdict # Pending)
=============================================================================
