-------------------------- MODULE MCGraphValidation --------------------------
(***************************************************************************)
(* An instance of GraphValidation for TLC.                                 *)
(***************************************************************************)
EXTENDS GraphValidation, FiniteSets, SequencesExt

CONSTANTS n1, n2, n3, gone, f, h

MCNodeId == {n1, n2, n3, gone}
MCFieldId == {f, h}

(* A source has no expressions, hence queries only beside an input.        *)
References(ids) ==
  {r \in [inputs : BoundedSeq(ids, 1), queries : BoundedSeq(ids, 1)] :
     r.inputs = <<>> => r.queries = <<>>}

NodeWith(id, refs, defines, rulesHold) ==
  [id |-> id, inputs |-> refs.inputs, queries |-> refs.queries,
   defines |-> defines, rulesHold |-> rulesHold]

Submitted(nodes, root) == [supported |-> TRUE, nodes |-> nodes, root |-> root]

(* Every shape of up to three nodes with up to two references each.        *)
Plain(id, refs) == NodeWith(id, refs, <<>>, TRUE)

ShapesOf(ids) ==
  {<<Plain(n1, a), Plain(n2, b), Plain(n3, c)>> :
     a \in References(ids), b \in References(ids), c \in References(ids)}

ShapeGraphs ==
  {Submitted(nodes, n1) : nodes \in ShapesOf(MCNodeId)} \cup {Submitted(<<>>, gone)}

(* Two entries with equal or distinct identities, fields and rule defects. *)
DefectNodes ==
  {NodeWith(id, refs, defines, rulesHold) :
     id \in {n1, n2},
     refs \in References({n1, n2}),
     defines \in {<<>>, <<f>>, <<f, h>>, <<f, f>>},
     rulesHold \in BOOLEAN}

DefectGraphs ==
  {Submitted(<<a, b>>, n1) : a \in DefectNodes, b \in DefectNodes}
    \cup {Submitted(<<a>>, n1) : a \in DefectNodes}
    \cup {[supported |-> FALSE, nodes |-> <<a>>, root |-> n1] : a \in DefectNodes}
    \cup {Submitted(<<>>, n1)}

MCGraphs == ShapeGraphs \cup DefectGraphs
=============================================================================
