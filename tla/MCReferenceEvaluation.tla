------------------------ MODULE MCReferenceEvaluation ------------------------
(***************************************************************************)
(* Instances of ReferenceEvaluation for TLC: graphs of three nodes that    *)
(* refer forwards, backwards and to themselves, under every snapshot.      *)
(***************************************************************************)
EXTENDS ReferenceEvaluation, FiniteSets, SequencesExt

CONSTANTS n1, n2, n3, gone

MCNodeId == {n1, n2, n3, gone}

MCNode(id, inputs, queries) ==
  [id |-> id, inputs |-> inputs, queries |-> queries, defines |-> <<>>, rulesHold |-> TRUE]

Submitted(nodes) == [supported |-> TRUE, nodes |-> nodes, root |-> n1]

(* The consumer joins or filters the other two, and asks either of them.   *)
Consumers ==
  {MCNode(n1, inputs, queries) :
     inputs \in {<<n2>>, <<n2, n3>>, <<n3, n2>>, <<n3>>},
     queries \in {<<>>, <<n2>>, <<n3>>, <<n1>>, <<n2, n3>>, <<gone>>}}

Middles ==
  {MCNode(n2, inputs, queries) :
     inputs \in {<<n3>>, <<n3, n3>>}, queries \in {<<>>, <<n3>>, <<n1>>}}
   \cup {MCNode(n2, <<>>, <<>>)}

Sources == {MCNode(n3, <<>>, <<>>), MCNode(n3, <<n2>>, <<>>)}

MCGraphs == {Submitted(<<a, b, c>>) : a \in Consumers, b \in Middles, c \in Sources}

MCBehaviours ==
  [demands : {<<>>, <<1>>, <<2>>, <<2, 1>>, <<1, 1>>}, fails : BOOLEAN]
=============================================================================
