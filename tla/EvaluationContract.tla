------------------------- MODULE EvaluationContract -------------------------
(***************************************************************************)
(* What `evaluate` promises about errors (docs/specification/09, section   *)
(* 9): an invalid graph is refused; a valid one yields a value exactly     *)
(* when no operation that the result requires fails, and otherwise one of  *)
(* the required failures.  Operations that are not demanded are never      *)
(* observed, whether or not they would fail.                               *)
(***************************************************************************)
EXTENDS GraphVerdict

CONSTANT Behaviours   \* what a snapshot may make of the work of one node

(* demands: positions in `queries`, in the order the rows and expressions  *)
(* of the node demand them; fails: the node then ends with an error.       *)
ASSUME BehavioursAssumption ==
  Behaviours \subseteq [demands : Seq(Nat \ {0}), fails : BOOLEAN]

VARIABLES
  snapshot,   \* the behaviour of each node under the snapshot, once chosen
  outcome     \* the result of evaluate, or NoOutcome

contractVars == <<graph, verdict, snapshot, outcome>>

Outcome(kind, id) == [kind |-> kind, node |-> id]

NoOutcome     == Outcome("pending", None)
Refused       == Outcome("invalid graph", None)
Success       == Outcome("value", None)
Failure(id)   == Outcome("error", id)

Snapshots(g) ==
  {s \in [Ids(g) -> Behaviours] :
     \A id \in Ids(g) : Elements(s[id].demands) \subseteq DOMAIN NodeOf(g, id).queries}

(* What the value of a node depends on: its inputs, which are strict, and  *)
(* the queries that its expressions demand.                                *)
Needs(g, s, id) ==
  Elements(NodeOf(g, id).inputs)
    \cup {NodeOf(g, id).queries[k] : k \in Elements(s[id].demands)}

(* The result requires the node: the least set closed under needs has it.  *)
Required(g, s, id) ==
  \A S \in SUBSET Ids(g) :
     g.root \in S /\ (\A x \in S : Needs(g, s, x) \subseteq S) => id \in S

NothingRequiredFails(g, s) ==
  \A id \in Ids(g) : Required(g, s, id) => ~ s[id].fails

-----------------------------------------------------------------------------
ContractInit ==
  /\ Init
  /\ snapshot = <<>>
  /\ outcome = NoOutcome

Validate == Decide /\ UNCHANGED <<snapshot, outcome>>

Refuse ==
  /\ outcome = NoOutcome
  /\ verdict \notin {Pending, Accept}
  /\ outcome' = Refused
  /\ UNCHANGED <<graph, verdict, snapshot>>

Start ==
  /\ outcome = NoOutcome
  /\ verdict = Accept
  /\ snapshot = <<>>
  /\ snapshot' \in Snapshots(graph)
  /\ UNCHANGED <<graph, verdict, outcome>>

Finish ==
  /\ outcome = NoOutcome
  /\ snapshot # <<>>
  /\ \/ /\ NothingRequiredFails(graph, snapshot)
        /\ outcome' = Success
     \/ \E id \in Ids(graph) :
          /\ Required(graph, snapshot, id)
          /\ snapshot[id].fails
          /\ outcome' = Failure(id)
  /\ UNCHANGED <<graph, verdict, snapshot>>

ContractNext == Validate \/ Refuse \/ Start \/ Finish

ContractSpec ==
  ContractInit /\ [][ContractNext]_contractVars /\ WF_contractVars(ContractNext)
=============================================================================
