------------------------ MODULE ReferenceEvaluation ------------------------
(***************************************************************************)
(* `evaluate` of src/evaluation.rs: the validator, then the recursive      *)
(* evaluate_node with its cache of node values.  The evaluator carries no  *)
(* cycle check and no error for an unknown node: it relies on the verdict  *)
(* of the validator, which walks the same references (node_dependencies).  *)
(*                                                                         *)
(* A node value is abstracted to its presence in the cache; which queries  *)
(* the expressions of a node demand, row by row and branch by branch, and  *)
(* whether the node ends in an error are given by the snapshot.            *)
(***************************************************************************)
EXTENDS GraphValidation, EvaluationContract

VARIABLES
  evalPc,       \* "idle", "enter" (evaluate_node entered), "resume", "done"
  evalCall,     \* argument of the evaluate_node being entered
  evalStack,    \* nodes being evaluated: [id, next piece of work]
  cache,        \* nodes with an entry in Evaluator.cache
  evaluations   \* history: how often the work of each node was begun

evaluatorVars == <<snapshot, outcome, evalPc, evalCall, evalStack, cache, evaluations>>

vars == <<validatorVars, evaluatorVars>>

EvaluationInit ==
  /\ ValidatorInit
  /\ snapshot = <<>>
  /\ outcome = NoOutcome
  /\ evalPc = "idle"
  /\ evalCall = None
  /\ evalStack = <<>>
  /\ cache = {}
  /\ evaluations = [id \in NodeId |-> 0]

ReturnValidationError ==
  /\ evalPc = "idle"
  /\ verdict \notin {Pending, Accept}
  /\ evalPc' = "done"
  /\ outcome' = Refused
  /\ UNCHANGED <<snapshot, evalCall, evalStack, cache, evaluations>>

EvaluateRoot ==
  /\ evalPc = "idle"
  /\ verdict = Accept
  /\ snapshot' \in Snapshots(graph)
  /\ evalPc' = "enter"
  /\ evalCall' = graph.root
  /\ UNCHANGED <<outcome, evalStack, cache, evaluations>>

-----------------------------------------------------------------------------
(* evaluate_node(evalCall)                                                 *)

ReturnCached ==
  /\ evalPc = "enter"
  /\ evalCall \in cache
  /\ evalPc' = "resume"
  /\ evalCall' = None
  /\ UNCHANGED <<snapshot, outcome, evalStack, cache, evaluations>>

BeginNode ==
  /\ evalPc = "enter"
  /\ evalCall \notin cache
  /\ evalStack' = Append(evalStack, [id |-> evalCall, next |-> 1])
  /\ evaluations' = [evaluations EXCEPT ![evalCall] = @ + 1]
  /\ evalPc' = "resume"
  /\ evalCall' = None
  /\ UNCHANGED <<snapshot, outcome, cache>>

Evaluating == evalStack[Len(evalStack)]

(* Mutant: queries are evaluated whether or not they are demanded.         *)
EagerWork(id) == NodeOf(graph, id).inputs \o NodeOf(graph, id).queries

(* Every evaluate_node call made for one node, in order: evaluate_input on *)
(* its inputs, then the queries its expressions demand row by row.         *)
Work(id) ==
  LET demands == snapshot[id].demands
  IN NodeOf(graph, id).inputs
       \o [k \in DOMAIN demands |-> NodeOf(graph, id).queries[demands[k]]]

WorkDone == Evaluating.next > Len(Work(Evaluating.id))

DemandNode ==
  /\ evalPc = "resume"
  /\ evalStack # <<>>
  /\ ~ WorkDone
  /\ evalCall' = Work(Evaluating.id)[Evaluating.next]
  /\ evalStack' = [evalStack EXCEPT ![Len(evalStack)] =
                     [id |-> Evaluating.id, next |-> Evaluating.next + 1]]
  /\ evalPc' = "enter"
  /\ UNCHANGED <<snapshot, outcome, cache, evaluations>>

(* Mutants: the value is not kept; an error is cached like a value.        *)
DropValue ==
  /\ evalPc = "resume"
  /\ evalStack # <<>>
  /\ WorkDone
  /\ ~ snapshot[Evaluating.id].fails
  /\ evalStack' = SubSeq(evalStack, 1, Len(evalStack) - 1)
  /\ UNCHANGED <<snapshot, outcome, evalPc, evalCall, cache, evaluations>>

CacheAnything ==
  /\ evalPc = "resume"
  /\ evalStack # <<>>
  /\ WorkDone
  /\ cache' = cache \cup {Evaluating.id}
  /\ evalStack' = SubSeq(evalStack, 1, Len(evalStack) - 1)
  /\ UNCHANGED <<snapshot, outcome, evalPc, evalCall, evaluations>>

CacheValue ==
  /\ evalPc = "resume"
  /\ evalStack # <<>>
  /\ WorkDone
  /\ ~ snapshot[Evaluating.id].fails
  /\ cache' = cache \cup {Evaluating.id}
  /\ evalStack' = SubSeq(evalStack, 1, Len(evalStack) - 1)
  /\ UNCHANGED <<snapshot, outcome, evalPc, evalCall, evaluations>>

(* An error returns through every active evaluate_node at once.            *)
AbortEvaluation ==
  /\ evalPc = "resume"
  /\ evalStack # <<>>
  /\ WorkDone
  /\ snapshot[Evaluating.id].fails
  /\ evalPc' = "done"
  /\ outcome' = Failure(Evaluating.id)
  /\ UNCHANGED <<snapshot, evalCall, evalStack, cache, evaluations>>

ReturnResult ==
  /\ evalPc = "resume"
  /\ evalStack = <<>>
  /\ evalPc' = "done"
  /\ outcome' = Success
  /\ UNCHANGED <<snapshot, evalCall, evalStack, cache, evaluations>>

EvaluateNode == ReturnCached \/ BeginNode \/ DemandNode \/ CacheValue \/ AbortEvaluation

EvaluatorNext ==
  \/ ReturnValidationError \/ EvaluateRoot
  \/ EvaluateNode
  \/ ReturnResult

EvaluationNext ==
  \/ ValidatorNext /\ UNCHANGED evaluatorVars
  \/ EvaluatorNext /\ UNCHANGED validatorVars

(* evaluate is one sequential call.                                        *)
EvaluationSpec ==
  EvaluationInit /\ [][EvaluationNext]_vars /\ WF_vars(EvaluationNext)

-----------------------------------------------------------------------------
(* Type invariant of the evaluator's own variables.                        *)
EvaluatorTypeOK ==
  /\ evalPc \in {"idle", "enter", "resume", "done"}
  /\ evalCall \in NodeId \cup {None}
  /\ evalStack \in Seq([id : NodeId, next : Nat \ {0}])
  /\ cache \in SUBSET NodeId
  /\ evaluations \in [NodeId -> Nat]
  /\ evalPc \in {"enter", "resume"} => snapshot \in Snapshots(graph)
  /\ evalPc = "done" <=> outcome # NoOutcome

(* The recursion of evaluate_node is finite although it checks no cycle:   *)
(* a node is never entered while it is being evaluated.                    *)
NoReentry ==
  /\ \A i, j \in DOMAIN evalStack : evalStack[i].id = evalStack[j].id => i = j
  /\ \A i \in DOMAIN evalStack : evalStack[i].id \notin cache
  /\ evalPc = "enter" => \A i \in DOMAIN evalStack : evalStack[i].id # evalCall

(* Evaluator::node never meets its expect: every node entered exists.      *)
LookupsSucceed == evalPc = "enter" => evalCall \in Ids(graph)

(* A node shared by several consumers is computed once.                    *)
EvaluatedAtMostOnce == \A id \in NodeId : evaluations[id] <= 1

(* Nothing the result does not require is computed, so a failure or a bad  *)
(* host relation behind it cannot be observed.                             *)
OnlyRequiredWork ==
  \A id \in NodeId : evaluations[id] > 0 => Required(graph, snapshot, id)

(* A cached node was computed without error from cached nodes.             *)
CacheIsComplete ==
  \A id \in cache :
     /\ ~ snapshot[id].fails
     /\ Needs(graph, snapshot, id) \subseteq cache

(***************************************************************************)
(* The inductive invariant behind these properties.                        *)
(***************************************************************************)
Begun == cache \cup {evalStack[i].id : i \in DOMAIN evalStack}

(* Nothing has happened before evaluate_node is entered, and it is entered *)
(* for accepted graphs only.                                               *)
StartsAccepted ==
  /\ evalPc = "idle" => snapshot = <<>> /\ Begun = {}
  /\ evalPc \in {"enter", "resume"} => verdict = Accept

(* The nodes begun are those with a value and those being evaluated.       *)
WorkIsCounted ==
  /\ Begun \subseteq Ids(graph)
  /\ \A id \in NodeId : evaluations[id] = IF id \in Begun THEN 1 ELSE 0

(* A node is entered because the result requires it.                       *)
CallIsRequired ==
  /\ evalPc = "enter" => Required(graph, snapshot, evalCall)
  /\ \A id \in Begun : Required(graph, snapshot, id)

(* Each active evaluation has the values of its work before the current    *)
(* piece, which is the next node of the stack or the one being entered.    *)
WorkIsOrdered ==
  \A i \in DOMAIN evalStack :
    LET work == Work(evalStack[i].id)
        next == evalStack[i].next
        waiting == i < Len(evalStack) \/ evalPc = "enter"
    IN /\ next <= Len(work) + 1
       /\ \A k \in 1 .. next - 1 : k < next - 1 \/ ~ waiting => work[k] \in cache
       /\ waiting =>
            /\ next > 1
            /\ work[next - 1] = IF i < Len(evalStack) THEN evalStack[i + 1].id ELSE evalCall

(* The evaluation starts at the root and has its value when it ends.       *)
RootIsEvaluated ==
  /\ evalStack # <<>> => evalStack[1].id = graph.root
  /\ evalStack = <<>> /\ evalPc = "enter" => evalCall = graph.root
  /\ evalStack = <<>> /\ evalPc = "resume" => graph.root \in cache

EvaluationInvariant ==
  /\ StartsAccepted
  /\ WorkIsCounted
  /\ CallIsRequired
  /\ NoReentry /\ LookupsSucceed /\ CacheIsComplete
  /\ evalPc \in {"enter", "resume"} => WorkIsOrdered /\ RootIsEvaluated

(* evaluate implements its contract: validation first, a value exactly     *)
(* when nothing required fails, and it returns.                            *)
Contract == INSTANCE EvaluationContract

ImplementsEvaluationContract == Contract!ContractSpec
=============================================================================
