--------------------------- MODULE GraphValidation ---------------------------
(***************************************************************************)
(* The validator of src/shape_ir.rs: Validator::new, then a recursive      *)
(* depth-first visit from the root, then a scan for unvisited nodes.  The  *)
(* recursion is modelled by an explicit call stack; one action is one      *)
(* branch of visit, so that every intermediate state of the traversal is a *)
(* state of the model.                                                     *)
(***************************************************************************)
EXTENDS GraphVerdict

VARIABLES
  pc,             \* "new", "enter" (visit entered), "resume" (visit returned), "done"
  call,           \* argument of the visit being entered
  stack,          \* active visits past the lookup: [id, next dependency]
  states,         \* VisitState of each node, "Unvisited" when absent
  properties,     \* nodes with an entry in Validator.properties
  definedFields   \* fields defined so far, over the whole graph

validatorVars ==
  <<graph, verdict, pc, call, stack, states, properties, definedFields>>

ValidatorInit ==
  /\ Init
  /\ pc = "new"
  /\ call = None
  /\ stack = <<>>
  /\ states = [id \in NodeId |-> "Unvisited"]
  /\ properties = {}
  /\ definedFields = {}

Conclude(v) == pc' = "done" /\ verdict' = v

-----------------------------------------------------------------------------
(* Validator::new: version, emptiness, then the first repeated identity.   *)

RejectVersion ==
  /\ pc = "new"
  /\ ~ graph.supported
  /\ Conclude(Verdict("UnsupportedVersion", None))
  /\ UNCHANGED <<graph, call, stack, states, properties, definedFields>>

RejectEmpty ==
  /\ pc = "new"
  /\ graph.supported
  /\ graph.nodes = <<>>
  /\ Conclude(Verdict("EmptyGraph", None))
  /\ UNCHANGED <<graph, call, stack, states, properties, definedFields>>

RejectDuplicateNode ==
  /\ pc = "new"
  /\ graph.supported
  /\ \E i \in Positions(graph) :
       /\ RepeatedAt(graph, i)
       /\ \A j \in Positions(graph) : RepeatedAt(graph, j) => i <= j
       /\ Conclude(Verdict("DuplicateNode", graph.nodes[i].id))
  /\ UNCHANGED <<graph, call, stack, states, properties, definedFields>>

VisitRoot ==
  /\ pc = "new"
  /\ graph.supported
  /\ graph.nodes # <<>>
  /\ UniqueIds(graph)
  /\ pc' = "enter"
  /\ call' = graph.root
  /\ UNCHANGED <<graph, verdict, stack, states, properties, definedFields>>

-----------------------------------------------------------------------------
(* visit(call), up to its loop over the dependencies.                      *)

(* Mutant: every node with a state counts as visited.                      *)
ReturnVisited ==
  /\ pc = "enter"
  /\ states[call] # "Unvisited"
  /\ pc' = "resume"
  /\ call' = None
  /\ UNCHANGED <<graph, verdict, stack, states, properties, definedFields>>

ReturnComplete ==
  /\ pc = "enter"
  /\ states[call] = "Complete"
  /\ pc' = "resume"
  /\ call' = None
  /\ UNCHANGED <<graph, verdict, stack, states, properties, definedFields>>

RejectCycle ==
  /\ pc = "enter"
  /\ states[call] = "Visiting"
  /\ Conclude(Verdict("CyclicGraph", call))
  /\ UNCHANGED <<graph, call, stack, states, properties, definedFields>>

RejectMissing ==
  /\ pc = "enter"
  /\ states[call] = "Unvisited"
  /\ call \notin Ids(graph)
  /\ Conclude(Verdict("MissingNode", call))
  /\ UNCHANGED <<graph, call, stack, states, properties, definedFields>>

MarkVisiting ==
  /\ pc = "enter"
  /\ states[call] = "Unvisited"
  /\ call \in Ids(graph)
  /\ states' = [states EXCEPT ![call] = "Visiting"]
  /\ stack' = Append(stack, [id |-> call, next |-> 1])
  /\ pc' = "resume"
  /\ call' = None
  /\ UNCHANGED <<graph, verdict, properties, definedFields>>

-----------------------------------------------------------------------------
(* The rest of visit for the innermost active node.                        *)

Active == stack[Len(stack)]

Exhausted == Active.next > Len(Dependencies(graph, Active.id))

(* Mutant: the loop does not advance.                                      *)
RevisitDependency ==
  /\ pc = "resume"
  /\ stack # <<>>
  /\ ~ Exhausted
  /\ call' = Dependencies(graph, Active.id)[Active.next]
  /\ pc' = "enter"
  /\ UNCHANGED <<graph, verdict, stack, states, properties, definedFields>>

VisitDependency ==
  /\ pc = "resume"
  /\ stack # <<>>
  /\ ~ Exhausted
  /\ call' = Dependencies(graph, Active.id)[Active.next]
  /\ stack' = [stack EXCEPT ![Len(stack)] = [id |-> Active.id, next |-> Active.next + 1]]
  /\ pc' = "enter"
  /\ UNCHANGED <<graph, verdict, states, properties, definedFields>>

(* define_field meets a field of the node itself or of an earlier node.    *)
FieldClash(id) ==
  RepeatsField(graph, id) \/ Defined(graph, id) \cap definedFields # {}

MarkComplete ==
  /\ pc = "resume"
  /\ stack # <<>>
  /\ Exhausted
  /\ NodeOf(graph, Active.id).rulesHold
  /\ ~ FieldClash(Active.id)
  /\ definedFields' = definedFields \cup Defined(graph, Active.id)
  /\ properties' = properties \cup {Active.id}
  /\ states' = [states EXCEPT ![Active.id] = "Complete"]
  /\ stack' = SubSeq(stack, 1, Len(stack) - 1)
  /\ UNCHANGED <<graph, verdict, pc, call>>

(* validate_node stops at its first defect; a rule may be checked before   *)
(* or after the fields are defined, depending on the kind of the node.     *)
RejectNode ==
  /\ pc = "resume"
  /\ stack # <<>>
  /\ Exhausted
  /\ \/ /\ ~ NodeOf(graph, Active.id).rulesHold
        /\ Conclude(Verdict("InvalidNode", Active.id))
     \/ /\ FieldClash(Active.id)
        /\ Conclude(Verdict("DuplicateField", Active.id))
  /\ UNCHANGED <<graph, call, stack, states, properties, definedFields>>

-----------------------------------------------------------------------------
(* validate after visit(root): the first node in graph order without state.*)

Unvisited(i) == states[graph.nodes[i].id] = "Unvisited"

RejectUnreachable ==
  /\ pc = "resume"
  /\ stack = <<>>
  /\ \E i \in Positions(graph) :
       /\ Unvisited(i)
       /\ \A j \in Positions(graph) : Unvisited(j) => i <= j
       /\ Conclude(Verdict("UnreachableNode", graph.nodes[i].id))
  /\ UNCHANGED <<graph, call, stack, states, properties, definedFields>>

(* Mutant: no scan for nodes the traversal has not reached.                *)
AcceptTraversed ==
  /\ pc = "resume"
  /\ stack = <<>>
  /\ Conclude(Accept)
  /\ UNCHANGED <<graph, call, stack, states, properties, definedFields>>

AcceptGraph ==
  /\ pc = "resume"
  /\ stack = <<>>
  /\ \A i \in Positions(graph) : ~ Unvisited(i)
  /\ Conclude(Accept)
  /\ UNCHANGED <<graph, call, stack, states, properties, definedFields>>

Visit == ReturnComplete \/ RejectCycle \/ RejectMissing \/ MarkVisiting
           \/ VisitDependency \/ MarkComplete \/ RejectNode

ValidatorNext ==
  \/ RejectVersion \/ RejectEmpty \/ RejectDuplicateNode \/ VisitRoot
  \/ Visit
  \/ RejectUnreachable \/ AcceptGraph

(* validate is a sequential call: nothing but its own end stops it.        *)
ValidatorSpec ==
  ValidatorInit /\ [][ValidatorNext]_validatorVars /\ WF_validatorVars(ValidatorNext)

-----------------------------------------------------------------------------
(* Type invariant: every variable of the traversal keeps its shape.        *)
ValidatorTypeOK ==
  /\ graph \in Graph
  /\ verdict \in VerdictType
  /\ pc \in {"new", "enter", "resume", "done"}
  /\ call \in NodeId \cup {None}
  /\ pc = "enter" => call \in NodeId
  /\ stack \in Seq([id : NodeId, next : Nat \ {0}])
  /\ \A i \in DOMAIN stack : stack[i].id \in Ids(graph)
  /\ states \in [NodeId -> {"Unvisited", "Visiting", "Complete"}]
  /\ properties \in SUBSET NodeId
  /\ definedFields \in SUBSET FieldId
  /\ pc = "done" <=> verdict # Pending
  /\ pc = "new" => stack = <<>>

Completed == {id \in NodeId : states[id] = "Complete"}

OnStack == {stack[i].id : i \in DOMAIN stack}

(* The nodes on the call stack are exactly the nodes marked Visiting, each *)
(* once: the state of a node, not the stack, is all the cycle check reads. *)
StackIsVisiting ==
  /\ \A i, j \in DOMAIN stack : stack[i].id = stack[j].id => i = j
  /\ OnStack = {id \in NodeId : states[id] = "Visiting"}

(***************************************************************************)
(* The inductive invariant behind the properties below.                    *)
(***************************************************************************)
(* Past Validator::new the header is known to be good.                     *)
HeaderPassed ==
  pc \in {"enter", "resume"}
    => graph.supported /\ graph.nodes # <<>> /\ UniqueIds(graph)

(* Only nodes of the graph, reachable from its root, are ever marked.      *)
MarkedAreReachable ==
  /\ \A id \in NodeId : states[id] # "Unvisited" => id \in Ids(graph) /\ Reachable(graph, id)
  /\ pc = "enter" => Reachable(graph, call)

(* Completed nodes form a validated, acyclic graph of their own.           *)
CompletedAreSound ==
  /\ properties = Completed
  /\ \A id \in Completed :
       /\ Uses(graph, id) \subseteq Completed
       /\ NodeOf(graph, id).rulesHold
       /\ ~ RepeatsField(graph, id)
  /\ \A S \in SUBSET Completed : S # {} => \E id \in S : Uses(graph, id) \cap S = {}

(* definedFields is what the completed nodes define, each field once.      *)
FieldsAreCounted ==
  /\ definedFields = UNION {Defined(graph, id) : id \in Completed}
  /\ \A a, b \in Completed : a # b => Defined(graph, a) \cap Defined(graph, b) = {}

(* Each active visit has completed the dependencies before its current one,*)
(* which is the next node of the stack or the visit being entered.         *)
FramesAreOrdered ==
  \A i \in DOMAIN stack :
    LET deps == Dependencies(graph, stack[i].id)
        next == stack[i].next
        waiting == i < Len(stack) \/ pc = "enter"
    IN /\ next <= Len(deps) + 1
       /\ \A k \in 1 .. next - 1 : k < next - 1 \/ ~ waiting => deps[k] \in Completed
       /\ waiting => /\ next > 1
                     /\ deps[next - 1] = IF i < Len(stack) THEN stack[i + 1].id ELSE call

(* The traversal starts at the root and has completed it when it ends.     *)
RootIsFirst ==
  /\ stack # <<>> => stack[1].id = graph.root
  /\ stack = <<>> /\ pc = "enter" => call = graph.root
  /\ stack = <<>> /\ pc = "resume" => states[graph.root] = "Complete"

(* The stack is a path of the graph.                                       *)
StackIsPath ==
  /\ \A i, j \in DOMAIN stack :
       i < j => ReachedFrom(graph, Uses(graph, stack[i].id), stack[j].id)
  /\ pc = "enter" =>
       \A i \in DOMAIN stack : ReachedFrom(graph, Uses(graph, stack[i].id), call)

TraversalInvariant ==
  pc # "done" => /\ StackIsVisiting
                 /\ HeaderPassed
                 /\ MarkedAreReachable
                 /\ CompletedAreSound
                 /\ FieldsAreCounted
                 /\ FramesAreOrdered
                 /\ (pc # "new" => RootIsFirst)
                 /\ StackIsPath

(* Validator.property never misses: when validate_node runs for a node,    *)
(* all the nodes it and its expressions refer to have their properties.    *)
InputPropertiesAvailable ==
  pc = "resume" /\ stack # <<>> /\ Exhausted
    => Uses(graph, Active.id) \subseteq properties

(* The answer is right whenever there is one: accepted graphs are well     *)
(* formed, and an error names a node that has the reported defect.         *)
VerdictIsCorrect == verdict # Pending => Correct(graph, verdict)

(* The traversal implements the one-step verdict, termination included.    *)
OneStep == INSTANCE GraphVerdict

ImplementsGraphVerdict == OneStep!Spec
=============================================================================
