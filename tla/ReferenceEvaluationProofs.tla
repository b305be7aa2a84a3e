--------------------- MODULE ReferenceEvaluationProofs ---------------------
(***************************************************************************)
(* Proofs about the validator's traversal and about the evaluator, for     *)
(* every set of graphs and snapshots.  The evaluator's missing checks are  *)
(* supplied by the theorems about the validator, which come first: it runs *)
(* before the evaluator, on the same graph.                                *)
(***************************************************************************)
EXTENDS ReferenceEvaluation, SequenceTheorems, TLAPS

-----------------------------------------------------------------------------
(* Facts about graphs.                                                     *)

(* Looking a node of the graph up finds it.                                *)
LEMMA LookupFinds ==
  ASSUME NEW g \in Graph, NEW id \in Ids(g)
  PROVE  /\ NodeOf(g, id) \in Node
         /\ NodeOf(g, id).id = id
<1>1. g.nodes \in Seq(Node)
  BY DEF Graph
<1>2. PICK i \in DOMAIN g.nodes : g.nodes[i].id = id
  BY DEF Ids, Positions
<1>3. /\ (CHOOSE j \in DOMAIN g.nodes : g.nodes[j].id = id) \in DOMAIN g.nodes
      /\ g.nodes[CHOOSE j \in DOMAIN g.nodes : g.nodes[j].id = id].id = id
  BY <1>2
<1> QED
  BY <1>1, <1>3, ElementOfSeq, LenProperties DEF NodeOf, Positions

(* The references of a node are names of nodes.                            *)
LEMMA ReferencesAreNames ==
  ASSUME NEW g \in Graph, NEW id \in Ids(g)
  PROVE  /\ Dependencies(g, id) \in Seq(NodeId)
         /\ Uses(g, id) \in SUBSET NodeId
         /\ \A k \in 1 .. Len(Dependencies(g, id)) : Dependencies(g, id)[k] \in Uses(g, id)
         /\ \A x \in Uses(g, id) :
              \E k \in 1 .. Len(Dependencies(g, id)) : x = Dependencies(g, id)[k]
<1> DEFINE a == NodeOf(g, id).inputs
           b == NodeOf(g, id).queries
<1>1. /\ a \in Seq(NodeId) /\ b \in Seq(NodeId)
  BY LookupFinds DEF Node
<1>2. /\ DOMAIN a = 1 .. Len(a) /\ Len(a) \in Nat /\ \A i \in DOMAIN a : a[i] \in NodeId
      /\ DOMAIN b = 1 .. Len(b) /\ Len(b) \in Nat /\ \A i \in DOMAIN b : b[i] \in NodeId
  BY <1>1, LenProperties, ElementOfSeq
<1>3. Dependencies(g, id) = a \o b /\ Uses(g, id) = Elements(a) \cup Elements(b)
  BY DEF Dependencies, Uses
<1> HIDE DEF a, b
<1>4. /\ a \o b \in Seq(NodeId) /\ Len(a \o b) = Len(a) + Len(b)
      /\ \A k \in 1 .. Len(a) + Len(b) :
           (a \o b)[k] = IF k <= Len(a) THEN a[k] ELSE b[k - Len(a)]
  BY <1>1, ConcatProperties
<1>5. \A k \in 1 .. Len(a \o b) : (a \o b)[k] \in Elements(a) \cup Elements(b)
  BY <1>2, <1>4 DEF Elements
<1>6. \A i \in DOMAIN a : i \in 1 .. Len(a \o b) /\ a[i] = (a \o b)[i]
  BY <1>2, <1>4
<1>7. \A i \in DOMAIN b :
        Len(a) + i \in 1 .. Len(a \o b) /\ b[i] = (a \o b)[Len(a) + i]
  BY <1>2, <1>4
<1>8. \A x \in Elements(a) \cup Elements(b) : \E k \in 1 .. Len(a \o b) : x = (a \o b)[k]
  BY <1>6, <1>7 DEF Elements
<1>9. Elements(a) \cup Elements(b) \in SUBSET NodeId
  BY <1>2 DEF Elements
<1> QED
  BY <1>3, <1>4, <1>5, <1>8, <1>9

(* The nodes of a submitted graph, and what they use, are node names.      *)
LEMMA IdsAreNames ==
  ASSUME NEW g \in Graph
  PROVE  /\ Ids(g) \subseteq NodeId
         /\ g.root \in NodeId
         /\ DOMAIN g.nodes = 1 .. Len(g.nodes)
         /\ Len(g.nodes) \in Nat
<1>1. g.nodes \in Seq(Node) /\ g.root \in NodeId
  BY DEF Graph
<1>2. \A i \in DOMAIN g.nodes : g.nodes[i] \in Node
  BY <1>1, LenProperties, ElementOfSeq
<1> QED
  BY <1>1, <1>2, LenProperties DEF Ids, Positions, Node

(* Reachability contains its origin and follows references.                *)
LEMMA ReachesOrigin ==
  ASSUME NEW g, NEW from, NEW x \in from
  PROVE  ReachedFrom(g, from, x)
BY DEF ReachedFrom

(* Reachability is transitive over one more reference.                     *)
LEMMA ReachesUses ==
  ASSUME NEW g, NEW from, NEW x \in Ids(g), ReachedFrom(g, from, x), NEW y \in Uses(g, x)
  PROVE  ReachedFrom(g, from, y)
BY DEF ReachedFrom, Closed

(* In an acyclic graph no node reaches itself.                             *)
LEMMA AcyclicHasNoCycle ==
  ASSUME NEW g \in Graph, NEW id \in Ids(g), Acyclic(g)
  PROVE  ~ OnCycle(g, id)
<1> SUFFICES ASSUME OnCycle(g, id) PROVE FALSE
  OBVIOUS
<1> DEFINE Reaching == {x \in Ids(g) : ReachedFrom(g, {x}, id)}
<1> DEFINE Others == {z \in NodeId : ~ ReachedFrom(g, {z}, id)}
<1>1. id \in Reaching
  BY ReachesOrigin
<1>2. id \in NodeId /\ Ids(g) \subseteq NodeId
  BY IdsAreNames
<1>3. Closed(g, Others)
  <2> SUFFICES ASSUME NEW z \in Others \cap Ids(g), NEW y \in Uses(g, z) PROVE y \in Others
    BY DEF Closed
  <2>1. y \in NodeId
    BY ReferencesAreNames
  <2>2. ASSUME ReachedFrom(g, {y}, id) PROVE ReachedFrom(g, {z}, id)
    BY <2>2 DEF ReachedFrom, Closed
  <2> QED
    BY <2>1, <2>2
<1>4. id \notin Others
  BY <1>1
<1>5. ASSUME NEW x \in Reaching PROVE Uses(g, x) \cap Reaching # {}
  <2> SUFFICES ASSUME Uses(g, x) \cap Reaching = {} PROVE FALSE
    OBVIOUS
  <2>1. \A y \in Uses(g, x) : y \in NodeId
    BY ReferencesAreNames
  <2>2. \A y \in Uses(g, x) : y \notin Ids(g) => y \in Others
    <3> SUFFICES ASSUME NEW y \in Uses(g, x), y \notin Ids(g), ReachedFrom(g, {y}, id)
                 PROVE  FALSE
      BY <2>1
    <3>1. Closed(g, {y}) /\ {y} \in SUBSET NodeId
      BY <2>1 DEF Closed
    <3>2. id \in {y}
      BY <3>1 DEF ReachedFrom
    <3> QED
      BY <3>2
  <2>3. Uses(g, x) \subseteq Others
    BY <2>1, <2>2
  <2>4. CASE x = id
    <3>1. Others \in SUBSET NodeId
      OBVIOUS
    <3> QED
      BY <1>3, <1>4, <2>3, <2>4, <3>1 DEF OnCycle, ReachedFrom
  <2>5. CASE x # id
    <3>1. Closed(g, Others \cup {x})
      BY <1>3, <2>3 DEF Closed
    <3>2. Others \cup {x} \in SUBSET NodeId
      BY <1>2
    <3>3. id \in Others \cup {x}
      BY <3>1, <3>2 DEF ReachedFrom
    <3> QED
      BY <1>4, <2>5, <3>3
  <2> QED
    BY <2>4, <2>5
<1> HIDE DEF Reaching, Others
<1>6. Reaching \in SUBSET Ids(g)
  BY DEF Reaching
<1> QED
  BY <1>1, <1>5, <1>6 DEF Acyclic

(* Every reported defect rules well-formedness out.                        *)
LEMMA JustifiedIsDefect ==
  ASSUME NEW g \in Graph, NEW v, Justified(g, v)
  PROVE  ~ WellFormed(g)
<1>1. ASSUME NEW id \in Ids(g), OnCycle(g, id)
      PROVE  ~ WellFormed(g)
  BY <1>1, AcyclicHasNoCycle DEF WellFormed
<1>2. ASSUME NEW id \in Ids(g), RepeatsField(g, id) \/ SharesField(g, id)
      PROVE  ~ WellFormed(g)
  BY <1>2 DEF WellFormed, FieldsDefinedOnce, SharesField
<1> QED
  BY <1>1, <1>2 DEF Justified, WellFormed, UniqueIds

-----------------------------------------------------------------------------
(* Facts about the call stack.                                             *)

Frame == [id : NodeId, next : Nat \ {0}]

(* The innermost active visit, when there is one, is a visit of a node.    *)
LEMMA StackFacts ==
  ASSUME NEW s \in Seq(Frame)
  PROVE  /\ Len(s) \in Nat
         /\ DOMAIN s = 1 .. Len(s)
         /\ \A i \in DOMAIN s : s[i] \in Frame
         /\ s # <<>> => Len(s) \in DOMAIN s
         /\ s = <<>> => DOMAIN s = {}
<1>1. Len(s) \in Nat /\ DOMAIN s = 1 .. Len(s)
  BY LenProperties
<1>2. \A i \in DOMAIN s : s[i] \in Frame
  BY <1>1, ElementOfSeq
<1>3. s # <<>> => Len(s) \in DOMAIN s
  BY <1>1, EmptySeq
<1>4. s = <<>> => DOMAIN s = {}
  BY <1>1, EmptySeq
<1> QED
  BY <1>1, <1>2, <1>3, <1>4

(* MarkVisiting adds one visit on top and leaves those below it alone.     *)
LEMMA PushFacts ==
  ASSUME NEW s \in Seq(Frame), NEW e \in Frame, NEW t, t = Append(s, e)
  PROVE  /\ t \in Seq(Frame)
         /\ t # <<>>
         /\ Len(t) = Len(s) + 1
         /\ DOMAIN t = 1 .. Len(s) + 1
         /\ \A i \in 1 .. Len(s) : t[i] = s[i]
         /\ t[Len(s) + 1] = e
<1>1. /\ t \in Seq(Frame) /\ t # <<>> /\ Len(t) = Len(s) + 1
      /\ \A i \in 1 .. Len(s) : t[i] = s[i]
      /\ t[Len(s) + 1] = e
  BY AppendProperties
<1> QED
  BY <1>1, StackFacts

(* MarkComplete removes the innermost visit and leaves the others alone.   *)
LEMMA PopFacts ==
  ASSUME NEW s \in Seq(Frame), s # <<>>, NEW t, t = SubSeq(s, 1, Len(s) - 1)
  PROVE  /\ t \in Seq(Frame)
         /\ Len(t) = Len(s) - 1
         /\ DOMAIN t = 1 .. Len(s) - 1
         /\ \A i \in 1 .. Len(s) - 1 : t[i] = s[i]
<1> DEFINE n == Len(s) - 1
<1>1. n \in Nat /\ \A i \in 1 .. n : s[i] \in Frame
  BY EmptySeq, StackFacts
<1>2. t = SubSeq(s, 1, n)
  OBVIOUS
<1> HIDE DEF n
<1>3. /\ t \in Seq(Frame)
      /\ Len(t) = IF 1 <= n THEN n - 1 + 1 ELSE 0
      /\ \A i \in 1 .. n - 1 + 1 : t[i] = s[1 + i - 1]
  BY <1>1, <1>2, SubSeqProperties
<1>4. Len(t) = n
  BY <1>1, <1>3
<1>5. \A i \in 1 .. n : t[i] = s[i]
  <2> SUFFICES ASSUME NEW i \in 1 .. n PROVE t[i] = s[i]
    OBVIOUS
  <2>1. i \in 1 .. n - 1 + 1 /\ 1 + i - 1 = i
    BY <1>1
  <2>2. t[i] = s[1 + i - 1]
    BY <1>3, <2>1
  <2> QED
    BY <2>1, <2>2
<1>6. DOMAIN t = 1 .. n
  BY <1>3, <1>4, StackFacts
<1> QED
  BY <1>3, <1>4, <1>5, <1>6 DEF n

(* VisitDependency advances the innermost visit and changes nothing else.  *)
LEMMA AdvanceFacts ==
  ASSUME NEW s \in Seq(Frame), s # <<>>, NEW t,
         t = [s EXCEPT ![Len(s)] = [id |-> s[Len(s)].id, next |-> s[Len(s)].next + 1]]
  PROVE  /\ t \in Seq(Frame)
         /\ Len(t) = Len(s)
         /\ DOMAIN t = DOMAIN s
         /\ \A i \in DOMAIN s : t[i].id = s[i].id
         /\ \A i \in DOMAIN s : i # Len(s) => t[i] = s[i]
         /\ t[Len(s)].next = s[Len(s)].next + 1
<1>1. /\ Len(s) \in DOMAIN s /\ DOMAIN s = 1 .. Len(s)
      /\ \A i \in DOMAIN s : s[i] \in Frame
  BY StackFacts
<1> DEFINE e == [id |-> s[Len(s)].id, next |-> s[Len(s)].next + 1]
<1>2. e \in Frame /\ e.id = s[Len(s)].id /\ e.next = s[Len(s)].next + 1
  BY <1>1 DEF Frame
<1>3. t = [s EXCEPT ![Len(s)] = e]
  OBVIOUS
<1> HIDE DEF e
<1>4. /\ t \in Seq(Frame) /\ Len(t) = Len(s)
      /\ \A j \in 1 .. Len(s) : t[j] = IF j = Len(s) THEN e ELSE s[j]
  BY <1>1, <1>2, <1>3, ExceptSeq
<1>5. DOMAIN t = DOMAIN s
  BY <1>1, <1>4, StackFacts
<1> QED
  BY <1>1, <1>2, <1>4, <1>5

-----------------------------------------------------------------------------
(* The variables keep their types along every behaviour.                   *)
LEMMA TypeStep ==
  ASSUME ValidatorTypeOK, [ValidatorNext]_validatorVars
  PROVE  ValidatorTypeOK'
<1> USE DEF ValidatorTypeOK, Frame, VerdictType, VerdictKinds, Verdict, Pending, Accept
<1>1. graph \in Graph /\ Ids(graph) \subseteq NodeId /\ graph.root \in NodeId
  BY IdsAreNames
<1>2. /\ stack # <<>> => Active \in Frame
  BY StackFacts DEF Active
<1>3. \A i \in Positions(graph) : graph.nodes[i].id \in NodeId
  BY <1>1 DEF Ids
<1>4. CASE RejectVersion
  BY <1>4 DEF RejectVersion, Conclude
<1>5. CASE RejectEmpty
  BY <1>5 DEF RejectEmpty, Conclude
<1>6. CASE RejectDuplicateNode
  BY <1>3, <1>6 DEF RejectDuplicateNode, Conclude
<1>7. CASE VisitRoot
  BY <1>1, <1>7 DEF VisitRoot
<1>8. CASE ReturnComplete
  BY <1>8 DEF ReturnComplete
<1>9. CASE RejectCycle
  BY <1>9 DEF RejectCycle, Conclude
<1>10. CASE RejectMissing
  BY <1>10 DEF RejectMissing, Conclude
<1>11. CASE MarkVisiting
  <2>1. [id |-> call, next |-> 1] \in Frame
    BY <1>11 DEF MarkVisiting
  <2>2. stack' \in Seq(Frame) /\ DOMAIN stack' = 1 .. Len(stack) + 1
    BY <1>11, <2>1, PushFacts DEF MarkVisiting
  <2>3. \A i \in 1 .. Len(stack) + 1 : stack'[i].id \in Ids(graph)
    <3>1. \A i \in 1 .. Len(stack) : stack'[i] = stack[i]
      BY <1>11, <2>1, PushFacts DEF MarkVisiting
    <3>2. stack'[Len(stack) + 1].id = call
      BY <1>11, <2>1, PushFacts DEF MarkVisiting
    <3> QED
      BY <1>11, <3>1, <3>2, StackFacts DEF MarkVisiting
  <2> QED
    BY <1>11, <2>2, <2>3 DEF MarkVisiting
<1>12. CASE VisitDependency
  <2>1. /\ stack' \in Seq(Frame)
        /\ DOMAIN stack' = DOMAIN stack
        /\ \A i \in DOMAIN stack : stack'[i].id = stack[i].id
    BY <1>12, AdvanceFacts DEF VisitDependency, Active
  <2>2. Active \in Frame /\ Active.id \in Ids(graph)
    BY <1>12, StackFacts DEF VisitDependency, Active
  <2>3. Active.next \in 1 .. Len(Dependencies(graph, Active.id))
    BY <1>12, <2>2, ReferencesAreNames, LenProperties DEF VisitDependency, Exhausted
  <2>4. call' \in NodeId
    BY <1>1, <1>12, <2>2, <2>3, ReferencesAreNames DEF VisitDependency
  <2> QED
    BY <1>12, <2>1, <2>4 DEF VisitDependency
<1>13. CASE MarkComplete
  <2>1. stack' \in Seq(Frame) /\ \A i \in DOMAIN stack' : stack'[i].id \in Ids(graph)
    BY <1>13, PopFacts, StackFacts DEF MarkComplete
  <2>2. Active.id \in Ids(graph)
    BY <1>13, StackFacts DEF MarkComplete, Active
  <2>3. Defined(graph, Active.id) \subseteq FieldId
    BY <1>1, <2>2, LookupFinds, LenProperties, ElementOfSeq DEF Defined, Elements, Node
  <2> QED
    BY <1>1, <1>13, <2>1, <2>2, <2>3 DEF MarkComplete
<1>14. CASE RejectNode
  BY <1>2, <1>14 DEF RejectNode, Conclude
<1>15. CASE RejectUnreachable
  BY <1>3, <1>15 DEF RejectUnreachable, Conclude
<1>16. CASE AcceptGraph
  BY <1>16 DEF AcceptGraph, Conclude
<1>17. CASE UNCHANGED validatorVars
  BY <1>17 DEF validatorVars
<1> QED
  BY <1>4, <1>5, <1>6, <1>7, <1>8, <1>9, <1>10, <1>11, <1>12, <1>13, <1>14,
     <1>15, <1>16, <1>17 DEF ValidatorNext, Visit

-----------------------------------------------------------------------------
(* The traversal invariant is kept by every action that goes on.           *)

Invariants == ValidatorTypeOK /\ TraversalInvariant

(* Entering the root establishes the traversal invariant.                  *)
LEMMA VisitRootStep ==
  ASSUME Invariants, VisitRoot
  PROVE  TraversalInvariant'
<1> USE DEF Invariants, VisitRoot
<1>1. stack = <<>> /\ DOMAIN stack = {} /\ stack' = stack
  BY StackFacts DEF ValidatorTypeOK, Frame
<1>2. graph' = graph /\ call' = graph.root /\ Completed' = Completed
  BY DEF Completed
<1>3. StackIsVisiting'
  BY <1>1 DEF TraversalInvariant, StackIsVisiting, OnStack
<1>4. HeaderPassed'
  BY DEF HeaderPassed
<1>5. MarkedAreReachable'
  BY <1>2, ReachesOrigin DEF TraversalInvariant, MarkedAreReachable, Reachable
<1>6. CompletedAreSound'
  BY <1>2 DEF TraversalInvariant, CompletedAreSound
<1>7. FieldsAreCounted'
  BY <1>2 DEF TraversalInvariant, FieldsAreCounted
<1>8. FramesAreOrdered'
  BY <1>1 DEF FramesAreOrdered
<1>9. RootIsFirst'
  BY <1>1, <1>2 DEF RootIsFirst
<1>10. StackIsPath'
  BY <1>1 DEF StackIsPath
<1> QED
  BY <1>3, <1>4, <1>5, <1>6, <1>7, <1>8, <1>9, <1>10 DEF TraversalInvariant

(* A visit that returns at once preserves the traversal invariant.         *)
LEMMA ReturnCompleteStep ==
  ASSUME Invariants, ReturnComplete
  PROVE  TraversalInvariant'
<1> USE DEF Invariants, ReturnComplete
<1>0. TraversalInvariant /\ pc = "enter" /\ pc' = "resume" /\ stack' = stack /\ graph' = graph
  OBVIOUS
<1>1. /\ Len(stack) \in Nat /\ DOMAIN stack = 1 .. Len(stack)
      /\ \A i \in DOMAIN stack : stack[i] \in Frame
  BY StackFacts DEF ValidatorTypeOK, Frame
<1>2. Completed' = Completed /\ call \in Completed
  BY DEF Completed, ValidatorTypeOK
<1>3. StackIsVisiting'
  BY DEF TraversalInvariant, StackIsVisiting, OnStack
<1>4. HeaderPassed'
  BY DEF TraversalInvariant, HeaderPassed
<1>5. MarkedAreReachable'
  BY DEF TraversalInvariant, MarkedAreReachable
<1>6. CompletedAreSound'
  BY <1>2 DEF TraversalInvariant, CompletedAreSound
<1>7. FieldsAreCounted'
  BY <1>2 DEF TraversalInvariant, FieldsAreCounted
<1>8. FramesAreOrdered'
  <2> SUFFICES ASSUME NEW i \in DOMAIN stack
               PROVE  LET deps == Dependencies(graph, stack[i].id)
                          next == stack[i].next
                          waiting == i < Len(stack)
                      IN /\ next <= Len(deps) + 1
                         /\ \A k \in 1 .. next - 1 :
                              k < next - 1 \/ ~ waiting => deps[k] \in Completed
                         /\ waiting => /\ next > 1
                                       /\ deps[next - 1] = stack[i + 1].id
    BY <1>2 DEF FramesAreOrdered
  <2>1. stack[i].next \in Nat
    BY <1>1 DEF Frame
  <2>2. /\ stack[i].next <= Len(Dependencies(graph, stack[i].id)) + 1
        /\ \A k \in 1 .. stack[i].next - 1 :
             k < stack[i].next - 1 => Dependencies(graph, stack[i].id)[k] \in Completed
        /\ Dependencies(graph, stack[i].id)[stack[i].next - 1]
             = IF i < Len(stack) THEN stack[i + 1].id ELSE call
        /\ stack[i].next > 1
    BY <1>0 DEF TraversalInvariant, FramesAreOrdered
  <2> QED
    BY <1>1, <1>2, <2>1, <2>2
<1>9. RootIsFirst'
  BY DEF TraversalInvariant, RootIsFirst
<1>10. StackIsPath'
  BY DEF TraversalInvariant, StackIsPath
<1> QED
  BY <1>3, <1>4, <1>5, <1>6, <1>7, <1>8, <1>9, <1>10 DEF TraversalInvariant

(* A visit that goes past the lookup preserves the traversal invariant.    *)
LEMMA MarkVisitingStep ==
  ASSUME Invariants, MarkVisiting
  PROVE  TraversalInvariant'
<1> USE DEF Invariants, MarkVisiting
<1>0. /\ TraversalInvariant /\ pc = "enter" /\ pc' = "resume" /\ graph' = graph
      /\ call \in NodeId /\ states[call] = "Unvisited"
  BY DEF ValidatorTypeOK
<1>1. /\ Len(stack) \in Nat /\ DOMAIN stack = 1 .. Len(stack)
      /\ \A i \in DOMAIN stack : stack[i] \in Frame
      /\ stack = <<>> => Len(stack) = 0
  BY StackFacts, EmptySeq DEF ValidatorTypeOK, Frame
<1>2. /\ Len(stack') = Len(stack) + 1 /\ stack' # <<>>
      /\ DOMAIN stack' = 1 .. Len(stack) + 1
      /\ \A i \in 1 .. Len(stack) : stack'[i] = stack[i]
      /\ stack'[Len(stack) + 1] = [id |-> call, next |-> 1]
  <2>1. stack \in Seq(Frame) /\ [id |-> call, next |-> 1] \in Frame
    BY <1>0 DEF ValidatorTypeOK, Frame
  <2> QED
    BY <2>1, PushFacts
<1>3. /\ \A id \in NodeId : states'[id] = IF id = call THEN "Visiting" ELSE states[id]
      /\ Completed' = Completed
  BY <1>0 DEF ValidatorTypeOK, Completed
<1>4. StackIsVisiting'
  <2>1. call \notin OnStack
    BY <1>0 DEF TraversalInvariant, StackIsVisiting
  <2>2. \A i, j \in DOMAIN stack' : stack'[i].id = stack'[j].id => i = j
    <3>1. \A i \in 1 .. Len(stack) : stack'[i].id = stack[i].id /\ stack'[i].id # call
      BY <1>1, <1>2, <2>1 DEF OnStack
    <3> QED
      BY <1>0, <1>1, <1>2, <3>1 DEF TraversalInvariant, StackIsVisiting
  <2>3. OnStack' = OnStack \cup {call}
    <3>1. OnStack' = {stack'[i].id : i \in 1 .. Len(stack) + 1}
      BY <1>2 DEF OnStack
    <3>2. \A i \in 1 .. Len(stack) + 1 :
            \/ i \in 1 .. Len(stack) /\ stack'[i].id = stack[i].id
            \/ i = Len(stack) + 1 /\ stack'[i].id = call
      BY <1>1, <1>2
    <3>3. 1 .. Len(stack) \subseteq 1 .. Len(stack) + 1 /\ Len(stack) + 1 \in 1 .. Len(stack) + 1
      BY <1>1
    <3> QED
      BY <1>1, <1>2, <3>1, <3>2, <3>3 DEF OnStack
  <2>4. OnStack' = {id \in NodeId : states'[id] = "Visiting"}
    BY <1>0, <1>3, <2>3 DEF TraversalInvariant, StackIsVisiting
  <2> QED
    BY <2>2, <2>4 DEF StackIsVisiting
<1>5. HeaderPassed'
  BY <1>0 DEF TraversalInvariant, HeaderPassed
<1>6. MarkedAreReachable'
  BY <1>0, <1>3 DEF TraversalInvariant, MarkedAreReachable
<1>7. CompletedAreSound'
  BY <1>0, <1>3 DEF TraversalInvariant, CompletedAreSound
<1>8. FieldsAreCounted'
  BY <1>0, <1>3 DEF TraversalInvariant, FieldsAreCounted
<1>9. FramesAreOrdered'
  <2>1. ASSUME NEW i \in 1 .. Len(stack)
        PROVE  /\ stack[i].next <= Len(Dependencies(graph, stack[i].id)) + 1
               /\ \A k \in 1 .. stack[i].next - 1 :
                    k < stack[i].next - 1 => Dependencies(graph, stack[i].id)[k] \in Completed
               /\ stack[i].next > 1
               /\ Dependencies(graph, stack[i].id)[stack[i].next - 1] = stack'[i + 1].id
    <3>1. /\ stack[i].next <= Len(Dependencies(graph, stack[i].id)) + 1
          /\ \A k \in 1 .. stack[i].next - 1 :
               k < stack[i].next - 1 => Dependencies(graph, stack[i].id)[k] \in Completed
          /\ stack[i].next > 1
          /\ Dependencies(graph, stack[i].id)[stack[i].next - 1]
               = IF i < Len(stack) THEN stack[i + 1].id ELSE call
      BY <1>0, <1>1 DEF TraversalInvariant, FramesAreOrdered
    <3>2. stack'[i + 1].id = IF i < Len(stack) THEN stack[i + 1].id ELSE call
      BY <1>1, <1>2
    <3> QED
      BY <3>1, <3>2
  <2>2. Dependencies(graph, call) \in Seq(NodeId)
    BY ReferencesAreNames DEF ValidatorTypeOK
  <2>3. Len(Dependencies(graph, call)) \in Nat
    BY <2>2, LenProperties
  <2>4. ASSUME NEW i \in DOMAIN stack'
        PROVE  LET deps == Dependencies(graph, stack'[i].id)
                   next == stack'[i].next
                   waiting == i < Len(stack')
               IN /\ next <= Len(deps) + 1
                  /\ \A k \in 1 .. next - 1 :
                       k < next - 1 \/ ~ waiting => deps[k] \in Completed
                  /\ waiting => /\ next > 1
                                /\ deps[next - 1] = stack'[i + 1].id
    <3>1. CASE i \in 1 .. Len(stack)
      <4>1. i < Len(stack') /\ stack'[i] = stack[i]
        BY <1>1, <1>2, <3>1
      <4> QED
        BY <2>1, <3>1, <4>1
    <3>2. CASE i = Len(stack) + 1
      BY <1>1, <1>2, <2>3, <3>2
    <3> QED
      BY <1>1, <1>2, <3>1, <3>2
  <2> QED
    BY <1>0, <1>3, <2>4 DEF FramesAreOrdered
<1>10. RootIsFirst'
  BY <1>0, <1>1, <1>2 DEF TraversalInvariant, RootIsFirst
<1>11. StackIsPath'
  <2> SUFFICES ASSUME NEW i \in DOMAIN stack', NEW j \in DOMAIN stack', i < j
               PROVE  ReachedFrom(graph, Uses(graph, stack'[i].id), stack'[j].id)
    BY <1>0 DEF StackIsPath
  <2>1. i \in DOMAIN stack /\ stack'[i].id = stack[i].id
    BY <1>1, <1>2
  <2>2. CASE j \in DOMAIN stack
    BY <1>0, <1>1, <1>2, <2>1, <2>2 DEF TraversalInvariant, StackIsPath
  <2>3. CASE j = Len(stack) + 1
    BY <1>0, <1>2, <2>1, <2>3 DEF TraversalInvariant, StackIsPath
  <2> QED
    BY <1>1, <1>2, <2>2, <2>3
<1> QED
  BY <1>4, <1>5, <1>6, <1>7, <1>8, <1>9, <1>10, <1>11 DEF TraversalInvariant

(* What the invariant says of the innermost visit while its loop runs.     *)
LEMMA ActiveFacts ==
  ASSUME Invariants, pc = "resume", stack # <<>>
  PROVE  /\ Len(stack) \in Nat \ {0}
         /\ DOMAIN stack = 1 .. Len(stack)
         /\ Active \in Frame
         /\ Active = stack[Len(stack)]
         /\ Active.id \in Ids(graph)
         /\ Active.id \in NodeId
         /\ states[Active.id] = "Visiting"
         /\ Reachable(graph, Active.id)
         /\ Dependencies(graph, Active.id) \in Seq(NodeId)
         /\ Len(Dependencies(graph, Active.id)) \in Nat
         /\ Active.next \in Nat \ {0}
         /\ Active.next <= Len(Dependencies(graph, Active.id)) + 1
         /\ \A k \in 1 .. Active.next - 1 : Dependencies(graph, Active.id)[k] \in Completed
<1> USE DEF Invariants
<1>1. /\ Len(stack) \in Nat \ {0} /\ DOMAIN stack = 1 .. Len(stack)
      /\ Len(stack) \in DOMAIN stack /\ Active \in Frame
      /\ Active.id \in Ids(graph) /\ Active.id \in NodeId /\ Active.next \in Nat \ {0}
  <2>1. stack \in Seq(Frame) /\ \A i \in DOMAIN stack : stack[i].id \in Ids(graph)
    BY DEF ValidatorTypeOK, Frame
  <2>2. /\ Len(stack) \in Nat /\ DOMAIN stack = 1 .. Len(stack)
        /\ Len(stack) \in DOMAIN stack /\ Active \in Frame
    BY <2>1, StackFacts DEF Active
  <2>3. Active.id \in NodeId /\ Active.next \in Nat \ {0}
    BY <2>2 DEF Frame
  <2> QED
    BY <2>1, <2>2, <2>3 DEF Active
<1>2. TraversalInvariant /\ pc # "done"
  OBVIOUS
<1>3. Active.id \in OnStack
  BY <1>1 DEF OnStack, Active
<1>4. states[Active.id] = "Visiting"
  BY <1>2, <1>3 DEF TraversalInvariant, StackIsVisiting
<1>5. Reachable(graph, Active.id)
  BY <1>1, <1>2, <1>4 DEF TraversalInvariant, MarkedAreReachable
<1>6. /\ Dependencies(graph, Active.id) \in Seq(NodeId)
      /\ Len(Dependencies(graph, Active.id)) \in Nat
  BY <1>1, ReferencesAreNames, LenProperties DEF ValidatorTypeOK
<1>7. /\ Active.next <= Len(Dependencies(graph, Active.id)) + 1
      /\ \A k \in 1 .. Active.next - 1 : Dependencies(graph, Active.id)[k] \in Completed
  BY <1>1, <1>2 DEF TraversalInvariant, FramesAreOrdered, Active
<1> QED
  BY <1>1, <1>4, <1>5, <1>6, <1>7 DEF Active

(* A visit that recurses preserves the traversal invariant.                *)
LEMMA VisitDependencyStep ==
  ASSUME Invariants, VisitDependency
  PROVE  TraversalInvariant'
<1> DEFINE top == Len(stack)
<1>0. /\ ValidatorTypeOK /\ TraversalInvariant
      /\ pc = "resume" /\ pc' = "enter" /\ stack # <<>> /\ graph' = graph /\ states' = states
      /\ properties' = properties /\ definedFields' = definedFields
      /\ Completed' = Completed
      /\ call' = Dependencies(graph, Active.id)[Active.next]
      /\ ~ Exhausted
  BY DEF Invariants, VisitDependency, Completed
<1>1. /\ Len(stack) \in Nat \ {0} /\ DOMAIN stack = 1 .. Len(stack)
      /\ \A i \in DOMAIN stack : stack[i] \in Frame
      /\ Active = stack[Len(stack)] /\ Active.id \in Ids(graph)
      /\ Reachable(graph, Active.id)
      /\ Len(Dependencies(graph, Active.id)) \in Nat
      /\ Active.next \in 1 .. Len(Dependencies(graph, Active.id))
      /\ \A k \in 1 .. Active.next - 1 : Dependencies(graph, Active.id)[k] \in Completed
  <2>1. \A i \in DOMAIN stack : stack[i] \in Frame
    BY <1>0, StackFacts DEF ValidatorTypeOK, Frame
  <2>2. Active.next \in Nat \ {0} /\ Len(Dependencies(graph, Active.id)) \in Nat
    BY <1>0, ActiveFacts
  <2>3. Active.next \in 1 .. Len(Dependencies(graph, Active.id))
    BY <1>0, <2>2 DEF Exhausted
  <2> QED
    BY <1>0, <2>1, <2>3, ActiveFacts
<1>2. /\ DOMAIN stack' = DOMAIN stack /\ Len(stack') = Len(stack) /\ stack' # <<>>
      /\ \A i \in DOMAIN stack : stack'[i].id = stack[i].id
      /\ \A i \in DOMAIN stack : i # top => stack'[i] = stack[i]
      /\ stack'[top].next = Active.next + 1
  <2>1. stack \in Seq(Frame)
    BY <1>0 DEF ValidatorTypeOK, Frame
  <2>2. stack' = [stack EXCEPT ![Len(stack)] =
                    [id |-> stack[Len(stack)].id, next |-> stack[Len(stack)].next + 1]]
    BY DEF VisitDependency, Active
  <2>3. stack' \in Seq(Frame) /\ Len(stack') = Len(stack)
    BY <1>0, <2>1, <2>2, AdvanceFacts
  <2>4. stack' # <<>>
    BY <1>1, <2>3, EmptySeq
  <2>5. /\ DOMAIN stack' = DOMAIN stack
        /\ \A i \in DOMAIN stack : stack'[i].id = stack[i].id
        /\ \A i \in DOMAIN stack : i # Len(stack) => stack'[i] = stack[i]
        /\ stack'[Len(stack)].next = stack[Len(stack)].next + 1
    BY <1>0, <2>1, <2>2, AdvanceFacts
  <2> QED
    BY <1>1, <2>3, <2>4, <2>5
<1>3. call' \in Uses(graph, Active.id)
  BY <1>0, <1>1, ReferencesAreNames DEF ValidatorTypeOK
<1>4. StackIsVisiting'
  <2>1. OnStack' = OnStack
    BY <1>2 DEF OnStack
  <2> QED
    BY <1>0, <1>2, <2>1 DEF TraversalInvariant, StackIsVisiting
<1>5. HeaderPassed'
  BY <1>0 DEF TraversalInvariant, HeaderPassed
<1>6. MarkedAreReachable'
  <2>1. Reachable(graph, call')
    BY <1>1, <1>3, ReachesUses DEF Reachable
  <2> QED
    BY <1>0, <2>1 DEF TraversalInvariant, MarkedAreReachable
<1>7. CompletedAreSound'
  BY <1>0 DEF TraversalInvariant, CompletedAreSound
<1>8. FieldsAreCounted'
  BY <1>0 DEF TraversalInvariant, FieldsAreCounted
<1>9. FramesAreOrdered'
  <2>1. ASSUME NEW i \in DOMAIN stack
        PROVE  LET deps == Dependencies(graph, stack'[i].id)
                   next == stack'[i].next
               IN /\ next <= Len(deps) + 1
                  /\ \A k \in 1 .. next - 1 : k < next - 1 => deps[k] \in Completed
                  /\ next > 1
                  /\ deps[next - 1] = IF i < Len(stack') THEN stack'[i + 1].id ELSE call'
    <3>1. CASE i = top
      <4>1. stack'[i].id = Active.id /\ stack'[i].next = Active.next + 1 /\ ~ (i < Len(stack'))
        BY <1>1, <1>2, <3>1
      <4>2. \A k \in 1 .. Active.next + 1 - 1 :
              k < Active.next + 1 - 1 => k \in 1 .. Active.next - 1
        BY <1>1
      <4> QED
        BY <1>0, <1>1, <4>1, <4>2
    <3>2. CASE i # top
      <4>1. stack'[i] = stack[i] /\ i < Len(stack) /\ i < Len(stack')
        BY <1>1, <1>2, <3>2
      <4>2. stack'[i + 1].id = stack[i + 1].id
        BY <1>1, <1>2, <4>1
      <4> QED
        BY <1>0, <4>1, <4>2 DEF TraversalInvariant, FramesAreOrdered
    <3> QED
      BY <3>1, <3>2
  <2> QED
    BY <1>0, <1>2, <2>1 DEF FramesAreOrdered
<1>10. RootIsFirst'
  BY <1>0, <1>1, <1>2 DEF TraversalInvariant, RootIsFirst
<1>11. StackIsPath'
  <2>1. \A i \in DOMAIN stack : ReachedFrom(graph, Uses(graph, stack[i].id), call')
    <3> SUFFICES ASSUME NEW i \in DOMAIN stack
                 PROVE  ReachedFrom(graph, Uses(graph, stack[i].id), call')
      OBVIOUS
    <3>1. CASE i = top
      BY <1>1, <1>3, <3>1, ReachesOrigin
    <3>2. CASE i # top
      <4>1. i < top /\ top \in DOMAIN stack
        BY <1>1, <3>2
      <4>2. ReachedFrom(graph, Uses(graph, stack[i].id), Active.id)
        BY <1>0, <1>1, <4>1 DEF TraversalInvariant, StackIsPath
      <4> QED
        BY <1>1, <1>3, <4>2, ReachesUses
    <3> QED
      BY <3>1, <3>2
  <2>2. \A i, j \in DOMAIN stack :
          i < j => ReachedFrom(graph, Uses(graph, stack[i].id), stack[j].id)
    BY <1>0 DEF TraversalInvariant, StackIsPath
  <2> QED
    BY <1>0, <1>2, <2>1, <2>2 DEF StackIsPath
<1> QED
  BY <1>0, <1>4, <1>5, <1>6, <1>7, <1>8, <1>9, <1>10, <1>11 DEF TraversalInvariant

(* When the loop of a visit has ended, every reference has been completed. *)
LEMMA ExhaustedFacts ==
  ASSUME Invariants, pc = "resume", stack # <<>>, Exhausted
  PROVE  /\ Uses(graph, Active.id) \subseteq Completed
         /\ Active.id \notin Completed
<1>1. \A k \in 1 .. Len(Dependencies(graph, Active.id)) :
        Dependencies(graph, Active.id)[k] \in Completed
  <2>1. \A k \in 1 .. Len(Dependencies(graph, Active.id)) : k \in 1 .. Active.next - 1
    BY ActiveFacts DEF Exhausted
  <2> QED
    BY <2>1, ActiveFacts
<1>2. Uses(graph, Active.id) \subseteq Completed
  <2>1. graph \in Graph /\ Active.id \in Ids(graph)
    BY ActiveFacts DEF Invariants, ValidatorTypeOK
  <2>2. \A use \in Uses(graph, Active.id) :
          \E k \in 1 .. Len(Dependencies(graph, Active.id)) : Dependencies(graph, Active.id)[k] = use
    BY <2>1, ReferencesAreNames
  <2> QED
    BY <1>1, <2>2
<1>3. Active.id \notin Completed
  BY ActiveFacts DEF Completed
<1> QED
  BY <1>2, <1>3

(* A node all of whose references belong to an acyclic set extends it.     *)
LEMMA AcyclicExtension ==
  ASSUME NEW g, NEW C, NEW m, m \notin C, Uses(g, m) \subseteq C,
         \A id \in C : Uses(g, id) \subseteq C,
         \A S \in SUBSET C : S # {} => \E id \in S : Uses(g, id) \cap S = {}
  PROVE  \A S \in SUBSET (C \cup {m}) : S # {} => \E id \in S : Uses(g, id) \cap S = {}
<1> SUFFICES ASSUME NEW S \in SUBSET (C \cup {m}), S # {}
             PROVE  \E id \in S : Uses(g, id) \cap S = {}
  OBVIOUS
<1>1. CASE S \ {m} = {}
  <2>1. S = {m}
    BY <1>1
  <2> QED
    BY <2>1
<1>2. CASE S \ {m} # {}
  <2>1. S \ {m} \in SUBSET C
    OBVIOUS
  <2>2. PICK id \in S \ {m} : Uses(g, id) \cap (S \ {m}) = {}
    BY <1>2, <2>1
  <2>3. m \notin Uses(g, id)
    BY <2>1, <2>2
  <2> QED
    BY <2>2, <2>3
<1> QED
  BY <1>1, <1>2

(* A visit that completes its node preserves the traversal invariant.      *)
LEMMA MarkCompleteStep ==
  ASSUME Invariants, MarkComplete
  PROVE  TraversalInvariant'
<1> DEFINE top == Len(stack)
           m == Active.id
<1>0. /\ ValidatorTypeOK /\ TraversalInvariant
      /\ pc = "resume" /\ pc' = "resume" /\ stack # <<>> /\ Exhausted
      /\ graph' = graph /\ call' = call
      /\ stack' = SubSeq(stack, 1, Len(stack) - 1)
      /\ NodeOf(graph, m).rulesHold /\ ~ FieldClash(m)
      /\ properties' = properties \cup {m}
      /\ definedFields' = definedFields \cup Defined(graph, m)
  BY DEF Invariants, MarkComplete
<1>1. /\ Len(stack) \in Nat \ {0} /\ DOMAIN stack = 1 .. Len(stack)
      /\ m = stack[top].id /\ m \in Ids(graph) /\ m \in NodeId
      /\ states[m] = "Visiting" /\ Reachable(graph, m)
  BY <1>0, ActiveFacts
<1>2. /\ Uses(graph, m) \subseteq Completed
      /\ m \notin Completed
  BY <1>0, ExhaustedFacts
<1>3. /\ \A id \in NodeId : states'[id] = IF id = m THEN "Complete" ELSE states[id]
      /\ Completed' = Completed \cup {m}
  BY <1>0, <1>1 DEF ValidatorTypeOK, Completed, MarkComplete
<1>4. /\ Len(stack') = top - 1 /\ DOMAIN stack' = 1 .. top - 1
      /\ \A i \in 1 .. top - 1 : i \in DOMAIN stack /\ stack'[i] = stack[i]
      /\ stack' = <<>> <=> top = 1
  <2>1. stack \in Seq(Frame)
    BY <1>0 DEF ValidatorTypeOK, Frame
  <2>2. /\ stack' \in Seq(Frame) /\ Len(stack') = top - 1 /\ DOMAIN stack' = 1 .. top - 1
        /\ \A i \in 1 .. top - 1 : stack'[i] = stack[i]
    BY <1>0, <2>1, PopFacts, Zenon
  <2> QED
    BY <1>1, <2>2, EmptySeq
<1>5. StackIsVisiting'
  <2>1. \A i, j \in DOMAIN stack : stack[i].id = stack[j].id => i = j
    BY <1>0 DEF TraversalInvariant, StackIsVisiting
  <2>2. \A i, j \in DOMAIN stack' : stack'[i].id = stack'[j].id => i = j
    BY <1>4, <2>1
  <2>3. OnStack' = OnStack \ {m}
    <3>1. ASSUME NEW x \in OnStack' PROVE x \in OnStack \ {m}
      BY <1>1, <1>4, <2>1 DEF OnStack
    <3>2. ASSUME NEW x \in OnStack \ {m} PROVE x \in OnStack'
      <4>1. PICK i \in DOMAIN stack : x = stack[i].id
        BY DEF OnStack
      <4>2. i \in 1 .. top - 1
        BY <1>1, <4>1
      <4> QED
        BY <1>4, <4>1, <4>2 DEF OnStack
    <3> QED
      BY <3>1, <3>2
  <2>4. OnStack' = {id \in NodeId : states'[id] = "Visiting"}
    BY <1>0, <1>3, <2>3 DEF TraversalInvariant, StackIsVisiting
  <2> QED
    BY <2>2, <2>4 DEF StackIsVisiting
<1>6. HeaderPassed'
  BY <1>0 DEF TraversalInvariant, HeaderPassed
<1>7. MarkedAreReachable'
  BY <1>0, <1>1, <1>3 DEF TraversalInvariant, MarkedAreReachable
<1>8. CompletedAreSound'
  <2>1. CompletedAreSound
    BY <1>0 DEF TraversalInvariant
  <2>2. properties' = Completed'
    BY <1>0, <1>3, <2>1 DEF CompletedAreSound
  <2>3. \A id \in Completed' : /\ Uses(graph, id) \subseteq Completed'
                               /\ NodeOf(graph, id).rulesHold
                               /\ ~ RepeatsField(graph, id)
    BY <1>0, <1>2, <1>3, <2>1 DEF CompletedAreSound, FieldClash
  <2>4. \A S \in SUBSET Completed' : S # {} => \E id \in S : Uses(graph, id) \cap S = {}
    BY <1>2, <1>3, <2>1, AcyclicExtension, SMTT(30) DEF CompletedAreSound
  <2> QED
    BY <1>0, <2>2, <2>3, <2>4 DEF CompletedAreSound
<1>9. FieldsAreCounted'
  <2>1. FieldsAreCounted
    BY <1>0 DEF TraversalInvariant
  <2>2. Defined(graph, m) \cap definedFields = {}
    BY <1>0 DEF FieldClash
  <2>3. definedFields' = UNION {Defined(graph, id) : id \in Completed'}
    BY <1>0, <1>3, <2>1 DEF FieldsAreCounted
  <2>4. \A a \in Completed : Defined(graph, a) \cap Defined(graph, m) = {}
    BY <2>1, <2>2 DEF FieldsAreCounted
  <2>5. \A a, b \in Completed' : a # b => Defined(graph, a) \cap Defined(graph, b) = {}
    BY <1>3, <2>1, <2>4 DEF FieldsAreCounted
  <2> QED
    BY <1>0, <2>3, <2>5 DEF FieldsAreCounted
<1>10. FramesAreOrdered'
  <2>1. ASSUME NEW i \in 1 .. top - 1
        PROVE  LET deps == Dependencies(graph, stack'[i].id)
                   next == stack'[i].next
                   waiting == i < Len(stack')
               IN /\ next <= Len(deps) + 1
                  /\ \A k \in 1 .. next - 1 :
                       k < next - 1 \/ ~ waiting => deps[k] \in Completed'
                  /\ waiting => /\ next > 1
                                /\ deps[next - 1] = stack'[i + 1].id
    <3> DEFINE deps == Dependencies(graph, stack[i].id)
               next == stack[i].next
    <3>1. i \in DOMAIN stack /\ i < Len(stack) /\ stack'[i] = stack[i]
      BY <1>1, <1>4
    <3>2. /\ next <= Len(deps) + 1
          /\ \A k \in 1 .. next - 1 : k < next - 1 => deps[k] \in Completed
          /\ next > 1
          /\ deps[next - 1] = stack[i + 1].id
      BY <1>0, <3>1 DEF TraversalInvariant, FramesAreOrdered
    <3>3. next \in Nat
      <4>1. stack[i] \in Frame
        BY <1>0, <3>1, StackFacts DEF ValidatorTypeOK, Frame
      <4> QED
        BY <4>1 DEF Frame
    <3> HIDE DEF deps, next
    <3>4. CASE i = top - 1
      <4>1. deps[next - 1] = m /\ ~ (i < Len(stack'))
        BY <1>1, <1>4, <3>2, <3>4
      <4>2. \A k \in 1 .. next - 1 : deps[k] \in Completed'
        <5> SUFFICES ASSUME NEW k \in 1 .. next - 1 PROVE deps[k] \in Completed'
          OBVIOUS
        <5>1. CASE k = next - 1
          BY <1>3, <4>1, <5>1
        <5>2. CASE k < next - 1
          BY <1>3, <3>2, <5>2
        <5> QED
          BY <3>3, <5>1, <5>2
      <4> QED
        BY <3>1, <3>2, <4>1, <4>2 DEF deps, next
    <3>5. CASE i < top - 1
      <4>1. stack'[i + 1] = stack[i + 1] /\ i < Len(stack')
        BY <1>1, <1>4, <3>5
      <4>2. /\ \A k \in 1 .. next - 1 : k < next - 1 => deps[k] \in Completed'
            /\ deps[next - 1] = stack'[i + 1].id
        BY <1>3, <3>2, <4>1
      <4>3. deps = Dependencies(graph, stack'[i].id) /\ next = stack'[i].next
        BY <3>1 DEF deps, next
      <4> QED
        BY <3>2, <4>1, <4>2, <4>3
    <3>6. i = top - 1 \/ i < top - 1
      <4>1. top \in Int
        BY <1>1
      <4> HIDE DEF top, m
      <4> QED
        BY <4>1
    <3> QED
      BY <3>4, <3>5, <3>6, Zenon
  <2>2. DOMAIN stack' = 1 .. top - 1
    BY <1>4
  <2> HIDE DEF top
  <2> QED
    BY <1>0, <2>1, <2>2, Zenon DEF FramesAreOrdered
<1>11. RootIsFirst'
  <2>1. stack[1].id = graph.root
    BY <1>0 DEF TraversalInvariant, RootIsFirst
  <2>2. stack' # <<>> => stack'[1] = stack[1]
    BY <1>1, <1>4
  <2>3. stack' = <<>> => states'[graph.root] = "Complete"
    BY <1>1, <1>3, <1>4, <2>1, ZenonT(40)
  <2> QED
    BY <1>0, <2>1, <2>2, <2>3 DEF RootIsFirst
<1>12. StackIsPath'
  BY <1>0, <1>4, Zenon DEF TraversalInvariant, StackIsPath
<1> QED
  BY <1>0, <1>5, <1>6, <1>7, <1>8, <1>9, <1>10, <1>11, <1>12 DEF TraversalInvariant

-----------------------------------------------------------------------------
(* Every answer is right: one lemma for each place validate returns.       *)

(* When the visit of the root has returned, Completed is the set of nodes  *)
(* reachable from the root, and no node is being visited.                  *)
LEMMA VisitedIsReachable ==
  ASSUME Invariants, pc = "resume", stack = <<>>
  PROVE  /\ \A id \in NodeId : Reachable(graph, id) <=> id \in Completed
         /\ Completed \subseteq Ids(graph)
         /\ \A id \in NodeId : states[id] # "Unvisited" => id \in Completed
<1>1. /\ RootIsFirst /\ MarkedAreReachable /\ CompletedAreSound /\ StackIsVisiting
      /\ ValidatorTypeOK
  BY DEF Invariants, TraversalInvariant
<1>2. graph.root \in Completed
  BY <1>1, IdsAreNames DEF RootIsFirst, Completed, ValidatorTypeOK
<1>3. Closed(graph, Completed)
  BY <1>1 DEF Closed, CompletedAreSound
<1>4. Completed \in SUBSET NodeId /\ {graph.root} \subseteq Completed
  BY <1>2 DEF Completed
<1>5. \A id \in NodeId : Reachable(graph, id) => id \in Completed
  BY <1>3, <1>4 DEF Reachable, ReachedFrom
<1>6. \A id \in Completed : id \in Ids(graph) /\ Reachable(graph, id)
  BY <1>1 DEF MarkedAreReachable, Completed
<1>7. OnStack = {}
  BY <1>1, StackFacts DEF OnStack, ValidatorTypeOK, Frame
<1>8. \A id \in NodeId : states[id] # "Unvisited" => id \in Completed
  BY <1>1, <1>7 DEF StackIsVisiting, Completed, ValidatorTypeOK
<1> QED
  BY <1>5, <1>6, <1>8

(* The three errors of Validator::new.                                     *)
LEMMA HeaderErrors ==
  ASSUME Invariants, RejectVersion \/ RejectEmpty \/ RejectDuplicateNode
  PROVE  Justified(graph, verdict')
<1>1. CASE RejectVersion
  BY <1>1 DEF RejectVersion, Conclude, Justified
<1>2. CASE RejectEmpty
  BY <1>2 DEF RejectEmpty, Conclude, Justified
<1>3. CASE RejectDuplicateNode
  BY <1>3 DEF RejectDuplicateNode, Conclude, Justified
<1> QED
  BY <1>1, <1>2, <1>3

(* A node found Visiting again is reachable from itself.                   *)
LEMMA CycleErrors ==
  ASSUME Invariants, RejectCycle
  PROVE  Justified(graph, verdict')
<1>1. /\ pc = "enter" /\ states[call] = "Visiting" /\ call \in NodeId
      /\ verdict' = Verdict("CyclicGraph", call)
      /\ StackIsVisiting /\ StackIsPath /\ MarkedAreReachable
  BY DEF Invariants, TraversalInvariant, ValidatorTypeOK, RejectCycle, Conclude
<1>2. call \in Ids(graph) /\ Reachable(graph, call)
  BY <1>1 DEF MarkedAreReachable
<1>3. PICK i \in DOMAIN stack : stack[i].id = call
  BY <1>1 DEF StackIsVisiting, OnStack
<1>4. OnCycle(graph, call)
  BY <1>1, <1>2, <1>3 DEF StackIsPath, OnCycle
<1> QED
  BY <1>1, <1>2, <1>4 DEF Justified

(* A reference that names no node is reached from the root.                *)
LEMMA MissingErrors ==
  ASSUME Invariants, RejectMissing
  PROVE  Justified(graph, verdict')
<1>1. /\ pc = "enter" /\ call \in NodeId \ Ids(graph)
      /\ verdict' = Verdict("MissingNode", call)
  BY DEF Invariants, ValidatorTypeOK, RejectMissing, Conclude
<1>2. Reachable(graph, call)
  BY <1>1 DEF Invariants, TraversalInvariant, MarkedAreReachable
<1> QED
  BY <1>1, <1>2 DEF Justified

(* A rejected node breaks a rule of its own or shares one of its fields.   *)
LEMMA NodeErrors ==
  ASSUME Invariants, RejectNode
  PROVE  Justified(graph, verdict')
<1> DEFINE m == Active.id
<1>1. /\ pc = "resume" /\ stack # <<>> /\ Exhausted
      /\ FieldsAreCounted /\ MarkedAreReachable /\ ValidatorTypeOK
  BY DEF Invariants, TraversalInvariant, RejectNode
<1>2. m \in Ids(graph) /\ m \notin Completed
  BY <1>1, ActiveFacts, ExhaustedFacts
<1>3. CASE ~ NodeOf(graph, m).rulesHold /\ verdict' = Verdict("InvalidNode", m)
  BY <1>2, <1>3 DEF Justified
<1>4. CASE FieldClash(m) /\ verdict' = Verdict("DuplicateField", m)
  <2>1. CASE RepeatsField(graph, m)
    BY <1>2, <1>4, <2>1 DEF Justified
  <2>2. CASE Defined(graph, m) \cap definedFields # {}
    <3>1. PICK a \in Completed : Defined(graph, m) \cap Defined(graph, a) # {}
      BY <1>1, <2>2 DEF FieldsAreCounted
    <3>2. a \in Ids(graph) \ {m}
      BY <1>1, <1>2, <3>1 DEF MarkedAreReachable, Completed
    <3>3. SharesField(graph, m)
      BY <3>1, <3>2 DEF SharesField
    <3> QED
      BY <1>2, <1>4, <3>3 DEF Justified
  <2> QED
    BY <1>4, <2>1, <2>2 DEF FieldClash
<1> QED
  BY <1>3, <1>4 DEF RejectNode, Conclude

(* A node without state after the traversal is unreachable.                *)
LEMMA UnreachableErrors ==
  ASSUME Invariants, RejectUnreachable
  PROVE  Justified(graph, verdict')
<1>1. pc = "resume" /\ stack = <<>>
  BY DEF RejectUnreachable
<1>2. PICK i \in Positions(graph) :
        Unvisited(i) /\ verdict' = Verdict("UnreachableNode", graph.nodes[i].id)
  BY DEF RejectUnreachable, Conclude
<1>3. graph.nodes[i].id \in Ids(graph) /\ graph.nodes[i].id \in NodeId
  BY IdsAreNames DEF Invariants, ValidatorTypeOK, Ids
<1>4. graph.nodes[i].id \notin Completed
  BY <1>2 DEF Unvisited, Completed
<1>5. ~ Reachable(graph, graph.nodes[i].id)
  BY <1>1, <1>3, <1>4, VisitedIsReachable
<1> QED
  BY <1>2, <1>3, <1>5 DEF Justified

(* A graph that is accepted is well formed.                                *)
LEMMA AcceptedIsWellFormed ==
  ASSUME Invariants, AcceptGraph
  PROVE  WellFormed(graph)
<1>1. /\ pc = "resume" /\ stack = <<>>
      /\ HeaderPassed /\ CompletedAreSound /\ FieldsAreCounted
      /\ graph \in Graph
  BY DEF Invariants, TraversalInvariant, ValidatorTypeOK, AcceptGraph
<1>2. \A i \in Positions(graph) : graph.nodes[i].id \in Completed
  <2> SUFFICES ASSUME NEW i \in Positions(graph) PROVE graph.nodes[i].id \in Completed
    OBVIOUS
  <2>1. graph.nodes[i].id \in NodeId /\ states[graph.nodes[i].id] # "Unvisited"
    BY <1>1, IdsAreNames DEF AcceptGraph, Unvisited, Ids
  <2> QED
    BY <1>1, <2>1, VisitedIsReachable
<1>3. Ids(graph) = Completed
  BY <1>1, <1>2, VisitedIsReachable DEF Ids
<1>4. \A id \in NodeId : Reachable(graph, id) <=> id \in Ids(graph)
  BY <1>1, <1>3, VisitedIsReachable
<1>5. Acyclic(graph)
  BY <1>1, <1>3 DEF CompletedAreSound, Acyclic
<1>6. FieldsDefinedOnce(graph)
  BY <1>1, <1>3 DEF CompletedAreSound, FieldsAreCounted, FieldsDefinedOnce
<1>7. graph.supported /\ graph.nodes # <<>> /\ UniqueIds(graph)
  BY <1>1 DEF HeaderPassed
<1>8. \A id \in Ids(graph) : NodeOf(graph, id).rulesHold /\ id \in NodeId
  BY <1>1, <1>3, IdsAreNames DEF CompletedAreSound
<1> QED
  BY <1>4, <1>5, <1>6, <1>7, <1>8 DEF WellFormed

(* An action either leaves the answer pending or gives a right one.        *)
LEMMA AnswerStep ==
  ASSUME Invariants, ValidatorNext
  PROVE  /\ graph' = graph /\ verdict = Pending
         /\ verdict' = verdict \/ (pc' = "done" /\ Correct(graph, verdict'))
<1>0. ValidatorTypeOK /\ graph \in Graph
  BY DEF Invariants, ValidatorTypeOK
<1>1. pc # "done" /\ graph' = graph
  BY DEF ValidatorNext, Visit, RejectVersion, RejectEmpty, RejectDuplicateNode, VisitRoot,
         ReturnComplete, RejectCycle, RejectMissing, MarkVisiting, VisitDependency,
         MarkComplete, RejectNode, RejectUnreachable, AcceptGraph
<1>2. verdict = Pending
  BY <1>0, <1>1 DEF ValidatorTypeOK
<1>3. ASSUME Justified(graph, verdict') PROVE Correct(graph, verdict')
  BY <1>0, <1>3, JustifiedIsDefect DEF Correct
<1>4. CASE RejectVersion \/ RejectEmpty \/ RejectDuplicateNode
  BY <1>1, <1>2, <1>3, <1>4, HeaderErrors
     DEF RejectVersion, RejectEmpty, RejectDuplicateNode, Conclude
<1>5. CASE RejectCycle
  BY <1>1, <1>2, <1>3, <1>5, CycleErrors DEF RejectCycle, Conclude
<1>6. CASE RejectMissing
  BY <1>1, <1>2, <1>3, <1>6, MissingErrors DEF RejectMissing, Conclude
<1>7. CASE RejectNode
  BY <1>1, <1>2, <1>3, <1>7, NodeErrors DEF RejectNode, Conclude
<1>8. CASE RejectUnreachable
  BY <1>1, <1>2, <1>3, <1>8, UnreachableErrors DEF RejectUnreachable, Conclude
<1>9. CASE AcceptGraph
  BY <1>1, <1>2, <1>9, AcceptedIsWellFormed DEF AcceptGraph, Conclude, Correct
<1>10. CASE VisitRoot \/ ReturnComplete \/ MarkVisiting \/ VisitDependency \/ MarkComplete
  BY <1>1, <1>2, <1>10
     DEF VisitRoot, ReturnComplete, MarkVisiting, VisitDependency, MarkComplete
<1> QED
  BY <1>4, <1>5, <1>6, <1>7, <1>8, <1>9, <1>10 DEF ValidatorNext, Visit

-----------------------------------------------------------------------------
(* The theorems.                                                           *)

(* The conjunction that is inductive: types, traversal, and the answer.    *)
InductiveInvariant == Invariants /\ VerdictIsCorrect

(* The inductive invariant holds before validate has done anything.        *)
LEMMA InductionBase ==
  ASSUME ValidatorInit
  PROVE  InductiveInvariant
<1> USE DEF ValidatorInit, Init
<1>1. ValidatorTypeOK
  BY GraphsAssumption, EmptySeq
     DEF ValidatorTypeOK, VerdictType, VerdictKinds, Verdict, Pending
<1>2. Completed = {} /\ OnStack = {} /\ DOMAIN stack = {}
  BY DEF Completed, OnStack
<1>3. StackIsVisiting
  BY <1>2 DEF StackIsVisiting
<1>4. CompletedAreSound /\ FieldsAreCounted
  BY <1>2 DEF CompletedAreSound, FieldsAreCounted
<1>5. HeaderPassed /\ MarkedAreReachable /\ FramesAreOrdered /\ StackIsPath
  BY <1>2 DEF HeaderPassed, MarkedAreReachable, FramesAreOrdered, StackIsPath
<1> QED
  BY <1>1, <1>3, <1>4, <1>5
     DEF InductiveInvariant, Invariants, TraversalInvariant, VerdictIsCorrect

(* Every step of the validator preserves the inductive invariant.          *)
LEMMA InductionStep ==
  ASSUME InductiveInvariant, [ValidatorNext]_validatorVars
  PROVE  InductiveInvariant'
<1>1. Invariants /\ ValidatorTypeOK /\ ValidatorTypeOK'
  BY TypeStep DEF InductiveInvariant, Invariants
<1>2. TraversalInvariant'
  <2>1. CASE VisitRoot \/ ReturnComplete \/ MarkVisiting
    BY <1>1, <2>1, VisitRootStep, ReturnCompleteStep, MarkVisitingStep
  <2>2. CASE VisitDependency \/ MarkComplete
    BY <1>1, <2>2, VisitDependencyStep, MarkCompleteStep
  <2>3. CASE \/ RejectVersion \/ RejectEmpty \/ RejectDuplicateNode
             \/ RejectCycle \/ RejectMissing \/ RejectNode
             \/ RejectUnreachable \/ AcceptGraph
    <3>1. pc' = "done"
      BY <2>3 DEF RejectVersion, RejectEmpty, RejectDuplicateNode, RejectCycle, RejectMissing,
                  RejectNode, RejectUnreachable, AcceptGraph, Conclude
    <3> QED
      BY <3>1 DEF TraversalInvariant
  <2>4. CASE UNCHANGED validatorVars
    BY <1>1, <2>4
       DEF validatorVars, Invariants, TraversalInvariant, StackIsVisiting, OnStack,
           HeaderPassed, MarkedAreReachable, CompletedAreSound, Completed,
           FieldsAreCounted, FramesAreOrdered, RootIsFirst, StackIsPath
  <2> QED
    BY <2>1, <2>2, <2>3, <2>4 DEF ValidatorNext, Visit
<1>3. VerdictIsCorrect'
  <2>1. CASE ValidatorNext
    BY <1>1, <2>1, AnswerStep DEF VerdictIsCorrect
  <2>2. CASE UNCHANGED validatorVars
    BY <2>2 DEF validatorVars, InductiveInvariant, VerdictIsCorrect
  <2> QED
    BY <2>1, <2>2
<1> QED
  BY <1>1, <1>2, <1>3 DEF InductiveInvariant, Invariants

(* Every state of every validation satisfies the inductive invariant.      *)
LEMMA Induction == ValidatorSpec => []InductiveInvariant
<1>1. ValidatorInit => InductiveInvariant
  BY InductionBase
<1>2. InductiveInvariant /\ [ValidatorNext]_validatorVars => InductiveInvariant'
  BY InductionStep
<1> QED
  BY <1>1, <1>2, PTL DEF ValidatorSpec

(* The variables of the validator keep their types.                        *)
THEOREM TypeCorrectness == ValidatorSpec => []ValidatorTypeOK
<1>1. InductiveInvariant => ValidatorTypeOK
  BY DEF InductiveInvariant, Invariants
<1> QED
  BY <1>1, Induction, PTL

(* While the traversal of visit runs, the Visiting marks are the call      *)
(* stack, which is a path, and the Complete marks are a closed, acyclic,   *)
(* fully checked part of the graph whose fields are definedFields.         *)
THEOREM TraversalIsSound == ValidatorSpec => []TraversalInvariant
<1>1. InductiveInvariant => TraversalInvariant
  BY DEF InductiveInvariant, Invariants
<1> QED
  BY <1>1, Induction, PTL

(* validate_node never looks up the properties of a node that has none:    *)
(* the lookups of Validator::property cannot fail.                         *)
THEOREM PropertiesAreAvailable == ValidatorSpec => []InputPropertiesAvailable
<1>1. InductiveInvariant => InputPropertiesAvailable
  <2> SUFFICES ASSUME InductiveInvariant, pc = "resume", stack # <<>>, Exhausted
               PROVE  Uses(graph, Active.id) \subseteq properties
    BY DEF InputPropertiesAvailable
  <2>1. Uses(graph, Active.id) \subseteq Completed
    BY ExhaustedFacts DEF InductiveInvariant
  <2>2. properties = Completed
    BY DEF InductiveInvariant, Invariants, TraversalInvariant, CompletedAreSound
  <2> QED
    BY <2>1, <2>2
<1> QED
  BY <1>1, Induction, PTL

(* Graph::validate accepts only well-formed graphs, and the error it gives *)
(* for another graph is true of the node it names.                         *)
THEOREM VerdictCorrectness == ValidatorSpec => []VerdictIsCorrect
<1>1. InductiveInvariant => VerdictIsCorrect
  BY DEF InductiveInvariant
<1> QED
  BY <1>1, Induction, PTL

(* The traversal implements the safety part of the one-step verdict: it    *)
(* answers at most once, never changes the answer, and answers rightly.    *)
THEOREM TraversalImplementsVerdict ==
  ValidatorSpec => OneStep!Init /\ [][OneStep!Decide]_(OneStep!verdictVars)
<1>1. ValidatorInit => OneStep!Init
  BY DEF ValidatorInit, Init, OneStep!Init, Pending, Verdict, OneStep!Pending, OneStep!Verdict
<1>2. InductiveInvariant /\ [ValidatorNext]_validatorVars
        => [OneStep!Decide]_(OneStep!verdictVars)
  <2> SUFFICES ASSUME InductiveInvariant, [ValidatorNext]_validatorVars
               PROVE  [OneStep!Decide]_(OneStep!verdictVars)
    OBVIOUS
  <2>1. CASE ValidatorNext
    <3>1. /\ graph' = graph /\ verdict = Pending
          /\ verdict' = verdict \/ Correct(graph, verdict')
      BY <2>1, AnswerStep DEF InductiveInvariant
    <3>2. CASE verdict' = verdict
      BY <3>1, <3>2 DEF OneStep!verdictVars
    <3>3. CASE Correct(graph, verdict')
      <4>1. OneStep!Correct(graph, verdict')
        BY <3>3, Zenon
           DEF Positions, OneStep!Positions, Ids, OneStep!Ids, NodeOf,
               OneStep!NodeOf, Elements,
               OneStep!Elements, Uses, OneStep!Uses, Closed, OneStep!Closed,
               ReachedFrom, OneStep!ReachedFrom, Reachable, OneStep!Reachable,
               OnCycle, OneStep!OnCycle, Acyclic, OneStep!Acyclic, RepeatedAt,
               OneStep!RepeatedAt, UniqueIds, OneStep!UniqueIds, Defined,
               OneStep!Defined, RepeatsField, OneStep!RepeatsField,
               FieldsDefinedOnce, OneStep!FieldsDefinedOnce, WellFormed,
               OneStep!WellFormed, Verdict, OneStep!Verdict, Accept, OneStep!Accept,
               SharesField, OneStep!SharesField, Justified, OneStep!Justified,
               Correct, OneStep!Correct
      <4>2. verdict = OneStep!Pending
        BY <3>1 DEF Pending, Verdict, OneStep!Pending, OneStep!Verdict
      <4> QED
        BY <3>1, <4>1, <4>2 DEF OneStep!Decide
    <3> QED
      BY <3>1, <3>2, <3>3
  <2>2. CASE UNCHANGED validatorVars
    BY <2>2 DEF validatorVars, OneStep!verdictVars
  <2> QED
    BY <2>1, <2>2
<1> QED
  BY <1>1, <1>2, Induction, PTL DEF ValidatorSpec

-----------------------------------------------------------------------------
(* Facts about accepted graphs and the work of their nodes.                *)

(* Only well-formed graphs are accepted.                                   *)
LEMMA AcceptedFacts ==
  ASSUME InductiveInvariant, verdict = Accept
  PROVE  WellFormed(graph)
<1>1. Correct(graph, Accept)
  BY DEF InductiveInvariant, VerdictIsCorrect, Accept, Pending, Verdict
<1>2. ~ Justified(graph, Accept)
  BY DEF Justified, Accept, Verdict
<1> QED
  BY <1>1, <1>2 DEF Correct

(* A well-formed graph has every node that it refers to.                   *)
LEMMA WellFormedFacts ==
  ASSUME NEW g \in Graph, WellFormed(g)
  PROVE  /\ g.root \in Ids(g)
         /\ Acyclic(g)
         /\ \A id \in Ids(g) : Uses(g, id) \subseteq Ids(g)
<1>1. g.root \in Ids(g)
  BY IdsAreNames, ReachesOrigin DEF WellFormed, Reachable
<1>2. ASSUME NEW id \in Ids(g), NEW x \in Uses(g, id) PROVE x \in Ids(g)
  <2>1. Reachable(g, id) /\ x \in NodeId
    BY ReferencesAreNames DEF WellFormed
  <2>2. Reachable(g, x)
    BY <2>1, ReachesUses DEF Reachable
  <2> QED
    BY <2>1, <2>2 DEF WellFormed
<1> QED
  BY <1>1, <1>2 DEF WellFormed

(* The work of a node is a finite sequence of what the node needs.         *)
LEMMA WorkFacts ==
  ASSUME NEW id \in Ids(graph), graph \in Graph, snapshot \in Snapshots(graph)
  PROVE  /\ Len(Work(id)) \in Nat
         /\ \A k \in 1 .. Len(Work(id)) : Work(id)[k] \in Needs(graph, snapshot, id)
         /\ \A x \in Needs(graph, snapshot, id) :
              \E k \in 1 .. Len(Work(id)) : x = Work(id)[k]
         /\ Needs(graph, snapshot, id) \subseteq Uses(graph, id)
<1> DEFINE a == NodeOf(graph, id).inputs
           q == NodeOf(graph, id).queries
           d == snapshot[id].demands
           b == [k \in DOMAIN d |-> q[d[k]]]
<1>1. a \in Seq(NodeId) /\ q \in Seq(NodeId)
  BY LookupFinds DEF Node
<1>2. d \in Seq(Nat \ {0}) /\ Elements(d) \subseteq DOMAIN q
  BY BehavioursAssumption DEF Snapshots
<1>3. Work(id) = a \o b
  BY DEF Work
<1>4. Needs(graph, snapshot, id) = Elements(a) \cup {q[k] : k \in Elements(d)}
  BY DEF Needs
<1>5. Uses(graph, id) = Elements(a) \cup Elements(q)
  BY DEF Uses
<1> HIDE DEF a, q, d
<1>6. /\ DOMAIN a = 1 .. Len(a) /\ Len(a) \in Nat
      /\ DOMAIN d = 1 .. Len(d) /\ Len(d) \in Nat
  BY <1>1, <1>2, LenProperties
<1>7. \A k \in DOMAIN d : d[k] \in DOMAIN q /\ q[d[k]] \in NodeId
  BY <1>1, <1>2, LenProperties, ElementOfSeq DEF Elements
<1>8. b \in Seq(NodeId) /\ Len(b) = Len(d)
  <2>1. b \in [1 .. Len(d) -> NodeId]
    BY <1>6, <1>7
  <2> QED
    BY <1>6, <2>1, SeqDef, LenProperties
<1>9. \A k \in DOMAIN d : b[k] = q[d[k]]
  OBVIOUS
<1> HIDE DEF b
<1>10. /\ Len(a \o b) = Len(a) + Len(d)
      /\ \A k \in 1 .. Len(a) + Len(d) :
           (a \o b)[k] = IF k <= Len(a) THEN a[k] ELSE b[k - Len(a)]
  <2>1. /\ Len(a \o b) = Len(a) + Len(b)
        /\ \A k \in 1 .. Len(a) + Len(b) :
             (a \o b)[k] = IF k <= Len(a) THEN a[k] ELSE b[k - Len(a)]
    BY <1>1, <1>8, ConcatProperties
  <2> QED
    BY <1>8, <2>1
<1>11. \A k \in 1 .. Len(a \o b) : (a \o b)[k] \in Needs(graph, snapshot, id)
  <2> SUFFICES ASSUME NEW k \in 1 .. Len(a \o b)
               PROVE  (a \o b)[k] \in Needs(graph, snapshot, id)
    OBVIOUS
  <2>1. CASE k <= Len(a)
    BY <1>4, <1>6, <1>10, <2>1 DEF Elements
  <2>2. CASE ~ (k <= Len(a))
    <3>1. k - Len(a) \in DOMAIN d /\ (a \o b)[k] = b[k - Len(a)]
      BY <1>6, <1>10, <2>2
    <3> QED
      BY <1>4, <1>9, <3>1 DEF Elements
  <2> QED
    BY <2>1, <2>2
<1>12. \A x \in Needs(graph, snapshot, id) : \E k \in 1 .. Len(a \o b) : x = (a \o b)[k]
  <2>1. \A i \in DOMAIN a : i \in 1 .. Len(a \o b) /\ a[i] = (a \o b)[i]
    BY <1>6, <1>10
  <2>2. \A i \in DOMAIN d :
          Len(a) + i \in 1 .. Len(a \o b) /\ q[d[i]] = (a \o b)[Len(a) + i]
    BY <1>6, <1>10, <1>9
  <2> QED
    BY <1>4, <2>1, <2>2 DEF Elements
<1>13. Needs(graph, snapshot, id) \subseteq Uses(graph, id)
  BY <1>2, <1>4, <1>5 DEF Elements
<1> QED
  BY <1>3, <1>6, <1>10, <1>11, <1>12, <1>13

(* What a required node needs is required.                                 *)
LEMMA RequiredNeeds ==
  ASSUME NEW g, NEW s, NEW id \in Ids(g), Required(g, s, id), NEW x \in Needs(g, s, id)
  PROVE  Required(g, s, x)
BY DEF Required

-----------------------------------------------------------------------------
(* The inductive invariant is kept by every action of the evaluator.       *)

EvaluationInductive == InductiveInvariant /\ EvaluatorTypeOK /\ EvaluationInvariant

Running == evalPc \in {"enter", "resume"}

(* While evaluate_node runs, the graph is well formed and the stack typed. *)
LEMMA RunningFacts ==
  ASSUME EvaluationInductive, Running
  PROVE  /\ graph \in Graph /\ Ids(graph) \subseteq NodeId
         /\ snapshot \in Snapshots(graph)
         /\ evalStack \in Seq(Frame)
         /\ Len(evalStack) \in Nat /\ DOMAIN evalStack = 1 .. Len(evalStack)
         /\ evalStack # <<>> => Len(evalStack) \in DOMAIN evalStack
         /\ \A i \in DOMAIN evalStack :
              /\ evalStack[i] \in Frame
              /\ evalStack[i].id \in Begun
              /\ evalStack[i].id \in Ids(graph)
              /\ evalStack[i].next \in Nat \ {0}
         /\ graph.root \in Ids(graph) /\ Acyclic(graph)
         /\ \A id \in Ids(graph) : Uses(graph, id) \subseteq Ids(graph)
         /\ StartsAccepted /\ WorkIsCounted /\ CallIsRequired /\ NoReentry
         /\ LookupsSucceed /\ CacheIsComplete /\ WorkIsOrdered /\ RootIsEvaluated
<1>1. graph \in Graph
  BY DEF EvaluationInductive, InductiveInvariant, Invariants, ValidatorTypeOK
<1>2. verdict = Accept
  BY DEF EvaluationInductive, EvaluationInvariant, StartsAccepted, Running
<1>3. WellFormed(graph)
  BY <1>2, AcceptedFacts DEF EvaluationInductive
<1>4. evalStack \in Seq(Frame) /\ snapshot \in Snapshots(graph)
  BY DEF EvaluationInductive, EvaluatorTypeOK, Frame, Running
<1>5. /\ Len(evalStack) \in Nat /\ DOMAIN evalStack = 1 .. Len(evalStack)
      /\ evalStack # <<>> => Len(evalStack) \in DOMAIN evalStack
      /\ \A i \in DOMAIN evalStack : evalStack[i] \in Frame
  BY <1>4, StackFacts
<1>6. \A i \in DOMAIN evalStack : evalStack[i].id \in Begun
  BY DEF Begun
<1>7. /\ StartsAccepted /\ WorkIsCounted /\ CallIsRequired /\ NoReentry
      /\ LookupsSucceed /\ CacheIsComplete /\ WorkIsOrdered /\ RootIsEvaluated
  BY DEF EvaluationInductive, EvaluationInvariant, Running
<1>8. \A i \in DOMAIN evalStack :
        evalStack[i].id \in Ids(graph) /\ evalStack[i].next \in Nat \ {0}
  BY <1>5, <1>6, <1>7 DEF WorkIsCounted, Frame
<1> QED
  BY <1>1, <1>3, <1>4, <1>5, <1>6, <1>7, <1>8, WellFormedFacts, IdsAreNames

(* The innermost evaluation has the values of the work behind it.          *)
LEMMA EvaluatingFacts ==
  ASSUME EvaluationInductive, evalPc = "resume", evalStack # <<>>
  PROVE  /\ Len(evalStack) \in Nat \ {0}
         /\ Evaluating = evalStack[Len(evalStack)]
         /\ Evaluating.id \in Ids(graph) /\ Evaluating.id \in NodeId
         /\ Evaluating.id \in Begun /\ Evaluating.id \notin cache
         /\ Required(graph, snapshot, Evaluating.id)
         /\ Evaluating.next \in Nat \ {0}
         /\ Len(Work(Evaluating.id)) \in Nat
         /\ Evaluating.next <= Len(Work(Evaluating.id)) + 1
         /\ \A k \in 1 .. Evaluating.next - 1 : Work(Evaluating.id)[k] \in cache
<1> DEFINE top == Len(evalStack)
<1>0. Running
  BY DEF Running
<1>1. /\ top \in DOMAIN evalStack /\ top \in Nat \ {0}
      /\ evalStack[top].id \in Ids(graph) /\ evalStack[top].id \in NodeId
      /\ evalStack[top].next \in Nat \ {0} /\ evalStack[top].id \in Begun
  BY <1>0, RunningFacts
<1>2. evalStack[top].id \notin cache /\ Required(graph, snapshot, evalStack[top].id)
  BY <1>0, <1>1, RunningFacts DEF NoReentry, CallIsRequired
<1>3. Len(Work(evalStack[top].id)) \in Nat
  BY <1>0, <1>1, RunningFacts, WorkFacts
<1>4. /\ evalStack[top].next <= Len(Work(evalStack[top].id)) + 1
      /\ \A k \in 1 .. evalStack[top].next - 1 : Work(evalStack[top].id)[k] \in cache
  <2>1. WorkIsOrdered /\ ~ (top < Len(evalStack)) /\ evalPc # "enter"
    BY <1>0, <1>1, RunningFacts
  <2> QED
    BY <1>1, <2>1 DEF WorkIsOrdered
<1> QED
  BY <1>1, <1>2, <1>3, <1>4 DEF Evaluating

(* The first call is for the root, which an accepted graph has.            *)
LEMMA EvaluateRootStep ==
  ASSUME EvaluationInductive, EvaluateRoot, UNCHANGED validatorVars
  PROVE  EvaluatorTypeOK' /\ EvaluationInvariant'
<1>1. /\ evalPc = "idle" /\ evalPc' = "enter" /\ evalCall' = graph.root /\ graph' = graph
      /\ verdict = Accept /\ verdict' = verdict /\ snapshot' \in Snapshots(graph)
      /\ outcome' = outcome /\ evalStack' = evalStack /\ cache' = cache
      /\ evaluations' = evaluations
      /\ EvaluatorTypeOK /\ EvaluationInvariant
  BY DEF EvaluateRoot, validatorVars, EvaluationInductive
<1>2. graph \in Graph
  BY DEF EvaluationInductive, InductiveInvariant, Invariants, ValidatorTypeOK
<1>3. graph.root \in Ids(graph)
  BY <1>1, <1>2, AcceptedFacts, WellFormedFacts DEF EvaluationInductive
<1>4. Begun = {} /\ Begun' = {} /\ cache = {}
  BY <1>1 DEF EvaluationInvariant, StartsAccepted, Begun
<1>5. DOMAIN evalStack = {}
  BY <1>4 DEF Begun
<1>6. evalStack = <<>>
  BY <1>1, <1>5, StackFacts DEF EvaluatorTypeOK, Frame
<1>7. EvaluatorTypeOK'
  BY <1>1, <1>2, <1>3, IdsAreNames DEF EvaluatorTypeOK
<1>8. StartsAccepted' /\ WorkIsCounted'
  BY <1>1, <1>4 DEF EvaluationInvariant, StartsAccepted, WorkIsCounted
<1>9. CallIsRequired'
  BY <1>1, <1>4 DEF CallIsRequired, Required
<1>10. NoReentry' /\ LookupsSucceed' /\ CacheIsComplete'
  BY <1>1, <1>3, <1>4, <1>5 DEF NoReentry, LookupsSucceed, CacheIsComplete
<1>11. WorkIsOrdered' /\ RootIsEvaluated'
  BY <1>1, <1>5, <1>6 DEF WorkIsOrdered, RootIsEvaluated
<1> QED
  BY <1>7, <1>8, <1>9, <1>10, <1>11 DEF EvaluationInvariant

(* A node found in the cache resumes the evaluation that demanded it.      *)
LEMMA ReturnCachedStep ==
  ASSUME EvaluationInductive, ReturnCached, UNCHANGED validatorVars
  PROVE  EvaluatorTypeOK' /\ EvaluationInvariant'
<1>1. /\ evalPc = "enter" /\ evalPc' = "resume" /\ evalCall' = None /\ graph' = graph
      /\ verdict' = verdict /\ snapshot' = snapshot /\ evalCall \in cache
      /\ outcome' = outcome /\ evalStack' = evalStack /\ cache' = cache
      /\ evaluations' = evaluations /\ Begun' = Begun
      /\ EvaluatorTypeOK /\ EvaluationInvariant /\ Running
  BY DEF ReturnCached, validatorVars, EvaluationInductive, Begun, Running
<1>2. EvaluatorTypeOK'
  BY <1>1 DEF EvaluatorTypeOK
<1>3. StartsAccepted' /\ WorkIsCounted' /\ CallIsRequired'
  BY <1>1 DEF EvaluationInvariant, StartsAccepted, WorkIsCounted, CallIsRequired
<1>4. NoReentry' /\ LookupsSucceed' /\ CacheIsComplete'
  BY <1>1 DEF EvaluationInvariant, NoReentry, LookupsSucceed, CacheIsComplete
<1>5. RootIsEvaluated'
  BY <1>1, RunningFacts DEF RootIsEvaluated
<1>6. WorkIsOrdered'
  <2> SUFFICES ASSUME NEW i \in DOMAIN evalStack
               PROVE  LET work == Work(evalStack[i].id)
                          next == evalStack[i].next
                      IN /\ next <= Len(work) + 1
                         /\ \A k \in 1 .. next - 1 :
                              k < next - 1 \/ ~ (i < Len(evalStack)) => work[k] \in cache
                         /\ i < Len(evalStack) =>
                              next > 1 /\ work[next - 1] = evalStack[i + 1].id
    BY <1>1, Zenon DEF WorkIsOrdered, Work
  <2> DEFINE work == Work(evalStack[i].id)
             next == evalStack[i].next
  <2>1. /\ next <= Len(work) + 1 /\ next > 1
        /\ \A k \in 1 .. next - 1 : k < next - 1 => work[k] \in cache
        /\ work[next - 1] = IF i < Len(evalStack) THEN evalStack[i + 1].id ELSE evalCall
    BY <1>1, RunningFacts DEF WorkIsOrdered
  <2>2. next \in Nat
    BY <1>1, RunningFacts
  <2> HIDE DEF work, next
  <2>3. \A k \in 1 .. next - 1 : ~ (i < Len(evalStack)) => work[k] \in cache
    <3> SUFFICES ASSUME NEW k \in 1 .. next - 1, ~ (i < Len(evalStack))
                 PROVE  work[k] \in cache
      OBVIOUS
    <3>1. CASE k = next - 1
      BY <1>1, <2>1, <3>1
    <3>2. CASE k < next - 1
      BY <2>1, <3>2
    <3> QED
      BY <2>2, <3>1, <3>2
  <2> QED
    BY <2>1, <2>3 DEF work, next
<1> QED
  BY <1>2, <1>3, <1>4, <1>5, <1>6 DEF EvaluationInvariant

(* A node that has no value is begun, on top of those that wait for it.    *)
LEMMA BeginNodeStep ==
  ASSUME EvaluationInductive, BeginNode, UNCHANGED validatorVars
  PROVE  EvaluatorTypeOK' /\ EvaluationInvariant'
<1> DEFINE top == Len(evalStack) + 1
<1>1. /\ evalPc = "enter" /\ evalPc' = "resume" /\ evalCall' = None /\ graph' = graph
      /\ verdict' = verdict /\ snapshot' = snapshot /\ evalCall \notin cache
      /\ outcome' = outcome /\ cache' = cache
      /\ evalStack' = Append(evalStack, [id |-> evalCall, next |-> 1])
      /\ evaluations' = [evaluations EXCEPT ![evalCall] = @ + 1]
      /\ EvaluatorTypeOK /\ EvaluationInvariant /\ Running
  BY DEF BeginNode, validatorVars, EvaluationInductive, Running
<1>2. /\ evalCall \in Ids(graph) /\ evalCall \in NodeId
      /\ Required(graph, snapshot, evalCall)
      /\ \A i \in DOMAIN evalStack : evalStack[i].id # evalCall
      /\ evalCall \notin Begun
  BY <1>1, RunningFacts DEF LookupsSucceed, CallIsRequired, NoReentry, Begun
<1>3. /\ evalStack' \in Seq(Frame) /\ Len(evalStack') = top /\ DOMAIN evalStack' = 1 .. top
      /\ \A i \in 1 .. Len(evalStack) : evalStack'[i] = evalStack[i]
      /\ evalStack'[top].id = evalCall /\ evalStack'[top].next = 1
      /\ evalStack' # <<>>
  <2>1. [id |-> evalCall, next |-> 1] \in Frame
    BY <1>2 DEF Frame
  <2>2. evalStack \in Seq(Frame)
    BY <1>1, RunningFacts
  <2>3. /\ evalStack' \in Seq(Frame) /\ Len(evalStack') = top /\ DOMAIN evalStack' = 1 .. top
        /\ \A i \in 1 .. Len(evalStack) : evalStack'[i] = evalStack[i]
        /\ evalStack'[top] = [id |-> evalCall, next |-> 1]
        /\ evalStack' # <<>>
    BY <1>1, <2>1, <2>2, PushFacts
  <2> QED
    BY <2>3
<1>4. Len(evalStack) \in Nat /\ DOMAIN evalStack = 1 .. Len(evalStack)
  BY <1>1, RunningFacts
<1>5. Begun' = Begun \cup {evalCall}
  <2>1. {evalStack'[i].id : i \in DOMAIN evalStack'}
          = {evalStack[i].id : i \in DOMAIN evalStack} \cup {evalCall}
    <3>1. \A i \in DOMAIN evalStack' :
            i = top \/ (i \in DOMAIN evalStack /\ evalStack'[i] = evalStack[i])
      BY <1>3, <1>4
    <3>2. \A i \in DOMAIN evalStack : i \in DOMAIN evalStack' /\ evalStack'[i] = evalStack[i]
      BY <1>3, <1>4
    <3>3. top \in DOMAIN evalStack'
      BY <1>3, <1>4
    <3> HIDE DEF top
    <3> QED
      BY <1>3, <3>1, <3>2, <3>3
  <2> QED
    BY <1>1, <2>1 DEF Begun
<1>6. EvaluatorTypeOK'
  <2>1. evalStack' \in Seq([id : NodeId, next : Nat \ {0}])
    BY <1>3 DEF Frame
  <2>2. evaluations' \in [NodeId -> Nat]
    BY <1>1, <1>2 DEF EvaluatorTypeOK
  <2> QED
    BY <1>1, <2>1, <2>2 DEF EvaluatorTypeOK
<1>7. StartsAccepted'
  BY <1>1 DEF EvaluationInvariant, StartsAccepted
<1>8. WorkIsCounted'
  <2>1. WorkIsCounted /\ evaluations \in [NodeId -> Nat]
    BY <1>1 DEF EvaluationInvariant, EvaluatorTypeOK
  <2>2. evaluations[evalCall] = 0
    BY <1>2, <2>1 DEF WorkIsCounted
  <2>3. \A id \in NodeId : evaluations'[id] = IF id = evalCall THEN 1 ELSE evaluations[id]
    BY <1>1, <1>2, <2>1, <2>2
  <2> QED
    BY <1>1, <1>2, <1>5, <2>1, <2>3 DEF WorkIsCounted
<1>9. CallIsRequired'
  BY <1>1, <1>2, <1>5 DEF EvaluationInvariant, CallIsRequired
<1>10. LookupsSucceed' /\ CacheIsComplete'
  BY <1>1 DEF EvaluationInvariant, LookupsSucceed, CacheIsComplete
<1>11. NoReentry'
  <2>1. NoReentry
    BY <1>1, RunningFacts
  <2>2. \A i \in DOMAIN evalStack' :
          i = top \/ (i \in DOMAIN evalStack /\ evalStack'[i] = evalStack[i])
    BY <1>3, <1>4
  <2> HIDE DEF top
  <2>3. \A i, j \in DOMAIN evalStack' : evalStack'[i].id = evalStack'[j].id => i = j
    BY <1>2, <1>3, <2>1, <2>2 DEF NoReentry
  <2>4. \A i \in DOMAIN evalStack' : evalStack'[i].id \notin cache
    BY <1>1, <1>3, <2>1, <2>2 DEF NoReentry
  <2> QED
    BY <1>1, <2>3, <2>4 DEF NoReentry
<1>12. WorkIsOrdered'
  <2> SUFFICES ASSUME NEW i \in DOMAIN evalStack'
               PROVE  LET work == Work(evalStack'[i].id)
                          next == evalStack'[i].next
                      IN /\ next <= Len(work) + 1
                         /\ \A k \in 1 .. next - 1 :
                              k < next - 1 \/ ~ (i < Len(evalStack')) => work[k] \in cache
                         /\ i < Len(evalStack') =>
                              next > 1 /\ work[next - 1] = evalStack'[i + 1].id
    BY <1>1, ZenonT(60) DEF WorkIsOrdered, Work
  <2>1. CASE i = top
    <3>1. Len(Work(evalCall)) \in Nat
      BY <1>1, <1>2, RunningFacts, WorkFacts
    <3> QED
      BY <1>3, <1>4, <2>1, <3>1
  <2>2. CASE i # top
    <3>1. i \in DOMAIN evalStack /\ evalStack'[i] = evalStack[i] /\ i < Len(evalStack')
      BY <1>3, <1>4, <2>2
    <3>2. WorkIsOrdered
      BY <1>1, RunningFacts
    <3>3. evalStack'[i + 1].id = IF i < Len(evalStack) THEN evalStack[i + 1].id ELSE evalCall
      BY <1>3, <1>4, <3>1
    <3> QED
      BY <1>1, <3>1, <3>2, <3>3 DEF WorkIsOrdered
  <2> QED
    BY <2>1, <2>2
<1>13. RootIsEvaluated'
  <2>1. RootIsEvaluated
    BY <1>1, RunningFacts
  <2>2. CASE evalStack = <<>>
    BY <1>1, <1>3, <2>1, <2>2 DEF RootIsEvaluated
  <2>3. CASE evalStack # <<>>
    <3>1. 1 \in 1 .. Len(evalStack)
      BY <1>1, <1>4, <2>3, RunningFacts
    <3> QED
      BY <1>1, <1>3, <2>1, <2>3, <3>1 DEF RootIsEvaluated
  <2> QED
    BY <2>2, <2>3
<1> QED
  BY <1>6, <1>7, <1>8, <1>9, <1>10, <1>11, <1>12, <1>13 DEF EvaluationInvariant

(* A cycle through the stack and the node demanded would be a cycle of the *)
(* graph: each evaluation waits for a node that its own node uses.         *)
LEMMA DemandIsNew ==
  ASSUME EvaluationInductive, DemandNode
  PROVE  /\ evalCall' \in Needs(graph, snapshot, Evaluating.id)
         /\ evalCall' \in Ids(graph)
         /\ \A j \in DOMAIN evalStack : evalStack[j].id # evalCall'
<1> DEFINE top == Len(evalStack)
<1>1. /\ evalPc = "resume" /\ evalStack # <<>> /\ ~ WorkDone /\ Running
      /\ evalCall' = Work(Evaluating.id)[Evaluating.next]
  BY DEF DemandNode, Running
<1>2. /\ top \in Nat \ {0} /\ DOMAIN evalStack = 1 .. top
      /\ Evaluating = evalStack[top] /\ Evaluating.id \in Ids(graph)
  BY <1>1, RunningFacts, EvaluatingFacts
<1>3. Evaluating.next \in 1 .. Len(Work(Evaluating.id))
  BY <1>1, EvaluatingFacts DEF WorkDone
<1>4. /\ evalCall' \in Needs(graph, snapshot, Evaluating.id)
      /\ evalCall' \in Uses(graph, Evaluating.id)
  BY <1>1, <1>2, <1>3, RunningFacts, WorkFacts
<1>5. evalCall' \in Ids(graph)
  BY <1>1, <1>2, <1>4, RunningFacts
<1>6. ASSUME NEW i \in DOMAIN evalStack, i < top
      PROVE  evalStack[i + 1].id \in Uses(graph, evalStack[i].id)
  <2>1. /\ evalStack[i].id \in Ids(graph) /\ evalStack[i].next \in Nat \ {0}
        /\ WorkIsOrdered
    BY <1>1, RunningFacts
  <2>2. /\ evalStack[i].next <= Len(Work(evalStack[i].id)) + 1 /\ evalStack[i].next > 1
        /\ Work(evalStack[i].id)[evalStack[i].next - 1] = evalStack[i + 1].id
    BY <1>6, <2>1 DEF WorkIsOrdered
  <2>3. Len(Work(evalStack[i].id)) \in Nat
    BY <1>1, <2>1, RunningFacts, WorkFacts
  <2>4. evalStack[i].next - 1 \in 1 .. Len(Work(evalStack[i].id))
    BY <2>1, <2>2, <2>3
  <2> QED
    BY <1>1, <2>1, <2>2, <2>4, RunningFacts, WorkFacts
<1>7. ASSUME NEW j \in DOMAIN evalStack, evalStack[j].id = evalCall'
      PROVE  FALSE
  <2> DEFINE S == {evalStack[i].id : i \in j .. top}
  <2>1. j .. top \subseteq DOMAIN evalStack /\ j \in j .. top
    BY <1>2
  <2>2. S \in SUBSET Ids(graph) /\ S # {}
    BY <1>1, <2>1, RunningFacts
  <2>3. ASSUME NEW x \in S PROVE Uses(graph, x) \cap S # {}
    <3>1. PICK i \in j .. top : x = evalStack[i].id
      OBVIOUS
    <3>2. CASE i = top
      <4>1. evalCall' \in S
        BY <1>7, <2>1
      <4> QED
        BY <1>2, <1>4, <3>1, <3>2, <4>1
    <3>3. CASE i # top
      <4>1. i \in DOMAIN evalStack /\ i < top /\ i + 1 \in j .. top
        <5>1. j \in 1 .. top /\ top \in Nat
          BY <1>2
        <5> HIDE DEF top
        <5> QED
          BY <1>2, <3>3, <5>1
      <4>2. evalStack[i + 1].id \in S
        BY <4>1
      <4> QED
        BY <1>6, <3>1, <4>1, <4>2
    <3> QED
      BY <3>2, <3>3
  <2> HIDE DEF S
  <2> QED
    BY <1>1, <2>2, <2>3, RunningFacts DEF Acyclic
<1> QED
  BY <1>4, <1>5, <1>7

(* A demanded node is not under way and is required.                       *)
LEMMA DemandNodeStep ==
  ASSUME EvaluationInductive, DemandNode, UNCHANGED validatorVars
  PROVE  EvaluatorTypeOK' /\ EvaluationInvariant'
<1> DEFINE top == Len(evalStack)
<1>1. /\ evalPc = "resume" /\ evalPc' = "enter" /\ graph' = graph
      /\ evalStack # <<>> /\ ~ WorkDone
      /\ verdict' = verdict /\ snapshot' = snapshot
      /\ outcome' = outcome /\ cache' = cache /\ evaluations' = evaluations
      /\ evalCall' = Work(Evaluating.id)[Evaluating.next]
      /\ EvaluatorTypeOK /\ EvaluationInvariant /\ Running
  BY DEF DemandNode, validatorVars, EvaluationInductive, Running
<1>2. /\ top \in Nat \ {0} /\ DOMAIN evalStack = 1 .. top
      /\ Evaluating = evalStack[top] /\ Evaluating.id \in Ids(graph)
      /\ Required(graph, snapshot, Evaluating.id)
      /\ Evaluating.next \in 1 .. Len(Work(Evaluating.id))
      /\ Len(Work(Evaluating.id)) \in Nat
      /\ \A k \in 1 .. Evaluating.next - 1 : Work(Evaluating.id)[k] \in cache
  BY <1>1, RunningFacts, EvaluatingFacts DEF WorkDone
<1>3. /\ evalStack' \in Seq(Frame) /\ Len(evalStack') = top
      /\ DOMAIN evalStack' = DOMAIN evalStack /\ evalStack' # <<>>
      /\ \A i \in DOMAIN evalStack : evalStack'[i].id = evalStack[i].id
      /\ \A i \in DOMAIN evalStack : i # top => evalStack'[i] = evalStack[i]
      /\ evalStack'[top].next = Evaluating.next + 1
  <2>1. evalStack \in Seq(Frame)
    BY <1>1, RunningFacts
  <2>2. evalStack' = [evalStack EXCEPT ![Len(evalStack)] =
                       [id |-> evalStack[Len(evalStack)].id,
                        next |-> evalStack[Len(evalStack)].next + 1]]
    BY DEF DemandNode, Evaluating
  <2>3. /\ evalStack' \in Seq(Frame) /\ Len(evalStack') = top
        /\ DOMAIN evalStack' = DOMAIN evalStack
        /\ \A i \in DOMAIN evalStack : evalStack'[i].id = evalStack[i].id
        /\ \A i \in DOMAIN evalStack : i # top => evalStack'[i] = evalStack[i]
        /\ evalStack'[top].next = evalStack[top].next + 1
    BY <1>1, <2>1, <2>2, AdvanceFacts
  <2>4. evalStack' # <<>>
    BY <1>2, <2>3, EmptySeq
  <2> QED
    BY <1>2, <2>3, <2>4
<1>4. /\ evalCall' \in Needs(graph, snapshot, Evaluating.id)
      /\ evalCall' \in Ids(graph) /\ evalCall' \in NodeId
      /\ \A j \in DOMAIN evalStack : evalStack[j].id # evalCall'
  BY <1>1, DemandIsNew, RunningFacts
<1>5. Begun' = Begun
  BY <1>1, <1>3 DEF Begun
<1>6. EvaluatorTypeOK'
  <2>1. evalStack' \in Seq([id : NodeId, next : Nat \ {0}])
    BY <1>3 DEF Frame
  <2> QED
    BY <1>1, <1>4, <2>1 DEF EvaluatorTypeOK
<1>7. StartsAccepted' /\ WorkIsCounted'
  BY <1>1, <1>5 DEF EvaluationInvariant, StartsAccepted, WorkIsCounted
<1>8. CallIsRequired'
  <2>1. Required(graph, snapshot, evalCall')
    BY <1>2, <1>4, RequiredNeeds
  <2> QED
    BY <1>1, <1>5, <2>1 DEF EvaluationInvariant, CallIsRequired, Required
<1>9. NoReentry' /\ LookupsSucceed' /\ CacheIsComplete'
  BY <1>1, <1>3, <1>4 DEF EvaluationInvariant, NoReentry, LookupsSucceed, CacheIsComplete
<1>10. WorkIsOrdered'
  <2> SUFFICES ASSUME NEW i \in DOMAIN evalStack
               PROVE  LET work == Work(evalStack[i].id)
                          next == evalStack'[i].next
                      IN /\ next <= Len(work) + 1
                         /\ \A k \in 1 .. next - 1 : k < next - 1 => work[k] \in cache
                         /\ next > 1
                         /\ work[next - 1] =
                              IF i < Len(evalStack) THEN evalStack[i + 1].id ELSE evalCall'
    <3>1. \A i \in DOMAIN evalStack : i < Len(evalStack) => i + 1 \in DOMAIN evalStack
      BY <1>2
    <3> QED
      BY <1>1, <1>3, <3>1, ZenonT(60) DEF WorkIsOrdered, Work
  <2>1. CASE i = top
    <3>1. evalStack[i].id = Evaluating.id /\ evalStack'[i].next = Evaluating.next + 1
      BY <1>2, <1>3, <2>1
    <3>2. \A k \in 1 .. Evaluating.next + 1 - 1 :
            k < Evaluating.next + 1 - 1 => k \in 1 .. Evaluating.next - 1
      BY <1>2
    <3>3. Evaluating.next + 1 - 1 = Evaluating.next /\ Evaluating.next + 1 > 1
      BY <1>2
    <3> QED
      BY <1>1, <1>2, <2>1, <3>1, <3>2, <3>3
  <2>2. CASE i # top
    <3>1. i < Len(evalStack) /\ evalStack'[i] = evalStack[i]
      BY <1>2, <1>3, <2>2
    <3>2. WorkIsOrdered
      BY <1>1, RunningFacts
    <3> QED
      BY <3>1, <3>2 DEF WorkIsOrdered
  <2> QED
    BY <2>1, <2>2
<1>11. RootIsEvaluated'
  <2>1. RootIsEvaluated /\ 1 \in DOMAIN evalStack
    BY <1>1, <1>2, RunningFacts
  <2> QED
    BY <1>1, <1>3, <2>1 DEF RootIsEvaluated
<1> QED
  BY <1>6, <1>7, <1>8, <1>9, <1>10, <1>11 DEF EvaluationInvariant

(* When the work of a node is done, it has the values of all it needs.     *)
LEMMA WorkDoneFacts ==
  ASSUME EvaluationInductive, evalPc = "resume", evalStack # <<>>, WorkDone
  PROVE  Needs(graph, snapshot, Evaluating.id) \subseteq cache
<1>1. Running
  BY DEF Running
<1>2. \A k \in 1 .. Len(Work(Evaluating.id)) : k \in 1 .. Evaluating.next - 1
  BY EvaluatingFacts DEF WorkDone
<1>3. \A k \in 1 .. Len(Work(Evaluating.id)) : Work(Evaluating.id)[k] \in cache
  BY <1>2, EvaluatingFacts
<1> QED
  BY <1>1, <1>3, EvaluatingFacts, RunningFacts, WorkFacts

(* A value is cached once all it needs is, and the node leaves the stack.  *)
LEMMA CacheValueStep ==
  ASSUME EvaluationInductive, CacheValue, UNCHANGED validatorVars
  PROVE  EvaluatorTypeOK' /\ EvaluationInvariant'
<1> DEFINE top == Len(evalStack)
           m == Evaluating.id
<1>1. /\ evalPc = "resume" /\ evalPc' = "resume" /\ graph' = graph /\ evalCall' = evalCall
      /\ evalStack # <<>> /\ WorkDone /\ ~ snapshot[m].fails
      /\ verdict' = verdict /\ snapshot' = snapshot
      /\ outcome' = outcome /\ cache' = cache \cup {m} /\ evaluations' = evaluations
      /\ evalStack' = SubSeq(evalStack, 1, Len(evalStack) - 1)
      /\ EvaluatorTypeOK /\ EvaluationInvariant /\ Running
  BY DEF CacheValue, validatorVars, EvaluationInductive, Running
<1>2. /\ top \in Nat \ {0} /\ DOMAIN evalStack = 1 .. top /\ m = evalStack[top].id
      /\ m \in NodeId /\ m \in Begun
      /\ Needs(graph, snapshot, m) \subseteq cache
  BY <1>1, RunningFacts, EvaluatingFacts, WorkDoneFacts
<1>3. /\ evalStack' \in Seq(Frame) /\ Len(evalStack') = top - 1
      /\ DOMAIN evalStack' = 1 .. top - 1
      /\ \A i \in 1 .. top - 1 : i \in DOMAIN evalStack /\ evalStack'[i] = evalStack[i]
      /\ evalStack' = <<>> <=> top = 1
  <2>1. evalStack \in Seq(Frame)
    BY <1>1, RunningFacts
  <2>2. /\ evalStack' \in Seq(Frame) /\ Len(evalStack') = top - 1
        /\ DOMAIN evalStack' = 1 .. top - 1
        /\ \A i \in 1 .. top - 1 : evalStack'[i] = evalStack[i]
    BY <1>1, <2>1, PopFacts
  <2> QED
    BY <1>2, <2>2, EmptySeq
<1>4. \A i, j \in DOMAIN evalStack : evalStack[i].id = evalStack[j].id => i = j
  BY <1>1, RunningFacts DEF NoReentry
<1>5. Begun' = Begun
  <2>1. ASSUME NEW x \in Begun' PROVE x \in Begun
    BY <1>1, <1>2, <1>3 DEF Begun
  <2>2. ASSUME NEW i \in DOMAIN evalStack PROVE evalStack[i].id \in Begun'
    <3>1. CASE i = top
      BY <1>1, <1>2, <3>1 DEF Begun
    <3>2. CASE i # top
      <4>1. i \in 1 .. top - 1
        BY <1>2, <3>2
      <4> QED
        BY <1>3, <4>1 DEF Begun
    <3> QED
      BY <3>1, <3>2
  <2>3. cache \subseteq Begun'
    BY <1>1 DEF Begun
  <2> QED
    BY <2>1, <2>2, <2>3 DEF Begun
<1>6. EvaluatorTypeOK'
  <2>1. evalStack' \in Seq([id : NodeId, next : Nat \ {0}])
    BY <1>3 DEF Frame
  <2> QED
    BY <1>1, <1>2, <2>1 DEF EvaluatorTypeOK
<1>7. StartsAccepted' /\ WorkIsCounted' /\ CallIsRequired'
  BY <1>1, <1>5 DEF EvaluationInvariant, StartsAccepted, WorkIsCounted, CallIsRequired
<1>8. LookupsSucceed' /\ CacheIsComplete'
  BY <1>1, <1>2 DEF EvaluationInvariant, LookupsSucceed, CacheIsComplete
<1>9. NoReentry'
  <2>1. NoReentry
    BY <1>1, RunningFacts
  <2>2. \A i \in 1 .. top - 1 : evalStack[i].id # m
    <3>1. \A i \in 1 .. top - 1 : i # top /\ top \in DOMAIN evalStack
      <4>1. top \in Nat \ {0} /\ DOMAIN evalStack = 1 .. top
        BY <1>2
      <4> HIDE DEF top, m
      <4> QED
        BY <4>1
    <3> QED
      BY <1>2, <1>3, <1>4, <3>1, Zenon
  <2> QED
    BY <1>1, <1>3, <2>1, <2>2 DEF NoReentry
<1>10. WorkIsOrdered'
  <2>1. ASSUME NEW i \in 1 .. top - 1
        PROVE  LET work == Work(evalStack[i].id)
                   next == evalStack[i].next
                   waiting == i < top - 1
               IN /\ next <= Len(work) + 1
                  /\ \A k \in 1 .. next - 1 :
                       k < next - 1 \/ ~ waiting => work[k] \in cache'
                  /\ waiting => next > 1 /\ work[next - 1] = evalStack[i + 1].id
    <3> DEFINE work == Work(evalStack[i].id)
               next == evalStack[i].next
    <3>1. i \in DOMAIN evalStack /\ i < Len(evalStack)
      BY <1>2
    <3>2. /\ next <= Len(work) + 1 /\ next > 1
          /\ \A k \in 1 .. next - 1 : k < next - 1 => work[k] \in cache
          /\ work[next - 1] = evalStack[i + 1].id
      BY <1>1, <3>1, RunningFacts DEF WorkIsOrdered
    <3>3. next \in Nat
      BY <1>1, <3>1, RunningFacts
    <3> HIDE DEF work, next
    <3>4. ASSUME ~ (i < top - 1), NEW k \in 1 .. next - 1 PROVE work[k] \in cache'
      <4>1. i + 1 = top
        <5>1. top \in Nat \ {0}
          BY <1>2
        <5> HIDE DEF top, m
        <5> QED
          BY <3>4, <5>1
      <4>2. CASE k = next - 1
        BY <1>1, <1>2, <3>2, <4>1, <4>2
      <4>3. CASE k < next - 1
        BY <1>1, <3>2, <4>3
      <4> QED
        BY <3>3, <4>2, <4>3
    <3> QED
      BY <1>1, <3>2, <3>4 DEF work, next
  <2>2. \A i \in 1 .. top - 1 : i < top - 1 => i + 1 \in 1 .. top - 1
    BY <1>2
  <2>3. ASSUME NEW i \in 1 .. top - 1
        PROVE  LET work == Work(evalStack'[i].id)
                   next == evalStack'[i].next
                   waiting == i < Len(evalStack')
               IN /\ next <= Len(work) + 1
                  /\ \A k \in 1 .. next - 1 :
                       k < next - 1 \/ ~ waiting => work[k] \in cache'
                  /\ waiting => next > 1 /\ work[next - 1] = evalStack'[i + 1].id
    <3>1. evalStack'[i] = evalStack[i] /\ Len(evalStack') = top - 1
      BY <1>3
    <3>2. i < top - 1 => evalStack'[i + 1] = evalStack[i + 1]
      BY <1>3, <2>2
    <3> QED
      BY <2>1, <3>1, <3>2
  <2>4. DOMAIN evalStack' = 1 .. top - 1 /\ evalPc' # "enter"
    BY <1>1, <1>3
  <2>5. graph' = graph /\ snapshot' = snapshot
    BY <1>1
  <2> HIDE DEF top, m
  <2> QED
    BY <2>3, <2>4, <2>5, Zenon DEF WorkIsOrdered, Work
<1>11. RootIsEvaluated'
  <2>1. evalStack[1].id = graph.root
    BY <1>1, RunningFacts DEF RootIsEvaluated
  <2>2. evalStack' # <<>> => evalStack'[1] = evalStack[1]
    BY <1>2, <1>3
  <2>3. evalStack' = <<>> => graph.root \in cache'
    BY <1>1, <1>2, <1>3, <2>1
  <2> QED
    BY <1>1, <2>1, <2>2, <2>3 DEF RootIsEvaluated
<1> QED
  BY <1>6, <1>7, <1>8, <1>9, <1>10, <1>11 DEF EvaluationInvariant

(* When evaluate ends, nothing changes but the result.                     *)
LEMMA EndStep ==
  ASSUME EvaluationInductive, ReturnValidationError \/ AbortEvaluation \/ ReturnResult,
         UNCHANGED validatorVars
  PROVE  EvaluatorTypeOK' /\ EvaluationInvariant'
<1>0. /\ Refused # NoOutcome /\ Success # NoOutcome
      /\ \A id : Failure(id) # NoOutcome
  BY DEF Refused, Success, Failure, NoOutcome, Outcome
<1>1. /\ evalPc' = "done" /\ graph' = graph /\ evalCall' = evalCall /\ snapshot' = snapshot
      /\ outcome' # NoOutcome
      /\ evalStack' = evalStack /\ cache' = cache /\ evaluations' = evaluations
      /\ EvaluatorTypeOK /\ EvaluationInvariant
  <2>1. graph' = graph /\ EvaluatorTypeOK /\ EvaluationInvariant
    BY DEF validatorVars, EvaluationInductive
  <2>2. CASE ReturnValidationError
    BY <1>0, <2>1, <2>2 DEF ReturnValidationError
  <2>3. CASE AbortEvaluation
    BY <1>0, <2>1, <2>3 DEF AbortEvaluation
  <2>4. CASE ReturnResult
    BY <1>0, <2>1, <2>4 DEF ReturnResult
  <2> QED
    BY <2>2, <2>3, <2>4
<1>2. Begun' = Begun
  BY <1>1 DEF Begun
<1>3. EvaluatorTypeOK'
  BY <1>1 DEF EvaluatorTypeOK
<1>4. StartsAccepted' /\ WorkIsCounted' /\ CallIsRequired'
  BY <1>1, <1>2 DEF EvaluationInvariant, StartsAccepted, WorkIsCounted, CallIsRequired
<1>5. NoReentry' /\ LookupsSucceed' /\ CacheIsComplete'
  BY <1>1 DEF EvaluationInvariant, NoReentry, LookupsSucceed, CacheIsComplete
<1> QED
  BY <1>1, <1>3, <1>4, <1>5 DEF EvaluationInvariant

(* The validator runs before the evaluator and shares only the graph.      *)
LEMMA ValidatorStep ==
  ASSUME EvaluationInductive, ValidatorNext, UNCHANGED evaluatorVars
  PROVE  EvaluatorTypeOK' /\ EvaluationInvariant'
<1>1. graph' = graph /\ verdict = Pending
  BY AnswerStep DEF EvaluationInductive, InductiveInvariant
<1>2. /\ snapshot' = snapshot /\ outcome' = outcome /\ evalPc' = evalPc
      /\ evalCall' = evalCall /\ evalStack' = evalStack /\ cache' = cache
      /\ evaluations' = evaluations
      /\ EvaluatorTypeOK /\ EvaluationInvariant
  BY DEF evaluatorVars, EvaluationInductive
<1>3. evalPc \notin {"enter", "resume"}
  BY <1>1, <1>2 DEF EvaluationInvariant, StartsAccepted, Pending, Accept, Verdict
<1>4. Begun' = Begun
  BY <1>2 DEF Begun
<1>5. EvaluatorTypeOK'
  BY <1>2, <1>3 DEF EvaluatorTypeOK
<1>6. StartsAccepted' /\ WorkIsCounted' /\ CallIsRequired'
  BY <1>1, <1>2, <1>3, <1>4 DEF EvaluationInvariant, StartsAccepted, WorkIsCounted, CallIsRequired
<1>7. NoReentry' /\ LookupsSucceed' /\ CacheIsComplete'
  BY <1>1, <1>2 DEF EvaluationInvariant, NoReentry, LookupsSucceed, CacheIsComplete
<1> QED
  BY <1>2, <1>3, <1>5, <1>6, <1>7 DEF EvaluationInvariant

(* A step in which nothing happens changes nothing of the above.           *)
LEMMA StutterStep ==
  ASSUME EvaluationInductive, UNCHANGED vars
  PROVE  EvaluatorTypeOK' /\ EvaluationInvariant'
<1>1. /\ graph' = graph /\ verdict' = verdict
      /\ snapshot' = snapshot /\ outcome' = outcome /\ evalPc' = evalPc
      /\ evalCall' = evalCall /\ evalStack' = evalStack /\ cache' = cache
      /\ evaluations' = evaluations
      /\ EvaluatorTypeOK /\ EvaluationInvariant
  BY DEF vars, validatorVars, evaluatorVars, EvaluationInductive
<1>2. Begun' = Begun
  BY <1>1 DEF Begun
<1>3. EvaluatorTypeOK'
  BY <1>1 DEF EvaluatorTypeOK
<1>4. StartsAccepted' /\ WorkIsCounted' /\ CallIsRequired'
  BY <1>1, <1>2 DEF EvaluationInvariant, StartsAccepted, WorkIsCounted, CallIsRequired
<1>5. NoReentry' /\ LookupsSucceed' /\ CacheIsComplete'
  BY <1>1 DEF EvaluationInvariant, NoReentry, LookupsSucceed, CacheIsComplete
<1>6. evalPc' \in {"enter", "resume"} => WorkIsOrdered' /\ RootIsEvaluated'
  <2>1. WorkIsOrdered' <=> WorkIsOrdered
    BY <1>1 DEF WorkIsOrdered, Work
  <2>2. RootIsEvaluated' <=> RootIsEvaluated
    BY <1>1 DEF RootIsEvaluated
  <2>3. evalPc \in {"enter", "resume"} => WorkIsOrdered /\ RootIsEvaluated
    BY <1>1 DEF EvaluationInvariant
  <2> QED
    BY <1>1, <2>1, <2>2, <2>3
<1> QED
  BY <1>3, <1>4, <1>5, <1>6 DEF EvaluationInvariant

-----------------------------------------------------------------------------
(* The theorems.                                                           *)

(* The inductive invariant holds before evaluate has done anything.        *)
LEMMA EvaluationBase ==
  ASSUME EvaluationInit
  PROVE  EvaluationInductive
<1> USE DEF EvaluationInit
<1>1. InductiveInvariant
  BY InductionBase
<1>2. DOMAIN evalStack = {} /\ Begun = {}
  BY DEF Begun
<1>3. EvaluatorTypeOK
  BY EmptySeq DEF EvaluatorTypeOK
<1>4. StartsAccepted /\ WorkIsCounted /\ CallIsRequired
  BY <1>2 DEF StartsAccepted, WorkIsCounted, CallIsRequired
<1>5. NoReentry /\ LookupsSucceed /\ CacheIsComplete
  BY <1>2 DEF NoReentry, LookupsSucceed, CacheIsComplete
<1> QED
  BY <1>1, <1>3, <1>4, <1>5 DEF EvaluationInductive, EvaluationInvariant

(* Every step of validate and evaluate preserves the inductive invariant.  *)
LEMMA EvaluationStep ==
  ASSUME EvaluationInductive, [EvaluationNext]_vars
  PROVE  EvaluationInductive'
<1>1. InductiveInvariant
  BY DEF EvaluationInductive
<1>2. [ValidatorNext]_validatorVars
  BY DEF EvaluationNext, vars
<1>3. InductiveInvariant'
  BY <1>1, <1>2, InductionStep
<1>4. EvaluatorTypeOK' /\ EvaluationInvariant'
  <2>1. CASE ValidatorNext /\ UNCHANGED evaluatorVars
    BY <2>1, ValidatorStep
  <2>2. CASE EvaluatorNext /\ UNCHANGED validatorVars
    <3>1. CASE EvaluateRoot
      BY <2>2, <3>1, EvaluateRootStep
    <3>2. CASE ReturnCached \/ BeginNode
      BY <2>2, <3>2, ReturnCachedStep, BeginNodeStep
    <3>3. CASE DemandNode \/ CacheValue
      BY <2>2, <3>3, DemandNodeStep, CacheValueStep
    <3>4. CASE ReturnValidationError \/ AbortEvaluation \/ ReturnResult
      BY <2>2, <3>4, EndStep
    <3> QED
      BY <2>2, <3>1, <3>2, <3>3, <3>4 DEF EvaluatorNext, EvaluateNode
  <2>3. CASE UNCHANGED vars
    BY <2>3, StutterStep
  <2> QED
    BY <2>1, <2>2, <2>3 DEF EvaluationNext
<1> QED
  BY <1>3, <1>4 DEF EvaluationInductive

(* Every state of every evaluation satisfies the inductive invariant.      *)
LEMMA EvaluationInduction == EvaluationSpec => []EvaluationInductive
<1>1. EvaluationInit => EvaluationInductive
  BY EvaluationBase
<1>2. EvaluationInductive /\ [EvaluationNext]_vars => EvaluationInductive'
  BY EvaluationStep
<1> QED
  BY <1>1, <1>2, PTL DEF EvaluationSpec

(* The variables of the evaluator keep their types.                        *)
THEOREM EvaluatorTypeCorrectness == EvaluationSpec => []EvaluatorTypeOK
<1>1. EvaluationInductive => EvaluatorTypeOK
  BY DEF EvaluationInductive
<1> QED
  BY <1>1, EvaluationInduction, PTL

(* evaluate_node needs no cycle check: no node is entered while it is      *)
(* being evaluated, so the recursion is no deeper than the graph is large. *)
THEOREM RecursionIsFinite == EvaluationSpec => []NoReentry
<1>1. EvaluationInductive => NoReentry
  BY DEF EvaluationInductive, EvaluationInvariant
<1> QED
  BY <1>1, EvaluationInduction, PTL

(* Evaluator::node needs no error for an unknown node.                     *)
THEOREM EvaluatorLookups == EvaluationSpec => []LookupsSucceed
<1>1. EvaluationInductive => LookupsSucceed
  BY DEF EvaluationInductive, EvaluationInvariant
<1> QED
  BY <1>1, EvaluationInduction, PTL

(* However many consumers a node has, its work is done once.               *)
THEOREM SharedWork == EvaluationSpec => []EvaluatedAtMostOnce
<1>1. EvaluationInductive => EvaluatedAtMostOnce
  <2> SUFFICES ASSUME EvaluationInductive, NEW id \in NodeId
               PROVE  evaluations[id] <= 1
    BY DEF EvaluatedAtMostOnce
  <2>1. evaluations[id] = 1 \/ evaluations[id] = 0
    BY DEF EvaluationInductive, EvaluationInvariant, WorkIsCounted
  <2> QED
    BY <2>1
<1> QED
  BY <1>1, EvaluationInduction, PTL

(* Only nodes that the result requires are evaluated at all.               *)
THEOREM DemandDriven == EvaluationSpec => []OnlyRequiredWork
<1>1. EvaluationInductive => OnlyRequiredWork
  BY DEF EvaluationInductive, EvaluationInvariant, WorkIsCounted, CallIsRequired,
         OnlyRequiredWork
<1> QED
  BY <1>1, EvaluationInduction, PTL

(* What is cached was computed without error, from what is cached.         *)
THEOREM CachedValuesAreComplete == EvaluationSpec => []CacheIsComplete
<1>1. EvaluationInductive => CacheIsComplete
  BY DEF EvaluationInductive, EvaluationInvariant
<1> QED
  BY <1>1, EvaluationInduction, PTL

(* A value is returned only when no node that it requires fails.           *)
LEMMA SuccessIsDeserved ==
  ASSUME EvaluationInductive, ReturnResult
  PROVE  NothingRequiredFails(graph, snapshot)
<1>1. Running /\ evalPc = "resume" /\ evalStack = <<>>
  BY DEF ReturnResult, Running
<1>2. graph.root \in cache /\ cache \subseteq Ids(graph)
  BY <1>1, RunningFacts DEF RootIsEvaluated, WorkIsCounted, Begun
<1>3. \A id \in cache : ~ snapshot[id].fails /\ Needs(graph, snapshot, id) \subseteq cache
  BY <1>1, RunningFacts DEF CacheIsComplete
<1>4. \A id \in Ids(graph) : Required(graph, snapshot, id) => id \in cache
  BY <1>2, <1>3 DEF Required
<1> QED
  BY <1>3, <1>4 DEF NothingRequiredFails

(* Each step of evaluate is a step of its contract or changes nothing that *)
(* the contract speaks of.                                                 *)
LEMMA ContractStep ==
  ASSUME EvaluationInductive, [EvaluationNext]_vars
  PROVE  [ContractNext]_contractVars
<1>1. EvaluatorTypeOK
  BY DEF EvaluationInductive
<1>2. CASE ValidatorNext /\ UNCHANGED evaluatorVars
  <2>1. /\ graph' = graph /\ verdict = Pending
        /\ verdict' = verdict \/ Correct(graph, verdict')
    BY <1>2, AnswerStep DEF EvaluationInductive, InductiveInvariant
  <2>2. UNCHANGED <<snapshot, outcome>>
    BY <1>2 DEF evaluatorVars
  <2> QED
    BY <2>1, <2>2 DEF contractVars, ContractNext, Validate, Decide
<1>3. CASE EvaluatorNext /\ UNCHANGED validatorVars
  <2>1. UNCHANGED <<graph, verdict>>
    BY <1>3 DEF validatorVars
  <2>2. CASE ReturnValidationError
    <3>1. outcome = NoOutcome
      BY <1>1, <2>2 DEF EvaluatorTypeOK, ReturnValidationError
    <3> QED
      BY <2>1, <2>2, <3>1 DEF ReturnValidationError, ContractNext, Refuse
  <2>3. CASE EvaluateRoot
    <3>1. outcome = NoOutcome /\ snapshot = <<>>
      BY <1>1, <2>3
         DEF EvaluatorTypeOK, EvaluateRoot, EvaluationInductive, EvaluationInvariant,
             StartsAccepted
    <3> QED
      BY <2>1, <2>3, <3>1 DEF EvaluateRoot, ContractNext, Start
  <2>4. CASE ReturnCached \/ BeginNode \/ DemandNode \/ CacheValue
    BY <2>1, <2>4 DEF ReturnCached, BeginNode, DemandNode, CacheValue, contractVars
  <2>5. CASE AbortEvaluation \/ ReturnResult
    <3>1. Running /\ evalPc = "resume"
      BY <2>5 DEF AbortEvaluation, ReturnResult, Running
    <3>2. outcome = NoOutcome
      BY <1>1, <3>1 DEF EvaluatorTypeOK
    <3>3. snapshot # <<>>
      <4>1. snapshot \in [Ids(graph) -> Behaviours] /\ graph.root \in Ids(graph)
        BY <3>1, RunningFacts DEF Snapshots
      <4>2. DOMAIN snapshot = Ids(graph) /\ DOMAIN <<>> = {}
        BY <4>1
      <4> QED
        BY <4>1, <4>2
    <3>4. CASE AbortEvaluation
      <4>1. /\ Evaluating.id \in Ids(graph) /\ Required(graph, snapshot, Evaluating.id)
            /\ snapshot[Evaluating.id].fails /\ outcome' = Failure(Evaluating.id)
            /\ snapshot' = snapshot
        BY <3>4, EvaluatingFacts DEF AbortEvaluation
      <4> QED
        BY <2>1, <3>2, <3>3, <4>1 DEF ContractNext, Finish
    <3>5. CASE ReturnResult
      BY <2>1, <3>2, <3>3, <3>5, SuccessIsDeserved DEF ReturnResult, ContractNext, Finish
    <3> QED
      BY <2>5, <3>4, <3>5
  <2> QED
    BY <1>3, <2>2, <2>3, <2>4, <2>5 DEF EvaluatorNext, EvaluateNode
<1>4. CASE UNCHANGED vars
  BY <1>4 DEF vars, validatorVars, evaluatorVars, contractVars
<1> QED
  BY <1>2, <1>3, <1>4 DEF EvaluationNext

(* evaluate implements the safety part of its contract: an invalid graph   *)
(* is refused, an error is the failure of a node that the result requires, *)
(* and a value is returned only when no required node fails.               *)
THEOREM EvaluationImplementsContract ==
  EvaluationSpec => ContractInit /\ [][ContractNext]_contractVars
<1>1. EvaluationInit => ContractInit
  BY DEF EvaluationInit, ValidatorInit, ContractInit
<1>2. EvaluationInductive /\ [EvaluationNext]_vars => [ContractNext]_contractVars
  BY ContractStep
<1> QED
  BY <1>1, <1>2, EvaluationInduction, PTL DEF EvaluationSpec
=============================================================================
