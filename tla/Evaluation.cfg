\* validate and evaluate_node together, on every snapshot of small graphs,
\* against the contract of evaluate, with termination.
SPECIFICATION EvaluationSpec
CONSTANTS
  n1 = n1
  n2 = n2
  n3 = n3
  gone = gone
  None = None
  NodeId <- MCNodeId
  FieldId = {}
  Graphs <- MCGraphs
  Behaviours <- MCBehaviours
INVARIANTS
  NoReentry
  LookupsSucceed
  EvaluatedAtMostOnce
  OnlyRequiredWork
  CacheIsComplete
PROPERTIES
  ImplementsEvaluationContract
CHECK_DEADLOCK FALSE
