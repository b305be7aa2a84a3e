\* Every reference structure of three nodes, one of the names absent, and
\* duplicate identities, repeated fields, broken rules, bad headers, with the
\* one-step verdict and termination.
SPECIFICATION ValidatorSpec
CONSTANTS
  n1 = n1
  n2 = n2
  n3 = n3
  gone = gone
  f = f
  h = h
  None = None
  NodeId <- MCNodeId
  FieldId <- MCFieldId
  Graphs <- MCGraphs
INVARIANTS
  TraversalInvariant
  InputPropertiesAvailable
  VerdictIsCorrect
PROPERTIES
  ImplementsGraphVerdict
CHECK_DEADLOCK FALSE
