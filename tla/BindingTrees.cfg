\* Trees of four query expressions, over catalogs that have every name, or
\* some of them twice or not at all, with the promise of bind and termination.
SPECIFICATION BinderSpec
CONSTANTS
  x = x
  y = y
  z = z
  None = None
  QueryId <- TreeQueryId
  Name = {x, y, z}
  Programs <- MCPrograms
INVARIANTS
  ScopingIsLexical
  BindingIsActive
  BoundAtMostOnce
  VerdictIsCorrect
PROPERTIES
  ImplementsBindingVerdict
CHECK_DEADLOCK FALSE
