\* The declarations of trees of four query expressions, through all phases.
SPECIFICATION PhasesSpec
CONSTANTS
  x = x
  y = y
  z = z
  None = None
  QueryId <- TreeQueryId
  Name = {x, y, z}
  Programs <- MCPrograms
INVARIANTS
  LookupsAreAnswered
  DeclarationTypedOnce
  LoweredWhenNeeded
CHECK_DEADLOCK FALSE
