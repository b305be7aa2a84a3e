\* Two operators, in or beside one another, over leaves of every kind, on every row.
SPECIFICATION Spec
CONSTANTS
  f1 = f1
  f2 = f2
  f3 = f3
  one = one
  none = none
  broken = broken
  NoField = NoField
  NotANumeral = NotANumeral
  IntMin <- MCIntMin
  IntMax = 1
  Texts <- MCTexts
  NumeralOf <- MCNumeralOf
  TruthOf <- MCTruthOf
  TextOfInt <- MCTextOfInt
  TextOfTruth <- MCTextOfTruth
  Queries <- MCQueries
  Schema <- MCSchema
  Rows <- MCRows
  Leaves <- MCLeaves
  Companions <- MCCompanions
  MaxArguments = 3
  MaxSteps = 2
INVARIANTS
  DescriptorIsSound
  DivisionIsExact
  LogicIsKleene
CHECK_DEADLOCK FALSE
