\* Joins, groups, set operations and sums.
SPECIFICATION ChainSpec
CONSTANTS
  NoField = "no field"
  NotANumeral = NotANumeral
  IntMin <- MCIntMin
  IntMax = 7
  Texts <- MCTexts
  NumeralOf <- MCNumeralOf
  TruthOf <- MCTruthOf
  TextOfInt <- MCTextOfInt
  TextOfTruth <- MCTextOfTruth
  Queries <- MCQueries
  Refs <- MCRefs
  MaxHeight = 3
  SourceSchema <- MCSourceSchema
  Relations <- GroupingRelations
  Operations <- GroupingOperations
  Sides <- GroupingSides
  MaxNodes = 4
INVARIANTS
  FailureIndependentOfHostOrder
PROPERTIES
  SetMultiplicities
  JoinMultiplicities
  GroupsDivideInput
CHECK_DEADLOCK FALSE
