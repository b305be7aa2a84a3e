\* Order, Slice, rankings and what projections keep of them.
SPECIFICATION ChainSpec
CONSTANTS
  NoField = "no field"
  NotANumeral = NotANumeral
  IntMin <- MCIntMin
  IntMax = 7
  Texts <- MCTexts
  NumeralOf <- MCNumeralOf
  TruthOf <- MCTruthOf
  TextOfInt <- MCTextOfInt
  TextOfTruth <- MCTextOfTruth
  Queries <- MCQueries
  Refs <- MCRefs
  MaxHeight = 3
  SourceSchema <- MCSourceSchema
  Relations <- OrderingRelations
  Operations <- OrderingOperations
  Sides <- OrderingSides
  MaxNodes = 5
INVARIANTS
  RowsConformToSchema
  NothingUnreachable
  ResultIndependentOfHostOrder
  ValueKeysIdentifyRows
  PeerConstantsAreConstant
PROPERTIES
CHECK_DEADLOCK FALSE
