\* From the syntax of a query expression to its rows.
SPECIFICATION CompilationSpec
CONSTANTS
  NoField = NoField
  NotANumeral = NotANumeral
  IntMin <- MCIntMin
  IntMax = 7
  Texts <- MCTexts
  NumeralOf <- MCNumeralOf
  TruthOf <- MCTruthOf
  TextOfInt <- MCTextOfInt
  TextOfTruth <- MCTextOfTruth
  Queries <- MCQueries
  SomeQuery = SomeQuery
  Refs <- MCRefs
  MaxHeight = 4
  Catalog <- MCCatalog
  Programs <- MCPrograms
  Snapshots <- MCSnapshots
INVARIANTS
  NothingPanics
  AnswerFitsTypes
  ParenthesesDoNotMatter
  OperandOrderDoesNotMatter
PROPERTIES
  ImplementsQueryService
CHECK_DEADLOCK FALSE
