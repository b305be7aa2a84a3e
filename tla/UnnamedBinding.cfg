\* A relation of the catalog is bound to the empty name.
SPECIFICATION CompilationSpec
CONSTANTS
  NoField = NoField
  NotANumeral = NotANumeral
  IntMin <- MCIntMin
  IntMax = 7
  Texts <- MCTexts
  NumeralOf <- MCNumeralOf
  TruthOf <- MCTruthOf
  TextOfInt <- MCTextOfInt
  TextOfTruth <- MCTextOfTruth
  Queries <- MCQueries
  SomeQuery = SomeQuery
  Refs <- MCRefs
  MaxHeight = 4
  Catalog <- UnnamedCatalog
  Programs <- UnnamedPrograms
  Snapshots <- MCSnapshots
INVARIANTS
  NothingPanics
CHECK_DEADLOCK FALSE
