\* The codec of Shape IR documents, with the text changed on its way.
SPECIFICATION ExchangeSpec
CONSTANTS
  Identifiers <- MCIdentifiers
  Graphs <- MCGraphs
  Strings <- MCStrings
  Values <- MCValues
  MemberNames <- MCMemberNames
  Extras <- MCExtras
  Metadata <- MCMetadata
  MaxEdits = 1
  Refused = Refused
  Absent = Absent
INVARIANTS
  GraphsSurviveExchange
  NothingIsPassedOver
CHECK_DEADLOCK FALSE
