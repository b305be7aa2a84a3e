\* What the specification of the documents says of metadata.
SPECIFICATION ExchangeSpec
CONSTANTS
  Identifiers <- MCIdentifiers
  Graphs <- MCGraphs
  Strings <- MCStrings
  Values <- MCValues
  MemberNames <- MCMemberNames
  Extras <- MCExtras
  Metadata <- MCMetadata
  MaxEdits = 1
  Refused = Refused
  Absent = Absent
INVARIANTS
  MetadataIsAnObject
CHECK_DEADLOCK FALSE
