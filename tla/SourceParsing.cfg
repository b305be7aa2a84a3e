\* The parser against the grammar and against the text it has read.
SPECIFICATION ParsingSpec
CONSTANTS
  Programs <- MCPrograms
  Phrases <- MCPhrases
  Tokens <- MCTokens
  MaxEdits = 2
  MaxTokens = 13
INVARIANTS
  AcceptsTheGrammar
  TreeShowsTheSource
  ErrorIsWhereItGoesWrong
CHECK_DEADLOCK FALSE
