SPECIFICATION FairJoinSpec
CONSTANTS
  MaxTables = 3
  MaxRows = 3
  MaxCombos = 8
INVARIANTS
  RowIsComplete
  NothingSkipped
  AnswerIsWhole
PROPERTIES
  ImplementsAnswer
  QueryEnds
CHECK_DEADLOCK FALSE
