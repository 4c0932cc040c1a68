SPECIFICATION Spec
CONSTANTS
  Lines <- MCLines
  MAX_STACK_SIZE = 64
  Computed <- MCComputed
  atoi <- MCatoi
  NULL = NULL
INVARIANTS
  ExpressionsMean
  StatementsMean
  NothingLeftRead
CHECK_DEADLOCK FALSE
