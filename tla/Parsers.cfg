SPECIFICATION Spec
CONSTANTS
  Lines <- MCLines
  Tables = {"T1", "T2"}
  MaxTables = 2
  MaxColumns = 2
  MaxSelected = 2
  MaxString = 2
INVARIANTS
  ScannerInStep
  StatementsAccepted
  OnlyStatementsAccepted
CHECK_DEADLOCK FALSE
