SPECIFICATION Spec
CONSTANTS
  Keys = {1, 2, 3, 4, 5, 6, 7, 8}
  Versions <- VersionsOfKey
  MaxChildNumber = 4
INVARIANTS
  QueriesFind
  ScansInOrder
PROPERTIES
  StepsOfMap
CHECK_DEADLOCK FALSE
