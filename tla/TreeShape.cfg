SPECIFICATION Spec
CONSTANTS
  Keys = {1, 2, 3, 4, 5, 6, 7, 8, 9, 10}
  Versions <- VersionsOfKey
  MaxChildNumber = 4
INVARIANTS
  ShapeSound
VIEW
  TreeView
CHECK_DEADLOCK FALSE
