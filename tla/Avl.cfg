SPECIFICATION Spec
CONSTANTS
  Node <- Nodes
  MaxGaps = 2
  KeyOf <- KeyOfNode
INVARIANTS
  TreeSound
PROPERTIES
  CallsAreMapSteps
