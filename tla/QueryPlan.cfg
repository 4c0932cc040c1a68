SPECIFICATION Spec
CONSTANTS
  NULL = NULL
  Names <- MCNames
  Schemas <- MCSchemas
  Prefix <- MCPrefix
  TableLists <- MCTableLists
  SelectLists <- MCSelectLists
  WhereClauses <- MCWhereClauses
INVARIANTS
  BoundAsNamed
  PerTableAgrees
PROPERTIES
  PlanEnds
CHECK_DEADLOCK FALSE
