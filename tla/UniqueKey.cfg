SPECIFICATION Spec
CONSTANTS
  Names = {"items"}
  Prefix <- PrefixOf
  Creates <- StringAndInt
  Inserts <- SomeInserts
  MaxRecords = 2
PROPERTY
  RefusedForSameKey
