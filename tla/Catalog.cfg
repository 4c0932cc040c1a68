SPECIFICATION Spec
CONSTANTS
  Names = {"items", "customers_2023", "customers_2024"}
  Prefix <- PrefixOf
  Creates <- SomeCreates
  Inserts <- SomeInserts
  MaxRecords = 2
INVARIANTS
  KeysMatchRecords
  PrimaryKeysUnique
PROPERTIES
  InsertReadsBack
  ImplementsRelations
VIEW
  CatalogView
