SPECIFICATION HashSpec
CONSTANTS
  Key <- Keys
  Value = {a, b}
  HashOf <- Hashes
  Primes <- PrimeTable
  MinSizes = {1, 2}
  NULL = NULL
INVARIANTS
  EntriesInTheirChains
  WalksMeetAll
PROPERTIES
  CallsAreMapSteps
CHECK_DEADLOCK FALSE
