SPECIFICATION Spec
CONSTANTS
  DB_PAGE_DEF_SIZE = 10
  PageHdrSize = 1
  MetaSize = 2
  VmPages = {1, 2}
  ReqSizes = {0, 3}
INVARIANTS
  BasesFollowMapping
  QueueSound
  ChainsGood
  QueueSorted
  EmptyPageIsWhole
PROPERTIES
  OnlyFailureDropsBlocks
  ImplementsStore
CHECK_DEADLOCK FALSE
