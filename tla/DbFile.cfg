SPECIFICATION FairSpec
CONSTANTS
  DB_PAGE_DEF_SIZE = 8
  PageHdrSize = 1
  MetaSize = 2
  DB_FILE_DEF_PAGE_CNT = 3
  ReqSizes = {0, 2, 6}
INVARIANTS
  PagesInUseAllocated
  QueueIsFreeMemory
  CleanPagesCanReturn
PROPERTIES
  FileKeepsObjects
  CallsEnd
CHECK_DEADLOCK FALSE
