SPECIFICATION Spec
CONSTANTS
  RegionStart = 4
  RegionPages = 2
  FREE = FREE
  ALLOCATED = ALLOCATED
  SwapPages = 8
  Sizes = {1, 2}
  Frames = {1, 2, 3, 4}
  PAGE_OFFSET = 48
  WORD = 64
  INT_PAGES = 8
  PTES = 4
  PDES = 2
  HeadAddrs = {NONE, 5}
  Frees = TRUE
  UseTLB = TRUE
  NONE = NONE
INVARIANTS
  MappedOnlyWhereAllocated
CHECK_DEADLOCK FALSE
