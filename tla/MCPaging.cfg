SPECIFICATION FairSpec
CONSTANTS
  RegionStart = 4
  RegionPages = 3
  FREE = FREE
  ALLOCATED = ALLOCATED
  SwapPages = 8
  Sizes = {1, 2, 3}
  Frames = {1, 2, 3, 4, 5}
  PAGE_OFFSET = 48
  WORD = 64
  INT_PAGES = 8
  PTES = 2
  PDES = 2
  HeadAddrs = {NONE}
  Frees = FALSE
  UseTLB = FALSE
  NONE = NONE
INVARIANTS
  TypeOK
  FrameUsedOnce
  NoFrameLost
  PagesKeepValues
  SlotsExact
PROPERTIES
  FaultServed
CHECK_DEADLOCK FALSE
