SPECIFICATION Spec
CONSTANTS
  RegionStart = 4
  RegionPages = 3
  FREE = FREE
  ALLOCATED = ALLOCATED
  SwapPages = 8
  Sizes = {1}
  Frames = {1, 2, 3, 4}
  PAGE_OFFSET = 48
  WORD = 64
  INT_PAGES = 8
  PTES = 4
  PDES = 2
  HeadAddrs = {NONE}
  Frees = TRUE
  UseTLB = FALSE
  NONE = NONE
INVARIANTS
  NoFrameLost
CHECK_DEADLOCK FALSE
