SPECIFICATION FairSpec
CONSTANTS
  Ranges <- MCRanges
  U32_PAGES = 16
  INT_ORDER = 5
  MaxHeld = 1
  Utilities = {u1, u2}
  Blocks = {0, 1, 2, 4}
  BlockPages = 3
  Sizes = {0, 2, 4}
  OneAtATime = TRUE
  OfflineRemovable = FALSE
INVARIANTS
  TypeOK
  PoolsTile
  PagesAccounted
  RunRemovable
  PooledOffline
  GivesUpOnlyWhenNone
PROPERTIES
  UtilityEnds
  AddsOnlyNewMemory
