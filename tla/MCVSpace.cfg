SPECIFICATION Spec
CONSTANTS
  RegionStart = 2
  RegionPages = 6
  PAGE_SIZE = 4
  WORD = 64
  Requests = {1, 4, 5, 12}
  HeadStatus = {FREE, ALLOCATED}
  FREE = FREE
  ALLOCATED = ALLOCATED
  MINUS_ONE = MINUS_ONE
INVARIANTS
  TypeOK
  RegionsTile
  NoAdjacentFree
  AllocatedIsLive
  AllocationsDemarcated
PROPERTIES
  ImplementsAddressSpace
  RefusesOnlyWhenFull
CHECK_DEADLOCK FALSE
