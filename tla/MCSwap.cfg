SPECIFICATION Spec
CONSTANTS
  SwapPages = 10
  INT_PAGES = 10
  Pages = {p1, p2, p3, p4}
  StaleBytes = {0, 124}
  NOWHERE = NOWHERE
SYMMETRY MCSymmetry
INVARIANTS
  TypeOK
  SwappedPagesIntact
  SlotsMarked
  ReadsInsideMap
PROPERTIES
  OneBitAtATime
