SPECIFICATION Spec
CONSTANTS
  SwapPages = 8
  INT_PAGES = 8
  Pages = {p1, p2, p3}
  StaleBytes = {254}
  NOWHERE = NOWHERE
SYMMETRY MCSymmetry
INVARIANTS
  SwappedPagesIntact
