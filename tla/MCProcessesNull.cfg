SPECIFICATION Spec
CONSTANTS
  SwapPages = 8
  INT_PAGES = 8
  Procs = {a, b}
  Pages = {1, 2}
  Frames = {11, 12, 13, 14}
  LateFrames = {13, 14}
  StaleBytes = {0, 254}
  NONE = NONE
INVARIANTS
  NoNullFrame
CHECK_DEADLOCK FALSE
