SPECIFICATION HeapSpec
CONSTANTS
  Total = 9
  Align = 2
  Sizes = {1, 3, 4, 9}
  Addresses <- MCAddresses
  Ptr = {p1, p2, p3, p4, p5}
SYMMETRY PtrSymmetry
CHECK_DEADLOCK FALSE
INVARIANTS BlocksTile FreeListExact HeapExact
PROPERTIES BlocksInUseStay ReleaseMergesRight Implements
