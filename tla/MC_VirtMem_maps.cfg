SPECIFICATION Spec
CONSTANTS
  p1 = p1
  p2 = p2
  Procs = {p1, p2}
  NULLPROC = NULLPROC
  NULL = NULL
  F = 1
  S = 1
  VS = 2
  NT = 2
  MaxHeap = 2
  PAGE_SIZE = 2
  UINT = 64
  V = 3
  MaxCreate = 3
  HeapOf <- HeapAll
  Sizes = {2}
INVARIANTS TableInv NoAssertionFires
