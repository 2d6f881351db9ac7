SPECIFICATION StraySpec
CONSTANTS
  p1 = p1
  p2 = p2
  Procs = {p1, p2}
  NULLPROC = NULLPROC
  NULL = NULL
  F = 2
  S = 2
  VS = 2
  NT = 2
  MaxHeap = 3
  PAGE_SIZE = 2
  UINT = 64
  V = 3
  MaxCreate = 2
  HeapOf <- HeapShares
  Sizes = {2}
INVARIANTS TypeOK MapsConsistent NoLeak StackResident TLBCoherent QuotaExact OnlyOwnedLive
PROPERTIES OnlyStraysHalt PrivateMemory
