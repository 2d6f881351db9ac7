SPECIFICATION KernelSpec
CONSTANTS
  MB = 2
  MinAddr = 2
  Size = 12
  MaxBytes = 5
  SYSERR = SYSERR
  Procs = {p1, p2, p3}
  NPORTS = 1
  MAXMSGS = 2
  Counts = {1, 3}
  Msgs = {m1}
  MaxSeq = 4
  NBPOOLS = 2
  Numbufs = {1, 2}
  Locs = {x, y}
  MAXMARK = 2
  rxRingSize = 4
  txRingSize = 3
  E1000_RING_BOUNDARY = 2
  Writer1 = p1
  Writer2 = p2
INVARIANTS FreeListSound PortsAndPoolsSound OverrunBounded TerminalSound RingsSound
PROPERTIES PoolSpec 
