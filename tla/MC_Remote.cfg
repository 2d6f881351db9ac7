CONSTANTS
  Procs = {p1, p2}
  Values = {1}
  NONE = NONE
  DiskBlocks = {1, 2}
  RD_BUFFS = 2
  RD_RETRIES = 2
  DiskCalls = 5
  RF_RETRIES = 2
  MaxPos = 2
  FileCap = 2
  FileCalls = 3
  Sizes = {2, 3}
  Capacity = 2
  TFTP_MAXRETRIES = 2
  Ports = {1, 2}
  ServerRepeats = 2
  Servers = {s1, s2}
  DHCP_RETRY = 2
  DHCP_READS = 3
  InCap = 2
SPECIFICATION Spec
INVARIANTS DisksSound FilePrefix AddressBound
PROPERTIES CallsEnd
