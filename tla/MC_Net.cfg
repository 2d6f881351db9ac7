CONSTANTS
  p1 = p1
  p2 = p2
  Users = {p1, p2}
  Hosts = {2, 3, 4}
  OtherMessages = {"SYSERR", "other"}
  ARP_SIZ = 2
  ARP_RETRY = 2
  UDP_SLOTS = 2
  UDP_QSIZ = 1
  ICMP_SLOTS = 3
  ICMP_QSIZ = 1
  IP_OQSIZ = 1
  Endpoints <- TwoEndpoints
  UdpIn <- UdpArrivals
  UdpOut <- UdpOutputs
  Pings = {2}
  IcmpIn <- IcmpArrivals
  IcmpOut <- IcmpOutputs
SPECIFICATION Spec
INVARIANTS CacheSound StackSound 
PROPERTIES NetGoesOn
