------------------------------- MODULE MC_Net -------------------------------
(***************************************************************************)
(* The network code, one part at a time: "arp"; the stack as UDP uses it,  *)
(* with two endpoints of which one matches what the other matches, packets *)
(* from another host and to itself; and as ping uses it; and the router of *)
(* the forwarding version, with conversations of two hosts that expire     *)
(* ("nat"), and with pings and a table that overflows ("ping").            *)
(***************************************************************************)
EXTENDS Integers, Sequences, TLAPS

CONSTANTS
  p1, p2, Users,                     \* the processes; p1 and p2 are two of them
  Hosts, OtherMessages, ARP_SIZ, ARP_RETRY, \* the ARP cache
  UDP_SLOTS, UDP_QSIZ, ICMP_SLOTS, ICMP_QSIZ, IP_OQSIZ,
  Endpoints, UdpIn, UdpOut,          \* what programs register, receive and send
  Pings, IcmpIn, IcmpOut

VARIABLES
  part,
  arpcache, arpat, dest, wrong, arpmsg, arpwaiting, disturbed,
  udptab, icmptab, ipoqueue, pool, at, prmsg, waiting, lost, shared, fault,
  if_tab, started, rpool, raw, rat, rqueue, nat_udp, nat_icmp, port, clktime, talk, pinged, raced, rfault

A == INSTANCE Arp WITH
       Procs <- Users, Addrs <- Hosts, Others <- OtherMessages, at <- arpat, prmsg <- arpmsg, waiting <- arpwaiting

U == INSTANCE NetStackProofs WITH
       ICMP_SLOTS <- 0, Pings <- {}, Arrivals <- UdpIn, Outputs <- UdpOut
I == INSTANCE NetStackProofs WITH
       UDP_SLOTS <- 0, Endpoints <- {}, Arrivals <- IcmpIn, Outputs <- IcmpOut

ASSUME NetNumbers == U!NetAssumption /\ I!NetAssumption

\* The values that TLC takes for the constants.
Packet(proto, src, dst, sport, dport) ==
  [proto |-> proto, src |-> src, dst |-> dst, sport |-> sport, dport |-> dport]
TwoEndpoints == {<<0, 0, 7>>, <<2, 9, 7>>}
UdpArrivals == {Packet("udp", 2, 1, 9, 7), Packet("none", 0, 0, 0, 0)}
UdpOutputs == {Packet("udp", 1, 1, 7, 7), Packet("udp", 1, 0, 7, 7)}
IcmpArrivals == {Packet("request", 2, 1, 0, 5), Packet("reply", 2, 1, 0, 0)}
IcmpOutputs == {Packet("request", 1, 1, 0, 0), Packet("request", 1, 2, 0, 0)}

Frame(i, proto, src, dst, sport, dport) ==
  [iface |-> i, proto |-> proto, src |-> src, dst |-> dst, sport |-> sport, dport |-> dport]
N == INSTANCE Router WITH
       NIFACES <- 3, IF_QUEUESIZE <- 1, IP_OQSIZ <- 1, NATUDPSIZ <- 2, NATICMPSIZ <- 1, NAT_TIMEOUT <- 0,
       ICMP_SLOTS <- 1, PORT_LOW <- 0, PORT_HIGH <- 2, PORT_MOD <- 2, MaxTime <- 2, Roles <- {-1},
       Frames <- {Frame(1, "udp", "h1", "srv", 7, 7), Frame(2, "udp", "h2", "srv", 7, 7),
                  Frame(0, "udp", "srv", "public", 7, 0)},
       pool <- rpool, at <- rat, ipoqueue <- rqueue, fault <- rfault
P == INSTANCE Router WITH
       NIFACES <- 3, IF_QUEUESIZE <- 1, IP_OQSIZ <- 1, NATUDPSIZ <- 1, NATICMPSIZ <- 1, NAT_TIMEOUT <- 1,
       ICMP_SLOTS <- 1, PORT_LOW <- 2, PORT_HIGH <- 4, PORT_MOD <- 5, MaxTime <- 0, Roles <- {-1, 1},
       Frames <- {Frame(1, "request", "h1", "srv", 0, 9), Frame(2, "request", "h2", "srv2", 0, 9),
                  Frame(0, "reply", "srv", "public", 0, 1), Frame(0, "reply", "srv", "public", 0, 0),
                  Frame(0, "reply", "srv", "bcast", 0, 0), Frame(0, "request", "srv", "public", 0, 0),
                  Frame(1, "udp", "h1", "srv", 7, 7), Frame(2, "udp", "h2", "srv", 7, 7),
                  Frame(1, "reply", "h1", "router1", 0, 0), Frame(1, "reply", "h1", "srv", 0, 0),
                  Frame(0, "none", "", "", 0, 0)},
       pool <- rpool, at <- rat, ipoqueue <- rqueue, fault <- rfault

arpvars == <<arpcache, arpat, dest, wrong, arpmsg, arpwaiting, disturbed>>
netvars == <<udptab, icmptab, ipoqueue, pool, at, prmsg, waiting, lost, shared, fault>>
natvars == <<if_tab, started, rpool, raw, rat, rqueue, nat_udp, nat_icmp, port, clktime, talk, pinged, raced, rfault>>
vars == <<part, arpvars, netvars, natvars>>

Init ==
  /\ A!Init
  /\ \/ part = "icmp" /\ I!Init
     \/ part \in {"arp", "udp", "nat", "ping"} /\ U!Init
  /\ IF part = "ping" THEN P!Init ELSE N!Init

Next ==
  /\ UNCHANGED part
  /\ \/ part = "arp" /\ A!Next /\ UNCHANGED <<netvars, natvars>>
     \/ part = "udp" /\ U!Next /\ UNCHANGED <<arpvars, natvars>>
     \/ part = "icmp" /\ I!Next /\ UNCHANGED <<arpvars, natvars>>
     \/ part = "nat" /\ N!Next /\ UNCHANGED <<arpvars, netvars>>
     \/ part = "ping" /\ P!Next /\ UNCHANGED <<arpvars, netvars>>

\* The clock runs, and a process that can go on does.  Each part has a few fair
\* actions; the k-th of all parts make one, as only those of one part can happen.
Fair(k) ==
  \/ /\ part = "arp" /\ UNCHANGED <<part, netvars, natvars>>
     /\ \/ k = 1 /\ A!Step(p1)
        \/ k = 2 /\ A!Step(p2)
  \/ /\ part = "udp" /\ UNCHANGED <<part, arpvars, natvars>>
     /\ \/ k = 1 /\ U!Others(U!NetinStarts)
        \/ k = 2 /\ U!Others(U!GoesOn(p1))
        \/ k = 3 /\ U!Others(U!GoesOn(p2))
        \/ k = 4 /\ U!Others(U!GoesOn("netin"))
        \/ k = 5 /\ U!Others(U!GoesOn("ipout"))
  \/ /\ part = "icmp" /\ UNCHANGED <<part, arpvars, natvars>>
     /\ \/ k = 1 /\ I!Others(I!NetinStarts)
        \/ k = 2 /\ I!Others(I!GoesOn(p1))
        \/ k = 3 /\ I!Others(I!GoesOn(p2))
        \/ k = 4 /\ I!Others(I!GoesOn("netin"))
        \/ k = 5 /\ I!Others(I!GoesOn("ipout"))
        \/ k = 6 /\ I!ipout
  \/ /\ part = "nat" /\ UNCHANGED <<part, arpvars, netvars>>
     /\ \/ k \in 1 .. 3 /\ N!Others(N!NetinSteps(k - 1))
        \/ k = 4 /\ N!Running(N!ipout)
        \/ k = 5 /\ N!Running(N!ip_out)
Fairness == \A k \in 1 .. 6 : WF_vars(Fair(k))

Spec == Init /\ [][Next]_vars /\ Fairness

\* The properties of the modules, each about its part.
FaultCause == [][IF part = "icmp" THEN I!FaultStep ELSE U!FaultStep]_vars
RepliesRouted == IF part = "ping" THEN P!RepliesRouted ELSE N!RepliesRouted
PingsMatch == IF part = "ping" THEN P!PingsMatch ELSE N!PingsMatch
RouterBuffers == IF part = "ping" THEN P!RouterBuffers ELSE N!RouterBuffers

\* Nobody waits for ever: arp_resolve ends, netin gets a buffer unless programs
\* leave all buffers in the queues of their endpoints, and rawin gets one.  (The
\* two processes of "arp" do the same, and one stands for both.)
Waits ==
  \/ part = "arp" /\ arpat[p1] # A!Outside
  \/ part \in {"udp", "icmp"} /\ U!NetinWaits
  \/ part = "nat" /\ N!RawinWaits
GoesOn ==
  \/ part = "arp" /\ arpat[p1] = A!Outside
  \/ part = "udp" /\ U!NetinRuns
  \/ part = "icmp" /\ I!NetinRuns
  \/ part = "nat" /\ N!RawinReads
NobodyStuck == Waits ~> GoesOn

\* What a run checks of the ARP cache, of the stack and of the
\* router (arp.c; udp.c, icmp.c, net.c; nat.c).
CacheSound == A!CacheSound
StackSound == IF part = "icmp" THEN I!StackSound ELSE U!StackSound
RouterSound == RepliesRouted /\ PingsMatch /\ RouterBuffers
NetGoesOn == FaultCause /\ NobodyStuck

-----------------------------------------------------------------------------
(* Whatever the other parts do, a step is one of the part or leaves its    *)
(* variables alone, so what the modules prove holds here.                  *)

\* However many processes, hosts and slots there are, the ARP cache never holds
\* one host's address under another's, and arp_resolve is told the address that
\* it asked for unless it was disturbed (arp_resolve, arp_in, arp_alloc).
THEOREM CacheAlwaysSound == Spec => []CacheSound
<1>1. Init => A!Inv
  BY A!Starts DEF Init
<1>2. A!Inv /\ [Next]_vars => A!Inv'
  <2> SUFFICES ASSUME A!Inv, [Next]_vars PROVE A!Inv'
    OBVIOUS
  <2>1. [A!Next]_(A!vars)
    BY DEF Next, vars, arpvars, A!vars
  <2> QED BY <2>1, A!Keeps
<1>3. A!Inv => CacheSound
  BY A!InvIsSound DEF CacheSound
<1> QED BY <1>1, <1>2, <1>3, PTL DEF Spec

StackInv == (part = "icmp" => I!NetInv) /\ (part # "icmp" => U!NetInv)

\* Whatever packets come and whatever programs register, send, receive and
\* release, in tables and queues of any size, every network buffer has one owner
\* and a packet wakes the process that waits for it (net.c, ip.c, udp.c, icmp.c).
THEOREM StackIsSound == Spec => []StackSound
<1> USE NetNumbers
<1>1. Init => StackInv
  BY U!NetInit, I!NetInit DEF Init, StackInv
<1>2. StackInv /\ [Next]_vars => StackInv'
  <2> SUFFICES ASSUME StackInv, [Next]_vars PROVE StackInv'
    OBVIOUS
  <2>1. part' = part
    BY DEF Next, vars
  <2>2. CASE part = "icmp"
    <3>1. [I!Next]_(I!vars)
      BY <2>2 DEF Next, vars, netvars, I!vars
    <3> QED BY <2>1, <2>2, <3>1, I!NetNext DEF StackInv
  <2>3. CASE part # "icmp"
    <3>1. [U!Next]_(U!vars)
      BY <2>3 DEF Next, vars, netvars, U!vars
    <3> QED BY <2>1, <2>3, <3>1, U!NetNext DEF StackInv
  <2> QED BY <2>2, <2>3
<1>3. StackInv => StackSound
  BY U!InvIsSound, I!InvIsSound DEF StackInv, StackSound
<1> QED BY <1>1, <1>2, <1>3, PTL DEF Spec

=============================================================================
