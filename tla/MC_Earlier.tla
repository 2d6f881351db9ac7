----------------------------- MODULE MC_Earlier -----------------------------
(***************************************************************************)
(* The earlier Xinu of the forwarding version, one part at a time: the     *)
(* linked lists ("queues"); its kernel with processes, messages and the    *)
(* clock ("tasks"), with a semaphore and a buffer pool ("pool"), and with  *)
(* two semaphores and an interrupt handler ("sems"); the endpoints of UDP  *)
(* ("udp") and of ping ("icmp") on two interfaces; and the ARP caches of   *)
(* two interfaces ("arp").  Its router is in MC_Net.                       *)
(***************************************************************************)
EXTENDS Integers, Sequences, TLC

CONSTANTS p1, p2

VARIABLES
  part,
  queuetab, nextqid,
  sys, nextpid, nextsem, buftab, pc, held, halted,
  udptab, icmptab, ipoqueue, pool, free, contents, at, prmsg, waiting, order, replies, lost, fault,
  if_arptab, aat, told, awaiting, mac, evicted

Q == INSTANCE Queues WITH NPROC <- 3, NSEM <- 1, Keys <- {1, 2}

Tasks == INSTANCE OldKernel WITH
  NPROC <- 3, NSEM <- 0, NBPOOLS <- 0, QUANTUM <- 2, INITPRIO <- 2, Units <- 4,
  Prios <- {1, 3}, Delays <- {0, 1}, Counts <- {}, PoolSizes <- {}, MaxCount <- 0,
  Syscalls <- {"create", "resume", "suspend", "kill", "send", "receive", "recvtime", "recvclr",
               "sleepms", "clkhandler", "yield"}
Pool == INSTANCE OldKernel WITH
  NPROC <- 3, NSEM <- 1, NBPOOLS <- 1, QUANTUM <- 2, INITPRIO <- 2, Units <- 5,
  Prios <- {3}, Delays <- {}, Counts <- {0, 2}, PoolSizes <- {2}, MaxCount <- 2,
  Syscalls <- {"create", "resume", "kill", "chprio", "semcreate", "wait", "signal", "signaln", "semdelete",
               "semreset", "mkbufpool", "getbuf", "nbgetbuf", "freebuf"}
Sems == INSTANCE OldKernel WITH
  NPROC <- 3, NSEM <- 2, NBPOOLS <- 0, QUANTUM <- 2, INITPRIO <- 2, Units <- 4,
  Prios <- {0, 3}, Delays <- {}, Counts <- {0}, PoolSizes <- {}, MaxCount <- 1,
  Syscalls <- {"create", "resume", "kill", "semcreate", "wait", "signal", "handler"}

Frame(i, proto, src, dst, sport, dport) ==
  [iface |-> i, proto |-> proto, src |-> src, dst |-> dst, sport |-> sport, dport |-> dport]
\* Endpoints for any interface, for interface 0 and for one host on interface 1.
Request(iface, remip, remport, locport) ==
  [iface |-> iface, remip |-> remip, remport |-> remport, locport |-> locport]
U == INSTANCE Endpoints WITH
  Users <- {p1}, NIFACES <- 2, UDP_SLOTS <- 2, UDP_QSIZ <- 2, ICMP_SLOTS <- 0, ICMP_QSIZ <- 1,
  IP_OQSIZ <- 1, NBUFS <- 3, Pings <- {}, Nets <- 2 :> 1,
  Requests <- {Request(-2, 0, 0, 7), Request(0, 0, 0, 7), Request(1, 2, 9, 7)},
  Arrivals <- {Frame(0, "udp", 2, 1, 9, 7), Frame(1, "udp", 2, 1, 9, 7)},
  Outputs <- {Frame(0, "udp", 1, 2, 0, 9)}
I == INSTANCE Endpoints WITH
  Users <- {p1, p2}, NIFACES <- 2, UDP_SLOTS <- 0, UDP_QSIZ <- 2, ICMP_SLOTS <- 3, ICMP_QSIZ <- 2,
  IP_OQSIZ <- 1, NBUFS <- 3, Requests <- {}, Pings <- {2}, Nets <- 2 :> 1,
  Arrivals <- {Frame(1, "reply", 2, 1, 0, 0), Frame(1, "request", 2, 1, 0, 5), Frame(1, "none", 0, 0, 0, 0)},
  Outputs <- {Frame(1, "request", 1, 1, 0, 0), Frame(1, "request", 1, 2, 0, 0)}

A == INSTANCE ArpIfaces WITH
  Procs <- {p1, p2}, NIFACES <- 2, Addrs <- {2, 3}, Private <- {3}, ARP_SIZ <- 1, ARP_RETRY <- 2,
  at <- aat, waiting <- awaiting

queuevars == <<queuetab, nextqid>>
kernelvars == <<sys, nextpid, nextsem, buftab, pc, held, halted>>
endvars == <<udptab, icmptab, ipoqueue, pool, free, contents, at, prmsg, waiting, order, replies, lost, fault>>
arpvars == <<if_arptab, aat, told, awaiting, mac, evicted>>
vars == <<part, queuevars, kernelvars, endvars, arpvars>>

Kernels == {"tasks", "pool", "sems"}
Init ==
  /\ part \in {"queues", "udp", "icmp", "arp"} \cup Kernels
  /\ Q!Init /\ A!Init
  /\ CASE part = "pool" -> Pool!Init [] part = "sems" -> Sems!Init [] OTHER -> Tasks!Init
  /\ IF part = "icmp" THEN I!Init ELSE U!Init

Kernel ==
  \/ part = "tasks" /\ Tasks!Next
  \/ part = "pool" /\ Pool!Next
  \/ part = "sems" /\ Sems!Next
Next ==
  /\ UNCHANGED part
  /\ \/ part = "queues" /\ Q!Next /\ UNCHANGED <<kernelvars, endvars, arpvars>>
     \/ Kernel /\ UNCHANGED <<queuevars, endvars, arpvars>>
     \/ part = "udp" /\ U!Next /\ UNCHANGED <<queuevars, kernelvars, arpvars>>
     \/ part = "icmp" /\ I!Next /\ UNCHANGED <<queuevars, kernelvars, arpvars>>
     \/ part = "arp" /\ A!Next /\ UNCHANGED <<queuevars, kernelvars, endvars>>

\* A process that resolves an address goes on when it can, and the clock runs.
Resolves(p) == part = "arp" /\ A!Step(p) /\ UNCHANGED <<part, queuevars, kernelvars, endvars>>
Fairness == WF_vars(Resolves(p1)) /\ WF_vars(Resolves(p2))

Spec == Init /\ [][Next]_vars /\ Fairness

\* The properties of the modules, each about its part.
OfKernel(tasks, poolp, sems) ==
  CASE part = "tasks" -> tasks [] part = "pool" -> poolp [] part = "sems" -> sems [] OTHER -> TRUE
OfEndpoints(udp, icmp) == CASE part = "udp" -> udp [] part = "icmp" -> icmp [] OTHER -> TRUE

ListsWhole == part = "queues" => Q!ListsWhole
QueuesAreLists == Q!L!Init /\ [][part = "queues" => Q!L!Next]_queuetab
ListsIntact == OfKernel(Tasks!ListsIntact, Pool!ListsIntact, Sems!ListsIntact)
HighestRunsOld == OfKernel(Tasks!HighestRunsOld, Pool!HighestRunsOld, Sems!HighestRunsOld)
MemoryDisjoint == OfKernel(Tasks!MemoryDisjoint, Pool!MemoryDisjoint, Sems!MemoryDisjoint)
ProcessesCounted == OfKernel(Tasks!ProcessesCounted, Pool!ProcessesCounted, Sems!ProcessesCounted)
WaitersCounted == OfKernel(Tasks!WaitersCounted, Pool!WaitersCounted, Sems!WaitersCounted)
BuffersPromised == part = "pool" => Pool!BuffersPromised
EachInOnePlace == OfEndpoints(U!EachInOnePlace, I!EachInOnePlace)
InOrder == OfEndpoints(U!InOrder, I!InOrder)
AtItsEndpoint == OfEndpoints(U!AtItsEndpoint, I!AtItsEndpoint)
ReceiverTold == OfEndpoints(U!ReceiverTold, I!ReceiverTold)
FaultNeedsManyReplies == OfEndpoints(U!FaultNeedsManyReplies, I!FaultNeedsManyReplies)
RightNetwork == part = "arp" => A!RightNetwork
PrivateStayOut == part = "arp" => A!PrivateStayOut
OneWaiterEach == part = "arp" => A!OneWaiterEach

\* arp_resolve ends (the two processes do the same, and one stands for both).
ResolveEnds == A!Resolving(p1) ~> ~ A!Resolving(p1)

\* What a run checks of the lists and the kernel, of the endpoints, and of the caches.
KernelSound ==
  /\ ListsWhole /\ ListsIntact /\ HighestRunsOld /\ MemoryDisjoint
  /\ ProcessesCounted /\ WaitersCounted /\ BuffersPromised
EndpointsSound ==
  /\ EachInOnePlace /\ InOrder /\ AtItsEndpoint /\ ReceiverTold /\ FaultNeedsManyReplies
  /\ RightNetwork /\ PrivateStayOut /\ OneWaiterEach
EarlierSteps == QueuesAreLists /\ ResolveEnds

=============================================================================
