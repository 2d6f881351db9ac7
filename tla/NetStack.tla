------------------------------ MODULE NetStack ------------------------------
(***************************************************************************)
(* The protocol stack above the Ethernet driver: netin, IP, ICMP, UDP, the *)
(* output queue with its process ipout, and the pool of network buffers    *)
(* they share.  A process runs with interrupts off from one place where it *)
(* may block to the next: getbuf, recvtime, and arp_resolve, whose outcome *)
(* (module Arp) does not matter here, since the packet is freed whether it *)
(* was sent or not.  A call that needs a buffer takes it in a step of its  *)
(* own.  The network is external: any packet may come at any time.         *)
(***************************************************************************)
EXTENDS Integers, Sequences, FiniteSets, FiniteSetsExt, Semaphore

CONSTANTS
  Users,
  UDP_SLOTS, UDP_QSIZ, ICMP_SLOTS, ICMP_QSIZ, IP_OQSIZ,
  Endpoints,    \* what programs register: <<remip, remport, locport>>, 0 means any
  Pings,        \* what programs register for pings: addresses
  Arrivals,     \* the packets that come from the network
  Outputs       \* the packets that programs send, see Packet

VARIABLES
  udptab, icmptab, ipoqueue, pool,
  at,           \* where each process is: [pc, slot, pkt]
  prmsg,        \* the processes that have a message
  waiting,      \* the processes in recvtime whose time is not over
  lost,         \* history: buffers whose last pointer was overwritten
  shared,       \* history: two processes used one endpoint at the same time
  fault         \* a packet was taken from a place where there is none

vars == <<udptab, icmptab, ipoqueue, pool, at, prmsg, waiting, lost, shared, fault>>

UdpSlots == 0 .. (UDP_SLOTS - 1)
IcmpSlots == 0 .. (ICMP_SLOTS - 1)
NetProcs == {"netin", "ipout"}
Procs == Users \cup NetProcs
ME == 1         \* NetData.ipucast; other hosts have other numbers, 0 is none

\* A packet that is not freed unseen: proto is "udp", "request" or "reply", or
\* "none" for all that arp_in, ip_in and icmp_in take or drop without a trace
\* here; sport and dport are the ports, dport is net_icident of a ping.
Packet(proto, src, dst, sport, dport) ==
  [proto |-> proto, src |-> src, dst |-> dst, sport |-> sport, dport |-> dport]
NOPKT == Packet("none", 0, 0, 0, 0)
IDLE == [pc |-> "idle", slot |-> 0, pkt |-> NOPKT]

\* Counts are numbers, addresses and ports too, and there are finitely many processes.
Packets == [proto : {"udp", "request", "reply", "none"}, src : Nat, dst : Nat, sport : Nat, dport : Nat]
NetAssumption ==
  /\ IsFiniteSet(Users)
  /\ {UDP_SLOTS, UDP_QSIZ, ICMP_SLOTS, ICMP_QSIZ, IP_OQSIZ} \subseteq Nat
  /\ Endpoints \subseteq Nat \X Nat \X Nat /\ Pings \subseteq Nat
  /\ \A pkt \in Arrivals \cup Outputs : pkt \in Packets

nbufs == UDP_SLOTS * UDP_QSIZ + ICMP_SLOTS * ICMP_QSIZ + 1
udp_init == udptab = [s \in UdpSlots |-> [udstate |-> "FREE", udend |-> <<0, 0, 0>>, udpid |-> {}, udqueue |-> <<>>]]
icmp_init == icmptab = [s \in IcmpSlots |-> [icstate |-> "FREE", icremip |-> 0, icpid |-> {},
                                             ichead |-> 0, ictail |-> 0, iccount |-> 0, icqueue |-> {}]]
net_init ==
  /\ pool = semcreate(nbufs)
  /\ udp_init /\ icmp_init
  /\ ipoqueue = <<>>

Init ==
  /\ net_init
  /\ at = [x \in Procs |-> IDLE]
  /\ prmsg = {} /\ waiting = {} /\ lost = 0 /\ shared = FALSE /\ fault = "none"

-----------------------------------------------------------------------------
\* getbuf, until the process has the buffer.
GetsBuffer(x, position) ==
  /\ pool' = wait(pool, x)
  /\ at' = [at EXCEPT ![x] = position]
HasBuffer(x, pc) == at[x].pc = pc /\ ~ Waits(pool, x)
freebuf == pool' = signal(pool)
Done(x) == at' = [at EXCEPT ![x] = IDLE]

\* send to the processes S, one or none.
Tell(S) == prmsg' = prmsg \cup S /\ waiting' = waiting \ S

\* recvclr and recvtime.
AwaitsMessage(u) == prmsg' = prmsg \ {u} /\ waiting' = waiting \cup {u}

-----------------------------------------------------------------------------
(***************************************************************************)
(* Packets for this computer.                                              *)
(***************************************************************************)
MatchesEnd(end, pkt) ==
  /\ pkt.dport = end[3]
  /\ end[2] \in {0, pkt.sport}
  /\ end[1] \in {0, pkt.src}
RoomFor(q) == Len(q) < UDP_QSIZ

\* udp_in: the first endpoint that matches and has room takes the packet.
Takers(pkt) == {s \in UdpSlots : /\ udptab[s].udstate # "FREE"
                                 /\ MatchesEnd(udptab[s].udend, pkt)
                                 /\ RoomFor(udptab[s].udqueue)}
SameState(s) == udptab[s].udstate
WokenState(s) == "USED"

udp_in(pkt) ==
  /\ \/ /\ Takers(pkt) # {}
        /\ LET s == Min(Takers(pkt))
           IN  /\ udptab' = [udptab EXCEPT ![s].udqueue = Append(@, pkt), ![s].udstate = WokenState(s)]
               /\ Tell(IF udptab[s].udstate = "RECV" THEN udptab[s].udpid ELSE {})
        /\ UNCHANGED pool
     \/ /\ Takers(pkt) = {}
        /\ freebuf
        /\ UNCHANGED <<udptab, prmsg, waiting>>
  /\ UNCHANGED <<icmptab, lost>>

\* icmp_in for an echo reply: the queue of its slot takes it, full or not.
IcmpRegistered(pkt) ==
  /\ pkt.dport \in IcmpSlots
  /\ icmptab[pkt.dport].icstate # "FREE"
  /\ icmptab[pkt.dport].icremip = pkt.src

\* ichead and ictail wrap at different lengths.
NextTail(i) == IF i + 1 >= ICMP_QSIZ THEN 0 ELSE i + 1
NextHead(i) == IF i + 1 >= ICMP_SLOTS THEN 0 ELSE i + 1

IcmpReply(pkt) ==
  /\ \/ /\ IcmpRegistered(pkt)
        /\ LET e == icmptab[pkt.dport]
           IN  /\ icmptab' = [icmptab EXCEPT ![pkt.dport].iccount = @ + 1, ![pkt.dport].icqueue = @ \cup {e.ictail},
                                          ![pkt.dport].ictail = NextTail(@), ![pkt.dport].icstate = "USED"]
               /\ lost' = IF e.ictail \in e.icqueue THEN lost + 1 ELSE lost
               /\ Tell(IF e.icstate = "RECV" THEN e.icpid ELSE {})
        /\ UNCHANGED pool
     \/ /\ ~ IcmpRegistered(pkt)
        /\ freebuf
        /\ UNCHANGED <<icmptab, prmsg, waiting, lost>>
  /\ UNCHANGED udptab

\* ip_local in process x: for an echo request icmp_in first needs a second buffer.
ip_local(x, pkt) ==
  \/ pkt.proto = "udp" /\ udp_in(pkt) /\ Done(x)
  \/ pkt.proto = "reply" /\ IcmpReply(pkt) /\ Done(x)
  \/ /\ pkt.proto = "request"
     /\ GetsBuffer(x, [pc |-> "mkpkt", slot |-> 0, pkt |-> pkt])
     /\ UNCHANGED <<udptab, icmptab, prmsg, waiting, lost>>
  \/ /\ pkt.proto = "none"
     /\ freebuf /\ Done(x)
     /\ UNCHANGED <<udptab, icmptab, prmsg, waiting, lost>>

\* icmp_in for an echo request, with the buffer: icmp_mkpkt makes the answer and
\* ip_enqueue queues it; a full queue drops it.  The request is freed.
icmp_mkpkt(pkt) == Packet("reply", ME, pkt.src, 0, pkt.dport)
FreedWhenFullOne == 1
FreedWhenFull == 2
ip_enqueue(pkt) ==
  IF Len(ipoqueue) < IP_OQSIZ
  THEN ipoqueue' = Append(ipoqueue, pkt) /\ pool' = signal(pool)
  ELSE UNCHANGED ipoqueue /\ pool' = signaln(pool, FreedWhenFull)
AnswersPing(x) ==
  /\ HasBuffer(x, "mkpkt")
  /\ ip_enqueue(icmp_mkpkt(at[x].pkt))
  /\ Done(x)
  /\ UNCHANGED <<udptab, icmptab, prmsg, waiting, lost, shared, fault>>

-----------------------------------------------------------------------------
(***************************************************************************)
(* netin and ipout.                                                        *)
(***************************************************************************)
NetinStarts ==
  /\ at["netin"] = IDLE
  /\ GetsBuffer("netin", [IDLE EXCEPT !.pc = "read"])
  /\ UNCHANGED <<udptab, icmptab, ipoqueue, prmsg, waiting, lost, shared, fault>>

\* netin reads a packet and takes it through ip_in to its end.
netin(pkt) ==
  /\ HasBuffer("netin", "read")
  /\ ip_local("netin", pkt)
  /\ UNCHANGED <<ipoqueue, shared, fault>>

\* ipout has the priority of netin, the highest, so that a signal runs it at once.
IpoutRuns == at["ipout"] = IDLE /\ ipoqueue # <<>>

\* ipout takes a packet: for this computer, or to be resolved and sent.
ipout ==
  /\ IpoutRuns
  /\ ipoqueue' = Tail(ipoqueue)
  /\ LET pkt == Head(ipoqueue)
     IN  \/ pkt.dst = ME /\ ip_local("ipout", pkt)
         \/ /\ pkt.dst # ME
            /\ at' = [at EXCEPT !["ipout"] = [pc |-> "arp", slot |-> 0, pkt |-> pkt]]
            /\ UNCHANGED <<udptab, icmptab, pool, prmsg, waiting, lost>>
  /\ UNCHANGED <<shared, fault>>

\* arp_resolve has answered, and ip_out sends the packet, or not; it is freed.
FreedIfSent == UNCHANGED pool
SentOrNot == freebuf
ip_out(x) ==
  /\ at[x].pc = "arp"
  /\ SentOrNot /\ Done(x)
  /\ UNCHANGED <<udptab, icmptab, ipoqueue, prmsg, waiting, lost, shared, fault>>

-----------------------------------------------------------------------------
(***************************************************************************)
(* Calls of programs: sending.                                             *)
(***************************************************************************)
Makes(u, pkt) ==
  /\ at[u] = IDLE
  /\ GetsBuffer(u, [pc |-> "send", slot |-> 0, pkt |-> pkt])
  /\ UNCHANGED <<udptab, icmptab, ipoqueue, prmsg, waiting, lost, shared, fault>>

\* udp_send sends to the remote end of a slot, udp_sendto to any.
udp_send(u, s) ==
  LET end == udptab[s].udend
  IN  udptab[s].udstate # "FREE" /\ end[1] # 0 /\ Makes(u, Packet("udp", ME, end[1], end[3], end[2]))
udp_sendto(u, s, pkt) ==
  pkt.proto = "udp" /\ udptab[s].udstate # "FREE" /\ Makes(u, [pkt EXCEPT !.sport = udptab[s].udend[3]])
icmp_send(u, pkt) == pkt.proto = "request" /\ Makes(u, pkt)

\* ip_send with the packet: to this computer, resolved first, or sent (a
\* broadcast) or dropped (no route, written as destination 0) at once.
ip_send(u) ==
  /\ HasBuffer(u, "send")
  /\ LET pkt == at[u].pkt
     IN  \/ pkt.dst = ME /\ ip_local(u, pkt)
         \/ /\ pkt.dst \notin {ME, 0}
            /\ at' = [at EXCEPT ![u].pc = "arp"]
            /\ UNCHANGED <<udptab, icmptab, pool, prmsg, waiting, lost>>
         \/ /\ pkt.dst = 0
            /\ freebuf /\ Done(u)
            /\ UNCHANGED <<udptab, icmptab, prmsg, waiting, lost>>
  /\ UNCHANGED <<ipoqueue, shared, fault>>

-----------------------------------------------------------------------------
(***************************************************************************)
(* Calls of programs: endpoints.                                           *)
(***************************************************************************)
Inside(pc, s) == {u \in Users : at[u].pc = pc /\ at[u].slot = s}

udp_register(u, end) ==
  LET free == {s \in UdpSlots : udptab[s].udstate = "FREE"}
  IN  /\ at[u] = IDLE /\ free # {}
      /\ \A s \in UdpSlots \ free : udptab[s].udend # end
      /\ udptab' = [udptab EXCEPT ![Min(free)] = [udstate |-> "USED", udend |-> end, udpid |-> {}, udqueue |-> <<>>]]
      /\ shared' = (shared \/ Inside("udp", Min(free)) # {})
      /\ UNCHANGED <<icmptab, ipoqueue, pool, at, prmsg, waiting, lost, fault>>

\* Takes the first packet of a slot; without one the pointer is a stale one.
UdpDequeue(u, s) ==
  /\ Done(u)
  /\ IF udptab[s].udqueue # <<>>
     THEN /\ udptab' = [udptab EXCEPT ![s].udqueue = Tail(@), ![s].udstate = "USED"]
          /\ freebuf
          /\ UNCHANGED fault
     ELSE fault' = "udp" /\ UNCHANGED <<udptab, pool>>

\* udp_recv up to its wait.
RecvRefuses(s) == udptab[s].udstate # "USED"
udp_recv(u, s) ==
  /\ at[u] = IDLE /\ ~ RecvRefuses(s)
  /\ shared' = (shared \/ Inside("udp", s) # {})
  /\ \/ udptab[s].udqueue # <<>> /\ UdpDequeue(u, s) /\ UNCHANGED <<prmsg, waiting>>
     \/ /\ udptab[s].udqueue = <<>>
        /\ udptab' = [udptab EXCEPT ![s].udstate = "RECV", ![s].udpid = {u}]
        /\ AwaitsMessage(u)
        /\ at' = [at EXCEPT ![u] = [pc |-> "udp", slot |-> s, pkt |-> NOPKT]]
        /\ UNCHANGED <<pool, fault>>
  /\ UNCHANGED <<icmptab, ipoqueue, lost>>

\* udp_recvaddr: the same, and it stores the source address of the packet.
udp_recvaddr(u, s) == udp_recv(u, s)

\* After recvtime: a packet, or the time is over.
TimedOutNever(u) == FALSE
TimedOut(u) == u \notin prmsg
UdpRecvReturn(u) ==
  LET s == at[u].slot
  IN  /\ at[u].pc = "udp" /\ u \notin waiting
      /\ \/ ~ TimedOut(u) /\ UdpDequeue(u, s)
         \/ /\ TimedOut(u)
            /\ udptab' = [udptab EXCEPT ![s].udstate = "USED"]
            /\ Done(u)
            /\ UNCHANGED <<pool, fault>>
      /\ prmsg' = prmsg \ {u}
      /\ UNCHANGED <<icmptab, ipoqueue, waiting, lost, shared>>

\* udp_release frees the packets of the slot with the rescheduling put off.
udp_release(u, s) ==
  /\ at[u] = IDLE /\ udptab[s].udstate # "FREE"
  /\ pool' = signaln(pool, Len(udptab[s].udqueue))
  /\ udptab' = [udptab EXCEPT ![s].udstate = "FREE", ![s].udqueue = <<>>]
  /\ shared' = (shared \/ Inside("udp", s) # {})
  /\ UNCHANGED <<icmptab, ipoqueue, at, prmsg, waiting, lost, fault>>

icmp_register(u, remip) ==
  LET free == {s \in IcmpSlots : icmptab[s].icstate = "FREE"}
  IN  /\ at[u] = IDLE /\ free # {}
      /\ \A s \in IcmpSlots \ free : icmptab[s].icremip # remip
      /\ icmptab' = [icmptab EXCEPT ![Min(free)] = [icstate |-> "USED", icremip |-> remip, icpid |-> {},
                                                   ichead |-> 0, ictail |-> 0, iccount |-> 0, icqueue |-> {}]]
      /\ shared' = (shared \/ Inside("icmp", Min(free)) # {})
      /\ UNCHANGED <<udptab, ipoqueue, pool, at, prmsg, waiting, lost, fault>>

\* The place at ichead may be beyond the queue, or hold no packet any more.
IcmpDequeue(u, s) ==
  /\ Done(u)
  /\ IF icmptab[s].ichead \in icmptab[s].icqueue
     THEN /\ icmptab' = [icmptab EXCEPT ![s].icqueue = @ \ {icmptab[s].ichead}, ![s].ichead = NextHead(@),
                                      ![s].iccount = @ - 1, ![s].icstate = "USED"]
          /\ freebuf
          /\ UNCHANGED fault
     ELSE fault' = "icmp" /\ UNCHANGED <<icmptab, pool>>

icmp_recv(u, s) ==
  /\ at[u] = IDLE /\ icmptab[s].icstate = "USED"
  /\ shared' = (shared \/ Inside("icmp", s) # {})
  /\ \/ icmptab[s].iccount # 0 /\ IcmpDequeue(u, s) /\ UNCHANGED <<prmsg, waiting>>
     \/ /\ icmptab[s].iccount = 0
        /\ icmptab' = [icmptab EXCEPT ![s].icstate = "RECV", ![s].icpid = {u}]
        /\ AwaitsMessage(u)
        /\ at' = [at EXCEPT ![u] = [pc |-> "icmp", slot |-> s, pkt |-> NOPKT]]
        /\ UNCHANGED <<pool, fault>>
  /\ UNCHANGED <<udptab, ipoqueue, lost>>

IcmpRecvReturn(u) ==
  LET s == at[u].slot
  IN  /\ at[u].pc = "icmp" /\ u \notin waiting
      /\ \/ ~ TimedOut(u) /\ IcmpDequeue(u, s)
         \/ /\ TimedOut(u)
            /\ icmptab' = [icmptab EXCEPT ![s].icstate = "USED"]
            /\ Done(u)
            /\ UNCHANGED <<pool, fault>>
      /\ prmsg' = prmsg \ {u}
      /\ UNCHANGED <<udptab, ipoqueue, waiting, lost, shared>>

\* icmp_release takes iccount packets from ichead on, which may pass the end of
\* the queue or meet a place twice.
icmp_release(u, s) ==
  LET e == icmptab[s]
      read == {(e.ichead + k) % ICMP_SLOTS : k \in 0 .. (e.iccount - 1)}
  IN  /\ at[u] = IDLE /\ e.icstate = "USED"
      /\ IF read \subseteq e.icqueue /\ Cardinality(read) = e.iccount
         THEN /\ pool' = signaln(pool, e.iccount)
              /\ icmptab' = [icmptab EXCEPT ![s].icstate = "FREE", ![s].icqueue = {}, ![s].iccount = 0]
              /\ UNCHANGED fault
         ELSE fault' = "icmp" /\ UNCHANGED <<icmptab, pool>>
      /\ shared' = (shared \/ Inside("icmp", s) # {})
      /\ UNCHANGED <<udptab, ipoqueue, at, prmsg, waiting, lost>>

-----------------------------------------------------------------------------
ClockWakes(u) == u \in waiting /\ waiting' = waiting \ {u}
                 /\ UNCHANGED <<udptab, icmptab, ipoqueue, pool, at, prmsg, lost, shared, fault>>

Call(u) ==
  \/ \E pkt \in Outputs : icmp_send(u, pkt) \/ \E s \in UdpSlots : udp_sendto(u, s, pkt)
  \/ \E s \in UdpSlots : udp_send(u, s) \/ udp_recv(u, s) \/ udp_recvaddr(u, s) \/ udp_release(u, s)
  \/ \E s \in IcmpSlots : icmp_recv(u, s) \/ icmp_release(u, s)
  \/ \E end \in Endpoints : udp_register(u, end)
  \/ \E remip \in Pings : icmp_register(u, remip)

\* What a process does by itself, once it is in the middle of a call.
GoesOn(x) ==
  \/ AnswersPing(x) \/ ip_out(x)
  \/ x \in Users /\ (ip_send(x) \/ ClockWakes(x) \/ UdpRecvReturn(x) \/ IcmpRecvReturn(x))

Netin == NetinStarts \/ \E pkt \in Arrivals : netin(pkt)

\* A wrong pointer ends the model.  Everybody may wait for a buffer.
Stops == (fault # "none" \/ \A x \in Procs \ {"ipout"} : Waits(pool, x)) /\ UNCHANGED vars

\* ipout first, and then anybody.
Others(A) == fault = "none" /\ ~ IpoutRuns /\ A

Next ==
  \/ fault = "none" /\ ipout
  \/ Others(Netin)
  \/ Others(\E u \in Users : Call(u))
  \/ Others(\E x \in Procs : GoesOn(x))
  \/ Stops

Spec == Init /\ [][Next]_vars

-----------------------------------------------------------------------------
Held(x) ==
  CASE at[x].pc \in {"read", "send"} -> IF Waits(pool, x) THEN 0 ELSE 1
    [] at[x].pc = "mkpkt"            -> IF Waits(pool, x) THEN 1 ELSE 2
    [] at[x].pc = "arp"              -> 1
    [] OTHER                         -> 0
HeldBy(S) == Cardinality(UNION {{x} \X (1 .. Held(x)) : x \in S})
Queued == Cardinality(UNION {{s} \X (1 .. Len(udptab[s].udqueue)) : s \in UdpSlots})
          + Cardinality(UNION {{s} \X icmptab[s].icqueue : s \in IcmpSlots})
InProgress == HeldBy(Procs) + Len(ipoqueue)

\* A buffer is in the pool, with one process or in one queue: no path through
\* the stack, no error, timeout, release or race of two readers frees one twice
\* or forgets one.  The exception is a packet that a full ICMP queue overwrites.
BuffersConserved == fault = "none" => pool.count + Len(pool.queue) + Queued + InProgress + lost = nbufs

\* A process that waits for a packet is known to its endpoint, and an endpoint
\* knows only a process that waits for it: a packet that comes before the time
\* is over wakes the process that asked for it.  It fails when two processes use
\* one endpoint, as udp_recv stores udstate after its wait without looking.
WakesReceiver ==
  (fault = "none" /\ ~ shared) =>
    /\ \A u \in waiting :
         IF at[u].pc = "udp" THEN udptab[at[u].slot].udstate = "RECV" /\ udptab[at[u].slot].udpid = {u}
         ELSE icmptab[at[u].slot].icstate = "RECV" /\ icmptab[at[u].slot].icpid = {u}
    /\ \A s \in UdpSlots : udptab[s].udstate = "RECV" => udptab[s].udqueue = <<>> /\ udptab[s].udpid \subseteq Inside("udp", s)

\* What a run checks of every state (net.c, ip.c, udp.c, icmp.c).
StackSound == BuffersConserved /\ WakesReceiver

\* A process takes a packet that is there unless it shares its endpoint with
\* another one; and an ICMP endpoint can go wrong otherwise only when more than
\* ICMP_QSIZ replies have come to it since it was registered: ichead of them were
\* taken, and iccount were not.
FaultStep ==
  fault' # fault =>
     \/ shared'
     \/ fault' = "icmp" /\ \E s \in IcmpSlots : icmptab[s].ichead + icmptab[s].iccount > ICMP_QSIZ

\* All buffers are lost, in the queues of endpoints, or with processes that wait
\* for another one.
WaitingFor == {x \in Procs : Waits(pool, x)}
Stalled == Queued + lost + HeldBy(WaitingFor) = nbufs

\* netin does not wait for a buffer for ever, unless programs leave all buffers
\* in the queues of their endpoints.
NetinWaits == Waits(pool, "netin")
NetinRuns == ~ Waits(pool, "netin") \/ Stalled \/ fault # "none"
NetinGoesOn == NetinWaits ~> NetinRuns

=============================================================================
