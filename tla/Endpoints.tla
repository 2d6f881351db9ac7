------------------------------ MODULE Endpoints ------------------------------
(***************************************************************************)
(* The endpoints of the forwarding version, udp.c and icmp.c, on a machine *)
(* with several interfaces: which endpoint a packet goes to, the circular  *)
(* queue of each one, and the buffer that every packet is, followed from   *)
(* place to place.  A process runs with interrupts off from one wait to    *)
(* the next (getbuf, recvtime, arp_resolve).  Router has what happens to a *)
(* packet before ip_local; here it arrives in the netin of its interface,  *)
(* in a buffer.  The programs use an endpoint one process at a time; two   *)
(* readers of one endpoint are in NetStack.                                *)
(***************************************************************************)
EXTENDS Integers, Sequences, FiniteSets, FiniteSetsExt, Semaphore

CONSTANTS
  Users, NIFACES, UDP_SLOTS, UDP_QSIZ, ICMP_SLOTS, ICMP_QSIZ, IP_OQSIZ,
  NBUFS,        \* the buffers that the interfaces leave to the endpoints
  Requests,     \* what programs register, see Request
  Pings,        \* the addresses programs register for pings
  Nets,         \* the interface each address can be reached on; others have no route
  Arrivals,     \* the packets that come
  Outputs       \* what programs send

VARIABLES
  udptab, icmptab, ipoqueue,
  pool, free,   \* the semaphore of the buffer pool, and the buffers in it
  contents,     \* the packet in each buffer
  at,           \* where each process is: [pc, slot, buf, pkt]
  prmsg,        \* the message of each user, or "none"
  waiting,      \* the users in recvtime whose time is not over
  order,        \* history: the packets of each endpoint, oldest first
  replies,      \* history: how many replies came to an ICMP registration, at most ICMP_QSIZ + 1
  lost,         \* history: buffers whose last pointer was overwritten
  fault         \* an ICMP endpoint read a place that holds no packet, which ends the model

vars == <<udptab, icmptab, ipoqueue, pool, free, contents, at, prmsg, waiting, order, replies, lost, fault>>

UdpSlots == 0 .. (UDP_SLOTS - 1)
IcmpSlots == 0 .. (ICMP_SLOTS - 1)
Netins == 0 .. (NIFACES - 1)            \* netin i serves interface i
IPOUT == NIFACES
Procs == Users \cup Netins \cup {IPOUT}
Buffers == 1 .. NBUFS
NOBUF == 0
UDP_ANYIF == -2
SELF == 1                               \* the address of the interface a packet is sent on

Request(iface, remip, remport, locport) ==
  [iface |-> iface, remip |-> remip, remport |-> remport, locport |-> locport]
NoRequest == Request(0, 0, 0, 0)

\* proto is "udp", "request" or "reply" (echo), or "none" for what icmp_in and
\* ip_local drop.  The identifier of an echo is dport.
Packet(proto, iface, src, dst, sport, dport) ==
  [proto |-> proto, iface |-> iface, src |-> src, dst |-> dst, sport |-> sport, dport |-> dport]
NOPKT == Packet("none", 0, 0, 0, 0, 0)
IDLE == [pc |-> "idle", slot |-> 0, buf |-> NOBUF, pkt |-> NOPKT]

Ring(size) == [head |-> 0, tail |-> 0, count |-> 0, queue |-> [i \in 0 .. (size - 1) |-> NOBUF]]
FreeUdp == [udstate |-> "FREE", udend |-> NoRequest, udpid |-> {}, ring |-> Ring(UDP_QSIZ)]
FreeIcmp == [icstate |-> "FREE", icremip |-> 0, icpid |-> {}, ring |-> Ring(ICMP_QSIZ)]

udp_init == udptab = [s \in UdpSlots |-> FreeUdp]
icmp_init == icmptab = [s \in IcmpSlots |-> FreeIcmp]

Ends == ({"udp"} \X UdpSlots) \cup ({"icmp"} \X IcmpSlots)
Init ==
  /\ udp_init /\ icmp_init /\ ipoqueue = <<>>
  /\ pool = semcreate(NBUFS) /\ free = Buffers /\ contents = [b \in Buffers |-> NOPKT]
  /\ at = [x \in Procs |-> IDLE]
  /\ prmsg = [u \in Users |-> "none"] /\ waiting = {}
  /\ order = [e \in Ends |-> <<>>] /\ replies = [s \in IcmpSlots |-> 0]
  /\ lost = {} /\ fault = FALSE

-----------------------------------------------------------------------------
(***************************************************************************)
(* Buffers, the circular queues and messages.                              *)
(***************************************************************************)
\* The places of a queue: a place whose packet was taken holds a stale pointer,
\* written as NOBUF.
WrapsEarly(i, size) == IF i >= size - 1 THEN 0 ELSE i
Wrapped(i, size) == IF i >= size THEN 0 ELSE i
Put(r, size, b) == [r EXCEPT !.queue[r.tail] = b, !.tail = Wrapped(@ + 1, size), !.count = @ + 1]
At(r, i) == IF i \in DOMAIN r.queue THEN r.queue[i] ELSE NOBUF
FirstOf(r) == At(r, r.head)
HeadStays(r, size) == [r EXCEPT !.queue[r.head] = NOBUF, !.count = @ - 1]
WithoutFirst(r, size) == [r EXCEPT !.queue[r.head] = NOBUF, !.head = Wrapped(@ + 1, size), !.count = @ - 1]

\* The buffers that reading count times from head on meets, and whether each of
\* these places holds a packet of its own.
ReadFrom(r, size) == [k \in 1 .. r.count |-> At(r, (r.head + k - 1) % size)]
BuffersOf(s) == {s[k] : k \in DOMAIN s}
GoodRead(s) == NOBUF \notin BuffersOf(s) /\ Cardinality(BuffersOf(s)) = Len(s)

FreedAll(B) ==
  /\ pool' = signaln(pool, Cardinality(B))
  /\ free' = free \cup B
  /\ contents' = [b \in Buffers |-> IF b \in B THEN NOPKT ELSE contents[b]]
Stored(b, pkt) == contents' = [contents EXCEPT ![b] = pkt] /\ free' = free \ {b}
Done(x) == at' = [at EXCEPT ![x] = IDLE]

\* getbuf: the process waits for a buffer, and takes one in its next step.
GetsBuffer(x, position) == pool' = wait(pool, x) /\ at' = [at EXCEPT ![x] = position]
HasBuffer(x, pc) == at[x].pc = pc /\ ~ Waits(pool, x)
NextFree == Min(free)

\* send: it fails when the process has a message.
Tell(S, m) ==
  /\ prmsg' = [u \in Users |-> IF u \in S /\ prmsg[u] = "none" THEN m ELSE prmsg[u]]
  /\ waiting' = waiting \ S
TellNobody == UNCHANGED <<prmsg, waiting>>

\* recvclr and recvtime.
Awaits(u, pc, s) ==
  /\ prmsg' = [prmsg EXCEPT ![u] = "none"] /\ waiting' = waiting \cup {u}
  /\ at' = [at EXCEPT ![u] = [IDLE EXCEPT !.pc = pc, !.slot = s]]

unchangedPool == UNCHANGED <<pool, free, contents>>
unchangedHistory == UNCHANGED <<order, replies, lost>>

-----------------------------------------------------------------------------
(***************************************************************************)
(* udp_in, icmp_in: process x has packet pkt in buffer b.                  *)
(***************************************************************************)
InUse(s) == udptab[s].udstate # "FREE"
AnyInterface(end, pkt) == TRUE
OnInterface(end, pkt) == end.iface \in {UDP_ANYIF, pkt.iface}
MatchesEnd(end, pkt) ==
  /\ OnInterface(end, pkt)
  /\ pkt.dport = end.locport
  /\ end.remport \in {0, pkt.sport}
  /\ end.remip \in {0, pkt.src}

\* The first endpoint that matches and has room takes the packet.
Takers(pkt) == {s \in UdpSlots : InUse(s) /\ MatchesEnd(udptab[s].udend, pkt) /\ udptab[s].ring.count < UDP_QSIZ}
NobodyToTell(s) == {}
ReceiverOf(s) == IF udptab[s].udstate = "RECV" THEN udptab[s].udpid ELSE {}
udp_in(b, pkt) ==
  \/ /\ Takers(pkt) # {}
     /\ LET s == Min(Takers(pkt))
        IN  /\ udptab' = [udptab EXCEPT ![s].ring = Put(@, UDP_QSIZ, b), ![s].udstate = "USED"]
            /\ Tell(ReceiverOf(s), "OK")
            /\ order' = [order EXCEPT ![<<"udp", s>>] = Append(@, b)]
     /\ Stored(b, pkt) /\ UNCHANGED <<pool, replies, lost>>
  \/ /\ Takers(pkt) = {}
     /\ FreedAll({b}) /\ TellNobody
     /\ UNCHANGED <<udptab, order, replies, lost>>

\* An echo reply: its slot takes it, without a test for room.
Registered(pkt) ==
  /\ pkt.dport \in IcmpSlots
  /\ icmptab[pkt.dport].icstate # "FREE" /\ icmptab[pkt.dport].icremip = pkt.src
CountedReply(n) == IF n > ICMP_QSIZ THEN n ELSE n + 1
IcmpReply(b, pkt) ==
  \/ /\ Registered(pkt)
     /\ LET s == pkt.dport
            e == icmptab[s]
        IN  /\ icmptab' = [icmptab EXCEPT ![s].ring = Put(@, ICMP_QSIZ, b), ![s].icstate = "USED"]
            /\ Tell(IF e.icstate = "RECV" THEN e.icpid ELSE {}, "OK")
            /\ lost' = lost \cup ({e.ring.queue[e.ring.tail]} \ {NOBUF})
            /\ order' = [order EXCEPT ![<<"icmp", s>>] = IF replies[s] > ICMP_QSIZ THEN <<>> ELSE Append(@, b)]
            /\ replies' = [replies EXCEPT ![s] = CountedReply(@)]
     /\ Stored(b, pkt) /\ UNCHANGED pool
  \/ /\ ~ Registered(pkt)
     /\ FreedAll({b}) /\ TellNobody
     /\ UNCHANGED <<icmptab, order, replies, lost>>

\* For an echo request icmp_mkpkt needs a second buffer.
ip_local(x, b, pkt) ==
  \/ pkt.proto = "udp" /\ udp_in(b, pkt) /\ Done(x) /\ UNCHANGED icmptab
  \/ pkt.proto = "reply" /\ IcmpReply(b, pkt) /\ Done(x) /\ UNCHANGED udptab
  \/ /\ pkt.proto = "request"
     /\ Stored(b, pkt)
     /\ GetsBuffer(x, [pc |-> "mkpkt", slot |-> 0, buf |-> b, pkt |-> pkt])
     /\ TellNobody /\ UNCHANGED <<udptab, icmptab, order, replies, lost>>
  \/ /\ pkt.proto = "none"
     /\ FreedAll({b}) /\ Done(x) /\ TellNobody
     /\ UNCHANGED <<udptab, icmptab, order, replies, lost>>

icmp_mkpkt(pkt) == Packet("reply", pkt.iface, SELF, pkt.src, 0, pkt.dport)

\* icmp_in for an echo request, with the buffer: ip_enqueue takes the answer or
\* frees it, and the request is freed.
AnswersPing(x) ==
  /\ HasBuffer(x, "mkpkt")
  /\ LET b == NextFree
         request == at[x].buf
     IN  \/ /\ Len(ipoqueue) < IP_OQSIZ
            /\ ipoqueue' = Append(ipoqueue, b)
            /\ pool' = signal(pool)
            /\ free' = (free \ {b}) \cup {request}
            /\ contents' = [contents EXCEPT ![b] = icmp_mkpkt(at[x].pkt), ![request] = NOPKT]
         \/ /\ Len(ipoqueue) >= IP_OQSIZ
            /\ FreedAll({b, request}) /\ UNCHANGED ipoqueue
  /\ Done(x) /\ TellNobody
  /\ UNCHANGED <<udptab, icmptab, order, replies, lost, fault>>

\* A packet comes to the netin of its interface, in a buffer (Router).
Arrives(i, pkt) ==
  /\ at[i] = IDLE /\ pkt.iface = i /\ pool.count > 0
  /\ pool' = wait(pool, i)
  /\ Stored(NextFree, pkt)
  /\ at' = [at EXCEPT ![i] = [pc |-> "in", slot |-> 0, buf |-> NextFree, pkt |-> pkt]]
  /\ TellNobody /\ unchangedHistory /\ UNCHANGED <<udptab, icmptab, ipoqueue, fault>>

\* netin takes it through ip_local to its end.
netin(i) ==
  /\ at[i].pc = "in"
  /\ ip_local(i, at[i].buf, at[i].pkt)
  /\ UNCHANGED <<ipoqueue, fault>>

-----------------------------------------------------------------------------
(***************************************************************************)
(* Sending.  ipout has a high priority and runs as soon as it can.         *)
(***************************************************************************)
IpoutRuns == at[IPOUT] = IDLE /\ ipoqueue # <<>>
OnNet(pkt) == pkt.dst \in DOMAIN Nets /\ Nets[pkt.dst] = pkt.iface

\* A packet for this computer is delivered; one that has no next hop is freed;
\* for the others the next hop is resolved.
SendsOn(x, b, pkt) ==
  \/ pkt.dst = SELF /\ ip_local(x, b, pkt)
  \/ /\ pkt.dst # SELF /\ ~ OnNet(pkt)
     /\ FreedAll({b}) /\ Done(x) /\ TellNobody
     /\ UNCHANGED <<udptab, icmptab>> /\ unchangedHistory
  \/ /\ OnNet(pkt)
     /\ Stored(b, pkt)
     /\ at' = [at EXCEPT ![x] = [pc |-> "arp", slot |-> 0, buf |-> b, pkt |-> pkt]]
     /\ TellNobody /\ UNCHANGED <<udptab, icmptab, pool>> /\ unchangedHistory

ipout ==
  /\ IpoutRuns
  /\ ipoqueue' = Tail(ipoqueue)
  /\ SendsOn(IPOUT, Head(ipoqueue), contents[Head(ipoqueue)])
  /\ UNCHANGED fault

\* arp_resolve has returned: the packet is sent or not, and freed.
ip_out(x) ==
  /\ at[x].pc = "arp"
  /\ FreedAll({at[x].buf}) /\ Done(x)
  /\ TellNobody /\ unchangedHistory /\ UNCHANGED <<udptab, icmptab, ipoqueue, fault>>

Makes(u, pkt) ==
  /\ at[u] = IDLE
  /\ GetsBuffer(u, [IDLE EXCEPT !.pc = "send", !.pkt = pkt])
  /\ TellNobody /\ unchangedHistory
  /\ UNCHANGED <<udptab, icmptab, ipoqueue, free, contents, fault>>

ip_route(dst) == IF dst \in DOMAIN Nets THEN {Nets[dst]} ELSE {}

\* udp_send needs a remote address and an interface in the table; udp_sendto finds
\* the interface; icmp_send is given one.
udp_send(u, s) ==
  LET end == udptab[s].udend
  IN  /\ InUse(s) /\ end.remip # 0 /\ end.iface # UDP_ANYIF
      /\ Makes(u, Packet("udp", end.iface, SELF, end.remip, end.locport, end.remport))
udp_sendto(u, s, pkt) ==
  LET end == udptab[s].udend
  IN  /\ InUse(s) /\ pkt.proto = "udp"
      /\ \E i \in IF end.iface = UDP_ANYIF THEN ip_route(pkt.dst) ELSE {end.iface} :
           Makes(u, Packet("udp", i, SELF, pkt.dst, end.locport, pkt.dport))
icmp_send(u, pkt) == pkt.proto \in {"request", "reply"} /\ pkt.iface \in Netins /\ Makes(u, pkt)

ip_send(u) ==
  /\ HasBuffer(u, "send")
  /\ SendsOn(u, NextFree, at[u].pkt)
  /\ UNCHANGED <<ipoqueue, fault>>

-----------------------------------------------------------------------------
(***************************************************************************)
(* Registering, receiving and releasing.                                   *)
(***************************************************************************)
\* The program keeps to one process inside an endpoint.
Alone(u, pc, s) == at[u] = IDLE /\ \A v \in Users : ~ (at[v].pc = pc /\ at[v].slot = s)

\* A request that another one covers is refused; a wildcard interface covers all.
SameEnds(e, f) == e.remip = f.remip /\ e.remport = f.remport /\ e.locport = f.locport
OverlapsExactly(e, f) == SameEnds(e, f) /\ e.iface = f.iface
Overlaps(e, f) == SameEnds(e, f) /\ (UDP_ANYIF \in {e.iface, f.iface} \/ e.iface = f.iface)

\* Only interfaces that exist are asked for (the test lets NIFACES pass).
udp_register(u, end) ==
  LET unused == {s \in UdpSlots : ~ InUse(s)}
  IN  /\ at[u] = IDLE /\ unused # {}
      /\ end.iface \in Netins \cup {UDP_ANYIF}
      /\ \A s \in UdpSlots \ unused : ~ Overlaps(end, udptab[s].udend)
      /\ udptab' = [udptab EXCEPT ![Min(unused)] = [FreeUdp EXCEPT !.udstate = "USED", !.udend = end]]
      /\ order' = [order EXCEPT ![<<"udp", Min(unused)>>] = <<>>]
      /\ TellNobody /\ unchangedPool /\ UNCHANGED <<icmptab, ipoqueue, at, replies, lost, fault>>

UdpDequeue(u, s) ==
  /\ FreedAll({FirstOf(udptab[s].ring)})
  /\ udptab' = [udptab EXCEPT ![s].ring = WithoutFirst(@, UDP_QSIZ), ![s].udstate = "USED"]
  /\ order' = [order EXCEPT ![<<"udp", s>>] = Tail(@)]
  /\ Done(u)

udp_recv(u, s) ==
  /\ Alone(u, "udp", s) /\ udptab[s].udstate = "USED"
  /\ \/ udptab[s].ring.count # 0 /\ UdpDequeue(u, s) /\ TellNobody
     \/ /\ udptab[s].ring.count = 0
        /\ udptab' = [udptab EXCEPT ![s].udstate = "RECV", ![s].udpid = {u}]
        /\ Awaits(u, "udp", s)
        /\ unchangedPool /\ UNCHANGED order
  /\ UNCHANGED <<icmptab, ipoqueue, replies, lost, fault>>

\* The same, and it stores where the packet is from.
udp_recvaddr(u, s) == udp_recv(u, s)

\* After recvtime: OK stands for a packet; a timeout and any other message end the call.
Returns(u, pc) == at[u].pc = pc /\ u \notin waiting
UdpRecvReturn(u) ==
  LET s == at[u].slot
  IN  /\ Returns(u, "udp")
      /\ \/ prmsg[u] = "OK" /\ UdpDequeue(u, s)
         \/ /\ prmsg[u] # "OK"
            /\ udptab' = [udptab EXCEPT ![s].udstate = "USED"]
            /\ Done(u) /\ unchangedPool /\ UNCHANGED order
      /\ prmsg' = [prmsg EXCEPT ![u] = "none"]
      /\ UNCHANGED <<icmptab, ipoqueue, waiting, replies, lost, fault>>

\* udp_release frees the packets, with rescheduling put off.
ReleasesNone(s) == {}
Releases(s) == BuffersOf(ReadFrom(udptab[s].ring, UDP_QSIZ))
udp_release(u, s) ==
  /\ Alone(u, "udp", s) /\ InUse(s)
  /\ FreedAll(Releases(s))
  /\ udptab' = [udptab EXCEPT ![s] = FreeUdp]
  /\ order' = [order EXCEPT ![<<"udp", s>>] = <<>>]
  /\ TellNobody /\ UNCHANGED <<icmptab, ipoqueue, at, replies, lost, fault>>

icmp_register(u, remip) ==
  LET unused == {s \in IcmpSlots : icmptab[s].icstate = "FREE"}
  IN  /\ at[u] = IDLE /\ unused # {}
      /\ \A s \in IcmpSlots \ unused : icmptab[s].icremip # remip
      /\ icmptab' = [icmptab EXCEPT ![Min(unused)] = [FreeIcmp EXCEPT !.icstate = "USED", !.icremip = remip]]
      /\ order' = [order EXCEPT ![<<"icmp", Min(unused)>>] = <<>>]
      /\ replies' = [replies EXCEPT ![Min(unused)] = 0]
      /\ TellNobody /\ unchangedPool /\ UNCHANGED <<udptab, ipoqueue, at, lost, fault>>

\* ichead wraps at ICMP_SLOTS and ictail at ICMP_QSIZ, so the place may be beyond
\* the queue or hold nothing any more.
Faults == fault' = TRUE /\ UNCHANGED <<icmptab, pool, free, contents, order>>
IcmpDequeue(u, s) ==
  /\ IF FirstOf(icmptab[s].ring) = NOBUF THEN Faults
     ELSE /\ FreedAll({FirstOf(icmptab[s].ring)})
          /\ icmptab' = [icmptab EXCEPT ![s].ring = WithoutFirst(@, ICMP_SLOTS), ![s].icstate = "USED"]
          /\ order' = [order EXCEPT ![<<"icmp", s>>] = IF @ = <<>> THEN <<>> ELSE Tail(@)]
          /\ UNCHANGED fault
  /\ Done(u)

icmp_recv(u, s) ==
  /\ Alone(u, "icmp", s) /\ icmptab[s].icstate = "USED"
  /\ \/ icmptab[s].ring.count # 0 /\ IcmpDequeue(u, s) /\ TellNobody
     \/ /\ icmptab[s].ring.count = 0
        /\ icmptab' = [icmptab EXCEPT ![s].icstate = "RECV", ![s].icpid = {u}]
        /\ Awaits(u, "icmp", s)
        /\ unchangedPool /\ UNCHANGED <<order, fault>>
  /\ UNCHANGED <<udptab, ipoqueue, replies, lost>>

IcmpRecvReturn(u) ==
  LET s == at[u].slot
  IN  /\ Returns(u, "icmp")
      /\ \/ prmsg[u] = "OK" /\ IcmpDequeue(u, s)
         \/ /\ prmsg[u] # "OK"
            /\ icmptab' = [icmptab EXCEPT ![s].icstate = "USED"]
            /\ Done(u) /\ unchangedPool /\ UNCHANGED <<order, fault>>
      /\ prmsg' = [prmsg EXCEPT ![u] = "none"]
      /\ UNCHANGED <<udptab, ipoqueue, waiting, replies, lost>>

icmp_release(u, s) ==
  /\ Alone(u, "icmp", s) /\ icmptab[s].icstate = "USED"
  /\ LET read == ReadFrom(icmptab[s].ring, ICMP_SLOTS)
     IN  IF GoodRead(read)
         THEN /\ FreedAll(BuffersOf(read))
              /\ lost' = lost \cup (BuffersOf(icmptab[s].ring.queue) \ ({NOBUF} \cup BuffersOf(read)))
              /\ icmptab' = [icmptab EXCEPT ![s] = FreeIcmp]
              /\ order' = [order EXCEPT ![<<"icmp", s>>] = <<>>]
              /\ UNCHANGED fault
         ELSE Faults /\ UNCHANGED lost
  /\ TellNobody /\ UNCHANGED <<udptab, ipoqueue, at, replies>>

-----------------------------------------------------------------------------
\* The clock ends a recvtime; and external: another message comes to a receiver.
ClockWakes(u) ==
  /\ u \in waiting /\ waiting' = waiting \ {u}
  /\ unchangedPool /\ unchangedHistory /\ UNCHANGED <<udptab, icmptab, ipoqueue, at, prmsg, fault>>
OtherMessage(u) ==
  /\ at[u].pc \in {"udp", "icmp"} /\ prmsg[u] = "none"
  /\ Tell({u}, "other")
  /\ unchangedPool /\ unchangedHistory /\ UNCHANGED <<udptab, icmptab, ipoqueue, at, fault>>

Call(u) ==
  \/ \E pkt \in Outputs : icmp_send(u, pkt) \/ \E s \in UdpSlots : udp_sendto(u, s, pkt)
  \/ \E s \in UdpSlots : udp_send(u, s) \/ udp_recv(u, s) \/ udp_recvaddr(u, s) \/ udp_release(u, s)
  \/ \E s \in IcmpSlots : icmp_recv(u, s) \/ icmp_release(u, s)
  \/ \E end \in Requests : udp_register(u, end)
  \/ \E remip \in Pings : icmp_register(u, remip)

GoesOn(x) ==
  \/ AnswersPing(x) \/ ip_out(x)
  \/ x \in Netins /\ netin(x)
  \/ x \in Users /\ (ip_send(x) \/ ClockWakes(x) \/ UdpRecvReturn(x) \/ IcmpRecvReturn(x))

Others(A) == ~ fault /\ ~ IpoutRuns /\ A

\* A wrong pointer ends the model; and everybody may wait for a buffer.
NoBuffers == pool.count <= 0 /\ \A x \in Procs : Waits(pool, x) \/ (x \notin Users /\ at[x] = IDLE)
Stops == (fault \/ NoBuffers) /\ UNCHANGED vars

Next ==
  \/ ~ fault /\ ipout
  \/ Others(\E i \in Netins, pkt \in Arrivals : Arrives(i, pkt))
  \/ Others(\E u \in Users : Call(u) \/ OtherMessage(u))
  \/ Others(\E x \in Procs : GoesOn(x))
  \/ Stops

-----------------------------------------------------------------------------
\* Every buffer is in exactly one place: the pool, a queue, or the hands of one
\* process; no timeout, release or full queue frees one twice, queues one twice or
\* forgets one.  The exception is a packet that a full ICMP queue overwrites.
PlacesIn(r, b) == {i \in DOMAIN r.queue : r.queue[i] = b}
Places(b) ==
  {<<"pool", 0, 0>> : i \in {b} \cap free} \cup {<<"lost", 0, 0>> : i \in {b} \cap lost}
    \cup {<<"output", k, 0>> : k \in {k \in DOMAIN ipoqueue : ipoqueue[k] = b}}
    \cup {<<"process", x, 0>> : x \in {x \in Procs : at[x].buf = b}}
    \cup UNION {{<<"udp", s, i>> : i \in PlacesIn(udptab[s].ring, b)} : s \in UdpSlots}
    \cup UNION {{<<"icmp", s, i>> : i \in PlacesIn(icmptab[s].ring, b)} : s \in IcmpSlots}
EachInOnePlace == ~ fault => \A b \in Buffers : Cardinality(Places(b)) = 1

\* A reader gets the packets in the order they came: the circular queue, from its
\* head on, holds those that came since the endpoint was registered and were not
\* read (udhead, udtail and udcount of udp_in, udp_recv and udp_release; for ICMP
\* until more than ICMP_QSIZ replies came).
InOrder ==
  ~ fault =>
    /\ \A s \in UdpSlots : ReadFrom(udptab[s].ring, UDP_QSIZ) = order[<<"udp", s>>]
    /\ \A s \in IcmpSlots : replies[s] <= ICMP_QSIZ => ReadFrom(icmptab[s].ring, ICMP_SLOTS) = order[<<"icmp", s>>]

\* A packet is in a queue only while its endpoint is registered for its interface
\* and ports, and no other endpoint could have been meant: the same ends are never
\* registered twice for one interface.
AtItsEndpoint ==
  \A s \in UdpSlots :
    /\ \A b \in BuffersOf(udptab[s].ring.queue) \ {NOBUF} :
         /\ InUse(s)
         /\ udptab[s].udend.iface \in {UDP_ANYIF, contents[b].iface}
         /\ contents[b].dport = udptab[s].udend.locport
         /\ \A t \in UdpSlots \ {s} :
              (InUse(t) /\ SameEnds(udptab[s].udend, udptab[t].udend)) =>
                 udptab[t].udend.iface \notin {UDP_ANYIF, contents[b].iface}

\* A process inside udp_recv or icmp_recv whose endpoint has a packet has been
\* told, or was told something else first: it does not sleep over a packet.
ReceiverTold ==
  ~ fault =>
    \A u \in Users :
      /\ (at[u].pc = "udp" /\ udptab[at[u].slot].ring.count > 0) => prmsg[u] # "none"
      /\ (at[u].pc = "icmp" /\ icmptab[at[u].slot].ring.count > 0) => prmsg[u] # "none"

\* An ICMP endpoint goes wrong only when more than ICMP_QSIZ replies have come to
\* it since it was registered, whether they were read or not: until then the two
\* indices agree.
FaultNeedsManyReplies == fault => \E s \in IcmpSlots : replies[s] > ICMP_QSIZ

=============================================================================
