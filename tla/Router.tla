------------------------------- MODULE Router -------------------------------
(***************************************************************************)
(* The NAT router of the forwarding version: one Ethernet that carries the *)
(* lab network (interface 0) and two "othernets" (1 and 2).  rawin reads   *)
(* frames and queues them by interface; a process netin for each interface *)
(* takes them to the local stack or through NAT to the output queue, which *)
(* ipout empties.  The processes netin have one priority and run with      *)
(* interrupts on, so another one may run between any two of their steps;   *)
(* ipout has a higher priority and runs as soon as it can.  A packet for   *)
(* the local stack is consumed here and its buffer freed: what udp_in and  *)
(* icmp_in do with it is in NetStack.  arp_resolve is a wait whose outcome *)
(* does not matter, since the packet is freed whether it was sent or not.  *)
(***************************************************************************)
EXTENDS Integers, Sequences, FiniteSets, FiniteSetsExt, Semaphore

CONSTANTS
  NIFACES, IF_QUEUESIZE, IP_OQSIZ,
  NATUDPSIZ, NATICMPSIZ, NAT_TIMEOUT, ICMP_SLOTS,
  PORT_LOW, PORT_HIGH, PORT_MOD,  \* 40000, 50000 and 2^16 in nat_genuport
  Frames,       \* the frames that come, see Frame
  Roles,        \* what the user may answer to netstart: ROUTER, or an interface for a host
  MaxTime       \* bound: the clock of the model stops here

VARIABLES
  if_tab,       \* per interface: [up, ipvalid, queue]
  started,      \* how far netstart has come
  pool,         \* the semaphore of the buffer pool
  raw,          \* whether rawin has a buffer or waits for one
  at,           \* where each netin is, and ipout: [pc, pkt, slot]
  ipoqueue, nat_udp, nat_icmp, port, clktime,
  talk,         \* history: who used a public port towards a remote port last, and when
  pinged,       \* history: the echo requests that NAT has passed on
  raced,        \* history: a netin ran in NAT while another one was in it
  fault         \* "none", "panic" or "freed twice", which end the model

vars == <<if_tab, started, pool, raw, at, ipoqueue, nat_udp, nat_icmp, port, clktime,
          talk, pinged, raced, fault>>

Ifaces == 0 .. (NIFACES - 1)
UdpEntries == 0 .. (NATUDPSIZ - 1)
IcmpEntries == 0 .. (NATICMPSIZ - 1)

IPOUT == NIFACES                        \* the process ipout; netin i has the number i
BCAST == "bcast"
ROUTER == -1
PUBLIC == "public"                      \* if_tab[0].if_ipucast
Ucast(i) == <<PUBLIC, "router1", "router2">>[i + 1]

\* A frame for interface i.  proto is "udp", "request" or "reply" (echo), or
\* "none" for the packets that are dropped or answered without a trace here.
\* sport and dport are the ports; dport is the identifier of an echo.
Frame(i, proto, src, dst, sport, dport) ==
  [iface |-> i, proto |-> proto, src |-> src, dst |-> dst, sport |-> sport, dport |-> dport]
NOPKT == Frame(0, "none", "", "", 0, 0)
IDLE == [pc |-> "idle", pkt |-> NOPKT, slot |-> 0]

FreeUdp == [state |-> "FREE", iface |-> 0, destip |-> "", destpt |-> 0, pubpt |-> 0,
            privip |-> "", privpt |-> 0, time |-> 0]
FreeIcmp == [iface |-> 0, destip |-> "", privip |-> "", privid |-> 0]

\* The part of nbufs that belongs to the interfaces; the queues of local
\* endpoints have their own share.
nbufs == NIFACES * IF_QUEUESIZE + 1

netiface_init == if_tab = [i \in Ifaces |-> [up |-> i = 0, ipvalid |-> FALSE, queue |-> <<>>]]
nat_init ==
  /\ nat_udp = [s \in UdpEntries |-> FreeUdp]
  /\ nat_icmp = [s \in IcmpEntries |-> FreeIcmp]
net_init ==
  /\ netiface_init
  /\ at = [x \in Ifaces \cup {IPOUT} |-> IDLE]
  /\ ipoqueue = <<>>
  /\ pool = wait(semcreate(nbufs), "rawin") /\ raw = "read"

Init ==
  /\ net_init /\ nat_init
  /\ started = "dhcp"
  /\ port = PORT_LOW /\ clktime = 0
  /\ talk = {} /\ pinged = {} /\ raced = FALSE /\ fault = "none"

unchangedNat == UNCHANGED <<nat_udp, nat_icmp, port, talk, pinged>>
unchangedStart == UNCHANGED <<started, clktime>>

-----------------------------------------------------------------------------
(***************************************************************************)
(* netstart.                                                               *)
(***************************************************************************)
\* getlocalip has an address for interface 0.
getlocalip ==
  /\ started = "dhcp" /\ started' = "address"
  /\ if_tab' = [if_tab EXCEPT ![0].ipvalid = TRUE]
  /\ UNCHANGED <<pool, raw, at, ipoqueue, clktime, raced, fault>> /\ unchangedNat

\* The addresses of the othernets, and then what the user answers.
Othernets ==
  /\ started = "address" /\ started' = "ask"
  /\ if_tab' = [i \in Ifaces |-> [if_tab[i] EXCEPT !.ipvalid = TRUE]]
  /\ UNCHANGED <<pool, raw, at, ipoqueue, clktime, raced, fault>> /\ unchangedNat
UpIn(role) == IF role = ROUTER THEN Ifaces ELSE {role}
netstart(role) ==
  /\ started = "ask" /\ started' = "running"
  /\ if_tab' = [i \in Ifaces |-> [if_tab[i] EXCEPT !.up = i \in UpIn(role)]]
  /\ UNCHANGED <<pool, raw, at, ipoqueue, clktime, raced, fault>> /\ unchangedNat

-----------------------------------------------------------------------------
(***************************************************************************)
(* rawin: the frame of an interface that is up goes to its queue, if there *)
(* is room; otherwise the buffer is used again.                            *)
(***************************************************************************)
HasRoom(i) == Len(if_tab[i].queue) < IF_QUEUESIZE
rawin(f) ==
  /\ raw = "read" /\ ~ Waits(pool, "rawin")
  /\ if_tab[f.iface].up /\ HasRoom(f.iface)
  /\ if_tab' = [if_tab EXCEPT ![f.iface].queue = Append(@, f)]
  /\ pool' = wait(pool, "rawin")
  /\ UNCHANGED <<raw, at, ipoqueue, raced, fault>> /\ unchangedNat /\ unchangedStart

-----------------------------------------------------------------------------
(***************************************************************************)
(* What netin x does with a packet; each operator ends its step.           *)
(***************************************************************************)
Keeps == UNCHANGED <<nat_udp, nat_icmp, port, talk, pinged, raced, fault>>
Idle(x) == at' = [at EXCEPT ![x] = IDLE]
Freed(x) == pool' = signal(pool) /\ UNCHANGED ipoqueue /\ Idle(x)

ip_local(x) == Freed(x)

\* A full queue, or an interface that is down, drops the packet.
LeakWhenFull(x) == UNCHANGED <<pool, ipoqueue>> /\ Idle(x)
DropWhenFull(x) == Freed(x)
ip_enqueue(x, pkt) ==
  IF if_tab[pkt.iface].up /\ Len(ipoqueue) < IP_OQSIZ
  THEN ipoqueue' = Append(ipoqueue, pkt) /\ UNCHANGED pool /\ Idle(x)
  ELSE DropWhenFull(x)

Used == {s \in UdpEntries : nat_udp[s].state = "USED"}
Expired(s) == clktime - nat_udp[s].time > NAT_TIMEOUT

\* The search of nat_udp: entries that have expired before the match are freed.
Before(match) == IF match = {} THEN UdpEntries ELSE 0 .. (Min(match) - 1)
Searched(match) ==
  [s \in UdpEntries |->
     IF s \in Used \cap Before(match) /\ Expired(s) THEN [nat_udp[s] EXCEPT !.state = "FREE"]
     ELSE nat_udp[s]]
Refreshed(s) == [Searched({s}) EXCEPT ![s].time = clktime]

\* talk: towards <<destip, destpt, pubpt>> the public port belongs to who.
Key(e) == <<e.destip, e.destpt, e.pubpt>>
Who(e) == <<e.privip, e.privpt, e.iface>>
Talks(e) == {t \in talk : t.key # Key(e)} \cup {[key |-> Key(e), who |-> Who(e), time |-> clktime]}

InMatch(pkt) == {s \in Used : Key(nat_udp[s]) = <<pkt.src, pkt.sport, pkt.dport>> /\ pkt.dst = PUBLIC}
nat_in_udp(x, pkt) ==
  LET match == InMatch(pkt)
  IN  \/ /\ match = {}
         /\ nat_udp' = Searched(match)
         /\ ip_local(x) /\ UNCHANGED talk
      \/ /\ match # {}
         /\ LET s == Min(match)
            IN  /\ nat_udp' = Refreshed(s)
                /\ ip_enqueue(x, [pkt EXCEPT !.dst = nat_udp[s].privip, !.dport = nat_udp[s].privpt,
                                             !.iface = nat_udp[s].iface])
                /\ talk' = {IF t.key = Key(nat_udp[s]) THEN [t EXCEPT !.time = clktime] ELSE t : t \in talk}

\* An echo reply with an identifier of this computer goes to the local stack and
\* then on, to be freed a second time.
pub2slot(id) == id - ICMP_SLOTS
AnyReply(pkt) == TRUE
SourceMatches(pkt) == pkt.src = nat_icmp[pub2slot(pkt.dport)].destip
nat_in_icmp(x, pkt) ==
  \/ /\ pkt.dport < ICMP_SLOTS
     /\ pool' = signaln(pool, 2) /\ fault' = "freed twice"
     /\ Idle(x) /\ UNCHANGED ipoqueue
  \/ /\ pub2slot(pkt.dport) \in IcmpEntries /\ SourceMatches(pkt)
     /\ LET e == nat_icmp[pub2slot(pkt.dport)]
        IN  ip_enqueue(x, [pkt EXCEPT !.dst = e.privip, !.dport = e.privid, !.iface = e.iface])
     /\ UNCHANGED fault
  \/ /\ pkt.dport >= ICMP_SLOTS
     /\ ~ (pub2slot(pkt.dport) \in IcmpEntries /\ SourceMatches(pkt))
     /\ Freed(x) /\ UNCHANGED fault

nat_in(x, pkt) ==
  \/ pkt.proto = "udp" /\ nat_in_udp(x, pkt) /\ UNCHANGED <<nat_icmp, port, pinged, fault>>
  \/ pkt.proto = "reply" /\ nat_in_icmp(x, pkt) /\ UNCHANGED <<nat_udp, nat_icmp, port, talk, pinged>>
  \/ pkt.proto = "request" /\ ip_local(x) /\ UNCHANGED <<nat_udp, nat_icmp, port, talk, pinged, fault>>

-----------------------------------------------------------------------------
Bump(p) == (p + 1) % PORT_MOD
Retry(p) == IF Bump(p) >= PORT_HIGH THEN PORT_LOW ELSE Bump(p)
Taken(table) == {table[s].pubpt : s \in {t \in UdpEntries : table[t].state = "USED"}}

\* nat_genuport: from the next port on, the first that no entry uses.
genuport[p \in 0 .. PORT_MOD, taken \in SUBSET (0 .. PORT_MOD), n \in 0 .. NATUDPSIZ] ==
  IF p \in taken /\ n > 0 THEN genuport[Retry(p), taken, n - 1] ELSE p
nat_genuportAny(taken) == Retry(port)
nat_genuport(taken) == genuport[Bump(port), taken, NATUDPSIZ]

OutMatch(pkt) == {s \in Used : /\ nat_udp[s].privip = pkt.src /\ nat_udp[s].destip = pkt.dst
                               /\ nat_udp[s].privpt = pkt.sport /\ nat_udp[s].destpt = pkt.dport}
ToInternet(pkt, e) == [pkt EXCEPT !.src = PUBLIC, !.sport = e.pubpt, !.iface = 0]

\* nat_out_udp: a known conversation goes out; for a new one the first free slot
\* and a port are chosen, and stored in the next step.
nat_out_udp(x, pkt) ==
  LET match == OutMatch(pkt)
      table == Searched(match)
      free == {s \in UdpEntries : table[s].state = "FREE"}
  IN  \/ /\ match # {}
         /\ LET s == Min(match)
            IN  /\ nat_udp' = Refreshed(s)
                /\ ip_enqueue(x, ToInternet(pkt, nat_udp[s]))
                /\ talk' = Talks(nat_udp[s])
         /\ UNCHANGED <<port, fault>>
      \/ /\ match = {} /\ free # {}
         /\ nat_udp' = table
         /\ port' = nat_genuport(Taken(table))
         /\ at' = [at EXCEPT ![x] = [pc |-> "fill", pkt |-> pkt, slot |-> Min(free)]]
         /\ UNCHANGED <<pool, ipoqueue, talk, fault>>
      \/ /\ match = {} /\ free = {}
         /\ fault' = "panic"
         /\ UNCHANGED <<nat_udp, port, at, pool, ipoqueue, talk>>

\* The rest of nat_out_udp: the port is read from the variable all netins share.
NewEntry(pkt) ==
  [state |-> "USED", iface |-> pkt.iface, destip |-> pkt.dst, destpt |-> pkt.dport, pubpt |-> port,
   privip |-> pkt.src, privpt |-> pkt.sport, time |-> clktime]
NatFills(x) ==
  LET e == NewEntry(at[x].pkt)
  IN  /\ at[x].pc = "fill"
      /\ nat_udp' = [nat_udp EXCEPT ![at[x].slot] = e]
      /\ ip_enqueue(x, ToInternet(at[x].pkt, e))
      /\ talk' = Talks(e)
      /\ UNCHANGED <<if_tab, raw, nat_icmp, port, pinged, raced, fault>> /\ unchangedStart

\* nat_out_icmp never marks an entry used: it finds the first one free each time.
slot2pub(s) == s + ICMP_SLOTS
nat_out_icmp(x, pkt) ==
  /\ nat_icmp' = [nat_icmp EXCEPT ![0] = [iface |-> pkt.iface, destip |-> pkt.dst,
                                         privip |-> pkt.src, privid |-> pkt.dport]]
  /\ ip_enqueue(x, [pkt EXCEPT !.src = PUBLIC, !.dport = slot2pub(0), !.iface = 0])
  /\ pinged' = pinged \cup {<<pkt.src, pkt.dport, pkt.dst>>}

nat_out(x, pkt) ==
  \/ pkt.proto = "udp" /\ nat_out_udp(x, pkt) /\ UNCHANGED <<nat_icmp, pinged>>
  \/ pkt.proto = "request" /\ nat_out_icmp(x, pkt) /\ UNCHANGED <<nat_udp, port, talk, fault>>
  \/ pkt.proto = "reply" /\ Freed(x) /\ UNCHANGED <<nat_udp, nat_icmp, port, talk, pinged, fault>>

-----------------------------------------------------------------------------
\* ip_in, in the order of its tests.
ForLocal(i, pkt) ==
  \/ pkt.dst = BCAST
  \/ i = 0 /\ ~ if_tab[i].ipvalid
  \/ i # 0 /\ if_tab[i].ipvalid /\ pkt.dst = Ucast(i)
ip_in(i, pkt) ==
  \/ pkt.proto = "none" /\ Freed(i) /\ Keeps
  \/ pkt.proto # "none" /\ ForLocal(i, pkt) /\ ip_local(i) /\ Keeps
  \/ /\ pkt.proto # "none" /\ ~ ForLocal(i, pkt) /\ if_tab[i].ipvalid
     /\ raced' = (raced \/ \E j \in Ifaces : at[j].pc = "fill")
     /\ IF i = 0 THEN nat_in(i, pkt) ELSE nat_out(i, pkt)

\* netin takes a packet of its queue.
netin(i) ==
  /\ at[i] = IDLE /\ if_tab[i].queue # <<>>
  /\ if_tab' = [if_tab EXCEPT ![i].queue = Tail(@)]
  /\ ip_in(i, Head(if_tab[i].queue))
  /\ UNCHANGED raw /\ unchangedStart

-----------------------------------------------------------------------------
IpoutRuns == at[IPOUT] = IDLE /\ ipoqueue # <<>>

\* ipout takes a packet: a broadcast is dropped, one for this computer goes to the
\* local stack, for the others the next hop is resolved.
ipout ==
  /\ IpoutRuns
  /\ LET pkt == Head(ipoqueue)
     IN  IF pkt.dst \in {BCAST, Ucast(pkt.iface)}
         THEN pool' = signal(pool) /\ UNCHANGED at
         ELSE at' = [at EXCEPT ![IPOUT] = [pc |-> "arp", pkt |-> pkt, slot |-> 0]] /\ UNCHANGED pool
  /\ ipoqueue' = Tail(ipoqueue)
  /\ UNCHANGED <<if_tab, raw, raced, fault>> /\ unchangedNat /\ unchangedStart

\* arp_resolve and ip_out have returned.
ip_out ==
  /\ at[IPOUT].pc = "arp"
  /\ Freed(IPOUT)
  /\ UNCHANGED <<if_tab, raw, raced, fault>> /\ unchangedNat /\ unchangedStart

Tick ==
  /\ clktime < MaxTime /\ clktime' = clktime + 1
  /\ UNCHANGED <<if_tab, started, pool, raw, at, ipoqueue, raced, fault>> /\ unchangedNat

-----------------------------------------------------------------------------
Running(A) == fault = "none" /\ A
Others(A) == fault = "none" /\ ~ IpoutRuns /\ A
NetinSteps(i) == netin(i) \/ NatFills(i)

Next ==
  \/ Running(ipout) \/ Running(ip_out)
  \/ Running(\E f \in Frames : rawin(f))
  \/ Others(\E i \in Ifaces : NetinSteps(i))
  \/ Others(getlocalip \/ Othernets \/ \E r \in Roles : netstart(r))
  \/ Running(Tick)
  \/ fault # "none" /\ UNCHANGED vars

-----------------------------------------------------------------------------
\* Whoever used a public port towards a remote port within NAT_TIMEOUT gets the
\* replies that come to it: the entry is there, and no other entry is in front of
\* it, whatever has expired, been freed and been used again.  It fails when two
\* netins were in nat_out_udp at the same time.
RepliesRouted ==
  (~ raced /\ fault = "none") =>
    \A t \in talk : clktime - t.time <= NAT_TIMEOUT =>
       LET match == {s \in Used : Key(nat_udp[s]) = t.key}
       IN  match # {} /\ Who(nat_udp[Min(match)]) = t.who

\* An echo reply is passed only to a host that sent a request with that identifier
\* to the address the reply is from (nat_icmp may have forgotten who was first).
PingsMatch ==
  \A k \in DOMAIN ipoqueue :
    LET p == ipoqueue[k]
    IN  (p.proto = "reply" /\ p.iface # 0) => <<p.dst, p.dport, p.src>> \in pinged

\* Every buffer is in the pool, with rawin, in a queue or with a process: no way
\* through the router loses one, except the echo reply that is freed twice.
HeldBy(x) == IF at[x].pc = "idle" THEN 0 ELSE 1
RouterBuffers ==
  fault = "none" =>
    pool.count + Len(pool.queue) + (IF Waits(pool, "rawin") THEN 0 ELSE 1) + Len(ipoqueue)
      + MapThenSumSet(LAMBDA i : Len(if_tab[i].queue), Ifaces)
      + MapThenSumSet(HeldBy, Ifaces \cup {IPOUT}) = nbufs

\* rawin never waits for a buffer for ever: packets in the router go on their way.
RawinWaits == Waits(pool, "rawin") /\ fault = "none"
RawinReads == ~ Waits(pool, "rawin") \/ fault # "none"

=============================================================================
