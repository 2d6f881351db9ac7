------------------------------ MODULE ArpIfaces ------------------------------
(***************************************************************************)
(* ARP of the forwarding version: a cache for each interface.  The lab     *)
(* network and the othernets share one Ethernet, and two hosts on two of   *)
(* the networks may have one IP address, so a packet must only reach the   *)
(* cache of the interface it came on.  arp_resolve waits in recvtime,      *)
(* where other processes and the netin of every interface run; between two *)
(* waits a process keeps interrupts off.  The hosts are external: a packet *)
(* of any of them comes at any time or never.  The hardware address of     *)
(* host a on network i is written <<i, a>>.  (Module Arp has the cache of  *)
(* the other version, with messages that ARP did not send.)                *)
(***************************************************************************)
EXTENDS Integers, FiniteSets, FiniteSetsExt

CONSTANTS
  Procs, NIFACES, Addrs,
  Private,      \* the addresses of 192.168.0.0/16, which the othernets have
  ARP_SIZ, ARP_RETRY

VARIABLES
  if_arptab,    \* the cache of each interface
  at,           \* [iface, dest, slot, try] of a process in arp_resolve, or Outside
  told,         \* the processes that have a message, OK
  waiting,      \* the processes in recvtime whose time is not over
  mac,          \* what the last call of a process stored: <<asked for, address>>, or {}
  evicted       \* history: the processes whose slot was given away before they read it

vars == <<if_arptab, at, told, waiting, mac, evicted>>

Ifaces == 0 .. (NIFACES - 1)
Slots == 0 .. (ARP_SIZ - 1)
NONE == 0
BCAST == 1      \* IP_BCAST or the broadcast address of the network

Free == [arstate |-> "FREE", arpaddr |-> NONE, arpid |-> {}, arhaddr |-> <<>>]
Outside == [iface |-> -1, dest |-> NONE, slot |-> -1, try |-> 0]

\* arp_init leaves entry 0 alone, which is free since the start.
arp_init == if_arptab = [i \in Ifaces |-> [k \in Slots |-> Free]]

Init ==
  /\ arp_init
  /\ at = [p \in Procs |-> Outside] /\ told = {} /\ waiting = {}
  /\ mac = [p \in Procs |-> {}] /\ evicted = {}

-----------------------------------------------------------------------------
Used(i) == {k \in Slots : if_arptab[i][k].arstate # "FREE"}
Found(i, a) == {k \in Used(i) : if_arptab[i][k].arpaddr = a}
Resolved(i) == {k \in Slots : if_arptab[i][k].arstate = "RESOLVED"}

\* arp_alloc: the first free slot, or else the first that is resolved; clear.
FirstEvictable(i) == IF Used(i) # Slots THEN {Min(Slots \ Used(i))} ELSE {Min(Slots)}
arp_alloc(i) ==
  IF Used(i) # Slots THEN {Min(Slots \ Used(i))}
  ELSE IF Resolved(i) # {} THEN {Min(Resolved(i))} ELSE {}

Fills(i, k, e) ==
  /\ if_arptab' = [if_arptab EXCEPT ![i][k] = e]
  /\ evicted' = evicted \cup {p \in Procs : at[p].iface = i /\ at[p].slot = k}

Leaves(p) == at' = [at EXCEPT ![p] = Outside]
Answer(p, i, a, m) == mac' = [mac EXCEPT ![p] = {<<<<i, a>>, m>>}]
NoAnswer(p) == mac' = [mac EXCEPT ![p] = {}]

-----------------------------------------------------------------------------
\* Answered at once: a broadcast, or an address in the cache.  Refused: another
\* process waits for the address, or every slot is pending.
ResolvedAtOnce(p, i, a) ==
  /\ \/ a = BCAST /\ Answer(p, i, a, <<i, BCAST>>)
     \/ /\ a # BCAST
        /\ \E k \in Found(i, a) :
             IF if_arptab[i][k].arstate = "RESOLVED" THEN Answer(p, i, a, if_arptab[i][k].arhaddr) ELSE NoAnswer(p)
     \/ a # BCAST /\ Found(i, a) = {} /\ arp_alloc(i) = {} /\ NoAnswer(p)
  /\ UNCHANGED <<if_arptab, at, told, waiting, evicted>>

\* The request is sent and p waits: recvclr, write and recvtime.
ResolveAsks(p, i, a) ==
  /\ a # BCAST /\ Found(i, a) = {}
  /\ \E k \in arp_alloc(i) :
       /\ if_arptab' = [if_arptab EXCEPT ![i][k] = [Free EXCEPT !.arstate = "PENDING", !.arpaddr = a, !.arpid = {p}]]
       /\ evicted' = (evicted \ {p}) \cup {q \in Procs : at[q].iface = i /\ at[q].slot = k}
       /\ at' = [at EXCEPT ![p] = [iface |-> i, dest |-> a, slot |-> k, try |-> 1]]
  /\ told' = told \ {p} /\ waiting' = waiting \cup {p}
  /\ NoAnswer(p)

arp_resolve(p, i, a) == at[p] = Outside /\ (ResolvedAtOnce(p, i, a) \/ ResolveAsks(p, i, a))

ClockWakes(p) == p \in waiting /\ waiting' = waiting \ {p} /\ UNCHANGED <<if_arptab, at, told, mac, evicted>>

Released(p) == at[p] # Outside /\ p \notin waiting
SameTry(p) == at[p].try
NextTry(p) == at[p].try + 1
KeepPending(e) == e
Invalidated(e) == Free          \* the other fields are not read again
ResolveTimedOut(p) ==
  /\ Released(p) /\ p \notin told
  /\ \/ /\ at[p].try < ARP_RETRY
        /\ at' = [at EXCEPT ![p].try = NextTry(p)] /\ waiting' = waiting \cup {p}
        /\ UNCHANGED <<if_arptab, mac>>
     \/ /\ at[p].try = ARP_RETRY
        /\ if_arptab' = [if_arptab EXCEPT ![at[p].iface][at[p].slot] = Invalidated(@)]
        /\ Leaves(p) /\ NoAnswer(p) /\ UNCHANGED waiting
  /\ UNCHANGED <<told, evicted>>

\* The message: what the slot holds is returned.
ResolveAnswered(p) ==
  /\ Released(p) /\ p \in told
  /\ Answer(p, at[p].iface, at[p].dest, if_arptab[at[p].iface][at[p].slot].arhaddr)
  /\ Leaves(p) /\ told' = told \ {p}
  /\ UNCHANGED <<if_arptab, waiting, evicted>>

-----------------------------------------------------------------------------
\* A packet of host a of network n comes to interface i: the netins read the
\* frames of one Ethernet, and net_iface is the network they were sent on.
NoFilter(i, a) == FALSE
Filtered(i, a) == i = 0 /\ a \in Private
AllCaches(i) == Ifaces
CachesOf(i) == {i}
Waiter(i, k) == IF if_arptab[i][k].arstate = "PENDING" THEN if_arptab[i][k].arpid ELSE {}

\* arp_in: an entry that is there is refreshed, and its waiter told; a host that
\* asks for our address is added.
arp_in(n, a, forUs) ==
  /\ ~ Filtered(n, a)
  /\ \E i \in CachesOf(n) :
       \/ /\ Found(i, a) # {}
          /\ LET k == Min(Found(i, a))
             IN  /\ if_arptab' = [if_arptab EXCEPT ![i][k] =
                       [@ EXCEPT !.arhaddr = <<n, a>>, !.arstate = "RESOLVED", !.arpid = {}]]
                 /\ told' = told \cup Waiter(i, k) /\ waiting' = waiting \ Waiter(i, k)
          /\ UNCHANGED evicted
       \/ /\ Found(i, a) = {} /\ forUs
          /\ \E k \in arp_alloc(i) :
               Fills(i, k, [arstate |-> "RESOLVED", arpaddr |-> a, arpid |-> {}, arhaddr |-> <<n, a>>])
          /\ UNCHANGED <<told, waiting>>
  /\ UNCHANGED <<at, mac>>

Step(p) == ClockWakes(p) \/ ResolveTimedOut(p) \/ ResolveAnswered(p)

Next ==
  \/ \E p \in Procs : Step(p) \/ \E i \in Ifaces, a \in Addrs \cup {BCAST} : arp_resolve(p, i, a)
  \/ \E n \in Ifaces, a \in Addrs, forUs \in BOOLEAN : arp_in(n, a, forUs)

-----------------------------------------------------------------------------
\* arp_resolve stores the hardware address of the host that has the address on the
\* network that was asked, never of one with the same address on another network,
\* unless its slot was given away between the answer and its return.
RightNetwork == \A p \in Procs \ evicted : \A m \in mac[p] : m[2] = m[1]

\* No host of 192.168.0.0/16 gets into the cache of the lab network, so that no
\* packet for the Internet can be led to a host behind the router: a request for
\* such an address there stays without an answer, and its slot is free again.
PrivateStayOut ==
  \A k \in Used(0) :
    if_arptab[0][k].arpaddr \in Private =>
      /\ if_arptab[0][k].arstate = "PENDING"
      /\ \E p \in if_arptab[0][k].arpid : at[p].iface = 0 /\ at[p].slot = k

\* What a process waits for is the entry of its own interface and address, and no
\* one else waits for it; a process that has its message reads a resolved entry.
OneWaiterEach ==
  \A p \in Procs \ evicted :
    at[p] # Outside =>
      LET e == if_arptab[at[p].iface][at[p].slot]
      IN  /\ e.arpaddr = at[p].dest
          /\ IF p \in told THEN e.arstate = "RESOLVED" ELSE e.arstate = "PENDING" /\ e.arpid = {p}

\* A call ends, answered or not: after ARP_RETRY requests it gives up.
Resolving(p) == at[p] # Outside

=============================================================================
