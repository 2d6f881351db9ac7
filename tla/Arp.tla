-------------------------------- MODULE Arp ---------------------------------
(***************************************************************************)
(* The ARP cache.  arp_resolve waits for the answer in recvtime, where any *)
(* other process and netin may run; between two waits a process keeps the  *)
(* interrupts off, so its steps are atomic.  The hosts of the network are  *)
(* external: an ARP packet of any of them may come at any time or never,   *)
(* so answers are lost, late and doubled.  The hardware address of a host  *)
(* is written as its IP address; a host never changes it.                  *)
(***************************************************************************)
EXTENDS Integers, FiniteSets, FiniteSetsExt, FiniteSetTheorems, WellFoundedInduction, TLAPS

CONSTANTS
  Procs,
  Addrs,        \* the IP addresses of the other hosts, naturals above BCAST
  ARP_SIZ, ARP_RETRY,
  Others        \* messages other processes send to a process that resolves

VARIABLES
  arpcache,
  at,           \* [slot, try] of a process in arp_resolve; slot NOSLOT outside
  dest,         \* the address a process in arp_resolve asks for, or ZERO
  wrong,        \* the processes whose last call stored the address of another host
  prmsg,        \* the message of a process, or "none"
  waiting,      \* the processes in recvtime whose time is not over
  disturbed     \* what went wrong for a process: another message, an eviction

vars == <<arpcache, at, dest, wrong, prmsg, waiting, disturbed>>

Slots == 0 .. (ARP_SIZ - 1)
NOSLOT == -1
ZERO == 0       \* an address field after memset
BCAST == 1      \* IP_BCAST, NetData.ipbcast and the hardware broadcast address

Free == [arstate |-> "FREE", arpaddr |-> ZERO, arpid |-> {}, arhaddr |-> ZERO]
Outside == [slot |-> NOSLOT, try |-> 0]

arp_init == arpcache = [i \in Slots |-> Free]

Init ==
  /\ arp_init
  /\ at = [p \in Procs |-> Outside]
  /\ dest = [p \in Procs |-> ZERO] /\ wrong = {}
  /\ prmsg = [p \in Procs |-> "none"]
  /\ waiting = {}
  /\ disturbed = [p \in Procs |-> {}]

-----------------------------------------------------------------------------
Used == {i \in Slots : arpcache[i].arstate # "FREE"}
Found(a) == {i \in Used : arpcache[i].arpaddr = a}

\* arp_alloc: the first free slot, or else the first one that is resolved.
Evictable == {i \in Slots : arpcache[i].arstate = "RESOLVED"}
arp_alloc == IF Used # Slots THEN {Min(Slots \ Used)}
             ELSE IF Evictable # {} THEN {Min(Evictable)} ELSE {}

\* The processes that have been told to read slot i and have not yet.
Readers(i) == {p \in Procs : at[p].slot = i}
EvictedFrom(i, p) == {c \in {"eviction"} : p \in Readers(i)}

-----------------------------------------------------------------------------
\* The call of p for address a ends: with an error, or with mac stored.
Fails(p) ==
  /\ wrong' = wrong \ {p}
  /\ at' = [at EXCEPT ![p] = Outside] /\ dest' = [dest EXCEPT ![p] = ZERO]
Stores(p, a, mac) ==
  /\ wrong' = IF mac = a THEN wrong \ {p} ELSE wrong \cup {p}
  /\ at' = [at EXCEPT ![p] = Outside] /\ dest' = [dest EXCEPT ![p] = ZERO]

\* arp_resolve up to the first wait: answered at once, refused because another
\* process waits for the address or the cache is full, or a request is sent.
arp_resolve(p, a) ==
  /\ at[p] = Outside
  /\ \/ /\ a = BCAST
        /\ Stores(p, a, BCAST)
        /\ UNCHANGED <<arpcache, prmsg, waiting, disturbed>>
     \/ /\ a # BCAST
        /\ \E i \in Found(a) :
             IF arpcache[i].arstate = "RESOLVED"
             THEN Stores(p, a, arpcache[i].arhaddr)
             ELSE Fails(p)
        /\ UNCHANGED <<arpcache, prmsg, waiting, disturbed>>
     \/ /\ a # BCAST /\ Found(a) = {} /\ arp_alloc = {}
        /\ Fails(p)
        /\ UNCHANGED <<arpcache, prmsg, waiting, disturbed>>
     \/ /\ a # BCAST /\ Found(a) = {}
        /\ \E i \in arp_alloc :
             /\ arpcache' = [arpcache EXCEPT ![i] = [Free EXCEPT !.arstate = "PENDING", !.arpaddr = a, !.arpid = {p}]]
             /\ at' = [at EXCEPT ![p] = [slot |-> i, try |-> 1]]
             /\ disturbed' = [q \in Procs |-> (IF q = p THEN disturbed[p] \ {"eviction"} ELSE disturbed[q])
                                              \cup EvictedFrom(i, q)]
        /\ prmsg' = [prmsg EXCEPT ![p] = "none"]       \* recvclr
        /\ waiting' = waiting \cup {p}                 \* recvtime
        /\ dest' = [dest EXCEPT ![p] = a]
        /\ wrong' = wrong \ {p}

\* The clock ends a recvtime; the process runs later.
ClockWakes(p) == p \in waiting /\ waiting' = waiting \ {p}
                 /\ UNCHANGED <<arpcache, at, dest, wrong, prmsg, disturbed>>

SameTry(p) == at[p].try
NextTry(p) == at[p].try + 1

Released(p) == at[p] # Outside /\ p \notin waiting

\* No message when the time is over: the request is repeated, or the entry freed
\* (arp_alloc clears it, and nobody reads it before).
KeepEntry(e) == e
FreeEntry(e) == Free
ResolveTimedOut(p) ==
  /\ Released(p) /\ prmsg[p] = "none"
  /\ \/ /\ at[p].try < ARP_RETRY
        /\ at' = [at EXCEPT ![p].try = NextTry(p)]
        /\ waiting' = waiting \cup {p}
        /\ UNCHANGED <<arpcache, dest, wrong>>
     \/ /\ at[p].try = ARP_RETRY
        /\ arpcache' = [arpcache EXCEPT ![at[p].slot] = FreeEntry(@)]
        /\ Fails(p)
        /\ UNCHANGED waiting
  /\ UNCHANGED <<prmsg, disturbed>>

\* A message: SYSERR ends the call, any other counts as the answer.
ResolveAnswered(p) ==
  /\ Released(p) /\ prmsg[p] # "none"
  /\ IF prmsg[p] = "SYSERR" THEN Fails(p)
     ELSE Stores(p, dest[p], arpcache[at[p].slot].arhaddr)
  /\ prmsg' = [prmsg EXCEPT ![p] = "none"]
  /\ UNCHANGED <<arpcache, waiting, disturbed>>

-----------------------------------------------------------------------------
\* send fails when the process has a message already.
Sent(S, m) == [p \in Procs |-> IF p \in S /\ prmsg[p] = "none" THEN m ELSE prmsg[p]]

\* The entry of a host that is in the cache, when a packet of it comes.  (Nobody
\* reads arpid while the entry is resolved.)
RefreshedKeeps(e, a) == [e EXCEPT !.arstate = "RESOLVED", !.arpid = {}]
Refreshed(e, a) == [e EXCEPT !.arhaddr = a, !.arstate = "RESOLVED", !.arpid = {}]

\* arp_in: a packet of host a; forUs: a request for our address, which is valid.
arp_in(a, forUs) ==
  \/ /\ Found(a) # {}
     /\ LET i == Min(Found(a))
            told == IF arpcache[i].arstate = "PENDING" THEN arpcache[i].arpid ELSE {}
        IN  /\ arpcache' = [arpcache EXCEPT ![i] = Refreshed(@, a)]
            /\ prmsg' = Sent(told, "OK")
            /\ waiting' = waiting \ told
     /\ UNCHANGED <<at, dest, wrong, disturbed>>
  \/ /\ Found(a) = {} /\ forUs
     /\ \E i \in arp_alloc :
          /\ arpcache' = [arpcache EXCEPT ![i] = [Free EXCEPT !.arstate = "RESOLVED", !.arpaddr = a, !.arhaddr = a]]
          /\ disturbed' = [p \in Procs |-> disturbed[p] \cup EvictedFrom(i, p)]
     /\ UNCHANGED <<at, dest, wrong, prmsg, waiting>>

\* External: another process sends a message to one that resolves an address.
OtherMessage(p, m) ==
  /\ at[p] # Outside /\ prmsg[p] = "none"
  /\ prmsg' = Sent({p}, m)
  /\ waiting' = waiting \ {p}
  /\ disturbed' = [disturbed EXCEPT ![p] = @ \cup {"message"}]
  /\ UNCHANGED <<arpcache, at, dest, wrong>>

Step(p) == ClockWakes(p) \/ ResolveTimedOut(p) \/ ResolveAnswered(p)

Next ==
  \/ \E p \in Procs : \/ \E a \in Addrs \cup {BCAST} : arp_resolve(p, a)
                      \/ Step(p)
                      \/ \E m \in Others : OtherMessage(p, m)
  \/ \E a \in Addrs, forUs \in BOOLEAN : arp_in(a, forUs)

Spec == Init /\ [][Next]_vars

-----------------------------------------------------------------------------
\* The cache never holds the hardware address of one host under the IP address
\* of another, nor one host twice, whoever reuses a slot.
CacheRight ==
  /\ \A i \in Used : arpcache[i].arstate = "RESOLVED" => arpcache[i].arhaddr = arpcache[i].arpaddr
  /\ \A a \in Addrs : Cardinality(Found(a)) <= 1

\* arp_resolve returns the hardware address of the host it was asked for, unless
\* another message arrived while it waited, which it takes for the answer, or
\* its entry was given away between the answer and its return.
RightMac == \A p \in wrong : disturbed[p] # {}

\* An entry is pending only while the process that asked waits for it: no entry
\* is blocked for ever, and no answer is sent to a process that does not expect
\* it.  A process that took another message for the answer leaves one behind.
PendingHasWaiter ==
  \A i \in Used : arpcache[i].arstate = "PENDING" =>
    \A p \in arpcache[i].arpid :
      (at[p].slot = i /\ dest[p] = arpcache[i].arpaddr) \/ "message" \in disturbed[p]

\* A process that is not resolving has no answer of ARP among its messages.
NoStrayAnswer == \A p \in Procs : (at[p] = Outside /\ prmsg[p] # "none") => "message" \in disturbed[p]

\* What a run checks, together with ResolveEnds (arp_resolve, arp_in, arp_alloc).
CacheSound == CacheRight /\ RightMac /\ PendingHasWaiter /\ NoStrayAnswer

\* A call ends, answered or not: after ARP_RETRY requests nobody answers it
\* gives up.
ResolveEnds == \A p \in Procs : at[p] # Outside ~> at[p] = Outside

-----------------------------------------------------------------------------
(* Why the cache is right, for any number of processes, hosts and slots:   *)
(* the invariant says what a process in arp_resolve finds in its slot.     *)
(* While it has no message, that is its own pending entry, which nobody    *)
(* can take or free; when it has one, no pending entry of its own, and if  *)
(* nothing disturbed it the resolved entry of the host it asks for.        *)

Entries == [arstate : {"FREE", "PENDING", "RESOLVED"}, arpaddr : Addrs \cup {ZERO},
            arpid : SUBSET Procs, arhaddr : Addrs \cup {ZERO}]

TypeOK ==
  /\ arpcache \in [Slots -> Entries]
  /\ DOMAIN at = Procs /\ \A p \in Procs : at[p] = Outside \/ at[p].slot \in Slots
  /\ dest \in [Procs -> Addrs \cup {ZERO}]
  /\ wrong \subseteq Procs /\ DOMAIN prmsg = Procs
  /\ disturbed \in [Procs -> SUBSET {"message", "eviction"}]

\* No two entries are for one host, and a resolved one has its address.
Distinct == \A i, j \in Used : arpcache[i].arpaddr = arpcache[j].arpaddr => i = j
Resolved == \A i \in Slots : arpcache[i].arstate = "RESOLVED" => arpcache[i].arhaddr = arpcache[i].arpaddr

\* What process p in arp_resolve finds in its slot.
Finds(p) ==
  LET e == arpcache[at[p].slot]
  IN  IF prmsg[p] = "none"
      THEN e.arstate = "PENDING" /\ e.arpid = {p} /\ e.arpaddr = dest[p]
      ELSE /\ "message" \notin disturbed[p] => e.arstate # "PENDING" \/ p \notin e.arpid
           /\ disturbed[p] = {} => e.arstate = "RESOLVED" /\ e.arpaddr = dest[p]
SlotsRight == \A p \in Procs : at[p] # Outside => Finds(p)

Inv == TypeOK /\ Distinct /\ Resolved /\ SlotsRight /\ RightMac /\ PendingHasWaiter /\ NoStrayAnswer

-----------------------------------------------------------------------------
LEMMA MinIsFirst ==
  ASSUME NEW T, T \subseteq Nat, T # {}
  PROVE  Min(T) \in T
<1>1. PICK x \in T : \A y \in T : ~ (<<y, x>> \in OpToRel(<, Nat))
  BY NatLessThanWellFounded, WFMin
<1>2. \A y \in T : ~ (y < x)
  BY <1>1, Zenon DEF OpToRel
<1>3. \A y \in T : x <= y
  BY <1>2
<1> QED BY <1>3 DEF Min

LEMMA SlotNumbers == Slots \subseteq Nat /\ NOSLOT \notin Slots
BY DEF Slots, NOSLOT

\* arp_alloc returns a slot that is free or resolved, never a pending one.
LEMMA AllocNotPending ==
  ASSUME TypeOK, NEW i \in arp_alloc
  PROVE  i \in Slots /\ arpcache[i].arstate # "PENDING"
<1>1. CASE Used # Slots
  <2>1. Slots \ Used # {} /\ Slots \ Used \subseteq Nat
    BY <1>1, SlotNumbers DEF Used
  <2>2. i \in Slots \ Used
    BY <1>1, <2>1, MinIsFirst DEF arp_alloc
  <2> QED
    BY <2>2 DEF Used
<1>2. CASE Used = Slots
  <2>1. Evictable # {} /\ i = Min(Evictable)
    BY <1>2 DEF arp_alloc
  <2>2. Evictable \subseteq Nat
    BY SlotNumbers DEF Evictable
  <2>3. i \in Evictable
    BY <2>1, <2>2, MinIsFirst
  <2> QED
    BY <2>3 DEF Evictable
<1> QED
  BY <1>1, <1>2

\* Two entries of one host would be the same one.
LEMMA OneEach ==
  ASSUME Distinct, NEW a
  PROVE  Cardinality(Found(a)) <= 1
<1>1. CASE Found(a) = {}
  BY <1>1, FS_EmptySet
<1>2. CASE Found(a) # {}
  <2>1. PICK i : i \in Found(a)
    BY <1>2
  <2>2. Found(a) = {i}
    BY <2>1 DEF Found, Distinct
  <2> QED
    BY <2>2, FS_Singleton
<1> QED
  BY <1>1, <1>2

-----------------------------------------------------------------------------
(* Steps of arp_resolve.                                                   *)

\* A process outside that stays outside, or that leaves the cache as it is.
LEMMA AtOnce ==
  ASSUME Inv, NEW p \in Procs, at[p] = Outside,
         at' = [at EXCEPT ![p] = Outside], dest' = [dest EXCEPT ![p] = ZERO],
         wrong' \subseteq wrong, UNCHANGED <<arpcache, prmsg, disturbed>>
  PROVE  Inv'
<1>1. /\ DOMAIN at' = Procs /\ \A q \in Procs : at'[q] = at[q]
      /\ \A q \in Procs \ {p} : dest'[q] = dest[q]
  BY DEF Inv, TypeOK
<1>2. at[p].slot = NOSLOT
  BY DEF Outside
<1>3. TypeOK'
  BY <1>1 DEF Inv, TypeOK
<1>4. Distinct' /\ Resolved' /\ RightMac' /\ NoStrayAnswer'
  BY <1>1 DEF Inv, Distinct, Resolved, RightMac, NoStrayAnswer, Used
<1>5. SlotsRight'
  BY <1>1 DEF Inv, SlotsRight, Finds
<1>6. PendingHasWaiter'
  BY <1>1, <1>2, SlotNumbers DEF Inv, TypeOK, PendingHasWaiter, Used, Entries
<1> QED
  BY <1>3, <1>4, <1>5, <1>6 DEF Inv

\* The request is sent: the entry that was given away was not pending.
LEMMA Asks ==
  ASSUME Inv, NEW p \in Procs, NEW a \in Addrs, at[p] = Outside, Found(a) = {}, NEW i \in arp_alloc,
         arpcache' = [arpcache EXCEPT ![i] = [Free EXCEPT !.arstate = "PENDING", !.arpaddr = a, !.arpid = {p}]],
         at' = [at EXCEPT ![p] = [slot |-> i, try |-> 1]],
         disturbed' = [q \in Procs |-> (IF q = p THEN disturbed[p] \ {"eviction"} ELSE disturbed[q])
                                        \cup EvictedFrom(i, q)],
         prmsg' = [prmsg EXCEPT ![p] = "none"], dest' = [dest EXCEPT ![p] = a],
         wrong' = wrong \ {p}
  PROVE  Inv'
<1> DEFINE new == [Free EXCEPT !.arstate = "PENDING", !.arpaddr = a, !.arpid = {p}]
<1>1. i \in Slots /\ arpcache[i].arstate # "PENDING"
  BY AllocNotPending DEF Inv
<1>2. /\ new \in Entries
      /\ new.arstate = "PENDING" /\ new.arpaddr = a /\ new.arpid = {p}
  BY DEF Free, Entries
<1>3. /\ arpcache'[i] = new /\ \A j \in Slots \ {i} : arpcache'[j] = arpcache[j]
      /\ arpcache' \in [Slots -> Entries]
  BY <1>1, <1>2 DEF Inv, TypeOK
<1> HIDE DEF new
<1>4. /\ at'[p].slot = i /\ dest'[p] = a /\ prmsg'[p] = "none"
      /\ \A q \in Procs \ {p} : at'[q] = at[q] /\ dest'[q] = dest[q] /\ prmsg'[q] = prmsg[q]
  BY DEF Inv, TypeOK
<1>5. /\ \A q \in Procs : "message" \in disturbed'[q] <=> "message" \in disturbed[q]
      /\ \A q \in Procs \ {p} : disturbed'[q] = {} => disturbed[q] = {} /\ at[q].slot # i
  BY DEF EvictedFrom, Readers
<1>6. TypeOK'
  <2>1. disturbed' \in [Procs -> SUBSET {"message", "eviction"}]
    BY DEF Inv, TypeOK, EvictedFrom
  <2>2. DOMAIN at' = Procs /\ \A q \in Procs : at'[q] = Outside \/ at'[q].slot \in Slots
    BY <1>1, <1>4 DEF Inv, TypeOK
  <2> QED
    BY <1>3, <2>1, <2>2 DEF Inv, TypeOK
<1>7. Distinct' /\ Resolved'
  <2>1. \A j \in Used : arpcache[j].arpaddr # a
    BY DEF Found
  <2>2. Used' \subseteq Used \cup {i}
    BY <1>3 DEF Used
  <2> QED
    BY <1>2, <1>3, <2>1, <2>2 DEF Inv, Distinct, Resolved, Used
<1>8. SlotsRight'
  <2> SUFFICES ASSUME NEW q \in Procs, at'[q] # Outside PROVE Finds(q)'
    BY DEF SlotsRight
  <2>1. CASE q = p
    BY <1>2, <1>3, <1>4, <2>1 DEF Finds
  <2>2. CASE q # p
    <3>1. at'[q] = at[q] /\ dest'[q] = dest[q] /\ prmsg'[q] = prmsg[q] /\ Finds(q) /\ at[q].slot \in Slots
      BY <1>4, <2>2 DEF Inv, SlotsRight, TypeOK
    <3>2. CASE at[q].slot = i
      BY <1>1, <1>2, <1>3, <1>5, <2>2, <3>1, <3>2 DEF Finds
    <3>3. CASE at[q].slot # i
      BY <1>3, <1>5, <2>2, <3>1, <3>3 DEF Finds
    <3> QED
      BY <3>2, <3>3
  <2> QED
    BY <2>1, <2>2
<1>9. RightMac'
  <2> SUFFICES ASSUME NEW q \in wrong, q # p PROVE disturbed'[q] # {}
    BY DEF RightMac
  <2>1. disturbed[q] # {} /\ q \in Procs
    BY DEF Inv, TypeOK, RightMac
  <2> QED
    BY <1>5, <2>1
<1>10. PendingHasWaiter'
  <2> SUFFICES ASSUME NEW j \in Slots, arpcache'[j].arstate = "PENDING", NEW q \in arpcache'[j].arpid
               PROVE  (at'[q].slot = j /\ dest'[q] = arpcache'[j].arpaddr) \/ "message" \in disturbed'[q]
    BY DEF PendingHasWaiter, Used
  <2>1. CASE j = i
    BY <1>2, <1>3, <1>4, <2>1
  <2>2. CASE j # i
    <3>1. arpcache'[j] = arpcache[j] /\ j \in Used /\ q \in arpcache[j].arpid /\ q \in Procs
      BY <1>3, <2>2 DEF Used, Inv, TypeOK, Entries
    <3>2. (at[q].slot = j /\ dest[q] = arpcache[j].arpaddr) \/ "message" \in disturbed[q]
      BY <3>1 DEF Inv, PendingHasWaiter
    <3>3. at[p].slot = NOSLOT
      BY DEF Outside
    <3> QED
      BY <1>4, <1>5, <3>1, <3>2, <3>3, SlotNumbers
  <2> QED
    BY <2>1, <2>2
<1>11. NoStrayAnswer'
  <2> SUFFICES ASSUME NEW q \in Procs, at'[q] = Outside, prmsg'[q] # "none"
               PROVE  "message" \in disturbed'[q]
    BY DEF NoStrayAnswer
  <2> QED
    BY <1>4, <1>5 DEF Inv, NoStrayAnswer
<1> QED
  BY <1>6, <1>7, <1>8, <1>9, <1>10, <1>11 DEF Inv

LEMMA ResolveKeeps ==
  ASSUME Inv, NEW p \in Procs, NEW a \in Addrs \cup {BCAST}, arp_resolve(p, a)
  PROVE  Inv'
<1>1. at[p] = Outside
  BY DEF arp_resolve
<1>2. CASE a = BCAST /\ Stores(p, a, BCAST) /\ UNCHANGED <<arpcache, prmsg, waiting, disturbed>>
  BY <1>1, <1>2, AtOnce DEF Stores
<1>3. CASE Fails(p) /\ UNCHANGED <<arpcache, prmsg, waiting, disturbed>>
  BY <1>1, <1>3, AtOnce DEF Fails
<1>4. ASSUME NEW i \in Found(a), arpcache[i].arstate = "RESOLVED", Stores(p, a, arpcache[i].arhaddr),
             UNCHANGED <<arpcache, prmsg, waiting, disturbed>>
      PROVE  Inv'
  <2>1. arpcache[i].arhaddr = a
    BY <1>4 DEF Found, Used, Inv, Resolved
  <2> QED
    BY <1>1, <1>4, <2>1, AtOnce DEF Stores
<1>5. CASE /\ a # BCAST /\ Found(a) = {}
           /\ \E i \in arp_alloc :
                /\ arpcache' = [arpcache EXCEPT ![i] = [Free EXCEPT !.arstate = "PENDING", !.arpaddr = a, !.arpid = {p}]]
                /\ at' = [at EXCEPT ![p] = [slot |-> i, try |-> 1]]
                /\ disturbed' = [q \in Procs |-> (IF q = p THEN disturbed[p] \ {"eviction"} ELSE disturbed[q])
                                                 \cup EvictedFrom(i, q)]
           /\ prmsg' = [prmsg EXCEPT ![p] = "none"] /\ dest' = [dest EXCEPT ![p] = a] /\ wrong' = wrong \ {p}
  BY <1>1, <1>5, Asks
<1> QED
  BY <1>2, <1>3, <1>4, <1>5 DEF arp_resolve

\* A process whose last request stays unanswered frees its own entry.
LEMMA GivesUp ==
  ASSUME Inv, NEW p \in Procs, at[p] # Outside, prmsg[p] = "none",
         arpcache' = [arpcache EXCEPT ![at[p].slot] = FreeEntry(@)],
         Fails(p), UNCHANGED <<prmsg, disturbed>>
  PROVE  Inv'
<1> DEFINE i == at[p].slot
<1>1. i \in Slots /\ arpcache[i].arstate = "PENDING" /\ arpcache[i].arpid = {p}
  BY DEF Inv, TypeOK, SlotsRight, Finds
<1>2. Free \in Entries /\ Free.arstate = "FREE"
  BY DEF Free, Entries
<1>3. /\ arpcache'[i] = Free /\ \A j \in Slots \ {i} : arpcache'[j] = arpcache[j]
      /\ arpcache' \in [Slots -> Entries]
  BY <1>1, <1>2 DEF Inv, TypeOK, FreeEntry
<1>4. /\ at'[p] = Outside /\ wrong' \subseteq wrong
      /\ \A q \in Procs \ {p} : at'[q] = at[q] /\ dest'[q] = dest[q]
  BY DEF Inv, TypeOK, Fails
<1>5. TypeOK'
  <2>1. DOMAIN at' = Procs /\ dest' \in [Procs -> Addrs \cup {ZERO}]
    BY DEF Inv, TypeOK, Fails
  <2>2. \A q \in Procs : at'[q] = Outside \/ at'[q].slot \in Slots
    BY <1>4 DEF Inv, TypeOK
  <2> QED
    BY <1>3, <1>4, <2>1, <2>2 DEF Inv, TypeOK
<1>6. Distinct' /\ Resolved'
  BY <1>1, <1>2, <1>3 DEF Inv, Distinct, Resolved, Used
<1>7. SlotsRight'
  <2> SUFFICES ASSUME NEW q \in Procs, at'[q] # Outside PROVE Finds(q)'
    BY DEF SlotsRight
  <2>1. q # p /\ at'[q] = at[q] /\ dest'[q] = dest[q] /\ Finds(q) /\ at[q].slot \in Slots
    BY <1>4 DEF Inv, SlotsRight, TypeOK
  <2>2. CASE at[q].slot = i
    <3>1. prmsg[q] # "none" /\ disturbed[q] # {}
      BY <1>1, <2>1, <2>2 DEF Finds
    <3> QED
      BY <1>2, <1>3, <2>1, <2>2, <3>1 DEF Finds
  <2>3. CASE at[q].slot # i
    BY <1>3, <2>1, <2>3 DEF Finds
  <2> QED
    BY <2>2, <2>3
<1>8. RightMac'
  BY <1>4 DEF Inv, RightMac
<1>9. PendingHasWaiter'
  <2> SUFFICES ASSUME NEW j \in Slots, arpcache'[j].arstate = "PENDING", NEW q \in arpcache'[j].arpid
               PROVE  (at'[q].slot = j /\ dest'[q] = arpcache'[j].arpaddr) \/ "message" \in disturbed'[q]
    BY DEF PendingHasWaiter, Used
  <2>1. j # i /\ arpcache'[j] = arpcache[j] /\ j \in Used /\ q \in Procs
    BY <1>2, <1>3 DEF Used, Inv, TypeOK, Entries
  <2>2. (at[q].slot = j /\ dest[q] = arpcache[j].arpaddr) \/ "message" \in disturbed[q]
    BY <2>1 DEF Inv, PendingHasWaiter
  <2> QED
    BY <1>4, <2>1, <2>2
<1>10. NoStrayAnswer'
  BY <1>4 DEF Inv, NoStrayAnswer
<1> QED
  BY <1>5, <1>6, <1>7, <1>8, <1>9, <1>10 DEF Inv

\* A process with a message leaves, and takes what its slot holds.
LEMMA AnswerKeeps ==
  ASSUME Inv, NEW p \in Procs, ResolveAnswered(p)
  PROVE  Inv'
<1>1. at[p] # Outside /\ prmsg[p] # "none" /\ Finds(p) /\ at[p].slot \in Slots
  BY DEF Inv, TypeOK, SlotsRight, ResolveAnswered, Released
<1>2. /\ at' = [at EXCEPT ![p] = Outside] /\ dest' = [dest EXCEPT ![p] = ZERO]
      /\ prmsg' = [prmsg EXCEPT ![p] = "none"] /\ UNCHANGED <<arpcache, disturbed>>
  BY DEF ResolveAnswered, Fails, Stores
<1>3. /\ at'[p] = Outside /\ prmsg'[p] = "none"
      /\ \A q \in Procs \ {p} : at'[q] = at[q] /\ dest'[q] = dest[q] /\ prmsg'[q] = prmsg[q]
  BY <1>2 DEF Inv, TypeOK
<1>4. TypeOK'
  <2>1. DOMAIN at' = Procs /\ DOMAIN prmsg' = Procs /\ dest' \in [Procs -> Addrs \cup {ZERO}]
    BY <1>2 DEF Inv, TypeOK
  <2>2. \A q \in Procs : at'[q] = Outside \/ at'[q].slot \in Slots
    BY <1>3 DEF Inv, TypeOK
  <2>3. wrong' \subseteq wrong \cup {p}
    BY DEF ResolveAnswered, Fails, Stores
  <2> QED
    BY <1>2, <2>1, <2>2, <2>3 DEF Inv, TypeOK
<1>5. Distinct' /\ Resolved'
  BY <1>2 DEF Inv, Distinct, Resolved, Used
<1>6. SlotsRight'
  BY <1>2, <1>3 DEF Inv, SlotsRight, Finds
<1>7. RightMac'
  <2>1. CASE disturbed[p] # {}
    <3>1. wrong' \subseteq wrong \cup {p}
      BY DEF ResolveAnswered, Fails, Stores
    <3> QED
      BY <1>2, <2>1, <3>1 DEF Inv, RightMac
  <2>2. CASE disturbed[p] = {}
    <3>1. arpcache[at[p].slot].arhaddr = dest[p]
      BY <1>1, <2>2 DEF Finds, Inv, Resolved
    <3>2. wrong' \subseteq wrong
      BY <3>1 DEF ResolveAnswered, Fails, Stores
    <3> QED
      BY <1>2, <3>2 DEF Inv, RightMac
  <2> QED
    BY <2>1, <2>2
<1>8. PendingHasWaiter'
  <2> SUFFICES ASSUME NEW j \in Slots, arpcache[j].arstate = "PENDING", NEW q \in arpcache[j].arpid
               PROVE  (at'[q].slot = j /\ dest'[q] = arpcache[j].arpaddr) \/ "message" \in disturbed[q]
    BY <1>2 DEF PendingHasWaiter, Used
  <2>1. q \in Procs /\ ((at[q].slot = j /\ dest[q] = arpcache[j].arpaddr) \/ "message" \in disturbed[q])
    BY DEF Inv, TypeOK, Entries, PendingHasWaiter, Used
  <2>2. CASE q = p
    BY <1>1, <2>1, <2>2 DEF Finds
  <2>3. CASE q # p
    BY <1>3, <2>1, <2>3
  <2> QED
    BY <2>2, <2>3
<1>9. NoStrayAnswer'
  BY <1>2, <1>3 DEF Inv, NoStrayAnswer
<1> QED
  BY <1>4, <1>5, <1>6, <1>7, <1>8, <1>9 DEF Inv

LEMMA TimeoutKeeps ==
  ASSUME Inv, NEW p \in Procs, ResolveTimedOut(p)
  PROVE  Inv'
<1>1. at[p] # Outside /\ prmsg[p] = "none" /\ UNCHANGED <<prmsg, disturbed>>
  BY DEF ResolveTimedOut, Released
<1>2. CASE at' = [at EXCEPT ![p].try = NextTry(p)] /\ UNCHANGED <<arpcache, dest, wrong>>
  <2>1. \A q \in Procs : at'[q].slot = at[q].slot
    BY <1>2 DEF Inv, TypeOK
  <2>2. at[p].slot \in Slots /\ DOMAIN at' = Procs /\ \A q \in Procs \ {p} : at'[q] = at[q]
    BY <1>1, <1>2 DEF Inv, TypeOK
  <2>3. \A q \in Procs : at'[q] = Outside <=> at[q] = Outside
    BY <1>1, <2>1, <2>2, SlotNumbers DEF Outside
  <2>4. TypeOK' /\ Distinct' /\ Resolved' /\ RightMac' /\ NoStrayAnswer'
    BY <1>1, <1>2, <2>1, <2>2, <2>3
       DEF Inv, TypeOK, Distinct, Resolved, RightMac, NoStrayAnswer, Used
  <2>5. SlotsRight'
    BY <1>1, <1>2, <2>1, <2>3 DEF Inv, SlotsRight, Finds
  <2>6. PendingHasWaiter'
    BY <1>1, <1>2, <2>1 DEF Inv, TypeOK, Entries, PendingHasWaiter, Used
  <2> QED
    BY <2>4, <2>5, <2>6 DEF Inv
<1>3. CASE arpcache' = [arpcache EXCEPT ![at[p].slot] = FreeEntry(@)] /\ Fails(p)
  BY <1>1, <1>3, GivesUp
<1> QED
  BY <1>2, <1>3 DEF ResolveTimedOut

-----------------------------------------------------------------------------
(* Packets and messages.                                                   *)

\* A packet of a host that is in the cache: whoever waits for it is told.
LEMMA KnownHost ==
  ASSUME Inv, NEW a \in Addrs, NEW i \in Found(a), NEW told,
         told = (IF arpcache[i].arstate = "PENDING" THEN arpcache[i].arpid ELSE {}),
         arpcache' = [arpcache EXCEPT ![i] = Refreshed(@, a)],
         prmsg' = Sent(told, "OK"), UNCHANGED <<at, dest, wrong, disturbed>>
  PROVE  Inv'
<1> DEFINE new == Refreshed(arpcache[i], a)
<1>1. i \in Slots /\ i \in Used /\ arpcache[i].arpaddr = a /\ arpcache[i] \in Entries
  BY DEF Found, Used, Inv, TypeOK
<1>2. /\ new \in Entries
      /\ new.arstate = "RESOLVED" /\ new.arpaddr = a /\ new.arhaddr = a /\ new.arpid = {}
  BY <1>1 DEF Refreshed, Entries
<1>3. /\ arpcache'[i] = new /\ \A j \in Slots \ {i} : arpcache'[j] = arpcache[j]
      /\ arpcache' \in [Slots -> Entries]
  BY <1>1, <1>2 DEF Inv, TypeOK
<1> HIDE DEF new
<1>4. /\ DOMAIN prmsg' = Procs
      /\ \A q \in Procs : prmsg[q] # "none" => prmsg'[q] # "none"
      /\ \A q \in Procs : q \in told => prmsg'[q] # "none"
      /\ \A q \in Procs \ told : prmsg'[q] = prmsg[q]
  BY DEF Sent
<1>5. TypeOK'
  BY <1>3, <1>4 DEF Inv, TypeOK
<1>6. Distinct' /\ Resolved'
  <2>1. Used' = Used
    BY <1>1, <1>2, <1>3 DEF Used
  <2> QED
    BY <1>1, <1>2, <1>3, <2>1 DEF Inv, Distinct, Resolved, Used
<1>7. SlotsRight'
  <2> SUFFICES ASSUME NEW q \in Procs, at[q] # Outside PROVE Finds(q)'
    BY DEF SlotsRight
  <2>1. Finds(q) /\ at[q].slot \in Slots
    BY DEF Inv, SlotsRight, TypeOK
  <2>2. CASE at[q].slot = i
    <3>1. CASE prmsg[q] = "none"
      <4>1. q \in told /\ dest[q] = a
        BY <1>1, <2>1, <2>2, <3>1 DEF Finds
      <4> QED
        BY <1>2, <1>3, <1>4, <2>2, <4>1 DEF Finds
    <3>2. CASE prmsg[q] # "none"
      <4>1. prmsg'[q] # "none"
        BY <1>4, <3>2
      <4>2. disturbed[q] = {} => dest[q] = a
        BY <1>1, <2>1, <2>2, <3>2 DEF Finds
      <4> QED
        BY <1>2, <1>3, <2>2, <4>1, <4>2 DEF Finds
    <3> QED
      BY <3>1, <3>2
  <2>3. CASE at[q].slot # i
    <3>1. arpcache'[at[q].slot] = arpcache[at[q].slot]
      BY <1>3, <2>1, <2>3
    <3>2. CASE q \notin told \/ prmsg[q] # "none"
      <4>1. prmsg'[q] = "none" <=> prmsg[q] = "none"
        BY <1>4, <3>2
      <4> QED
        BY <2>1, <3>1, <4>1 DEF Finds
    <3>3. CASE q \in told /\ prmsg[q] = "none"
      <4>1. "message" \in disturbed[q]
        BY <1>1, <2>3, <3>3 DEF Inv, PendingHasWaiter
      <4>2. prmsg'[q] # "none"
        BY <1>4, <3>3
      <4> QED
        BY <4>1, <4>2 DEF Finds
    <3> QED
      BY <3>2, <3>3
  <2> QED
    BY <2>2, <2>3
<1>8. RightMac'
  BY DEF Inv, RightMac
<1>9. PendingHasWaiter'
  BY <1>2, <1>3 DEF Inv, PendingHasWaiter, Used
<1>10. NoStrayAnswer'
  <2> SUFFICES ASSUME NEW q \in Procs, at[q] = Outside, prmsg'[q] # "none"
               PROVE  "message" \in disturbed[q]
    BY DEF NoStrayAnswer
  <2>1. CASE prmsg[q] # "none"
    BY <2>1 DEF Inv, NoStrayAnswer
  <2>2. CASE prmsg[q] = "none"
    <3>1. q \in arpcache[i].arpid /\ arpcache[i].arstate = "PENDING"
      BY <1>4, <2>2
    <3>2. at[q].slot # i
      BY <1>1, SlotNumbers DEF Outside
    <3> QED
      BY <1>1, <3>1, <3>2 DEF Inv, PendingHasWaiter
  <2> QED
    BY <2>1, <2>2
<1> QED
  BY <1>5, <1>6, <1>7, <1>8, <1>9, <1>10 DEF Inv

\* A host that asks for our address and is not in the cache gets an entry.
LEMMA NewHost ==
  ASSUME Inv, NEW a \in Addrs, Found(a) = {}, NEW i \in arp_alloc,
         arpcache' = [arpcache EXCEPT ![i] = [Free EXCEPT !.arstate = "RESOLVED", !.arpaddr = a, !.arhaddr = a]],
         disturbed' = [p \in Procs |-> disturbed[p] \cup EvictedFrom(i, p)],
         UNCHANGED <<at, dest, wrong, prmsg>>
  PROVE  Inv'
<1> DEFINE new == [Free EXCEPT !.arstate = "RESOLVED", !.arpaddr = a, !.arhaddr = a]
<1>1. i \in Slots /\ arpcache[i].arstate # "PENDING"
  BY AllocNotPending DEF Inv
<1>2. /\ new \in Entries
      /\ new.arstate = "RESOLVED" /\ new.arpaddr = a /\ new.arhaddr = a
  BY DEF Free, Entries
<1>3. /\ arpcache'[i] = new /\ \A j \in Slots \ {i} : arpcache'[j] = arpcache[j]
      /\ arpcache' \in [Slots -> Entries]
  BY <1>1, <1>2 DEF Inv, TypeOK
<1> HIDE DEF new
<1>4. /\ \A q \in Procs : "message" \in disturbed'[q] <=> "message" \in disturbed[q]
      /\ \A q \in Procs : disturbed'[q] = {} => disturbed[q] = {} /\ at[q].slot # i
  BY DEF EvictedFrom, Readers
<1>5. TypeOK'
  <2>1. disturbed' \in [Procs -> SUBSET {"message", "eviction"}]
    BY DEF Inv, TypeOK, EvictedFrom
  <2> QED
    BY <1>3, <2>1 DEF Inv, TypeOK
<1>6. Distinct' /\ Resolved'
  <2>1. \A j \in Used : arpcache[j].arpaddr # a
    BY DEF Found
  <2>2. Used' \subseteq Used \cup {i}
    BY <1>3 DEF Used
  <2> QED
    BY <1>2, <1>3, <2>1, <2>2 DEF Inv, Distinct, Resolved, Used
<1>7. SlotsRight'
  <2> SUFFICES ASSUME NEW q \in Procs, at[q] # Outside PROVE Finds(q)'
    BY DEF SlotsRight
  <2>1. Finds(q) /\ at[q].slot \in Slots
    BY DEF Inv, SlotsRight, TypeOK
  <2>2. CASE at[q].slot = i
    BY <1>1, <1>2, <1>3, <1>4, <2>1, <2>2 DEF Finds
  <2>3. CASE at[q].slot # i
    BY <1>3, <1>4, <2>1, <2>3 DEF Finds
  <2> QED
    BY <2>2, <2>3
<1>8. RightMac'
  <2> SUFFICES ASSUME NEW q \in wrong PROVE disturbed'[q] # {}
    BY DEF RightMac
  <2> QED
    BY <1>4 DEF Inv, TypeOK, RightMac
<1>9. PendingHasWaiter'
  <2> SUFFICES ASSUME NEW j \in Slots, arpcache'[j].arstate = "PENDING", NEW q \in arpcache'[j].arpid
               PROVE  (at[q].slot = j /\ dest[q] = arpcache'[j].arpaddr) \/ "message" \in disturbed'[q]
    BY DEF PendingHasWaiter, Used
  <2>1. j # i /\ arpcache'[j] = arpcache[j] /\ j \in Used /\ q \in Procs
    BY <1>2, <1>3 DEF Used, Inv, TypeOK, Entries
  <2> QED
    BY <1>4, <2>1 DEF Inv, PendingHasWaiter
<1>10. NoStrayAnswer'
  BY <1>4 DEF Inv, NoStrayAnswer
<1> QED
  BY <1>5, <1>6, <1>7, <1>8, <1>9, <1>10 DEF Inv

LEMMA PacketKeeps ==
  ASSUME Inv, NEW a \in Addrs, NEW forUs \in BOOLEAN, arp_in(a, forUs)
  PROVE  Inv'
<1>1. CASE Found(a) # {}
  <2> DEFINE i == Min(Found(a))
  <2>1. i \in Found(a)
    <3>1. Found(a) \subseteq Nat
      BY SlotNumbers DEF Found, Used
    <3> QED
      BY <1>1, <3>1, MinIsFirst
  <2>2. /\ arpcache' = [arpcache EXCEPT ![i] = Refreshed(@, a)]
        /\ prmsg' = Sent(IF arpcache[i].arstate = "PENDING" THEN arpcache[i].arpid ELSE {}, "OK")
        /\ UNCHANGED <<at, dest, wrong, disturbed>>
    BY <1>1 DEF arp_in
  <2> HIDE DEF i
  <2> QED
    BY <2>1, <2>2, KnownHost
<1>2. CASE Found(a) = {}
  BY <1>2, NewHost DEF arp_in
<1> QED
  BY <1>1, <1>2

LEMMA MessageKeeps ==
  ASSUME Inv, NEW p \in Procs, NEW m \in Others, OtherMessage(p, m)
  PROVE  Inv'
<1>1. /\ DOMAIN prmsg' = Procs /\ at[p] # Outside
      /\ \A q \in Procs \ {p} : prmsg'[q] = prmsg[q] /\ disturbed'[q] = disturbed[q]
      /\ "message" \in disturbed'[p]
      /\ \A q \in Procs : disturbed[q] \subseteq disturbed'[q]
      /\ disturbed' \in [Procs -> SUBSET {"message", "eviction"}]
      /\ prmsg[p] = "none"
  BY DEF OtherMessage, Sent, Inv, TypeOK
<1>2. UNCHANGED <<arpcache, at, dest, wrong>>
  BY DEF OtherMessage
<1>3. TypeOK' /\ Distinct' /\ Resolved'
  BY <1>1, <1>2 DEF Inv, TypeOK, Distinct, Resolved, Used
<1>4. SlotsRight'
  <2> SUFFICES ASSUME NEW q \in Procs, at[q] # Outside PROVE Finds(q)'
    BY <1>2 DEF SlotsRight
  <2>1. Finds(q)
    BY DEF Inv, SlotsRight
  <2>2. CASE q = p
    BY <1>1, <1>2, <2>1, <2>2 DEF Finds
  <2>3. CASE q # p
    BY <1>1, <1>2, <2>1, <2>3 DEF Finds
  <2> QED
    BY <2>2, <2>3
<1>5. RightMac'
  <2> SUFFICES ASSUME NEW q \in wrong PROVE disturbed'[q] # {}
    BY <1>2 DEF RightMac
  <2>1. disturbed[q] # {} /\ q \in Procs
    BY DEF Inv, TypeOK, RightMac
  <2> QED
    BY <1>1, <2>1
<1>6. PendingHasWaiter'
  BY <1>1, <1>2 DEF Inv, TypeOK, Entries, PendingHasWaiter, Used
<1>7. NoStrayAnswer'
  BY <1>1, <1>2 DEF Inv, NoStrayAnswer
<1> QED
  BY <1>3, <1>4, <1>5, <1>6, <1>7 DEF Inv

-----------------------------------------------------------------------------
LEMMA Keeps ==
  ASSUME Inv, [Next]_vars
  PROVE  Inv'
<1>1. ASSUME NEW p \in Procs, ClockWakes(p)
      PROVE  Inv'
  BY <1>1 DEF ClockWakes, Inv, TypeOK, Distinct, Resolved, SlotsRight, Finds, RightMac,
              PendingHasWaiter, NoStrayAnswer, Used
<1>2. CASE UNCHANGED vars
  BY <1>2 DEF vars, Inv, TypeOK, Distinct, Resolved, SlotsRight, Finds, RightMac,
              PendingHasWaiter, NoStrayAnswer, Used
<1> QED
  BY <1>1, <1>2, ResolveKeeps, TimeoutKeeps, AnswerKeeps, PacketKeeps, MessageKeeps DEF Next, Step

\* arp_init leaves all slots free and nobody in arp_resolve.
LEMMA Starts == Init => Inv
<1> SUFFICES ASSUME Init PROVE Inv
  OBVIOUS
<1>1. \A i \in Slots : arpcache[i] = Free
  BY DEF Init, arp_init
<1>2. Free \in Entries /\ Free.arstate = "FREE"
  BY DEF Free, Entries
<1>3. TypeOK
  BY <1>2 DEF Init, arp_init, TypeOK
<1>4. Used = {}
  BY <1>1, <1>2 DEF Used
<1> QED
  BY <1>1, <1>2, <1>3, <1>4
       DEF Init, Inv, Distinct, Resolved, SlotsRight, RightMac, PendingHasWaiter, NoStrayAnswer

\* A resolved host is in one entry only, whose address is its own.
LEMMA InvIsSound == Inv => CacheSound
<1> SUFFICES ASSUME Inv PROVE CacheSound
  OBVIOUS
<1>1. CacheRight
  BY OneEach DEF Inv, Resolved, CacheRight, Used
<1> QED
  BY <1>1 DEF Inv, CacheSound

=============================================================================
