---------------------------- MODULE NetStackProofs ----------------------------
(***************************************************************************)
(* Theorems about the protocol stack, for all values of its constants:     *)
(* every network buffer is in the pool, with one process or in one queue,  *)
(* a packet wakes the process that waits for it, and what can make a       *)
(* process take a packet from a place where there is none.                 *)
(***************************************************************************)
EXTENDS NetStack, FiniteSetTheorems, SequenceTheorems, TLAPS

-----------------------------------------------------------------------------
(***************************************************************************)
(* The inductive invariant.                                                *)
(***************************************************************************)
States == {"FREE", "USED", "RECV"}
UdpEntries == [udstate : States, udend : Nat \X Nat \X Nat, udpid : SUBSET Users, udqueue : Seq(Packets)]
IcmpEntries == [icstate : States, icremip : Nat, icpid : SUBSET Users,
                ichead : Nat, ictail : Nat, iccount : Nat, icqueue : SUBSET Nat]
Positions == [pc : {"idle", "read", "send", "mkpkt", "arp", "udp", "icmp"}, slot : Nat, pkt : Packets]

NetTypes ==
  /\ udptab \in [UdpSlots -> UdpEntries]
  /\ icmptab \in [IcmpSlots -> IcmpEntries]
  /\ ipoqueue \in Seq(Packets)
  /\ pool \in SemaphoreOf(Procs)
  /\ at \in [Procs -> Positions]
  /\ prmsg \subseteq Users /\ waiting \subseteq Users
  /\ lost \in Nat /\ shared \in BOOLEAN /\ fault \in {"none", "udp", "icmp"}

\* Who waits for a buffer is in a call that needs one; who waits for a message
\* is a program in a call on a slot that exists.
Places ==
  /\ \A x \in Waiting(pool) : at[x].pc \in {"read", "send", "mkpkt"}
  /\ \A x \in Procs : at[x].pc = "udp" => x \in Users /\ at[x].slot \in UdpSlots
  /\ \A x \in Procs : at[x].pc = "icmp" => x \in Users /\ at[x].slot \in IcmpSlots

\* A free endpoint holds no packet, and no ICMP endpoint holds more than it counts.
Freed ==
  /\ \A s \in UdpSlots : udptab[s].udstate = "FREE" => udptab[s].udqueue = <<>>
  /\ \A s \in IcmpSlots :
       /\ icmptab[s].icstate = "FREE" => icmptab[s].icqueue = {}
       /\ IsFiniteSet(icmptab[s].icqueue)
       /\ Cardinality(icmptab[s].icqueue) <= icmptab[s].iccount

\* The places of an ICMP endpoint.
IcmpQueues ==
  ICMP_QSIZ > 0 => \A s \in IcmpSlots : icmptab[s].ictail < ICMP_QSIZ /\ \A i \in icmptab[s].icqueue : i < ICMP_QSIZ

\* The buffers a process has or waits for, and all buffers.
Needs(pc) == CASE pc \in {"read", "send", "arp"} -> 1 [] pc = "mkpkt" -> 2 [] OTHER -> 0
Tok(S, F) == UNION {{s} \X F[s] : s \in S}
UdpSum(tab) == Cardinality(Tok(UdpSlots, [s \in UdpSlots |-> 1 .. Len(tab[s].udqueue)]))
IcmpSum(tab) == Cardinality(Tok(IcmpSlots, [s \in IcmpSlots |-> tab[s].icqueue]))
AtSum(pos) == Cardinality(Tok(Procs, [x \in Procs |-> 1 .. Needs(pos[x].pc)]))
Balance ==
  fault = "none" =>
    pool.count + UdpSum(udptab) + IcmpSum(icmptab) + AtSum(at) + Len(ipoqueue) + lost = nbufs

\* While no two programs use one endpoint: who is in a call on a slot is alone
\* there; the slot of one that waits names it; a slot that somebody waits for
\* has no packet, and names those in it; and a message means that there is one.
In(pos, u, pc, s) == pos[u].pc = pc /\ pos[u].slot = s
Alone == \A u, v \in Users, pc \in {"udp", "icmp"} : at[u].pc = pc /\ In(at, v, pc, at[u].slot) => u = v
Known ==
  \A u \in waiting :
    \/ at[u].pc = "udp" /\ udptab[at[u].slot].udstate = "RECV" /\ udptab[at[u].slot].udpid = {u}
    \/ at[u].pc = "icmp" /\ icmptab[at[u].slot].icstate = "RECV" /\ icmptab[at[u].slot].icpid = {u}
UdpAwaits ==
  \A s \in UdpSlots : udptab[s].udstate = "RECV" =>
    udptab[s].udqueue = <<>> /\ \A u \in udptab[s].udpid : In(at, u, "udp", s)
IcmpAwaits ==
  \A s \in IcmpSlots : icmptab[s].icstate = "RECV" =>
    icmptab[s].iccount = 0 /\ \A u \in icmptab[s].icpid : In(at, u, "icmp", s)
Told ==
  \A u \in prmsg :
    /\ at[u].pc = "udp" => udptab[at[u].slot].udqueue # <<>>
    /\ at[u].pc = "icmp" => icmptab[at[u].slot].iccount # 0
\* And up to ICMP_QSIZ replies, an ICMP endpoint that is in use is a queue.
QueueOf(e) ==
  e.ichead + e.iccount <= ICMP_QSIZ =>
    /\ e.icqueue = e.ichead .. (e.ichead + e.iccount - 1)
    /\ e.ictail = IF e.ichead + e.iccount = ICMP_QSIZ THEN 0 ELSE e.ichead + e.iccount
Fits == 0 < ICMP_QSIZ /\ ICMP_QSIZ < ICMP_SLOTS
InOrder ==
  /\ \A u \in Users : at[u].pc = "icmp" => icmptab[at[u].slot].icstate # "FREE"
  /\ Fits => \A s \in IcmpSlots : icmptab[s].icstate # "FREE" => QueueOf(icmptab[s])
Receivers == (fault = "none" /\ ~ shared) => Alone /\ Known /\ UdpAwaits /\ IcmpAwaits /\ Told /\ InOrder

NetInv == NetTypes /\ Places /\ Freed /\ IcmpQueues /\ Balance /\ Receivers

-----------------------------------------------------------------------------
(***************************************************************************)
(* Semaphores.                                                             *)
(***************************************************************************)
\* Who waits (Waits) is who is in the queue.
LEMMA WaitsIff == \A s, p : Waits(s, p) <=> p \in Waiting(s)
BY DEF Waits, Waiting

\* semcreate: a count and nobody who waits.
LEMMA Created ==
  ASSUME NEW S, NEW n \in Nat
  PROVE  semcreate(n) \in SemaphoreOf(S) /\ Waiting(semcreate(n)) = {}
BY DEF semcreate, SemaphoreOf, Waiting

\* wait counts down, and queues the caller if the count was not positive.
LEMMA Waited ==
  ASSUME NEW S, NEW s \in SemaphoreOf(S), NEW p \in S, p \notin Waiting(s)
  PROVE  /\ wait(s, p) \in SemaphoreOf(S)
         /\ wait(s, p).count = s.count - 1
         /\ Blocks(s) => /\ Waiting(wait(s, p)) = Waiting(s) \cup {p}
                         /\ Len(wait(s, p).queue) = Len(s.queue) + 1
         /\ ~ Blocks(s) => wait(s, p).queue = s.queue /\ s.queue = <<>>
<1>1. /\ s.count \in Int /\ s.queue \in Seq(S)
      /\ \A j, k \in 1 .. Len(s.queue) : s.queue[j] = s.queue[k] => j = k
      /\ IF s.count < 0 THEN Len(s.queue) = - s.count ELSE s.queue = <<>>
  BY DEF SemaphoreOf
<1>2. wait(s, p).count = s.count - 1 /\ wait(s, p) \in [count : Int, queue : Seq(S)]
  BY <1>1 DEF wait
<1>3. CASE Blocks(s)
  <2> DEFINE q == Append(s.queue, p)
  <2>1. wait(s, p).queue = q /\ s.count - 1 < 0
    BY <1>1, <1>3 DEF wait, Blocks
  <2>2. /\ q \in Seq(S) /\ Len(q) = Len(s.queue) + 1 /\ DOMAIN q = 1 .. (Len(s.queue) + 1)
        /\ \A k \in 1 .. Len(s.queue) : q[k] = s.queue[k]
        /\ q[Len(s.queue) + 1] = p
    BY <1>1
  <2>3. \A k \in 1 .. Len(s.queue) : s.queue[k] # p
    BY <1>1 DEF Waiting
  <2> HIDE DEF q
  <2>4. \A j, k \in DOMAIN q : q[j] = q[k] => j = k
    BY <1>1, <2>2, <2>3, SMTT(30)
  <2>5. {q[k] : k \in DOMAIN q} = {s.queue[k] : k \in DOMAIN s.queue} \cup {p}
    <3>1. DOMAIN s.queue = 1 .. Len(s.queue) /\ Len(s.queue) \in Nat
      BY <1>1
    <3>2. \A k \in DOMAIN q : k \in DOMAIN s.queue \/ k = Len(s.queue) + 1
      BY <2>2, <3>1
    <3>3. Len(s.queue) + 1 \in DOMAIN q /\ \A k \in DOMAIN s.queue : k \in DOMAIN q
      BY <2>2, <3>1
    <3> QED BY <2>2, <3>1, <3>2, <3>3
  <2>6. Len(q) = - (s.count - 1)
    BY <1>1, <1>3, <2>2 DEF Blocks
  <2>7. wait(s, p) \in SemaphoreOf(S)
    BY <1>2, <2>1, <2>4, <2>6 DEF SemaphoreOf
  <2> QED BY <1>2, <1>3, <2>1, <2>2, <2>5, <2>7, SMTT(30) DEF Waiting
<1>4. CASE ~ Blocks(s)
  BY <1>1, <1>2, <1>4 DEF wait, Blocks, SemaphoreOf, Waiting
<1> QED BY <1>3, <1>4

\* signaln counts up by n, and releases so many of those that wait.
LEMMA SignalledN ==
  ASSUME NEW S, NEW s \in SemaphoreOf(S), NEW n \in Nat
  PROVE  signaln(s, n) \in SemaphoreOf(S) /\ signaln(s, n).count = s.count + n
         /\ Waiting(signaln(s, n)) \subseteq Waiting(s)
<1> DEFINE out == IF s.count >= 0 THEN 0 ELSE IF n < - s.count THEN n ELSE - s.count
           L == Len(s.queue)
           q == SubSeq(s.queue, out + 1, L)
<1>1. /\ s.count \in Int /\ s.queue \in Seq(S)
      /\ \A j, k \in 1 .. L : s.queue[j] = s.queue[k] => j = k
      /\ L \in Nat /\ (s.count < 0 => L = - s.count) /\ (s.count >= 0 => L = 0)
  BY DEF SemaphoreOf
<1>2. signaln(s, n) = [count |-> s.count + n, queue |-> q]
  BY DEF signaln
<1>3. out \in 0 .. L /\ (s.count + n < 0 => L - out = - (s.count + n)) /\ (s.count + n >= 0 => out = L)
  BY <1>1
<1> HIDE DEF out, L
<1>4. /\ q \in Seq(S) /\ Len(q) = L - out /\ \A k \in 1 .. (L - out) : q[k] = s.queue[out + k]
  BY <1>1, <1>3, SMTT(60) DEF L
<1> HIDE DEF q
<1>5. DOMAIN q = 1 .. (L - out)
  BY <1>4
<1>6. \A j, k \in DOMAIN q : q[j] = q[k] => j = k
  <2>0. \A k \in 1 .. (L - out) : k \in Int /\ out + k \in 1 .. L
    <3>1. L \in Nat /\ out \in 0 .. L
      BY <1>1, <1>3
    <3> QED BY <3>1
  <2>1. \A k \in DOMAIN q : k \in Int /\ out + k \in 1 .. L /\ q[k] = s.queue[out + k]
    BY <1>4, <1>5, <2>0
  <2>2. ASSUME NEW j \in DOMAIN q, NEW k \in DOMAIN q, q[j] = q[k] PROVE j = k
    <3>1. out + j = out + k
      BY <1>1, <2>1, <2>2
    <3> QED BY <1>1, <1>3, <2>1, <3>1
  <2> QED BY <2>2
<1>7. \A k \in DOMAIN q : \E j \in DOMAIN s.queue : q[k] = s.queue[j]
  <2> SUFFICES ASSUME NEW k \in DOMAIN q PROVE \E j \in DOMAIN s.queue : q[k] = s.queue[j]
    OBVIOUS
  <2>0. L \in Nat /\ out \in 0 .. L /\ k \in 1 .. (L - out)
    BY <1>1, <1>3, <1>5
  <2>1. out + k \in 1 .. L /\ q[k] = s.queue[out + k]
    <3>1. out + k \in 1 .. L
      BY <2>0
    <3> QED BY <1>4, <2>0, <3>1
  <2>2. DOMAIN s.queue = 1 .. L
    BY <1>1 DEF L
  <2> QED BY <2>1, <2>2
<1>8. IF s.count + n < 0 THEN Len(q) = - (s.count + n) ELSE q = <<>>
  BY <1>1, <1>3, <1>4
<1>9. signaln(s, n) \in SemaphoreOf(S)
  <2>1. /\ signaln(s, n).count = s.count + n /\ signaln(s, n).queue = q
        /\ signaln(s, n) \in [count : Int, queue : Seq(S)]
    BY <1>1, <1>2, <1>4
  <2> QED BY <1>6, <1>8, <2>1 DEF SemaphoreOf
<1> QED BY <1>2, <1>7, <1>9 DEF Waiting

\* signal is signaln of one.
LEMMA SignalIsOne ==
  ASSUME NEW S, NEW s \in SemaphoreOf(S)
  PROVE  signal(s) = signaln(s, 1)
<1>1. s.count \in Int /\ s.queue \in Seq(S) /\ IF s.count < 0 THEN Len(s.queue) = - s.count ELSE s.queue = <<>>
  BY DEF SemaphoreOf
<1>2. CASE s.count < 0
  <2>0. 1 < - s.count \/ 1 = - s.count
    BY <1>1, <1>2
  <2>1. signaln(s, 1) = [count |-> s.count + 1, queue |-> SubSeq(s.queue, 2, Len(s.queue))]
    <3> DEFINE out == IF s.count >= 0 THEN 0 ELSE IF 1 < - s.count THEN 1 ELSE - s.count
    <3>1. out = 1
      BY <1>1, <1>2, <2>0
    <3>2. signaln(s, 1) = [count |-> s.count + 1, queue |-> SubSeq(s.queue, out + 1, Len(s.queue))]
      BY DEF signaln
    <3> HIDE DEF out
    <3>3. out + 1 = 2
      BY <3>1
    <3> QED BY <3>2, <3>3
  <2>2. Tail(s.queue) = SubSeq(s.queue, 2, Len(s.queue))
    BY <1>1, <1>2
  <2> QED BY <1>2, <2>1, <2>2 DEF signal
<1>3. CASE s.count >= 0
  <2>1. SubSeq(s.queue, 1, Len(s.queue)) = s.queue
    BY <1>1, <1>3
  <2> QED BY <1>1, <1>3, <2>1 DEF signal, signaln
<1> QED BY <1>1, <1>2, <1>3

\* A queue has as many places as there are processes that wait.
LEMMA WaitingCounted ==
  ASSUME NEW S, NEW s \in SemaphoreOf(S)
  PROVE  IsFiniteSet(Waiting(s)) /\ Cardinality(Waiting(s)) = Len(s.queue) /\ Waiting(s) \subseteq S
<1> DEFINE n == Len(s.queue)
           f == [k \in 1 .. n |-> s.queue[k]]
<1>1. /\ n \in Nat /\ DOMAIN s.queue = 1 .. n
      /\ \A j, k \in 1 .. n : s.queue[j] = s.queue[k] => j = k
      /\ \A k \in 1 .. n : s.queue[k] \in S
  BY DEF SemaphoreOf
<1>2. Waiting(s) = {s.queue[k] : k \in 1 .. n}
  BY <1>1 DEF Waiting
<1>3. f \in Bijection(1 .. n, Waiting(s))
  BY <1>1, <1>2 DEF Bijection, Injection, Surjection, IsInjective
<1>4. IsFiniteSet(Waiting(s)) /\ Cardinality(Waiting(s)) = n
  <2>1. ExistsBijection(1 .. n, Waiting(s))
    BY <1>3 DEF ExistsBijection
  <2>2. IsFiniteSet(1 .. n)
    BY <1>1, FS_Interval
  <2>3. IsFiniteSet(Waiting(s))
    BY <2>1, <2>2, FS_Bijection
  <2> QED BY <1>1, <2>1, <2>3, FS_CountingElements
<1> QED BY <1>1, <1>2, <1>4

-----------------------------------------------------------------------------
(***************************************************************************)
(* Sums, counted as sets of pairs.                                         *)
(***************************************************************************)
\* Finitely many pairs, when there are finitely many for each member.
LEMMA TokensFinite ==
  ASSUME NEW S, IsFiniteSet(S), NEW F, \A s \in S : IsFiniteSet(F[s])
  PROVE  IsFiniteSet(Tok(S, F)) /\ Cardinality(Tok(S, F)) \in Nat
<1> DEFINE C == {{s} \X F[s] : s \in S}
<1>1. IsFiniteSet(C)
  <2> SUFFICES IsFiniteSet({{s} \X F[s] : s \in S})
    OBVIOUS
  <2> DEFINE g == [s \in S |-> {s} \X F[s]]
  <2>1. g \in Surjection(S, C)
    BY DEF Surjection
  <2> QED BY <2>1, FS_Surjection
<1>2. \A c \in C : IsFiniteSet(c)
  <2> SUFFICES ASSUME NEW s \in S PROVE IsFiniteSet({s} \X F[s])
    OBVIOUS
  <2>1. IsFiniteSet({s})
    BY FS_Singleton
  <2> QED BY <2>1, FS_Product
<1>3. IsFiniteSet(UNION C)
  BY <1>1, <1>2, FS_UNION
<1> QED BY <1>3, FS_CardinalityType DEF Tok

\* The sum changes by what one summand changes.
LEMMA TokensSplit ==
  ASSUME NEW S, IsFiniteSet(S), NEW F, \A s \in S : IsFiniteSet(F[s]), NEW t \in S
  PROVE  /\ IsFiniteSet(Tok(S \ {t}, F))
         /\ Cardinality(Tok(S \ {t}, F)) \in Nat /\ Cardinality(F[t]) \in Nat
         /\ Cardinality(Tok(S, F)) = Cardinality(F[t]) + Cardinality(Tok(S \ {t}, F))
<1> DEFINE A == {t} \X F[t]
           B == Tok(S \ {t}, F)
<1>1. IsFiniteSet(S \ {t})
  BY FS_Subset
<1>2. IsFiniteSet(B) /\ Cardinality(B) \in Nat
  BY <1>1, TokensFinite
<1>3. IsFiniteSet({t}) /\ Cardinality({t}) = 1
  BY FS_Singleton
<1>4. IsFiniteSet(F[t]) /\ Cardinality(F[t]) \in Nat
  BY FS_CardinalityType
<1>5. IsFiniteSet(A) /\ Cardinality(A) = Cardinality({t}) * Cardinality(F[t])
  BY <1>3, <1>4, FS_Product
<1>6. Tok(S, F) = A \cup B
  BY DEF Tok
<1>7. A \cap B = {}
  BY DEF Tok
<1>8. Cardinality(A \cup B) = Cardinality(A) + Cardinality(B) - Cardinality(A \cap B)
  BY <1>2, <1>5, FS_Union
<1>9. Cardinality(A \cap B) = 0
  BY <1>7, FS_EmptySet
<1> HIDE DEF A, B
<1>10. Cardinality(A) = Cardinality(F[t])
  BY <1>3, <1>4, <1>5
<1>11. Cardinality(Tok(S, F)) = Cardinality(F[t]) + Cardinality(B)
  BY <1>2, <1>4, <1>6, <1>8, <1>9, <1>10
<1> QED BY <1>2, <1>4, <1>11 DEF B

LEMMA TokensChange ==
  ASSUME NEW S, IsFiniteSet(S), NEW F, NEW G, NEW t \in S,
         \A s \in S : IsFiniteSet(F[s]) /\ IsFiniteSet(G[s]),
         \A s \in S : s # t => G[s] = F[s]
  PROVE  /\ Cardinality(Tok(S, F)) \in Nat /\ Cardinality(Tok(S, G)) \in Nat
         /\ Cardinality(F[t]) \in Nat /\ Cardinality(G[t]) \in Nat
         /\ Cardinality(Tok(S, G)) = Cardinality(Tok(S, F)) + Cardinality(G[t]) - Cardinality(F[t])
<1>1. Tok(S \ {t}, G) = Tok(S \ {t}, F)
  BY DEF Tok
<1> DEFINE a == Cardinality(Tok(S, F))
           b == Cardinality(Tok(S, G))
           c == Cardinality(Tok(S \ {t}, F))
           d == Cardinality(F[t])
           e == Cardinality(G[t])
<1>2. a = d + c /\ c \in Nat /\ d \in Nat
  BY TokensSplit
<1>3. b = e + Cardinality(Tok(S \ {t}, G)) /\ e \in Nat
  BY TokensSplit
<1>4. b = e + c
  BY <1>1, <1>3
<1> HIDE DEF a, b, c, d, e
<1>5. a \in Nat /\ b \in Nat /\ b = a + e - d
  BY <1>2, <1>3, <1>4
<1> QED BY <1>2, <1>3, <1>5 DEF a, b, d, e

\* The slots and the processes are finitely many.
LEMMA Finitely ==
  ASSUME NetAssumption
  PROVE  IsFiniteSet(UdpSlots) /\ IsFiniteSet(IcmpSlots) /\ IsFiniteSet(Procs)
<1>1. IsFiniteSet(UdpSlots) /\ IsFiniteSet(IcmpSlots)
  <2>1. 0 \in Int /\ UDP_SLOTS - 1 \in Int /\ ICMP_SLOTS - 1 \in Int
    BY DEF NetAssumption
  <2> QED BY <2>1, FS_Interval DEF UdpSlots, IcmpSlots
<1>2. IsFiniteSet({"netin"}) /\ IsFiniteSet({"ipout"}) /\ NetProcs = {"netin"} \cup {"ipout"}
  BY FS_Singleton DEF NetProcs
<1>3. IsFiniteSet(NetProcs)
  BY <1>2, FS_Union
<1> QED BY <1>1, <1>3, FS_Union DEF Procs, NetAssumption

\* What the queues of the UDP endpoints hold changes with one of them.
LEMMA UdpChange ==
  ASSUME NetAssumption, NEW f \in [UdpSlots -> UdpEntries], NEW g \in [UdpSlots -> UdpEntries],
         NEW s \in UdpSlots, \A r \in UdpSlots : r # s => g[r].udqueue = f[r].udqueue
  PROVE  /\ UdpSum(f) \in Nat /\ UdpSum(g) \in Nat
         /\ Len(f[s].udqueue) \in Nat /\ Len(g[s].udqueue) \in Nat
         /\ UdpSum(g) = UdpSum(f) + Len(g[s].udqueue) - Len(f[s].udqueue)
<1> DEFINE F == [r \in UdpSlots |-> 1 .. Len(f[r].udqueue)]
           G == [r \in UdpSlots |-> 1 .. Len(g[r].udqueue)]
<1>1. \A r \in UdpSlots : Len(f[r].udqueue) \in Nat /\ Len(g[r].udqueue) \in Nat
  <2>1. \A e \in UdpEntries : Len(e.udqueue) \in Nat
    BY DEF UdpEntries
  <2>2. \A r \in UdpSlots : f[r] \in UdpEntries /\ g[r] \in UdpEntries
    OBVIOUS
  <2> QED BY <2>1, <2>2
<1>2. \A r \in UdpSlots : /\ IsFiniteSet(F[r]) /\ Cardinality(F[r]) = Len(f[r].udqueue)
                          /\ IsFiniteSet(G[r]) /\ Cardinality(G[r]) = Len(g[r].udqueue)
  <2> SUFFICES ASSUME NEW r \in UdpSlots
               PROVE  /\ IsFiniteSet(F[r]) /\ Cardinality(F[r]) = Len(f[r].udqueue)
                      /\ IsFiniteSet(G[r]) /\ Cardinality(G[r]) = Len(g[r].udqueue)
    OBVIOUS
  <2>1. \A n \in Nat : IsFiniteSet(1 .. n) /\ Cardinality(1 .. n) = n
    BY FS_Interval
  <2> QED BY <1>1, <2>1
<1>3. \A r \in UdpSlots : r # s => G[r] = F[r]
  OBVIOUS
<1>4. UdpSum(f) = Cardinality(Tok(UdpSlots, F)) /\ UdpSum(g) = Cardinality(Tok(UdpSlots, G))
  BY DEF UdpSum
<1> HIDE DEF F, G
<1>5. /\ Cardinality(Tok(UdpSlots, F)) \in Nat /\ Cardinality(Tok(UdpSlots, G)) \in Nat
      /\ Cardinality(Tok(UdpSlots, G)) = Cardinality(Tok(UdpSlots, F)) + Cardinality(G[s]) - Cardinality(F[s])
  <2>1. IsFiniteSet(UdpSlots)
    BY Finitely
  <2>2. \A r \in UdpSlots : IsFiniteSet(F[r]) /\ IsFiniteSet(G[r])
    BY <1>2
  <2> QED BY <1>3, <2>1, <2>2, TokensChange
<1> QED BY <1>1, <1>2, <1>4, <1>5

\* What the ICMP endpoints hold changes with one of them.
LEMMA IcmpChange ==
  ASSUME NetAssumption, NEW f, NEW g, NEW s \in IcmpSlots,
         \A r \in IcmpSlots : IsFiniteSet(f[r].icqueue) /\ IsFiniteSet(g[r].icqueue),
         \A r \in IcmpSlots : r # s => g[r].icqueue = f[r].icqueue
  PROVE  /\ IcmpSum(f) \in Nat /\ IcmpSum(g) \in Nat
         /\ Cardinality(f[s].icqueue) \in Nat /\ Cardinality(g[s].icqueue) \in Nat
         /\ IcmpSum(g) = IcmpSum(f) + Cardinality(g[s].icqueue) - Cardinality(f[s].icqueue)
<1> DEFINE F == [r \in IcmpSlots |-> f[r].icqueue]
           G == [r \in IcmpSlots |-> g[r].icqueue]
<1>1. \A r \in IcmpSlots : IsFiniteSet(F[r]) /\ IsFiniteSet(G[r])
  OBVIOUS
<1>2. \A r \in IcmpSlots : r # s => G[r] = F[r]
  OBVIOUS
<1>3. F[s] = f[s].icqueue /\ G[s] = g[s].icqueue
  OBVIOUS
<1>4. IcmpSum(f) = Cardinality(Tok(IcmpSlots, F)) /\ IcmpSum(g) = Cardinality(Tok(IcmpSlots, G))
  BY DEF IcmpSum
<1> HIDE DEF F, G
<1>5. /\ Cardinality(Tok(IcmpSlots, F)) \in Nat /\ Cardinality(Tok(IcmpSlots, G)) \in Nat
      /\ Cardinality(F[s]) \in Nat /\ Cardinality(G[s]) \in Nat
      /\ Cardinality(Tok(IcmpSlots, G)) = Cardinality(Tok(IcmpSlots, F)) + Cardinality(G[s]) - Cardinality(F[s])
  <2>1. IsFiniteSet(IcmpSlots)
    BY Finitely
  <2>2. s \in IcmpSlots
    OBVIOUS
  <2>3. \A r \in IcmpSlots : IsFiniteSet(F[r]) /\ IsFiniteSet(G[r])
    BY <1>1
  <2> QED BY ONLY <1>2, <2>1, <2>2, <2>3, TokensChange
<1> QED BY <1>3, <1>4, <1>5

\* What the processes have or wait for changes with one of them.
LEMMA AtChange ==
  ASSUME NetAssumption, NEW f \in [Procs -> Positions], NEW x \in Procs, NEW p \in Positions
  PROVE  /\ AtSum(f) \in Nat /\ AtSum([f EXCEPT ![x] = p]) \in Nat
         /\ Needs(f[x].pc) \in Nat /\ Needs(p.pc) \in Nat
         /\ AtSum([f EXCEPT ![x] = p]) = AtSum(f) + Needs(p.pc) - Needs(f[x].pc)
<1> DEFINE g == [f EXCEPT ![x] = p]
           F == [r \in Procs |-> 1 .. Needs(f[r].pc)]
           G == [r \in Procs |-> 1 .. Needs(g[r].pc)]
<1>0. g[x] = p /\ \A r \in Procs : r # x => g[r] = f[r]
  OBVIOUS
<1> HIDE DEF g
<1>1. \A r \in Procs : Needs(f[r].pc) \in Nat /\ Needs(g[r].pc) \in Nat
  BY DEF Needs
<1>2. \A r \in Procs : /\ IsFiniteSet(F[r]) /\ Cardinality(F[r]) = Needs(f[r].pc)
                       /\ IsFiniteSet(G[r]) /\ Cardinality(G[r]) = Needs(g[r].pc)
  <2>1. \A n \in Nat : IsFiniteSet(1 .. n) /\ Cardinality(1 .. n) = n
    BY FS_Interval
  <2> QED BY <1>1, <2>1
<1>3. \A r \in Procs : r # x => G[r] = F[r]
  BY <1>0
<1>4. AtSum(f) = Cardinality(Tok(Procs, F)) /\ AtSum(g) = Cardinality(Tok(Procs, G))
  BY DEF AtSum
<1> HIDE DEF F, G
<1>5. /\ Cardinality(Tok(Procs, F)) \in Nat /\ Cardinality(Tok(Procs, G)) \in Nat
      /\ Cardinality(Tok(Procs, G)) = Cardinality(Tok(Procs, F)) + Cardinality(G[x]) - Cardinality(F[x])
  BY <1>2, <1>3, Finitely, TokensChange
<1>6. Needs(f[x].pc) \in Nat /\ Needs(p.pc) \in Nat
  BY <1>0, <1>1
<1>7. Cardinality(G[x]) = Needs(p.pc) /\ Cardinality(F[x]) = Needs(f[x].pc)
  BY <1>0, <1>2
<1>8. AtSum(g) \in Nat /\ AtSum(g) = AtSum(f) + Needs(p.pc) - Needs(f[x].pc) /\ AtSum(f) \in Nat
  BY <1>4, <1>5, <1>7
<1> QED BY <1>6, <1>8 DEF g

\* Sums are numbers.
LEMMA SumsAreNumbers ==
  ASSUME NetAssumption, NetTypes, Freed
  PROVE  UdpSum(udptab) \in Nat /\ IcmpSum(icmptab) \in Nat /\ AtSum(at) \in Nat
<1>1. UdpSum(udptab) \in Nat
  <2> DEFINE F == [r \in UdpSlots |-> 1 .. Len(udptab[r].udqueue)]
  <2>1. \A r \in UdpSlots : IsFiniteSet(F[r])
    <3>1. \A r \in UdpSlots : Len(udptab[r].udqueue) \in Nat
      BY DEF NetTypes, UdpEntries
    <3>2. \A n \in Nat : IsFiniteSet(1 .. n)
      BY FS_Interval
    <3> QED BY <3>1, <3>2
  <2>2. UdpSum(udptab) = Cardinality(Tok(UdpSlots, F))
    BY DEF UdpSum
  <2> HIDE DEF F
  <2>3. IsFiniteSet(UdpSlots)
    BY Finitely
  <2> QED BY <2>1, <2>2, <2>3, TokensFinite
<1>2. IcmpSum(icmptab) \in Nat
  <2> DEFINE F == [r \in IcmpSlots |-> icmptab[r].icqueue]
  <2>1. \A r \in IcmpSlots : IsFiniteSet(F[r])
    BY DEF Freed
  <2>2. IcmpSum(icmptab) = Cardinality(Tok(IcmpSlots, F))
    BY DEF IcmpSum
  <2> HIDE DEF F
  <2>3. IsFiniteSet(IcmpSlots)
    BY Finitely
  <2> QED BY <2>1, <2>2, <2>3, TokensFinite
<1>3. AtSum(at) \in Nat
  <2> DEFINE F == [x \in Procs |-> 1 .. Needs(at[x].pc)]
  <2>1. \A x \in Procs : IsFiniteSet(F[x])
    <3>1. \A x \in Procs : Needs(at[x].pc) \in Nat
      BY DEF Needs
    <3>2. \A n \in Nat : IsFiniteSet(1 .. n)
      BY FS_Interval
    <3> QED BY <3>1, <3>2
  <2>2. AtSum(at) = Cardinality(Tok(Procs, F))
    BY DEF AtSum
  <2> HIDE DEF F
  <2>3. IsFiniteSet(Procs)
    BY Finitely
  <2> QED BY <2>1, <2>2, <2>3, TokensFinite
<1> QED BY <1>1, <1>2, <1>3

-----------------------------------------------------------------------------
(***************************************************************************)
(* The initial state, and steps that only move processes and buffers.      *)
(***************************************************************************)
\* Where a process is when it is in no call.
LEMMA IdlePosition == IDLE \in Positions /\ IDLE.pc = "idle" /\ NOPKT \in Packets
BY DEF IDLE, Positions, NOPKT, Packet, Packets

\* Pairs of nothing.
LEMMA TokensNone ==
  ASSUME NEW S, NEW F, \A s \in S : F[s] = {}
  PROVE  Cardinality(Tok(S, F)) = 0
<1>1. Tok(S, F) = {}
  BY DEF Tok
<1> QED BY <1>1, FS_EmptySet

\* The number of buffers is a number.
LEMMA HowMany == ASSUME NetAssumption PROVE nbufs \in Nat
<1>1. /\ UDP_SLOTS \in Nat /\ UDP_QSIZ \in Nat /\ ICMP_SLOTS \in Nat /\ ICMP_QSIZ \in Nat
  BY DEF NetAssumption
<1>2. \A a, b \in Nat : a * b \in Nat
  OBVIOUS
<1>3. UDP_SLOTS * UDP_QSIZ \in Nat /\ ICMP_SLOTS * ICMP_QSIZ \in Nat
  BY <1>1, <1>2
<1> DEFINE a == UDP_SLOTS * UDP_QSIZ
           b == ICMP_SLOTS * ICMP_QSIZ
<1> HIDE DEF a, b
<1>4. a \in Nat /\ b \in Nat
  BY <1>3 DEF a, b
<1>5. nbufs = a + b + 1
  BY DEF nbufs, a, b
<1> QED BY <1>4, <1>5

LEMMA NetInit == ASSUME NetAssumption, Init PROVE NetInv
<1>0. nbufs \in Nat
  BY HowMany
<1>1. pool = semcreate(nbufs) /\ pool \in SemaphoreOf(Procs) /\ Waiting(pool) = {} /\ pool.count = nbufs
  BY <1>0, Created DEF Init, net_init, semcreate
<1>2. /\ at \in [Procs -> Positions] /\ \A x \in Procs : at[x].pc = "idle"
  BY IdlePosition DEF Init
<1>3. /\ udptab \in [UdpSlots -> UdpEntries]
      /\ \A s \in UdpSlots : udptab[s].udstate = "FREE" /\ udptab[s].udqueue = <<>>
  <2>1. [udstate |-> "FREE", udend |-> <<0, 0, 0>>, udpid |-> {}, udqueue |-> <<>>] \in UdpEntries
    BY DEF UdpEntries, States
  <2> QED BY <2>1 DEF Init, net_init, udp_init
<1>4. /\ icmptab \in [IcmpSlots -> IcmpEntries]
      /\ \A s \in IcmpSlots : /\ icmptab[s].icstate = "FREE" /\ icmptab[s].icqueue = {}
                              /\ icmptab[s].iccount = 0
  BY DEF Init, net_init, icmp_init, IcmpEntries, States
<1>5. ipoqueue = <<>> /\ prmsg = {} /\ waiting = {} /\ lost = 0 /\ shared = FALSE /\ fault = "none"
  BY DEF Init, net_init
<1>6. NetTypes
  <2>1. ipoqueue \in Seq(Packets)
    BY <1>5
  <2>2. prmsg \subseteq Users /\ waiting \subseteq Users
    BY <1>5
  <2>3. lost \in Nat /\ shared \in BOOLEAN /\ fault \in {"none", "udp", "icmp"}
    BY <1>5
  <2> QED BY <1>1, <1>2, <1>3, <1>4, <2>1, <2>2, <2>3 DEF NetTypes
<1>7. Places
  BY <1>1, <1>2 DEF Places
<1>8. Freed
  <2>1. IsFiniteSet({}) /\ Cardinality({}) = 0 /\ 0 <= 0
    BY FS_EmptySet
  <2> QED BY <1>3, <1>4, <2>1 DEF Freed
<1>9. IcmpQueues
  <2>1. \A s \in IcmpSlots : icmptab[s].ictail = 0
    BY DEF Init, net_init, icmp_init
  <2> QED BY <1>4, <2>1 DEF IcmpQueues
<1>10. Balance
  <2>1. UdpSum(udptab) = 0
    <3> DEFINE F == [s \in UdpSlots |-> 1 .. Len(udptab[s].udqueue)]
    <3>1. \A s \in UdpSlots : F[s] = {}
      BY <1>3
    <3>2. UdpSum(udptab) = Cardinality(Tok(UdpSlots, F))
      BY DEF UdpSum
    <3> HIDE DEF F
    <3> QED BY <3>1, <3>2, TokensNone
  <2>2. IcmpSum(icmptab) = 0
    <3> DEFINE F == [s \in IcmpSlots |-> icmptab[s].icqueue]
    <3>1. \A s \in IcmpSlots : F[s] = {}
      BY <1>4
    <3>2. IcmpSum(icmptab) = Cardinality(Tok(IcmpSlots, F))
      BY DEF IcmpSum
    <3> HIDE DEF F
    <3> QED BY <3>1, <3>2, TokensNone
  <2>3. AtSum(at) = 0
    <3> DEFINE F == [x \in Procs |-> 1 .. Needs(at[x].pc)]
    <3>1. \A x \in Procs : F[x] = {}
      BY <1>2 DEF Needs
    <3>2. AtSum(at) = Cardinality(Tok(Procs, F))
      BY DEF AtSum
    <3> HIDE DEF F
    <3> QED BY <3>1, <3>2, TokensNone
  <2>4. Len(ipoqueue) = 0
    BY <1>5
  <2> QED BY <1>0, <1>1, <1>5, <2>1, <2>2, <2>3, <2>4 DEF Balance
<1>11. Receivers
  <2>1. Alone
    BY <1>2 DEF Alone, Procs
  <2>2. InOrder
    BY <1>2, <1>4 DEF InOrder, Procs
  <2> QED BY <1>3, <1>4, <1>5, <2>1, <2>2 DEF Receivers, Known, UdpAwaits, IcmpAwaits, Told
<1> QED BY <1>6, <1>7, <1>8, <1>9, <1>10, <1>11 DEF NetInv

\* The parts of the invariant that speak of endpoints do not care where a process
\* is that was in no endpoint, and is in none.
LEMMA ReceiversStay ==
  ASSUME NetTypes, Receivers, NEW x \in Procs, NEW p \in Positions,
         at[x].pc \notin {"udp", "icmp"}, p.pc \notin {"udp", "icmp"}, at' = [at EXCEPT ![x] = p],
         UNCHANGED <<udptab, icmptab, prmsg, waiting, shared, fault>>
  PROVE  Receivers'
<1> SUFFICES ASSUME fault = "none", ~ shared PROVE (Alone /\ Known /\ UdpAwaits /\ IcmpAwaits /\ Told /\ InOrder)'
  BY DEF Receivers
<1>1. Alone /\ Known /\ UdpAwaits /\ IcmpAwaits /\ Told /\ InOrder
  BY DEF Receivers
<1>2. /\ at'[x] = p
      /\ \A y \in Procs : y # x => at'[y] = at[y]
      /\ Users \subseteq Procs
  BY DEF NetTypes, Procs
<1>3. Alone'
  BY <1>1, <1>2 DEF Alone, In
<1>4. Known'
  BY <1>1, <1>2 DEF Known, NetTypes
<1>5. \A y \in Users, pc \in {"udp", "icmp"} : \A s : In(at, y, pc, s) => In(at', y, pc, s)
  BY <1>2 DEF In
<1>6. UdpAwaits'
  BY <1>1, <1>5 DEF UdpAwaits, NetTypes, UdpEntries
<1>7. IcmpAwaits'
  BY <1>1, <1>5 DEF IcmpAwaits, NetTypes, IcmpEntries
<1>8. Told'
  BY <1>1, <1>2 DEF Told, NetTypes
<1>9. InOrder'
  BY <1>1, <1>2 DEF InOrder
<1> QED BY <1>3, <1>4, <1>6, <1>7, <1>8, <1>9

\* A step that moves one process, between places where it is in no endpoint,
\* and buffers between it, the pool and the output queue.
LEMMA Moves ==
  ASSUME NetAssumption, NetInv, NEW x \in Procs, NEW p \in Positions,
         at[x].pc \notin {"udp", "icmp"}, p.pc \notin {"udp", "icmp"}, at' = [at EXCEPT ![x] = p],
         UNCHANGED <<udptab, icmptab, prmsg, waiting, lost, shared, fault>>,
         ipoqueue' \in Seq(Packets), pool' \in SemaphoreOf(Procs),
         \A y \in Waiting(pool') : y \in Waiting(pool) \ {x} \/ (y = x /\ p.pc \in {"read", "send", "mkpkt"}),
         pool'.count + Len(ipoqueue') + Needs(p.pc) = pool.count + Len(ipoqueue) + Needs(at[x].pc)
  PROVE  NetInv'
<1>0. NetTypes /\ Places /\ Freed /\ IcmpQueues /\ Balance /\ Receivers
  BY DEF NetInv
<1>1. /\ at \in [Procs -> Positions] /\ at' \in [Procs -> Positions]
      /\ at'[x] = p
      /\ \A y \in Procs : y # x => at'[y] = at[y]
  BY <1>0 DEF NetTypes
<1>2. NetTypes'
  BY <1>0, <1>1 DEF NetTypes
<1>3. Places'
  <2>1. \A y \in Waiting(pool') : at'[y].pc \in {"read", "send", "mkpkt"}
    <3>1. \A y \in Waiting(pool) : y \in Procs /\ at[y].pc \in {"read", "send", "mkpkt"}
      BY <1>0, WaitingCounted DEF NetTypes, Places
    <3> QED BY <1>1, <3>1
  <2> QED BY <1>0, <1>1, <2>1 DEF Places
<1>4. Freed' /\ IcmpQueues'
  BY <1>0 DEF Freed, IcmpQueues
<1>5. Balance'
  <2> SUFFICES ASSUME fault = "none"
               PROVE  pool'.count + UdpSum(udptab) + IcmpSum(icmptab) + AtSum(at') + Len(ipoqueue') + lost = nbufs
    BY DEF Balance
  <2>1. pool.count + UdpSum(udptab) + IcmpSum(icmptab) + AtSum(at) + Len(ipoqueue) + lost = nbufs
    BY <1>0 DEF Balance
  <2>2. /\ AtSum(at) \in Nat /\ AtSum(at') \in Nat
        /\ Needs(at[x].pc) \in Nat /\ Needs(p.pc) \in Nat
        /\ AtSum(at') = AtSum(at) + Needs(p.pc) - Needs(at[x].pc)
    BY <1>1, AtChange
  <2>3. UdpSum(udptab) \in Nat /\ IcmpSum(icmptab) \in Nat
    BY <1>0, SumsAreNumbers
  <2>4. /\ pool.count \in Int /\ pool'.count \in Int /\ lost \in Nat
        /\ Len(ipoqueue) \in Nat /\ Len(ipoqueue') \in Nat
    BY <1>0 DEF NetTypes, SemaphoreOf
  <2> DEFINE a == UdpSum(udptab)
             b == IcmpSum(icmptab)
             c == AtSum(at)
             d == AtSum(at')
             e == Len(ipoqueue)
             f == Len(ipoqueue')
             g == Needs(at[x].pc)
             h == Needs(p.pc)
             i == pool.count
             j == pool'.count
  <2>5. /\ i + a + b + c + e + lost = nbufs
        /\ a \in Nat /\ b \in Nat /\ c \in Nat /\ d \in Nat
        /\ e \in Nat /\ f \in Nat /\ g \in Nat /\ h \in Nat /\ i \in Int /\ j \in Int /\ lost \in Nat
        /\ d = c + h - g
        /\ j + f + h = i + e + g
    BY <2>1, <2>2, <2>3, <2>4
  <2> HIDE DEF a, b, c, d, e, f, g, h, i, j
  <2>6. j + a + b + d + f + lost = nbufs
    BY <2>5
  <2> QED BY <2>6 DEF a, b, d, f, j
<1>6. Receivers'
  BY <1>0, ReceiversStay
<1> QED BY <1>2, <1>3, <1>4, <1>5, <1>6 DEF NetInv

-----------------------------------------------------------------------------
(***************************************************************************)
(* Packets that arrive in an endpoint.                                     *)
(***************************************************************************)
\* The least member of a set of numbers is one of them.
LEMMA LeastIsMember ==
  ASSUME NEW T, T \subseteq Nat, T # {}
  PROVE  Min(T) \in T
<1>1. \E x \in T : \A y \in T : x <= y
  <2>1. PICK x \in T : \A y \in T : ~ (<<y, x>> \in OpToRel(<, Nat))
    BY NatLessThanWellFounded, WFMin
  <2>2. \A y \in T : ~ (y < x)
    BY <2>1, Zenon DEF OpToRel
  <2> QED BY <2>2
<1> QED BY <1>1 DEF Min

\* Who is in no call that needs a buffer does not wait for one.
LEMMA NotWaiting ==
  ASSUME NetInv, NEW x, at[x].pc \notin {"read", "send", "mkpkt"}
  PROVE  x \notin Waiting(pool)
BY DEF NetInv, Places

\* All but the balance and the endpoints' receivers, when one process leaves for no call.
LEMMA Leaves ==
  ASSUME NetInv, NEW x \in Procs, at' = [at EXCEPT ![x] = IDLE], x \notin Waiting(pool),
         pool' \in SemaphoreOf(Procs), Waiting(pool') \subseteq Waiting(pool)
  PROVE  /\ at' \in [Procs -> Positions] /\ at'[x] = IDLE /\ at'[x].pc = "idle"
         /\ \A y \in Procs : y # x => at'[y] = at[y]
         /\ Places'
<1>1. /\ at \in [Procs -> Positions] /\ Places
  BY DEF NetInv, NetTypes
<1>2. /\ at' \in [Procs -> Positions] /\ at'[x] = IDLE /\ at'[x].pc = "idle"
      /\ \A y \in Procs : y # x => at'[y] = at[y]
  BY <1>1, IdlePosition
<1>3. \A y \in Waiting(pool') : y \in Procs /\ y # x
  BY WaitingCounted
<1>4. Places'
  BY <1>1, <1>2, <1>3 DEF Places
<1> QED BY <1>2, <1>4

\* The balance, from what each part of it changes by.
LEMMA BalanceStays ==
  ASSUME NetAssumption, NetInv, fault = "none", NEW x \in Procs, NEW p \in Positions, at' = [at EXCEPT ![x] = p],
         NEW u \in Int, NEW i \in Int, UdpSum(udptab') = UdpSum(udptab) + u, IcmpSum(icmptab') = IcmpSum(icmptab) + i,
         pool'.count \in Int, Len(ipoqueue') \in Nat, lost' \in Nat,
         pool'.count + u + i + Needs(p.pc) + Len(ipoqueue') + lost'
           = pool.count + Needs(at[x].pc) + Len(ipoqueue) + lost
  PROVE  Balance'
<1> SUFFICES pool'.count + UdpSum(udptab') + IcmpSum(icmptab') + AtSum(at') + Len(ipoqueue') + lost' = nbufs
  BY DEF Balance
<1>0. NetTypes /\ Freed /\ Balance
  BY DEF NetInv
<1>1. pool.count + UdpSum(udptab) + IcmpSum(icmptab) + AtSum(at) + Len(ipoqueue) + lost = nbufs
  BY <1>0 DEF Balance
<1>2. /\ AtSum(at) \in Nat /\ AtSum(at') \in Nat
      /\ Needs(at[x].pc) \in Nat /\ Needs(p.pc) \in Nat
      /\ AtSum(at') = AtSum(at) + Needs(p.pc) - Needs(at[x].pc)
  <2>1. at \in [Procs -> Positions]
    BY <1>0 DEF NetTypes
  <2> QED BY <2>1, AtChange
<1>3. UdpSum(udptab) \in Nat /\ IcmpSum(icmptab) \in Nat
  BY <1>0, SumsAreNumbers
<1>4. pool.count \in Int /\ lost \in Nat /\ Len(ipoqueue) \in Nat
  BY <1>0 DEF NetTypes, SemaphoreOf
<1> DEFINE a == UdpSum(udptab)
           b == IcmpSum(icmptab)
           c == AtSum(at)
           d == AtSum(at')
           e == Len(ipoqueue)
           f == Len(ipoqueue')
           g == Needs(at[x].pc)
           h == Needs(p.pc)
           m == pool.count
           n == pool'.count
           l == lost
           k == lost'
           N == nbufs
<1>5. /\ m + a + b + c + e + l = N
      /\ a \in Nat /\ b \in Nat /\ c \in Nat /\ d \in Nat
      /\ e \in Nat /\ f \in Nat /\ g \in Nat /\ h \in Nat /\ m \in Int /\ n \in Int /\ l \in Nat
      /\ k \in Nat
      /\ u \in Int /\ i \in Int /\ N \in Int
      /\ d = c + h - g
      /\ n + u + i + h + f + k = m + g + e + l
  BY <1>1, <1>2, <1>3, <1>4, HowMany
<1> HIDE DEF a, b, c, d, e, f, g, h, m, n, l, k, N
<1>6. n + (a + u) + (b + i) + d + f + k = N
  BY ONLY <1>5
<1> QED BY <1>6 DEF a, b, d, f, n, k, N

\* udp_in with an endpoint that takes the packet, in process x.
LEMMA UdpTaken ==
  ASSUME NetAssumption, NetInv, fault = "none", NEW x \in Procs, x \notin Waiting(pool),
         at[x].pc \notin {"udp", "icmp"}, NEW pkt \in Packets, NEW s \in UdpSlots, udptab[s].udstate # "FREE",
         udptab' = [udptab EXCEPT ![s].udqueue = Append(@, pkt), ![s].udstate = "USED"],
         Tell(IF udptab[s].udstate = "RECV" THEN udptab[s].udpid ELSE {}), Done(x),
         UNCHANGED <<pool, icmptab, lost, shared, fault>>,
         ipoqueue' \in Seq(Packets), Len(ipoqueue') + 1 = Len(ipoqueue) + Needs(at[x].pc)
  PROVE  NetInv'
<1> DEFINE T == IF udptab[s].udstate = "RECV" THEN udptab[s].udpid ELSE {}
<1>0. /\ NetTypes /\ Places /\ Freed /\ IcmpQueues /\ Balance /\ Receivers
      /\ udptab \in [UdpSlots -> UdpEntries] /\ icmptab \in [IcmpSlots -> IcmpEntries]
      /\ pool' = pool /\ icmptab' = icmptab /\ lost' = lost /\ shared' = shared /\ fault' = fault
  BY DEF NetInv, NetTypes
<1>1. /\ at' \in [Procs -> Positions] /\ at'[x].pc = "idle"
      /\ \A y \in Procs : y # x => at'[y] = at[y]
      /\ Places'
  BY <1>0, Leaves DEF Done, NetTypes
<1>2. /\ udptab' \in [UdpSlots -> UdpEntries]
      /\ udptab'[s].udqueue = Append(udptab[s].udqueue, pkt) /\ udptab'[s].udstate = "USED"
      /\ \A r \in UdpSlots : r # s => udptab'[r] = udptab[r]
  <2>1. Append(udptab[s].udqueue, pkt) \in Seq(Packets) /\ "USED" \in States
    BY <1>0 DEF UdpEntries, States
  <2>2. udptab' = [udptab EXCEPT ![s].udqueue = Append(udptab[s].udqueue, pkt), ![s].udstate = "USED"]
    OBVIOUS
  <2> DEFINE q == Append(udptab[s].udqueue, pkt)
             e == [udptab[s] EXCEPT !.udqueue = q, !.udstate = "USED"]
  <2>3. udptab[s] \in UdpEntries /\ udptab' = [udptab EXCEPT ![s] = e]
    BY <1>0, <2>2
  <2>4. q \in Seq(Packets)
    BY <2>1
  <2> HIDE DEF q
  <2>5. e \in UdpEntries /\ e.udqueue = q /\ e.udstate = "USED"
    BY ONLY <2>1, <2>3, <2>4 DEF UdpEntries
  <2> HIDE DEF e
  <2>6. udptab' \in [UdpSlots -> UdpEntries] /\ udptab'[s] = e /\ \A r \in UdpSlots : r # s => udptab'[r] = udptab[r]
    BY <1>0, <2>3, <2>5
  <2> QED BY <2>5, <2>6 DEF q
<1>3. /\ T \subseteq Users /\ prmsg' = prmsg \cup T /\ waiting' = waiting \ T
      /\ Users \subseteq Procs
  BY <1>0 DEF Tell, UdpEntries, Procs
<1>4. NetTypes'
  BY <1>0, <1>1, <1>2, <1>3 DEF NetTypes
<1>5. Freed' /\ IcmpQueues'
  BY <1>0, <1>2 DEF Freed, IcmpQueues
<1>6. Balance'
  <2>1. UdpSum(udptab') = UdpSum(udptab) + 1
    <3> DEFINE a == UdpSum(udptab)
               b == UdpSum(udptab')
               c == Len(udptab[s].udqueue)
               d == Len(udptab'[s].udqueue)
    <3>1. a \in Nat /\ b \in Nat /\ c \in Nat /\ d \in Nat /\ b = a + d - c
      BY <1>0, <1>2, UdpChange
    <3>2. d = c + 1
      BY <1>0, <1>2 DEF UdpEntries
    <3> HIDE DEF a, b, c, d
    <3>3. b = a + 1
      BY ONLY <3>1, <3>2
    <3> QED BY <3>3 DEF a, b
  <2>2. IcmpSum(icmptab') = IcmpSum(icmptab) + 0
    BY <1>0, SumsAreNumbers
  <2>3. IDLE \in Positions /\ Needs(IDLE.pc) = 0 /\ at' = [at EXCEPT ![x] = IDLE]
    BY IdlePosition DEF Needs, Done
  <2>4. pool.count \in Int /\ lost \in Nat /\ Len(ipoqueue) \in Nat /\ Len(ipoqueue') \in Nat /\ Needs(at[x].pc) \in Nat
    BY <1>0 DEF NetTypes, SemaphoreOf, Needs
  <2>5. pool'.count + 1 + 0 + Needs(IDLE.pc) + Len(ipoqueue') + lost'
          = pool.count + Needs(at[x].pc) + Len(ipoqueue) + lost
    <3> DEFINE c == pool.count
               l == Len(ipoqueue)
               k == Len(ipoqueue')
               n == Needs(at[x].pc)
    <3>1. c \in Int /\ lost \in Nat /\ l \in Nat /\ k \in Nat /\ n \in Nat /\ k + 1 = l + n
      BY <2>4
    <3> HIDE DEF c, l, k, n
    <3>2. c + 1 + 0 + 0 + k + lost = c + n + l + lost
      BY ONLY <3>1
    <3> QED BY <1>0, <2>3, <3>2 DEF c, l, k, n
  <2>6. pool'.count \in Int /\ lost' \in Nat
    BY <1>0, <2>4
  <2>7. 1 \in Int /\ 0 \in Int
    OBVIOUS
  <2> HIDE DEF T
  <2> QED BY <2>1, <2>2, <2>3, <2>4, <2>5, <2>6, <2>7, BalanceStays
<1>7. Receivers'
  <2> SUFFICES ASSUME ~ shared PROVE (Alone /\ Known /\ UdpAwaits /\ IcmpAwaits /\ Told /\ InOrder)'
    BY <1>0 DEF Receivers
  <2>1. Alone /\ Known /\ UdpAwaits /\ IcmpAwaits /\ Told /\ InOrder
    BY <1>0 DEF Receivers
  <2>2. \A y \in Users, pc \in {"udp", "icmp"} : \A r : In(at, y, pc, r) <=> In(at', y, pc, r)
    BY <1>1, <1>3 DEF In
  <2>3. \A y \in Users : at'[y].pc \in {"udp", "icmp"} => at'[y] = at[y]
    BY <1>1, <1>3
  <2>4. Alone'
    BY <2>1, <2>3, <2>2 DEF Alone
  <2>5. Known'
    <3> SUFFICES ASSUME NEW u \in waiting \ T
                 PROVE  \/ at'[u].pc = "udp" /\ udptab'[at'[u].slot].udstate = "RECV" /\ udptab'[at'[u].slot].udpid = {u}
                        \/ at'[u].pc = "icmp" /\ icmptab'[at'[u].slot].icstate = "RECV" /\ icmptab'[at'[u].slot].icpid = {u}
      BY <1>3 DEF Known
    <3>1. u \in Users /\ u \in Procs /\ u # x
      BY <1>0, <1>3, <2>1 DEF NetTypes, Known
    <3>2. at'[u] = at[u]
      BY <1>1, <3>1
    <3>3. CASE at[u].pc = "udp"
      <4>1. at[u].slot \in UdpSlots /\ udptab[at[u].slot].udstate = "RECV" /\ udptab[at[u].slot].udpid = {u}
        BY <1>0, <2>1, <3>1, <3>3 DEF Known, Places
      <4>2. at[u].slot # s
        BY <4>1
      <4> QED BY <1>2, <3>2, <3>3, <4>1, <4>2
    <3>4. CASE at[u].pc # "udp"
      BY <1>0, <2>1, <3>2, <3>4 DEF Known
    <3> QED BY <3>3, <3>4
  <2>6. UdpAwaits'
    <3> SUFFICES ASSUME NEW r \in UdpSlots, udptab'[r].udstate = "RECV"
                 PROVE  udptab'[r].udqueue = <<>> /\ \A u \in udptab'[r].udpid : In(at', u, "udp", r)
      BY DEF UdpAwaits
    <3>1. r # s /\ udptab'[r] = udptab[r] /\ udptab[r] \in UdpEntries
      BY <1>0, <1>2
    <3>2. udptab[r].udpid \subseteq Users
      BY <3>1 DEF UdpEntries
    <3> QED BY <2>1, <2>2, <3>1, <3>2 DEF UdpAwaits
  <2>7. IcmpAwaits'
    <3>1. \A r \in IcmpSlots : icmptab[r].icpid \subseteq Users
      BY <1>0 DEF IcmpEntries
    <3> QED BY <1>0, <2>1, <2>2, <3>1 DEF IcmpAwaits
  <2>8. Told'
    <3> SUFFICES ASSUME NEW u \in prmsg \cup T
                 PROVE  /\ at'[u].pc = "udp" => udptab'[at'[u].slot].udqueue # <<>>
                        /\ at'[u].pc = "icmp" => icmptab'[at'[u].slot].iccount # 0
      BY <1>3 DEF Told
    <3>1. u \in Users /\ u \in Procs
      BY <1>0, <1>3 DEF NetTypes
    <3>2. \A q \in Seq(Packets) : Append(q, pkt) # <<>>
      OBVIOUS
    <3>3. udptab'[s].udqueue # <<>>
      BY <1>0, <1>2, <3>2 DEF UdpEntries
    <3>4. CASE u \in T
      <4>1. In(at, u, "udp", s)
        BY <2>1, <3>4 DEF UdpAwaits
      <4>2. In(at', u, "udp", s)
        BY <2>2, <3>1, <4>1
      <4> QED BY <3>3, <4>2 DEF In
    <3>5. CASE u \in prmsg
      <4>1. at'[u].pc = "udp" => udptab'[at'[u].slot].udqueue # <<>>
        <5> SUFFICES ASSUME at'[u].pc = "udp" PROVE udptab'[at'[u].slot].udqueue # <<>>
          OBVIOUS
        <5>1. at'[u] = at[u] /\ at[u].slot \in UdpSlots
          BY <1>0, <2>3, <3>1 DEF Places
        <5>2. udptab[at[u].slot].udqueue # <<>>
          BY <2>1, <3>5, <5>1 DEF Told
        <5> QED BY <1>2, <3>3, <5>1, <5>2
      <4>2. at'[u].pc = "icmp" => icmptab'[at'[u].slot].iccount # 0
        BY <1>0, <2>1, <2>3, <3>1, <3>5 DEF Told
      <4> QED BY <4>1, <4>2
    <3> QED BY <3>4, <3>5
  <2>9. InOrder'
    BY <1>0, <2>1, <2>3 DEF InOrder
  <2> QED BY <2>4, <2>5, <2>6, <2>7, <2>8, <2>9
<1> QED BY <1>1, <1>4, <1>5, <1>6, <1>7 DEF NetInv

\* IcmpReply with an endpoint that takes the packet, in process x.
LEMMA IcmpTaken ==
  ASSUME NetAssumption, NetInv, fault = "none", NEW x \in Procs, x \notin Waiting(pool),
         at[x].pc \notin {"udp", "icmp"}, NEW s \in IcmpSlots, icmptab[s].icstate # "FREE",
         icmptab' = [icmptab EXCEPT ![s].iccount = @ + 1, ![s].icqueue = @ \cup {icmptab[s].ictail},
                                    ![s].ictail = NextTail(@), ![s].icstate = "USED"],
         lost' = IF icmptab[s].ictail \in icmptab[s].icqueue THEN lost + 1 ELSE lost,
         Tell(IF icmptab[s].icstate = "RECV" THEN icmptab[s].icpid ELSE {}), Done(x),
         UNCHANGED <<pool, udptab, shared, fault>>,
         ipoqueue' \in Seq(Packets), Len(ipoqueue') + 1 = Len(ipoqueue) + Needs(at[x].pc)
  PROVE  NetInv'
<1> DEFINE T == IF icmptab[s].icstate = "RECV" THEN icmptab[s].icpid ELSE {}
           o == icmptab[s]
           e == [o EXCEPT !.iccount = o.iccount + 1, !.icqueue = o.icqueue \cup {o.ictail},
                          !.ictail = NextTail(o.ictail), !.icstate = "USED"]
<1>0. /\ NetTypes /\ Places /\ Freed /\ IcmpQueues /\ Balance /\ Receivers
      /\ udptab \in [UdpSlots -> UdpEntries] /\ icmptab \in [IcmpSlots -> IcmpEntries]
      /\ pool' = pool /\ udptab' = udptab /\ shared' = shared /\ fault' = fault
  BY DEF NetInv, NetTypes
<1>1. /\ at' \in [Procs -> Positions] /\ at'[x].pc = "idle"
      /\ \A y \in Procs : y # x => at'[y] = at[y]
      /\ Places'
  BY <1>0, Leaves DEF Done, NetTypes
<1>2. o \in IcmpEntries /\ icmptab' = [icmptab EXCEPT ![s] = e]
  <2>1. o \in IcmpEntries
    BY <1>0
  <2>2. icmptab' = [icmptab EXCEPT ![s] = e]
    OBVIOUS
  <2> QED BY <2>1, <2>2
<1>3. /\ e \in IcmpEntries
      /\ e.icstate = "USED" /\ e.iccount = o.iccount + 1 /\ e.icqueue = o.icqueue \cup {o.ictail}
      /\ e.ictail = NextTail(o.ictail) /\ e.ichead = o.ichead
  <2>1. \A n \in Nat : NextTail(n) \in Nat
    BY DEF NextTail
  <2>2. o.ictail \in Nat /\ o.iccount + 1 \in Nat /\ NextTail(o.ictail) \in Nat /\ o.icqueue \cup {o.ictail} \in SUBSET Nat
    BY <1>2, <2>1 DEF IcmpEntries
  <2> HIDE DEF o
  <2> QED BY ONLY <1>2, <2>2 DEF IcmpEntries, States
<1> HIDE DEF e
<1>4. /\ icmptab' \in [IcmpSlots -> IcmpEntries]
      /\ icmptab'[s] = e
      /\ \A r \in IcmpSlots : r # s => icmptab'[r] = icmptab[r]
  BY ONLY s \in IcmpSlots, <1>0, <1>2, <1>3
<1>5. /\ T \subseteq Users /\ prmsg' = prmsg \cup T /\ waiting' = waiting \ T
      /\ Users \subseteq Procs
  BY <1>0, <1>2 DEF Tell, IcmpEntries, Procs
<1>6. NetTypes'
  <2>1. lost' \in Nat
    BY <1>0 DEF NetTypes
  <2> QED BY <1>0, <1>1, <1>4, <1>5, <2>1 DEF NetTypes
<1>7. /\ IsFiniteSet(o.icqueue) /\ IsFiniteSet(e.icqueue)
      /\ Cardinality(o.icqueue) \in Nat /\ Cardinality(e.icqueue) \in Nat
      /\ Cardinality(o.icqueue) <= o.iccount
      /\ Cardinality(e.icqueue) = IF o.ictail \in o.icqueue THEN Cardinality(o.icqueue) ELSE Cardinality(o.icqueue) + 1
  <2>1. IsFiniteSet(o.icqueue) /\ Cardinality(o.icqueue) <= o.iccount
    BY <1>0 DEF Freed
  <2>2. /\ IsFiniteSet(o.icqueue \cup {o.ictail})
        /\ Cardinality(o.icqueue \cup {o.ictail}) = IF o.ictail \in o.icqueue THEN Cardinality(o.icqueue) ELSE Cardinality(o.icqueue) + 1
    BY <2>1, FS_AddElement
  <2>3. Cardinality(o.icqueue) \in Nat /\ Cardinality(e.icqueue) \in Nat
    BY <1>3, <2>1, <2>2, FS_CardinalityType
  <2> QED BY <1>3, <2>1, <2>2, <2>3
<1>8. Freed'
  <2>1. Cardinality(e.icqueue) <= e.iccount
    <3> DEFINE c == Cardinality(o.icqueue)
               d == Cardinality(e.icqueue)
               n == o.iccount
    <3>1. c \in Nat /\ d \in Nat /\ n \in Nat /\ c <= n /\ (d = c \/ d = c + 1)
      BY <1>2, <1>7 DEF IcmpEntries
    <3> HIDE DEF c, d, n
    <3>2. d <= n + 1
      BY ONLY <3>1
    <3> QED BY <1>3, <3>2 DEF d, n
  <2> QED BY <1>0, <1>3, <1>4, <1>7, <2>1 DEF Freed
<1>9. IcmpQueues'
  <2>1. \A n \in Nat : n < ICMP_QSIZ /\ ICMP_QSIZ > 0 => NextTail(n) < ICMP_QSIZ
    BY DEF NextTail, NetAssumption
  <2>2. o.ictail \in Nat
    BY <1>2 DEF IcmpEntries
  <2>3. ICMP_QSIZ > 0 => o.ictail < ICMP_QSIZ /\ \A i \in o.icqueue : i < ICMP_QSIZ
    BY <1>0 DEF IcmpQueues
  <2>4. ICMP_QSIZ > 0 => e.ictail < ICMP_QSIZ /\ \A i \in e.icqueue : i < ICMP_QSIZ
    BY <1>3, <2>1, <2>2, <2>3
  <2> QED BY <1>0, <1>4, <2>4 DEF IcmpQueues
<1>10. Balance'
  <2> DEFINE i == Cardinality(e.icqueue) - Cardinality(o.icqueue)
  <2>1. IcmpSum(icmptab') = IcmpSum(icmptab) + i
    <3>1. \A r \in IcmpSlots : IsFiniteSet(icmptab[r].icqueue) /\ IsFiniteSet(icmptab'[r].icqueue)
      BY <1>0, <1>8 DEF Freed
    <3>2. \A r \in IcmpSlots : r # s => icmptab'[r].icqueue = icmptab[r].icqueue
      BY <1>4
    <3> DEFINE a == IcmpSum(icmptab)
               b == IcmpSum(icmptab')
               c == Cardinality(icmptab[s].icqueue)
               d == Cardinality(icmptab'[s].icqueue)
    <3>3. a \in Nat /\ b \in Nat /\ c \in Nat /\ d \in Nat /\ b = a + d - c
      BY ONLY NetAssumption, s \in IcmpSlots, <3>1, <3>2, IcmpChange
    <3>4. i = d - c
      BY <1>4
    <3> HIDE DEF a, b, c, d, i
    <3>5. b = a + i
      BY ONLY <3>3, <3>4
    <3> QED BY <3>5 DEF a, b
  <2>2. UdpSum(udptab') = UdpSum(udptab) + 0
    BY <1>0, SumsAreNumbers
  <2>3. IDLE \in Positions /\ Needs(IDLE.pc) = 0 /\ at' = [at EXCEPT ![x] = IDLE]
    BY IdlePosition DEF Needs, Done
  <2>4. pool.count \in Int /\ lost \in Nat /\ Len(ipoqueue) \in Nat /\ Len(ipoqueue') \in Nat /\ Needs(at[x].pc) \in Nat
    BY <1>0 DEF NetTypes, SemaphoreOf, Needs
  <2>5. i \in Int /\ i + lost' = 1 + lost
    <3> DEFINE c == Cardinality(o.icqueue)
               d == Cardinality(e.icqueue)
               l == lost
               k == lost'
    <3>1. c \in Nat /\ d \in Nat /\ l \in Nat /\ ((d = c /\ k = l + 1) \/ (d = c + 1 /\ k = l))
      <4>1. CASE o.ictail \in o.icqueue
        BY <1>7, <2>4, <4>1
      <4>2. CASE o.ictail \notin o.icqueue
        BY <1>7, <2>4, <4>2
      <4> QED BY <4>1, <4>2
    <3> HIDE DEF c, d, l, k
    <3>2. d - c \in Int /\ (d - c) + k = 1 + l
      BY ONLY <3>1
    <3> QED BY <3>2 DEF c, d, l, k
  <2> HIDE DEF i
  <2>6. pool'.count + 0 + i + Needs(IDLE.pc) + Len(ipoqueue') + lost'
          = pool.count + Needs(at[x].pc) + Len(ipoqueue) + lost
    <3> DEFINE c == pool.count
               l == Len(ipoqueue)
               k == Len(ipoqueue')
               n == Needs(at[x].pc)
               t == lost
               w == lost'
    <3>1. /\ c \in Int /\ l \in Nat /\ k \in Nat /\ n \in Nat /\ k + 1 = l + n
          /\ i \in Int /\ t \in Nat /\ w \in Nat /\ i + w = 1 + t
      BY <1>6, <2>4, <2>5 DEF NetTypes
    <3> HIDE DEF c, l, k, n, t, w
    <3>2. c + 0 + i + 0 + k + w = c + n + l + t
      BY ONLY <3>1
    <3> QED BY <1>0, <2>3, <3>2 DEF c, l, k, n, t, w
  <2>7. pool'.count \in Int /\ lost' \in Nat
    BY <1>0, <1>6, <2>4 DEF NetTypes
  <2>8. 0 \in Int
    OBVIOUS
  <2> HIDE DEF T, o
  <2> QED BY <2>1, <2>2, <2>3, <2>4, <2>5, <2>6, <2>7, <2>8, BalanceStays
<1>11. Receivers'
  <2> SUFFICES ASSUME ~ shared PROVE (Alone /\ Known /\ UdpAwaits /\ IcmpAwaits /\ Told /\ InOrder)'
    BY <1>0 DEF Receivers
  <2>1. Alone /\ Known /\ UdpAwaits /\ IcmpAwaits /\ Told /\ InOrder
    BY <1>0 DEF Receivers
  <2>2. \A y \in Users, pc \in {"udp", "icmp"} : \A r : In(at, y, pc, r) <=> In(at', y, pc, r)
    BY <1>1, <1>5 DEF In
  <2>3. \A y \in Users : at'[y].pc \in {"udp", "icmp"} => at'[y] = at[y]
    BY <1>1, <1>5
  <2>4. Alone'
    BY <2>1, <2>3, <2>2 DEF Alone
  <2>5. Known'
    <3> SUFFICES ASSUME NEW u \in waiting \ T
                 PROVE  \/ at'[u].pc = "udp" /\ udptab'[at'[u].slot].udstate = "RECV" /\ udptab'[at'[u].slot].udpid = {u}
                        \/ at'[u].pc = "icmp" /\ icmptab'[at'[u].slot].icstate = "RECV" /\ icmptab'[at'[u].slot].icpid = {u}
      BY <1>5 DEF Known
    <3>1. u \in Users /\ u \in Procs /\ u # x
      BY <1>0, <1>5, <2>1 DEF NetTypes, Known
    <3>2. at'[u] = at[u]
      BY <1>1, <3>1
    <3>3. CASE at[u].pc = "icmp"
      <4>1. at[u].slot \in IcmpSlots /\ icmptab[at[u].slot].icstate = "RECV" /\ icmptab[at[u].slot].icpid = {u}
        BY <1>0, <2>1, <3>1, <3>3 DEF Known, Places
      <4>2. at[u].slot # s
        BY <4>1
      <4> QED BY <1>4, <3>2, <3>3, <4>1, <4>2
    <3>4. CASE at[u].pc # "icmp"
      BY <1>0, <2>1, <3>2, <3>4 DEF Known
    <3> QED BY <3>3, <3>4
  <2>6. IcmpAwaits'
    <3> SUFFICES ASSUME NEW r \in IcmpSlots, icmptab'[r].icstate = "RECV"
                 PROVE  icmptab'[r].iccount = 0 /\ \A u \in icmptab'[r].icpid : In(at', u, "icmp", r)
      BY DEF IcmpAwaits
    <3>1. r # s /\ icmptab'[r] = icmptab[r] /\ icmptab[r] \in IcmpEntries
      BY <1>0, <1>3, <1>4
    <3>2. icmptab[r].icpid \subseteq Users
      BY <3>1 DEF IcmpEntries
    <3> QED BY <2>1, <2>2, <3>1, <3>2 DEF IcmpAwaits
  <2>7. UdpAwaits'
    <3>1. \A r \in UdpSlots : udptab[r].udpid \subseteq Users
      BY <1>0 DEF UdpEntries
    <3> QED BY <1>0, <2>1, <2>2, <3>1 DEF UdpAwaits
  <2>8. Told'
    <3> SUFFICES ASSUME NEW u \in prmsg \cup T
                 PROVE  /\ at'[u].pc = "udp" => udptab'[at'[u].slot].udqueue # <<>>
                        /\ at'[u].pc = "icmp" => icmptab'[at'[u].slot].iccount # 0
      BY <1>5 DEF Told
    <3>1. u \in Users /\ u \in Procs
      BY <1>0, <1>5 DEF NetTypes
    <3>3. icmptab'[s].iccount # 0
      <4>1. \A n \in Nat : n + 1 # 0
        OBVIOUS
      <4>2. o.iccount \in Nat
        BY <1>2 DEF IcmpEntries
      <4> QED BY <1>3, <1>4, <4>1, <4>2
    <3>4. CASE u \in T
      <4>1. In(at, u, "icmp", s)
        BY <2>1, <3>4 DEF IcmpAwaits
      <4>2. In(at', u, "icmp", s)
        BY <2>2, <3>1, <4>1
      <4> QED BY <3>3, <4>2 DEF In
    <3>5. CASE u \in prmsg
      <4>1. at'[u].pc = "icmp" => icmptab'[at'[u].slot].iccount # 0
        <5> SUFFICES ASSUME at'[u].pc = "icmp" PROVE icmptab'[at'[u].slot].iccount # 0
          OBVIOUS
        <5>1. at'[u] = at[u] /\ at[u].slot \in IcmpSlots
          BY <1>0, <2>3, <3>1 DEF Places
        <5>2. icmptab[at[u].slot].iccount # 0
          BY <2>1, <3>5, <5>1 DEF Told
        <5> QED BY <1>4, <3>3, <5>1, <5>2
      <4>2. at'[u].pc = "udp" => udptab'[at'[u].slot].udqueue # <<>>
        BY <1>0, <2>1, <2>3, <3>1, <3>5 DEF Told
      <4> QED BY <4>1, <4>2
    <3> QED BY <3>4, <3>5
  <2>9. ASSUME Fits PROVE QueueOf(e)
    <3> SUFFICES ASSUME e.ichead + e.iccount <= ICMP_QSIZ
                 PROVE  /\ e.icqueue = e.ichead .. (e.ichead + e.iccount - 1)
                        /\ e.ictail = IF e.ichead + e.iccount = ICMP_QSIZ THEN 0 ELSE e.ichead + e.iccount
      BY DEF QueueOf
    <3>1. o.ichead \in Nat /\ o.iccount \in Nat /\ ICMP_QSIZ \in Nat
      BY <1>2 DEF IcmpEntries, NetAssumption
    <3>2. o.ichead + o.iccount + 1 <= ICMP_QSIZ
      BY <1>3, <3>1
    <3>3. o.icqueue = o.ichead .. (o.ichead + o.iccount - 1) /\ o.ictail = o.ichead + o.iccount
      BY <2>1, <2>9, <3>1, <3>2 DEF InOrder, QueueOf
    <3> DEFINE h == o.ichead
               c == o.iccount
    <3>4. \A m, n \in Nat : (m .. (m + n - 1)) \cup {m + n} = m .. (m + (n + 1) - 1)
      OBVIOUS
    <3>5. e.icqueue = h .. (h + (c + 1) - 1)
      BY <1>3, <3>1, <3>3, <3>4
    <3>6. \A n \in Nat : n + 1 <= ICMP_QSIZ => NextTail(n) = IF n + 1 = ICMP_QSIZ THEN 0 ELSE n + 1
      BY <3>1 DEF NextTail
    <3>7. h + c \in Nat /\ h + c + 1 = h + (c + 1)
      <4>1. h \in Nat /\ c \in Nat
        BY <3>1
      <4> HIDE DEF h, c
      <4> QED BY ONLY <4>1
    <3>8. e.ictail = IF h + (c + 1) = ICMP_QSIZ THEN 0 ELSE h + (c + 1)
      BY <1>3, <3>2, <3>3, <3>6, <3>7
    <3> HIDE DEF o
    <3> QED BY <1>3, <3>5, <3>8
  <2>10. InOrder'
    <3>1. \A u \in Users : at'[u].pc = "icmp" => icmptab'[at'[u].slot].icstate # "FREE"
      <4> SUFFICES ASSUME NEW u \in Users, at'[u].pc = "icmp" PROVE icmptab'[at'[u].slot].icstate # "FREE"
        OBVIOUS
      <4>1. at'[u] = at[u] /\ at[u].slot \in IcmpSlots /\ u \in Procs
        BY <1>0, <1>5, <2>3 DEF Places
      <4>2. icmptab[at[u].slot].icstate # "FREE"
        BY <2>1, <4>1 DEF InOrder
      <4> QED BY <1>3, <1>4, <4>1, <4>2
    <3>2. Fits => \A r \in IcmpSlots : icmptab'[r].icstate # "FREE" => QueueOf(icmptab'[r])
      BY <1>4, <2>1, <2>9 DEF InOrder
    <3> QED BY <3>1, <3>2 DEF InOrder
  <2> QED BY <2>4, <2>5, <2>6, <2>7, <2>8, <2>10
<1> QED BY <1>1, <1>6, <1>8, <1>9, <1>10, <1>11 DEF NetInv

-----------------------------------------------------------------------------
(***************************************************************************)
(* netin, ipout, and sending.                                              *)
(***************************************************************************)
\* Who waits after a wait did before, or is the one that called it.
LEMMA Asked ==
  ASSUME NEW S, NEW s \in SemaphoreOf(S), NEW p \in S, p \notin Waiting(s)
  PROVE  /\ wait(s, p) \in SemaphoreOf(S) /\ wait(s, p).count = s.count - 1
         /\ \A y \in Waiting(wait(s, p)) : y \in Waiting(s) \/ y = p
<1>1. wait(s, p) \in SemaphoreOf(S) /\ wait(s, p).count = s.count - 1
  BY Waited
<1>2. CASE Blocks(s)
  <2>1. Waiting(wait(s, p)) = Waiting(s) \cup {p}
    BY <1>2, Waited
  <2> QED BY <1>1, <2>1
<1>3. CASE ~ Blocks(s)
  <2>1. wait(s, p).queue = s.queue
    BY <1>3, Waited
  <2> QED BY <1>1, <2>1 DEF Waiting
<1> QED BY <1>2, <1>3

\* A process asks for a buffer.
LEMMA Getting ==
  ASSUME NetAssumption, NetInv, NEW x \in Procs, NEW p \in Positions, p.pc \in {"read", "send"},
         at[x] = IDLE, GetsBuffer(x, p),
         UNCHANGED <<udptab, icmptab, ipoqueue, prmsg, waiting, lost, shared, fault>>
  PROVE  NetInv'
<1>0. /\ at[x].pc = "idle" /\ x \notin Waiting(pool) /\ pool \in SemaphoreOf(Procs)
      /\ at' = [at EXCEPT ![x] = p] /\ pool' = wait(pool, x) /\ ipoqueue \in Seq(Packets)
  BY IdlePosition, NotWaiting DEF NetInv, NetTypes, GetsBuffer
<1>1. /\ pool' \in SemaphoreOf(Procs) /\ pool'.count = pool.count - 1
      /\ \A y \in Waiting(pool') : y \in Waiting(pool) \/ y = x
  BY <1>0, Asked
<1>2. Needs(p.pc) = 1 /\ Needs(at[x].pc) = 0
  BY <1>0 DEF Needs
<1>3. pool'.count + Len(ipoqueue') + Needs(p.pc) = pool.count + Len(ipoqueue) + Needs(at[x].pc)
  <2> DEFINE c == pool.count
             l == Len(ipoqueue)
  <2>1. c \in Int /\ l \in Nat
    BY <1>0 DEF SemaphoreOf
  <2> HIDE DEF c, l
  <2>2. (c - 1) + l + 1 = c + l + 0
    BY ONLY <2>1
  <2> QED BY <1>1, <1>2, <2>2 DEF c, l
<1>4. p.pc \notin {"udp", "icmp"} /\ at[x].pc \notin {"udp", "icmp"}
  BY <1>0
<1>5. \A y \in Waiting(pool') : y \in Waiting(pool) \ {x} \/ (y = x /\ p.pc \in {"read", "send", "mkpkt"})
  BY <1>0, <1>1
<1> QED BY <1>0, <1>1, <1>3, <1>4, <1>5, Moves

\* A process gives n buffers, which it had or which it took from the output
\* queue, back to the pool, and has nothing any more.
LEMMA Giving ==
  ASSUME NetAssumption, NetInv, NEW x \in Procs, x \notin Waiting(pool), at[x].pc \notin {"udp", "icmp"},
         NEW n \in Nat, pool' = signaln(pool, n), Done(x), ipoqueue' \in Seq(Packets),
         Len(ipoqueue') + n = Len(ipoqueue) + Needs(at[x].pc),
         UNCHANGED <<udptab, icmptab, prmsg, waiting, lost, shared, fault>>
  PROVE  NetInv'
<1>0. /\ pool \in SemaphoreOf(Procs) /\ ipoqueue \in Seq(Packets) /\ at' = [at EXCEPT ![x] = IDLE]
      /\ IDLE \in Positions /\ IDLE.pc = "idle"
  BY IdlePosition DEF NetInv, NetTypes, Done
<1>1. /\ pool' \in SemaphoreOf(Procs) /\ pool'.count = pool.count + n
      /\ Waiting(pool') \subseteq Waiting(pool)
  BY <1>0, SignalledN
<1>2. Needs(IDLE.pc) = 0 /\ Needs(at[x].pc) \in Nat
  BY <1>0 DEF Needs
<1>3. pool'.count + Len(ipoqueue') + Needs(IDLE.pc) = pool.count + Len(ipoqueue) + Needs(at[x].pc)
  <2> DEFINE c == pool.count
             l == Len(ipoqueue)
             k == Len(ipoqueue')
             m == Needs(at[x].pc)
  <2>1. c \in Int /\ l \in Nat /\ k \in Nat /\ m \in Nat /\ n \in Nat /\ k + n = l + m
    BY <1>0, <1>2 DEF SemaphoreOf
  <2> HIDE DEF c, l, k, m
  <2>2. (c + n) + k + 0 = c + l + m
    BY ONLY <2>1
  <2> QED BY <1>1, <1>2, <2>2 DEF c, l, k, m
<1>4. IDLE.pc \notin {"udp", "icmp"}
  BY <1>0
<1>5. \A y \in Waiting(pool') : y \in Waiting(pool) \ {x} \/ (y = x /\ IDLE.pc \in {"read", "send", "mkpkt"})
  BY <1>1
<1> QED BY <1>0, <1>1, <1>3, <1>4, <1>5, Moves

\* freebuf of the only buffer.
LEMMA Freeing ==
  ASSUME NetAssumption, NetInv, NEW x \in Procs, x \notin Waiting(pool), at[x].pc \notin {"udp", "icmp"},
         freebuf, Done(x), ipoqueue' \in Seq(Packets),
         Len(ipoqueue') + 1 = Len(ipoqueue) + Needs(at[x].pc),
         UNCHANGED <<udptab, icmptab, prmsg, waiting, lost, shared, fault>>
  PROVE  NetInv'
<1>1. pool' = signaln(pool, 1)
  BY SignalIsOne DEF freebuf, NetInv, NetTypes
<1>2. 1 \in Nat
  OBVIOUS
<1> QED BY <1>1, <1>2, Giving

\* ip_local in process x, with a packet that it holds or took from the output queue.
LEMMA Local ==
  ASSUME NetAssumption, NetInv, fault = "none", NEW x \in Procs, x \notin Waiting(pool),
         at[x].pc \notin {"udp", "icmp"}, NEW pkt \in Packets, ip_local(x, pkt),
         ipoqueue' \in Seq(Packets), Len(ipoqueue') + 1 = Len(ipoqueue) + Needs(at[x].pc),
         UNCHANGED <<shared, fault>>
  PROVE  NetInv'
<1>1. CASE udp_in(pkt) /\ Done(x)
  <2>1. CASE Takers(pkt) = {}
    <3>1. freebuf /\ UNCHANGED <<udptab, prmsg, waiting>> /\ UNCHANGED <<icmptab, lost>>
      BY <1>1, <2>1 DEF udp_in
    <3> QED BY <1>1, <3>1, Freeing
  <2>2. CASE Takers(pkt) # {}
    <3> DEFINE s == Min(Takers(pkt))
    <3>1. Takers(pkt) \subseteq Nat
      BY DEF Takers, UdpSlots
    <3>2. s \in Takers(pkt)
      BY <2>2, <3>1, LeastIsMember
    <3>3. s \in UdpSlots /\ udptab[s].udstate # "FREE"
      BY <3>2 DEF Takers
    <3>4. /\ udptab' = [udptab EXCEPT ![s].udqueue = Append(@, pkt), ![s].udstate = WokenState(s)]
          /\ Tell(IF udptab[s].udstate = "RECV" THEN udptab[s].udpid ELSE {})
          /\ UNCHANGED pool /\ UNCHANGED <<icmptab, lost>>
      BY <1>1, <2>2 DEF udp_in
    <3> HIDE DEF s
    <3>5. udptab' = [udptab EXCEPT ![s].udqueue = Append(@, pkt), ![s].udstate = "USED"]
      BY <3>4 DEF WokenState
    <3>6. UNCHANGED <<pool, icmptab, lost, shared, fault>>
      BY <3>4
    <3> QED BY <1>1, <3>3, <3>4, <3>5, <3>6, UdpTaken
  <2> QED BY <2>1, <2>2
<1>2. CASE IcmpReply(pkt) /\ Done(x)
  <2>1. CASE ~ IcmpRegistered(pkt)
    <3>1. freebuf /\ UNCHANGED <<icmptab, prmsg, waiting, lost>> /\ UNCHANGED udptab
      BY <1>2, <2>1 DEF IcmpReply
    <3> QED BY <1>2, <3>1, Freeing
  <2>2. CASE IcmpRegistered(pkt)
    <3> DEFINE s == pkt.dport
    <3>3. s \in IcmpSlots /\ icmptab[s].icstate # "FREE"
      BY <2>2 DEF IcmpRegistered
    <3>4. /\ icmptab' = [icmptab EXCEPT ![s].iccount = @ + 1, ![s].icqueue = @ \cup {icmptab[s].ictail},
                                        ![s].ictail = NextTail(@), ![s].icstate = "USED"]
          /\ lost' = IF icmptab[s].ictail \in icmptab[s].icqueue THEN lost + 1 ELSE lost
          /\ Tell(IF icmptab[s].icstate = "RECV" THEN icmptab[s].icpid ELSE {})
          /\ UNCHANGED pool /\ UNCHANGED udptab
      BY <1>2, <2>2 DEF IcmpReply
    <3> HIDE DEF s
    <3>5. UNCHANGED <<pool, udptab, shared, fault>>
      BY <3>4
    <3> QED BY <1>2, <3>3, <3>4, <3>5, IcmpTaken
  <2> QED BY <2>1, <2>2
<1>3. CASE /\ GetsBuffer(x, [pc |-> "mkpkt", slot |-> 0, pkt |-> pkt])
           /\ UNCHANGED <<udptab, icmptab, prmsg, waiting, lost>>
  <2> DEFINE p == [pc |-> "mkpkt", slot |-> 0, pkt |-> pkt]
  <2>0. p \in Positions /\ p.pc = "mkpkt"
    BY DEF Positions
  <2>1. at' = [at EXCEPT ![x] = p] /\ pool' = wait(pool, x)
    BY <1>3 DEF GetsBuffer
  <2> HIDE DEF p
  <2>2. pool \in SemaphoreOf(Procs) /\ ipoqueue \in Seq(Packets)
    BY DEF NetInv, NetTypes
  <2>3. /\ pool' \in SemaphoreOf(Procs) /\ pool'.count = pool.count - 1
        /\ \A y \in Waiting(pool') : y \in Waiting(pool) \/ y = x
    BY <2>1, <2>2, Asked
  <2>4. Needs(p.pc) = 2 /\ Needs(at[x].pc) \in Nat
    BY <2>0 DEF Needs
  <2>5. pool'.count + Len(ipoqueue') + Needs(p.pc) = pool.count + Len(ipoqueue) + Needs(at[x].pc)
    <3> DEFINE c == pool.count
               l == Len(ipoqueue)
               k == Len(ipoqueue')
               m == Needs(at[x].pc)
    <3>1. c \in Int /\ l \in Nat /\ k \in Nat /\ m \in Nat /\ k + 1 = l + m
      BY <2>2, <2>4 DEF SemaphoreOf
    <3> HIDE DEF c, l, k, m
    <3>2. (c - 1) + k + 2 = c + l + m
      BY ONLY <3>1
    <3> QED BY <2>3, <2>4, <3>2 DEF c, l, k, m
  <2>6. p.pc \notin {"udp", "icmp"}
    BY <2>0
  <2>7. \A y \in Waiting(pool') : y \in Waiting(pool) \ {x} \/ (y = x /\ p.pc \in {"read", "send", "mkpkt"})
    BY <2>0, <2>3
  <2>8. UNCHANGED <<udptab, icmptab, prmsg, waiting, lost, shared, fault>>
    BY <1>3
  <2> QED BY <2>0, <2>1, <2>3, <2>5, <2>6, <2>7, <2>8, Moves
<1>4. CASE freebuf /\ Done(x) /\ UNCHANGED <<udptab, icmptab, prmsg, waiting, lost>>
  BY <1>4, Freeing
<1> QED BY <1>1, <1>2, <1>3, <1>4 DEF ip_local

LEMMA NetinStartsKeeps == ASSUME NetAssumption, NetInv, NetinStarts PROVE NetInv'
<1> DEFINE p == [IDLE EXCEPT !.pc = "read"]
<1>1. "netin" \in Procs
  BY DEF Procs, NetProcs
<1>2. p \in Positions /\ p.pc \in {"read", "send"}
  BY IdlePosition DEF Positions
<1>3. at["netin"] = IDLE /\ GetsBuffer("netin", p)
      /\ UNCHANGED <<udptab, icmptab, ipoqueue, prmsg, waiting, lost, shared, fault>>
  BY DEF NetinStarts
<1> HIDE DEF p
<1> QED BY <1>1, <1>2, <1>3, Getting

LEMMA NetinKeeps ==
  ASSUME NetAssumption, NetInv, fault = "none", NEW pkt \in Packets, netin(pkt)
  PROVE  NetInv'
<1>1. "netin" \in Procs
  BY DEF Procs, NetProcs
<1>2. /\ at["netin"].pc = "read" /\ "netin" \notin Waiting(pool) /\ ip_local("netin", pkt)
      /\ UNCHANGED <<ipoqueue, shared, fault>>
  BY WaitsIff DEF netin, HasBuffer
<1>3. ipoqueue' \in Seq(Packets) /\ Len(ipoqueue') + 1 = Len(ipoqueue) + Needs(at["netin"].pc)
  BY <1>2 DEF NetInv, NetTypes, Needs
<1>4. at["netin"].pc \notin {"udp", "icmp"} /\ UNCHANGED <<shared, fault>>
  BY <1>2
<1> QED BY <1>1, <1>2, <1>3, <1>4, Local

\* A process keeps its buffer while it resolves an address.
LEMMA Resolves ==
  ASSUME NetAssumption, NetInv, NEW x \in Procs, x \notin Waiting(pool), at[x].pc \notin {"udp", "icmp"},
         NEW p \in Positions, p.pc = "arp", at' = [at EXCEPT ![x] = p], ipoqueue' \in Seq(Packets),
         Len(ipoqueue') + 1 = Len(ipoqueue) + Needs(at[x].pc),
         UNCHANGED <<udptab, icmptab, pool, prmsg, waiting, lost, shared, fault>>
  PROVE  NetInv'
<1>0. pool \in SemaphoreOf(Procs) /\ pool' = pool /\ ipoqueue \in Seq(Packets)
  BY DEF NetInv, NetTypes
<1>1. Needs(p.pc) = 1 /\ Needs(at[x].pc) \in Nat
  BY DEF Needs
<1>2. pool'.count + Len(ipoqueue') + Needs(p.pc) = pool.count + Len(ipoqueue) + Needs(at[x].pc)
  <2> DEFINE c == pool.count
             l == Len(ipoqueue)
             k == Len(ipoqueue')
             m == Needs(at[x].pc)
  <2>1. c \in Int /\ l \in Nat /\ k \in Nat /\ m \in Nat /\ k + 1 = l + m
    BY <1>0, <1>1 DEF SemaphoreOf
  <2> HIDE DEF c, l, k, m
  <2>2. c + k + 1 = c + l + m
    BY ONLY <2>1
  <2> QED BY <1>0, <1>1, <2>2 DEF c, l, k, m
<1>3. p.pc \notin {"udp", "icmp"}
  OBVIOUS
<1>4. \A y \in Waiting(pool') : y \in Waiting(pool) \ {x} \/ (y = x /\ p.pc \in {"read", "send", "mkpkt"})
  BY <1>0
<1>5. UNCHANGED <<udptab, icmptab, prmsg, waiting, lost, shared, fault>>
  OBVIOUS
<1> QED BY <1>0, <1>2, <1>3, <1>4, <1>5, Moves

\* What is left of the output queue without its first packet.
LEMMA Shorter ==
  ASSUME NEW q \in Seq(Packets), q # <<>>
  PROVE  Head(q) \in Packets /\ Tail(q) \in Seq(Packets) /\ Len(Tail(q)) + 1 = Len(q)
<1>1. Len(q) \in Nat /\ Len(q) # 0
  OBVIOUS
<1>2. Head(q) \in Packets /\ Tail(q) \in Seq(Packets) /\ Len(Tail(q)) = Len(q) - 1
  OBVIOUS
<1> DEFINE n == Len(q)
<1>3. n - 1 + 1 = n
  <2>1. n \in Nat
    BY <1>1
  <2> HIDE DEF n
  <2> QED BY ONLY <2>1
<1> QED BY <1>2, <1>3

LEMMA IpoutKeeps == ASSUME NetAssumption, NetInv, fault = "none", ipout PROVE NetInv'
<1> DEFINE pkt == Head(ipoqueue)
           p == [pc |-> "arp", slot |-> 0, pkt |-> pkt]
<1>0. "ipout" \in Procs /\ at["ipout"].pc = "idle" /\ ipoqueue \in Seq(Packets) /\ ipoqueue # <<>>
      /\ ipoqueue' = Tail(ipoqueue) /\ UNCHANGED <<shared, fault>>
  BY IdlePosition DEF NetInv, NetTypes, Procs, NetProcs, ipout, IpoutRuns
<1>1. pkt \in Packets /\ ipoqueue' \in Seq(Packets) /\ Len(ipoqueue') + 1 = Len(ipoqueue)
  BY <1>0, Shorter
<1>2. Len(ipoqueue') + 1 = Len(ipoqueue) + Needs(at["ipout"].pc)
  <2> DEFINE n == Len(ipoqueue)
  <2>1. Needs(at["ipout"].pc) = 0
    BY <1>0 DEF Needs
  <2>2. n \in Nat
    BY <1>0
  <2> HIDE DEF n
  <2>3. n + 0 = n
    BY ONLY <2>2
  <2> QED BY <1>1, <2>1, <2>3 DEF n
<1>3. at["ipout"].pc \notin {"udp", "icmp"} /\ "ipout" \notin Waiting(pool)
  BY <1>0, NotWaiting
<1>4. p \in Positions /\ p.pc = "arp"
  BY <1>1 DEF Positions
<1>5. \/ ip_local("ipout", pkt)
      \/ at' = [at EXCEPT !["ipout"] = p] /\ UNCHANGED <<udptab, icmptab, pool, prmsg, waiting, lost>>
  BY DEF ipout
<1> HIDE DEF pkt, p
<1>6. CASE ip_local("ipout", pkt)
  BY <1>0, <1>1, <1>2, <1>3, <1>6, Local
<1>7. CASE at' = [at EXCEPT !["ipout"] = p] /\ UNCHANGED <<udptab, icmptab, pool, prmsg, waiting, lost>>
  <2>1. UNCHANGED <<udptab, icmptab, pool, prmsg, waiting, lost, shared, fault>>
    BY <1>0, <1>7
  <2> QED BY <1>0, <1>1, <1>2, <1>3, <1>4, <1>7, <2>1, Resolves
<1> QED BY <1>5, <1>6, <1>7

LEMMA AnswersPingKeeps == ASSUME NetAssumption, NetInv, NEW x \in Procs, AnswersPing(x) PROVE NetInv'
<1>0. /\ at[x].pc = "mkpkt" /\ x \notin Waiting(pool) /\ at[x] \in Positions /\ ipoqueue \in Seq(Packets)
      /\ pool \in SemaphoreOf(Procs)
      /\ Done(x) /\ UNCHANGED <<udptab, icmptab, prmsg, waiting, lost, shared, fault>>
  BY WaitsIff DEF AnswersPing, HasBuffer, NetInv, NetTypes
<1> DEFINE pkt == icmp_mkpkt(at[x].pkt)
<1>1. pkt \in Packets
  BY <1>0 DEF icmp_mkpkt, Positions, Packets, Packet, ME
<1>2. Needs(at[x].pc) = 2 /\ at[x].pc \notin {"udp", "icmp"}
  BY <1>0 DEF Needs
<1>3. \/ ipoqueue' = Append(ipoqueue, pkt) /\ pool' = signal(pool)
      \/ ipoqueue' = ipoqueue /\ pool' = signaln(pool, 2)
  BY DEF AnswersPing, ip_enqueue, FreedWhenFull
<1> HIDE DEF pkt
<1> DEFINE l == Len(ipoqueue)
           k == Len(ipoqueue')
<1>4. CASE ipoqueue' = Append(ipoqueue, pkt) /\ pool' = signal(pool)
  <2>1. ipoqueue' \in Seq(Packets) /\ k = l + 1 /\ l \in Nat
    BY <1>0, <1>1, <1>4
  <2>2. k + 1 = l + 2
    <3> HIDE DEF k, l
    <3> QED BY ONLY <2>1
  <2>3. pool' = signaln(pool, 1) /\ 1 \in Nat
    BY <1>0, <1>4, SignalIsOne
  <2> QED BY <1>0, <1>2, <2>1, <2>2, <2>3, Giving
<1>5. CASE ipoqueue' = ipoqueue /\ pool' = signaln(pool, 2)
  <2>1. ipoqueue' \in Seq(Packets) /\ k = l /\ 2 \in Nat
    BY <1>0, <1>5
  <2>2. k + 2 = l + 2
    BY <2>1
  <2> QED BY <1>0, <1>2, <1>5, <2>1, <2>2, Giving
<1> QED BY <1>3, <1>4, <1>5

LEMMA IpOutKeeps == ASSUME NetAssumption, NetInv, NEW x \in Procs, ip_out(x) PROVE NetInv'
<1>0. /\ at[x].pc = "arp" /\ freebuf /\ Done(x)
      /\ UNCHANGED <<udptab, icmptab, ipoqueue, prmsg, waiting, lost, shared, fault>>
  BY DEF ip_out, SentOrNot
<1>1. x \notin Waiting(pool) /\ at[x].pc \notin {"udp", "icmp"}
  BY <1>0, NotWaiting
<1>2. ipoqueue' \in Seq(Packets) /\ Len(ipoqueue') + 1 = Len(ipoqueue) + Needs(at[x].pc)
  BY <1>0 DEF NetInv, NetTypes, Needs
<1>3. UNCHANGED <<udptab, icmptab, prmsg, waiting, lost, shared, fault>>
  BY <1>0
<1> QED BY <1>0, <1>1, <1>2, <1>3, Freeing

LEMMA MakesKeeps ==
  ASSUME NetAssumption, NetInv, NEW u \in Users, NEW pkt \in Packets, Makes(u, pkt)
  PROVE  NetInv'
<1> DEFINE p == [pc |-> "send", slot |-> 0, pkt |-> pkt]
<1>1. p \in Positions /\ p.pc \in {"read", "send"} /\ u \in Procs
  BY DEF Positions, Procs
<1>2. at[u] = IDLE /\ GetsBuffer(u, p)
      /\ UNCHANGED <<udptab, icmptab, ipoqueue, prmsg, waiting, lost, shared, fault>>
  BY DEF Makes
<1> HIDE DEF p
<1> QED BY <1>1, <1>2, Getting

LEMMA SendsKeep ==
  ASSUME NetAssumption, NetInv, NEW u \in Users,
         \/ \E s \in UdpSlots : udp_send(u, s)
         \/ \E pkt \in Outputs : icmp_send(u, pkt) \/ \E s \in UdpSlots : udp_sendto(u, s, pkt)
  PROVE  NetInv'
<1>0. /\ udptab \in [UdpSlots -> UdpEntries]
      /\ \A pkt \in Outputs : pkt \in Packets
  BY DEF NetInv, NetTypes, NetAssumption
<1>1. CASE \E s \in UdpSlots : udp_send(u, s)
  <2>1. PICK s \in UdpSlots : udp_send(u, s)
    BY <1>1
  <2> DEFINE end == udptab[s].udend
             pkt == Packet("udp", ME, end[1], end[3], end[2])
  <2>2. end \in Nat \X Nat \X Nat
    BY <1>0 DEF UdpEntries
  <2>3. pkt \in Packets
    BY <2>2 DEF Packet, Packets, ME
  <2>4. Makes(u, pkt)
    BY <2>1 DEF udp_send
  <2> HIDE DEF pkt
  <2> QED BY <2>3, <2>4, MakesKeeps
<1>2. CASE \E pkt \in Outputs : icmp_send(u, pkt)
  BY <1>0, <1>2, MakesKeeps DEF icmp_send
<1>3. CASE \E pkt \in Outputs : \E s \in UdpSlots : udp_sendto(u, s, pkt)
  <2>1. PICK pkt \in Outputs, s \in UdpSlots : udp_sendto(u, s, pkt)
    BY <1>3
  <2> DEFINE q == [pkt EXCEPT !.sport = udptab[s].udend[3]]
  <2>2. udptab[s].udend \in Nat \X Nat \X Nat
    BY <1>0 DEF UdpEntries
  <2>3. udptab[s].udend[3] \in Nat /\ pkt \in Packets
    BY <1>0, <2>2
  <2>4. q \in Packets
    BY ONLY <2>3 DEF Packets
  <2>5. Makes(u, q)
    BY <2>1 DEF udp_sendto
  <2> HIDE DEF q
  <2> QED BY <2>4, <2>5, MakesKeeps
<1> QED BY <1>1, <1>2, <1>3

LEMMA IpSendKeeps ==
  ASSUME NetAssumption, NetInv, fault = "none", NEW u \in Users, ip_send(u)
  PROVE  NetInv'
<1>0. /\ u \in Procs /\ at[u].pc = "send" /\ u \notin Waiting(pool) /\ UNCHANGED <<ipoqueue, shared, fault>>
      /\ at \in [Procs -> Positions] /\ at[u] \in Positions
  BY WaitsIff DEF ip_send, HasBuffer, NetInv, NetTypes, Procs
<1>1. at[u].pkt \in Packets /\ at[u].pc \notin {"udp", "icmp"}
  BY <1>0 DEF Positions
<1>2. ipoqueue' \in Seq(Packets) /\ Len(ipoqueue') + 1 = Len(ipoqueue) + Needs(at[u].pc)
  BY <1>0 DEF NetInv, NetTypes, Needs
<1>3. CASE ip_local(u, at[u].pkt)
  BY <1>0, <1>1, <1>2, <1>3, Local
<1>4. CASE at' = [at EXCEPT ![u].pc = "arp"] /\ UNCHANGED <<udptab, icmptab, pool, prmsg, waiting, lost>>
  <2> DEFINE p == [at[u] EXCEPT !.pc = "arp"]
  <2>1. p \in Positions /\ p.pc = "arp"
    BY ONLY <1>0 DEF Positions
  <2>2. at' = [at EXCEPT ![u] = p]
    BY <1>0, <1>4
  <2> HIDE DEF p
  <2>3. UNCHANGED <<udptab, icmptab, pool, prmsg, waiting, lost, shared, fault>>
    BY <1>0, <1>4
  <2> QED BY <1>0, <1>1, <1>2, <2>1, <2>2, <2>3, Resolves
<1>5. CASE freebuf /\ Done(u) /\ UNCHANGED <<udptab, icmptab, prmsg, waiting, lost>>
  BY <1>0, <1>1, <1>2, <1>5, Freeing
<1> QED BY <1>3, <1>4, <1>5 DEF ip_send

-----------------------------------------------------------------------------
(***************************************************************************)
(* Calls of programs on their endpoints.                                   *)
(***************************************************************************)
\* A step after which a process has taken a packet from nowhere.
LEMMA Faulty ==
  ASSUME NetInv, NEW u \in Users, at[u].pc \in {"idle", "udp", "icmp"}, at' = [at EXCEPT ![u] = IDLE],
         UNCHANGED <<udptab, icmptab, ipoqueue, pool, lost>>, fault' \in {"udp", "icmp"},
         prmsg' \subseteq Users, waiting' \subseteq Users, shared' \in BOOLEAN
  PROVE  NetInv'
<1>0. /\ NetTypes /\ Places /\ Freed /\ IcmpQueues /\ u \in Procs /\ pool' = pool /\ udptab' = udptab /\ icmptab' = icmptab
      /\ fault' # "none" /\ u \notin Waiting(pool) /\ pool \in SemaphoreOf(Procs)
  BY NotWaiting DEF NetInv, NetTypes, Procs
<1>1. at' \in [Procs -> Positions] /\ Places'
  BY <1>0, Leaves
<1>2. NetTypes'
  BY <1>0, <1>1 DEF NetTypes
<1>3. Freed' /\ IcmpQueues'
  BY <1>0 DEF Freed, IcmpQueues
<1>4. Balance' /\ Receivers'
  BY <1>0 DEF Balance, Receivers
<1> QED BY <1>1, <1>2, <1>3, <1>4 DEF NetInv

\* A call of u on UDP endpoint s: the entry becomes e, the packets that leave its
\* queue go to the pool, and u leaves the call, or waits in it.
LEMMA UdpCalls ==
  ASSUME NetAssumption, NetInv, fault = "none", NEW u \in Users, NEW s \in UdpSlots, NEW e \in UdpEntries,
         NEW p \in {IDLE, [pc |-> "udp", slot |-> s, pkt |-> NOPKT]},
         at[u].pc = "idle" \/ In(at, u, "udp", s),
         udptab' = [udptab EXCEPT ![s] = e], at' = [at EXCEPT ![u] = p],
         e.udstate = "FREE" => e.udqueue = <<>>,
         pool' \in SemaphoreOf(Procs), Waiting(pool') \subseteq Waiting(pool),
         pool'.count + Len(e.udqueue) = pool.count + Len(udptab[s].udqueue),
         UNCHANGED <<icmptab, ipoqueue, lost, fault>>,
         prmsg' \subseteq prmsg, waiting' \subseteq waiting \cup {u}, shared' \in BOOLEAN,
         ~ shared' => ~ shared /\ \A v \in Users : In(at, v, "udp", s) => v = u,
         e.udstate = "RECV" => p.pc = "udp" /\ e.udqueue = <<>>,
         p.pc = "udp" => e.udstate = "RECV" /\ e.udpid = {u} /\ u \notin prmsg',
         ~ shared' /\ u \in waiting' => p.pc = "udp"
  PROVE  NetInv'
<1>0. /\ NetTypes /\ Places /\ Freed /\ IcmpQueues /\ Balance /\ Receivers /\ u \in Procs /\ Users \subseteq Procs
      /\ udptab \in [UdpSlots -> UdpEntries] /\ icmptab \in [IcmpSlots -> IcmpEntries]
      /\ icmptab' = icmptab /\ fault' = fault /\ lost' = lost /\ ipoqueue' = ipoqueue
      /\ at \in [Procs -> Positions] /\ u \notin Waiting(pool) /\ pool \in SemaphoreOf(Procs)
  BY NotWaiting DEF NetInv, NetTypes, Procs, In
<1>1. p \in Positions /\ (p.pc = "idle" \/ (p.pc = "udp" /\ p.slot = s))
  <2>1. s \in Nat
    BY DEF UdpSlots
  <2>2. [pc |-> "udp", slot |-> s, pkt |-> NOPKT] \in Positions
    BY <2>1, IdlePosition DEF Positions
  <2> QED BY <2>2, IdlePosition
<1>2. /\ at' \in [Procs -> Positions] /\ at'[u] = p
      /\ \A y \in Procs : y # u => at'[y] = at[y]
  BY <1>0, <1>1
<1>3. /\ udptab' \in [UdpSlots -> UdpEntries] /\ udptab'[s] = e
      /\ \A r \in UdpSlots : r # s => udptab'[r] = udptab[r]
  BY <1>0
<1>4. NetTypes'
  <2>1. prmsg' \subseteq Users /\ waiting' \subseteq Users
    BY <1>0 DEF NetTypes
  <2> QED BY <1>0, <1>2, <1>3, <2>1 DEF NetTypes
<1>5. Places'
  <2>1. \A y \in Waiting(pool') : y \in Procs /\ y # u /\ y \in Waiting(pool)
    BY <1>0, WaitingCounted
  <2> QED BY <1>0, <1>1, <1>2, <2>1 DEF Places
<1>6. Freed' /\ IcmpQueues'
  BY <1>0, <1>3 DEF Freed, IcmpQueues
<1>7. Balance'
  <2> DEFINE a == UdpSum(udptab)
             b == UdpSum(udptab')
             c == Len(udptab[s].udqueue)
             d == Len(e.udqueue)
             m == pool.count
             n == pool'.count
             l == Len(ipoqueue)
             k == lost
  <2>1. a \in Nat /\ b \in Nat /\ c \in Nat /\ d \in Nat /\ b = a + d - c
    <3>1. \A r \in UdpSlots : r # s => udptab'[r].udqueue = udptab[r].udqueue
      BY <1>3
    <3>2. d = Len(udptab'[s].udqueue)
      BY <1>3
    <3> HIDE DEF d
    <3> QED BY ONLY NetAssumption, <1>0, <1>3, <3>1, <3>2, s \in UdpSlots, UdpChange
  <2>2. m \in Int /\ n \in Int /\ l \in Nat /\ k \in Nat /\ n + d = m + c
    BY <1>0 DEF NetTypes, SemaphoreOf
  <2>3. IcmpSum(icmptab') = IcmpSum(icmptab) + 0
    BY <1>0, SumsAreNumbers
  <2>4. Needs(p.pc) = 0 /\ Needs(at[u].pc) = 0
    BY <1>1 DEF Needs, In
  <2>5. Len(ipoqueue') = l /\ lost' = k
    BY <1>0
  <2> HIDE DEF a, b, c, d, m, n, l, k
  <2>6. d - c \in Int /\ 0 \in Int /\ b = a + (d - c) /\ n + (d - c) + 0 + 0 + l + k = m + 0 + l + k
    BY ONLY <2>1, <2>2
  <2>7. UdpSum(udptab') = UdpSum(udptab) + (d - c)
    BY <2>6 DEF a, b
  <2>8. pool'.count + (d - c) + 0 + Needs(p.pc) + Len(ipoqueue') + lost'
          = pool.count + Needs(at[u].pc) + Len(ipoqueue) + lost
    BY <2>4, <2>5, <2>6 DEF m, n, l, k
  <2>9. pool'.count \in Int /\ Len(ipoqueue') \in Nat /\ lost' \in Nat
    BY <2>2, <2>5 DEF n
  <2> QED BY ONLY NetAssumption, NetInv, fault = "none", <1>0, <1>1, at' = [at EXCEPT ![u] = p],
                  <2>3, <2>6, <2>7, <2>8, <2>9, BalanceStays
<1>8. Receivers'
  <2> SUFFICES ASSUME ~ shared' PROVE (Alone /\ Known /\ UdpAwaits /\ IcmpAwaits /\ Told /\ InOrder)'
    BY <1>0 DEF Receivers
  <2>1. Alone /\ Known /\ UdpAwaits /\ IcmpAwaits /\ Told /\ InOrder
    BY <1>0 DEF Receivers
  <2>2. \A v \in Users : In(at, v, "udp", s) => v = u
    OBVIOUS
  <2>3. \A v \in Users : v # u => at'[v] = at[v]
    BY <1>0, <1>2
  <2>4. Alone'
    <3> SUFFICES ASSUME NEW v \in Users, NEW w \in Users, NEW pc \in {"udp", "icmp"}, at'[v].pc = pc,
                        In(at', w, pc, at'[v].slot), v # w
                 PROVE  FALSE
      BY DEF Alone
    <3>1. CASE v # u /\ w # u
      BY <2>1, <2>3, <3>1 DEF Alone, In
    <3>2. CASE v = u
      BY <1>1, <1>2, <2>2, <2>3, <3>2 DEF In
    <3>3. CASE w = u
      BY <1>1, <1>2, <2>2, <2>3, <3>3 DEF In
    <3> QED BY <3>1, <3>2, <3>3
  <2>5. Known'
    <3> SUFFICES ASSUME NEW v \in waiting'
                 PROVE  \/ at'[v].pc = "udp" /\ udptab'[at'[v].slot].udstate = "RECV" /\ udptab'[at'[v].slot].udpid = {v}
                        \/ at'[v].pc = "icmp" /\ icmptab'[at'[v].slot].icstate = "RECV" /\ icmptab'[at'[v].slot].icpid = {v}
      BY DEF Known
    <3>1. CASE v = u
      BY <1>1, <1>2, <1>3, <3>1
    <3>2. CASE v # u
      <4>1. v \in waiting /\ v \in Users /\ v \in Procs /\ at'[v] = at[v]
        BY <1>0, <2>3, <3>2 DEF NetTypes
      <4>2. CASE at[v].pc = "udp"
        <5>1. at[v].slot \in UdpSlots /\ udptab[at[v].slot].udstate = "RECV" /\ udptab[at[v].slot].udpid = {v}
          BY <1>0, <2>1, <4>1, <4>2 DEF Known, Places
        <5>2. at[v].slot # s
          BY <2>2, <3>2, <4>1, <4>2 DEF In
        <5> QED BY <1>3, <4>1, <4>2, <5>1, <5>2
      <4>3. CASE at[v].pc # "udp"
        BY <1>0, <2>1, <4>1, <4>3 DEF Known
      <4> QED BY <4>2, <4>3
    <3> QED BY <3>1, <3>2
  <2>6. UdpAwaits'
    <3> SUFFICES ASSUME NEW r \in UdpSlots, udptab'[r].udstate = "RECV"
                 PROVE  udptab'[r].udqueue = <<>> /\ \A y \in udptab'[r].udpid : In(at', y, "udp", r)
      BY DEF UdpAwaits
    <3>1. CASE r = s
      BY <1>1, <1>2, <1>3, <3>1 DEF In
    <3>2. CASE r # s
      <4>1. udptab'[r] = udptab[r] /\ udptab[r] \in UdpEntries
        BY <1>0, <1>3, <3>2
      <4>2. udptab[r].udqueue = <<>> /\ \A y \in udptab[r].udpid : y \in Users /\ In(at, y, "udp", r)
        BY <2>1, <4>1 DEF UdpAwaits, UdpEntries
      <4>3. ~ In(at, u, "udp", r)
        BY <3>2 DEF In
      <4> QED BY <2>3, <4>1, <4>2, <4>3 DEF In
    <3> QED BY <3>1, <3>2
  <2>7. IcmpAwaits'
    <3> SUFFICES ASSUME NEW r \in IcmpSlots, icmptab[r].icstate = "RECV"
                 PROVE  icmptab[r].iccount = 0 /\ \A y \in icmptab[r].icpid : In(at', y, "icmp", r)
      BY <1>0 DEF IcmpAwaits
    <3>1. icmptab[r] \in IcmpEntries
      BY <1>0
    <3>2. icmptab[r].iccount = 0 /\ \A y \in icmptab[r].icpid : y \in Users /\ In(at, y, "icmp", r)
      BY <2>1, <3>1 DEF IcmpAwaits, IcmpEntries
    <3>3. ~ In(at, u, "icmp", r)
      BY DEF In
    <3> QED BY <2>3, <3>2, <3>3 DEF In
  <2>8. Told'
    <3> SUFFICES ASSUME NEW v \in prmsg'
                 PROVE  /\ at'[v].pc = "udp" => udptab'[at'[v].slot].udqueue # <<>>
                        /\ at'[v].pc = "icmp" => icmptab'[at'[v].slot].iccount # 0
      BY DEF Told
    <3>1. CASE v = u
      BY <1>1, <1>2, <3>1
    <3>2. CASE v # u
      <4>1. v \in prmsg /\ v \in Users /\ v \in Procs /\ at'[v] = at[v]
        BY <1>0, <2>3, <3>2 DEF NetTypes
      <4>2. CASE at[v].pc = "udp"
        <5>1. at[v].slot \in UdpSlots /\ udptab[at[v].slot].udqueue # <<>>
          BY <1>0, <2>1, <4>1, <4>2 DEF Told, Places
        <5>2. at[v].slot # s
          BY <2>2, <3>2, <4>1, <4>2 DEF In
        <5> QED BY <1>3, <4>1, <4>2, <5>1, <5>2
      <4>3. CASE at[v].pc # "udp"
        BY <1>0, <2>1, <4>1, <4>3 DEF Told
      <4> QED BY <4>2, <4>3
    <3> QED BY <3>1, <3>2
  <2>9. InOrder'
    <3>1. at'[u].pc # "icmp"
      BY <1>1, <1>2
    <3> QED BY <1>0, <2>1, <2>3, <3>1 DEF InOrder
  <2> QED BY <2>4, <2>5, <2>6, <2>7, <2>8, <2>9
<1> QED BY <1>4, <1>5, <1>6, <1>7, <1>8 DEF NetInv

\* The same of ICMP endpoint s.
LEMMA IcmpCalls ==
  ASSUME NetAssumption, NetInv, fault = "none", NEW u \in Users, NEW s \in IcmpSlots, NEW e \in IcmpEntries,
         NEW p \in {IDLE, [pc |-> "icmp", slot |-> s, pkt |-> NOPKT]},
         at[u].pc = "idle" \/ In(at, u, "icmp", s),
         icmptab' = [icmptab EXCEPT ![s] = e], at' = [at EXCEPT ![u] = p],
         e.icstate = "FREE" => e.icqueue = {},
         IsFiniteSet(e.icqueue), Cardinality(e.icqueue) <= e.iccount,
         ICMP_QSIZ > 0 => e.ictail < ICMP_QSIZ /\ \A i \in e.icqueue : i < ICMP_QSIZ,
         ~ shared' /\ Fits /\ e.icstate # "FREE" => QueueOf(e),
         p.pc = "icmp" => e.icstate # "FREE",
         pool' \in SemaphoreOf(Procs), Waiting(pool') \subseteq Waiting(pool),
         pool'.count + Cardinality(e.icqueue) = pool.count + Cardinality(icmptab[s].icqueue),
         UNCHANGED <<udptab, ipoqueue, lost, fault>>,
         prmsg' \subseteq prmsg, waiting' \subseteq waiting \cup {u}, shared' \in BOOLEAN,
         ~ shared' => ~ shared /\ \A v \in Users : In(at, v, "icmp", s) => v = u,
         e.icstate = "RECV" => p.pc = "icmp" /\ e.iccount = 0,
         p.pc = "icmp" => e.icstate = "RECV" /\ e.icpid = {u} /\ u \notin prmsg',
         ~ shared' /\ u \in waiting' => p.pc = "icmp"
  PROVE  NetInv'
<1>0. /\ NetTypes /\ Places /\ Freed /\ IcmpQueues /\ Balance /\ Receivers /\ u \in Procs /\ Users \subseteq Procs
      /\ icmptab \in [IcmpSlots -> IcmpEntries] /\ udptab \in [UdpSlots -> UdpEntries]
      /\ udptab' = udptab /\ fault' = fault /\ lost' = lost /\ ipoqueue' = ipoqueue
      /\ at \in [Procs -> Positions] /\ u \notin Waiting(pool) /\ pool \in SemaphoreOf(Procs)
  BY NotWaiting DEF NetInv, NetTypes, Procs, In
<1>1. p \in Positions /\ (p.pc = "idle" \/ (p.pc = "icmp" /\ p.slot = s))
  <2>1. s \in Nat
    BY DEF IcmpSlots
  <2>2. [pc |-> "icmp", slot |-> s, pkt |-> NOPKT] \in Positions
    BY <2>1, IdlePosition DEF Positions
  <2> QED BY <2>2, IdlePosition
<1>2. /\ at' \in [Procs -> Positions] /\ at'[u] = p
      /\ \A y \in Procs : y # u => at'[y] = at[y]
  BY <1>0, <1>1
<1>3. /\ icmptab' \in [IcmpSlots -> IcmpEntries] /\ icmptab'[s] = e
      /\ \A r \in IcmpSlots : r # s => icmptab'[r] = icmptab[r]
  BY <1>0
<1>4. NetTypes'
  <2>1. prmsg' \subseteq Users /\ waiting' \subseteq Users
    BY <1>0 DEF NetTypes
  <2> QED BY <1>0, <1>2, <1>3, <2>1 DEF NetTypes
<1>5. Places'
  <2>1. \A y \in Waiting(pool') : y \in Procs /\ y # u /\ y \in Waiting(pool)
    BY <1>0, WaitingCounted
  <2> QED BY <1>0, <1>1, <1>2, <2>1 DEF Places
<1>6. Freed' /\ IcmpQueues'
  BY <1>0, <1>3 DEF Freed, IcmpQueues
<1>7. Balance'
  <2> DEFINE a == IcmpSum(icmptab)
             b == IcmpSum(icmptab')
             c == Cardinality(icmptab[s].icqueue)
             d == Cardinality(e.icqueue)
             m == pool.count
             n == pool'.count
             l == Len(ipoqueue)
             k == lost
  <2>1. a \in Nat /\ b \in Nat /\ c \in Nat /\ d \in Nat /\ b = a + d - c
    <3>1. \A r \in IcmpSlots : r # s => icmptab'[r].icqueue = icmptab[r].icqueue
      BY <1>3
    <3>2. d = Cardinality(icmptab'[s].icqueue)
      BY <1>3
    <3>3. \A r \in IcmpSlots : IsFiniteSet(icmptab[r].icqueue) /\ IsFiniteSet(icmptab'[r].icqueue)
      BY <1>0, <1>6 DEF Freed
    <3> HIDE DEF d
    <3> QED BY ONLY NetAssumption, <3>1, <3>2, <3>3, s \in IcmpSlots, IcmpChange
  <2>2. m \in Int /\ n \in Int /\ l \in Nat /\ k \in Nat /\ n + d = m + c
    BY <1>0 DEF NetTypes, SemaphoreOf
  <2>3. UdpSum(udptab') = UdpSum(udptab) + 0
    BY <1>0, SumsAreNumbers
  <2>4. Needs(p.pc) = 0 /\ Needs(at[u].pc) = 0
    BY <1>1 DEF Needs, In
  <2>5. Len(ipoqueue') = l /\ lost' = k
    BY <1>0
  <2> HIDE DEF a, b, c, d, m, n, l, k
  <2>6. d - c \in Int /\ 0 \in Int /\ b = a + (d - c) /\ n + 0 + (d - c) + 0 + l + k = m + 0 + l + k
    BY ONLY <2>1, <2>2
  <2>7. IcmpSum(icmptab') = IcmpSum(icmptab) + (d - c)
    BY <2>6 DEF a, b
  <2>8. pool'.count + 0 + (d - c) + Needs(p.pc) + Len(ipoqueue') + lost'
          = pool.count + Needs(at[u].pc) + Len(ipoqueue) + lost
    BY <2>4, <2>5, <2>6 DEF m, n, l, k
  <2>9. pool'.count \in Int /\ Len(ipoqueue') \in Nat /\ lost' \in Nat
    BY <2>2, <2>5 DEF n
  <2> QED BY ONLY NetAssumption, NetInv, fault = "none", <1>0, <1>1, at' = [at EXCEPT ![u] = p],
                  <2>3, <2>6, <2>7, <2>8, <2>9, BalanceStays
<1>8. Receivers'
  <2> SUFFICES ASSUME ~ shared' PROVE (Alone /\ Known /\ IcmpAwaits /\ UdpAwaits /\ Told /\ InOrder)'
    BY <1>0 DEF Receivers
  <2>1. Alone /\ Known /\ IcmpAwaits /\ UdpAwaits /\ Told /\ InOrder
    BY <1>0 DEF Receivers
  <2>2. \A v \in Users : In(at, v, "icmp", s) => v = u
    OBVIOUS
  <2>3. \A v \in Users : v # u => at'[v] = at[v]
    BY <1>0, <1>2
  <2>4. Alone'
    <3> SUFFICES ASSUME NEW v \in Users, NEW w \in Users, NEW pc \in {"udp", "icmp"}, at'[v].pc = pc,
                        In(at', w, pc, at'[v].slot), v # w
                 PROVE  FALSE
      BY DEF Alone
    <3>1. CASE v # u /\ w # u
      BY <2>1, <2>3, <3>1 DEF Alone, In
    <3>2. CASE v = u
      BY <1>1, <1>2, <2>2, <2>3, <3>2 DEF In
    <3>3. CASE w = u
      BY <1>1, <1>2, <2>2, <2>3, <3>3 DEF In
    <3> QED BY <3>1, <3>2, <3>3
  <2>5. Known'
    <3> SUFFICES ASSUME NEW v \in waiting'
                 PROVE  \/ at'[v].pc = "icmp" /\ icmptab'[at'[v].slot].icstate = "RECV" /\ icmptab'[at'[v].slot].icpid = {v}
                        \/ at'[v].pc = "udp" /\ udptab'[at'[v].slot].udstate = "RECV" /\ udptab'[at'[v].slot].udpid = {v}
      BY DEF Known
    <3>1. CASE v = u
      BY <1>1, <1>2, <1>3, <3>1
    <3>2. CASE v # u
      <4>1. v \in waiting /\ v \in Users /\ v \in Procs /\ at'[v] = at[v]
        BY <1>0, <2>3, <3>2 DEF NetTypes
      <4>2. CASE at[v].pc = "icmp"
        <5>1. at[v].slot \in IcmpSlots /\ icmptab[at[v].slot].icstate = "RECV" /\ icmptab[at[v].slot].icpid = {v}
          BY <1>0, <2>1, <4>1, <4>2 DEF Known, Places
        <5>2. at[v].slot # s
          BY <2>2, <3>2, <4>1, <4>2 DEF In
        <5> QED BY <1>3, <4>1, <4>2, <5>1, <5>2
      <4>3. CASE at[v].pc # "icmp"
        BY <1>0, <2>1, <4>1, <4>3 DEF Known
      <4> QED BY <4>2, <4>3
    <3> QED BY <3>1, <3>2
  <2>6. IcmpAwaits'
    <3> SUFFICES ASSUME NEW r \in IcmpSlots, icmptab'[r].icstate = "RECV"
                 PROVE  icmptab'[r].iccount = 0 /\ \A y \in icmptab'[r].icpid : In(at', y, "icmp", r)
      BY DEF IcmpAwaits
    <3>1. CASE r = s
      BY <1>1, <1>2, <1>3, <3>1 DEF In
    <3>2. CASE r # s
      <4>1. icmptab'[r] = icmptab[r] /\ icmptab[r] \in IcmpEntries
        BY <1>0, <1>3, <3>2
      <4>2. icmptab[r].iccount = 0 /\ \A y \in icmptab[r].icpid : y \in Users /\ In(at, y, "icmp", r)
        BY <2>1, <4>1 DEF IcmpAwaits, IcmpEntries
      <4>3. ~ In(at, u, "icmp", r)
        BY <3>2 DEF In
      <4> QED BY <2>3, <4>1, <4>2, <4>3 DEF In
    <3> QED BY <3>1, <3>2
  <2>7. UdpAwaits'
    <3> SUFFICES ASSUME NEW r \in UdpSlots, udptab[r].udstate = "RECV"
                 PROVE  udptab[r].udqueue = <<>> /\ \A y \in udptab[r].udpid : In(at', y, "udp", r)
      BY <1>0 DEF UdpAwaits
    <3>1. udptab[r] \in UdpEntries
      BY <1>0
    <3>2. udptab[r].udqueue = <<>> /\ \A y \in udptab[r].udpid : y \in Users /\ In(at, y, "udp", r)
      BY <2>1, <3>1 DEF UdpAwaits, UdpEntries
    <3>3. ~ In(at, u, "udp", r)
      BY DEF In
    <3> QED BY <2>3, <3>2, <3>3 DEF In
  <2>8. Told'
    <3> SUFFICES ASSUME NEW v \in prmsg'
                 PROVE  /\ at'[v].pc = "icmp" => icmptab'[at'[v].slot].iccount # 0
                        /\ at'[v].pc = "udp" => udptab'[at'[v].slot].udqueue # <<>>
      BY DEF Told
    <3>1. CASE v = u
      BY <1>1, <1>2, <3>1
    <3>2. CASE v # u
      <4>1. v \in prmsg /\ v \in Users /\ v \in Procs /\ at'[v] = at[v]
        BY <1>0, <2>3, <3>2 DEF NetTypes
      <4>2. CASE at[v].pc = "icmp"
        <5>1. at[v].slot \in IcmpSlots /\ icmptab[at[v].slot].iccount # 0
          BY <1>0, <2>1, <4>1, <4>2 DEF Told, Places
        <5>2. at[v].slot # s
          BY <2>2, <3>2, <4>1, <4>2 DEF In
        <5> QED BY <1>3, <4>1, <4>2, <5>1, <5>2
      <4>3. CASE at[v].pc # "icmp"
        BY <1>0, <2>1, <4>1, <4>3 DEF Told
      <4> QED BY <4>2, <4>3
    <3> QED BY <3>1, <3>2
  <2>9. InOrder'
    <3>1. \A v \in Users : at'[v].pc = "icmp" => icmptab'[at'[v].slot].icstate # "FREE"
      <4> SUFFICES ASSUME NEW v \in Users, at'[v].pc = "icmp" PROVE icmptab'[at'[v].slot].icstate # "FREE"
        OBVIOUS
      <4>1. CASE v = u
        BY <1>1, <1>2, <1>3, <4>1
      <4>2. CASE v # u
        <5>1. at'[v] = at[v] /\ v \in Procs
          BY <1>0, <2>3, <4>2
        <5>2. at[v].slot \in IcmpSlots /\ icmptab[at[v].slot].icstate # "FREE"
          BY <1>0, <2>1, <5>1 DEF InOrder, Places
        <5>3. at[v].slot # s
          BY <2>2, <4>2, <5>1 DEF In
        <5> QED BY <1>3, <5>1, <5>2, <5>3
      <4> QED BY <4>1, <4>2
    <3>2. Fits => \A r \in IcmpSlots : icmptab'[r].icstate # "FREE" => QueueOf(icmptab'[r])
      BY <1>3, <2>1 DEF InOrder
    <3> QED BY <3>1, <3>2 DEF InOrder
  <2> QED BY <2>4, <2>5, <2>6, <2>7, <2>8, <2>9
<1> QED BY <1>4, <1>5, <1>6, <1>7, <1>8 DEF NetInv

-----------------------------------------------------------------------------
\* While no two programs use one endpoint, one that is in no call waits for nothing.
LEMMA IdleDoesNotWait ==
  ASSUME NetInv, fault = "none", ~ shared, NEW u \in Users, at[u].pc = "idle"
  PROVE  u \notin waiting
BY DEF NetInv, Receivers, Known

\* The call finds nobody in the endpoint, or notes that it did.
LEMMA NotesSharing ==
  ASSUME NetTypes, NEW u \in Users, NEW pc, NEW s, shared' = (shared \/ Inside(pc, s) # {})
  PROVE  shared' \in BOOLEAN /\ (~ shared' => ~ shared /\ \A v \in Users : In(at, v, pc, s) => v = u)
BY DEF NetTypes, Inside, In

LEMMA UdpDequeueKeeps ==
  ASSUME NetAssumption, NetInv, fault = "none", NEW u \in Users, NEW s \in UdpSlots, UdpDequeue(u, s),
         at[u].pc = "idle" \/ In(at, u, "udp", s),
         UNCHANGED <<icmptab, ipoqueue, lost>>,
         prmsg' \subseteq prmsg, waiting' = waiting, shared' \in BOOLEAN,
         ~ shared' => u \notin waiting /\ ~ shared /\ \A v \in Users : In(at, v, "udp", s) => v = u
  PROVE  NetInv'
<1>0. /\ at' = [at EXCEPT ![u] = IDLE] /\ at[u].pc \in {"idle", "udp", "icmp"} /\ IDLE.pc = "idle"
      /\ udptab \in [UdpSlots -> UdpEntries] /\ udptab[s] \in UdpEntries /\ pool \in SemaphoreOf(Procs)
      /\ prmsg \subseteq Users /\ waiting \subseteq Users
  BY IdlePosition DEF UdpDequeue, Done, In, NetInv, NetTypes
<1>1. CASE udptab[s].udqueue = <<>>
  <2>1. fault' = "udp" /\ UNCHANGED <<udptab, pool>>
    BY <1>1 DEF UdpDequeue
  <2>2. prmsg' \subseteq Users /\ waiting' \subseteq Users /\ fault' \in {"udp", "icmp"}
    BY <1>0, <2>1
  <2>3. UNCHANGED <<udptab, icmptab, ipoqueue, pool, lost>>
    BY <2>1
  <2> QED BY <1>0, <2>2, <2>3, Faulty
<1>2. CASE udptab[s].udqueue # <<>>
  <2> DEFINE q == Tail(udptab[s].udqueue)
             e == [udptab[s] EXCEPT !.udqueue = q, !.udstate = "USED"]
  <2>1. /\ udptab' = [udptab EXCEPT ![s].udqueue = Tail(@), ![s].udstate = "USED"]
        /\ freebuf /\ fault' = fault
    BY <1>2 DEF UdpDequeue
  <2>2. q \in Seq(Packets) /\ Len(q) + 1 = Len(udptab[s].udqueue)
    <3>1. udptab[s].udqueue \in Seq(Packets)
      BY <1>0 DEF UdpEntries
    <3> QED BY <1>2, <3>1, Shorter
  <2>3. udptab' = [udptab EXCEPT ![s] = e]
    BY <1>0, <2>1
  <2> HIDE DEF q
  <2>4. e \in UdpEntries /\ e.udqueue = q /\ e.udstate = "USED"
    BY ONLY <1>0, <2>2 DEF UdpEntries, States
  <2> HIDE DEF e
  <2>5. pool' = signaln(pool, 1) /\ 1 \in Nat
    BY <1>0, <2>1, SignalIsOne DEF freebuf
  <2>6. pool' \in SemaphoreOf(Procs) /\ pool'.count = pool.count + 1 /\ Waiting(pool') \subseteq Waiting(pool)
    BY <1>0, <2>5, SignalledN
  <2>7. pool'.count + Len(e.udqueue) = pool.count + Len(udptab[s].udqueue)
    <3> DEFINE c == pool.count
               l == Len(q)
               k == Len(udptab[s].udqueue)
    <3>1. c \in Int /\ l \in Nat /\ l + 1 = k
      BY <1>0, <2>2 DEF SemaphoreOf
    <3> HIDE DEF c, l, k
    <3>2. (c + 1) + l = c + k
      BY ONLY <3>1
    <3> QED BY <2>4, <2>6, <3>2 DEF c, l, k
  <2>8. UNCHANGED <<icmptab, ipoqueue, lost, fault>>
    BY <2>1
  <2>9. /\ IDLE \in {IDLE, [pc |-> "udp", slot |-> s, pkt |-> NOPKT]}
        /\ e.udstate # "FREE" /\ e.udstate # "RECV" /\ IDLE.pc # "udp"
        /\ waiting' \subseteq waiting \cup {u}
        /\ ~ shared' => u \notin waiting'
    BY <1>0, <2>4
  <2>10. ~ shared' => ~ shared /\ \A v \in Users : In(at, v, "udp", s) => v = u
    OBVIOUS
  <2> QED BY <1>0, <2>3, <2>4, <2>6, <2>7, <2>8, <2>9, <2>10, UdpCalls
<1> QED BY <1>1, <1>2

LEMMA UdpRecvKeeps ==
  ASSUME NetAssumption, NetInv, fault = "none", NEW u \in Users, NEW s \in UdpSlots, udp_recv(u, s)
  PROVE  NetInv'
<1>0. /\ at[u].pc = "idle" /\ udptab \in [UdpSlots -> UdpEntries] /\ udptab[s] \in UdpEntries
      /\ shared' = (shared \/ Inside("udp", s) # {}) /\ UNCHANGED <<icmptab, ipoqueue, lost>>
      /\ pool \in SemaphoreOf(Procs)
  BY IdlePosition DEF udp_recv, NetInv, NetTypes
<1>1. shared' \in BOOLEAN /\ (~ shared' => ~ shared /\ \A v \in Users : In(at, v, "udp", s) => v = u)
  BY <1>0, NotesSharing DEF NetInv
<1>2. ~ shared' => u \notin waiting
  BY <1>0, <1>1, IdleDoesNotWait
<1>3. CASE UdpDequeue(u, s) /\ UNCHANGED <<prmsg, waiting>>
  <2>1. prmsg' \subseteq prmsg /\ waiting' = waiting
    BY <1>3
  <2> QED BY <1>0, <1>1, <1>2, <1>3, <2>1, UdpDequeueKeeps
<1>4. CASE /\ udptab[s].udqueue = <<>>
           /\ udptab' = [udptab EXCEPT ![s].udstate = "RECV", ![s].udpid = {u}]
           /\ AwaitsMessage(u)
           /\ at' = [at EXCEPT ![u] = [pc |-> "udp", slot |-> s, pkt |-> NOPKT]]
           /\ UNCHANGED <<pool, fault>>
  <2> DEFINE e == [udptab[s] EXCEPT !.udstate = "RECV", !.udpid = {u}]
             p == [pc |-> "udp", slot |-> s, pkt |-> NOPKT]
  <2>1. udptab' = [udptab EXCEPT ![s] = e] /\ at' = [at EXCEPT ![u] = p]
    BY <1>0, <1>4
  <2>2. e \in UdpEntries /\ e.udqueue = udptab[s].udqueue /\ e.udstate = "RECV" /\ e.udpid = {u}
    BY ONLY <1>0, u \in Users DEF UdpEntries, States
  <2>3. p.pc = "udp" /\ p \in {IDLE, [pc |-> "udp", slot |-> s, pkt |-> NOPKT]}
    OBVIOUS
  <2> HIDE DEF e, p
  <2>4. prmsg' = prmsg \ {u} /\ waiting' = waiting \cup {u}
    BY <1>4 DEF AwaitsMessage
  <2>5. pool'.count + Len(e.udqueue) = pool.count + Len(udptab[s].udqueue) /\ pool' \in SemaphoreOf(Procs)
        /\ Waiting(pool') \subseteq Waiting(pool)
    BY <1>0, <1>4, <2>2
  <2>6. UNCHANGED <<icmptab, ipoqueue, lost, fault>>
    BY <1>0, <1>4
  <2>7. e.udstate # "FREE" /\ e.udqueue = <<>> /\ prmsg' \subseteq prmsg /\ u \notin prmsg'
        /\ waiting' \subseteq waiting \cup {u}
    BY <1>4, <2>2, <2>4
  <2> QED BY <1>0, <1>1, <2>1, <2>2, <2>3, <2>5, <2>6, <2>7, UdpCalls
<1> QED BY <1>3, <1>4 DEF udp_recv

LEMMA UdpRecvReturnKeeps ==
  ASSUME NetAssumption, NetInv, fault = "none", NEW u \in Users, UdpRecvReturn(u)
  PROVE  NetInv'
<1> DEFINE s == at[u].slot
<1>0. /\ at[u].pc = "udp" /\ u \notin waiting /\ prmsg' = prmsg \ {u} /\ UNCHANGED <<icmptab, ipoqueue, waiting, lost, shared>>
      /\ udptab \in [UdpSlots -> UdpEntries] /\ pool \in SemaphoreOf(Procs) /\ shared \in BOOLEAN
  BY DEF UdpRecvReturn, NetInv, NetTypes
<1>1. s \in UdpSlots /\ In(at, u, "udp", s)
  BY <1>0 DEF NetInv, Places, Procs, In
<1>2. ~ shared' => u \notin waiting /\ ~ shared /\ \A v \in Users : In(at, v, "udp", s) => v = u
  <2> SUFFICES ASSUME ~ shared, NEW v \in Users, In(at, v, "udp", s) PROVE v = u
    BY <1>0
  <2>1. Alone
    BY DEF NetInv, Receivers
  <2> QED BY <1>0, <2>1 DEF Alone
<1>3. \/ UdpDequeue(u, s)
      \/ /\ udptab' = [udptab EXCEPT ![s].udstate = "USED"]
         /\ Done(u)
         /\ UNCHANGED <<pool, fault>>
  BY DEF UdpRecvReturn
<1> HIDE DEF s
<1>4. CASE UdpDequeue(u, s)
  <2>1. prmsg' \subseteq prmsg /\ waiting' = waiting /\ shared' \in BOOLEAN /\ UNCHANGED <<icmptab, ipoqueue, lost>>
    BY <1>0
  <2> QED BY <1>1, <1>2, <1>4, <2>1, UdpDequeueKeeps
<1>5. CASE /\ udptab' = [udptab EXCEPT ![s].udstate = "USED"]
           /\ Done(u)
           /\ UNCHANGED <<pool, fault>>
  <2> DEFINE e == [udptab[s] EXCEPT !.udstate = "USED"]
  <2>0. udptab[s] \in UdpEntries
    BY <1>0, <1>1
  <2>1. udptab' = [udptab EXCEPT ![s] = e] /\ at' = [at EXCEPT ![u] = IDLE]
    BY <1>0, <1>5 DEF Done
  <2>2. e \in UdpEntries /\ e.udqueue = udptab[s].udqueue /\ e.udstate = "USED"
    BY ONLY <2>0 DEF UdpEntries, States
  <2>3. IDLE.pc = "idle" /\ IDLE \in {IDLE, [pc |-> "udp", slot |-> s, pkt |-> NOPKT]}
    BY IdlePosition
  <2> HIDE DEF e
  <2>5. pool'.count + Len(e.udqueue) = pool.count + Len(udptab[s].udqueue) /\ pool' \in SemaphoreOf(Procs)
        /\ Waiting(pool') \subseteq Waiting(pool)
    BY <1>0, <1>5, <2>2
  <2>6. UNCHANGED <<icmptab, ipoqueue, lost, fault>> /\ shared' \in BOOLEAN
    BY <1>0, <1>5
  <2>7. e.udstate # "FREE" /\ e.udstate # "RECV" /\ prmsg' \subseteq prmsg /\ IDLE.pc # "udp"
        /\ waiting' \subseteq waiting \cup {u} /\ u \notin waiting'
    BY <1>0, <2>2, <2>3
  <2>8. ~ shared' => ~ shared /\ \A v \in Users : In(at, v, "udp", s) => v = u
    BY <1>2
  <2> QED BY <1>1, <2>1, <2>2, <2>3, <2>5, <2>6, <2>7, <2>8, UdpCalls
<1> QED BY <1>3, <1>4, <1>5

\* A call that leaves the process where it was, in no call.
LEMMA Stands ==
  ASSUME NetTypes, NEW u \in Users, at[u] = IDLE, at' = at
  PROVE  at' = [at EXCEPT ![u] = IDLE]
BY DEF NetTypes, Procs

LEMMA UdpReleaseKeeps ==
  ASSUME NetAssumption, NetInv, fault = "none", NEW u \in Users, NEW s \in UdpSlots, udp_release(u, s)
  PROVE  NetInv'
<1>0. /\ at[u] = IDLE /\ at[u].pc = "idle" /\ udptab \in [UdpSlots -> UdpEntries] /\ udptab[s] \in UdpEntries
      /\ pool' = signaln(pool, Len(udptab[s].udqueue))
      /\ udptab' = [udptab EXCEPT ![s].udstate = "FREE", ![s].udqueue = <<>>]
      /\ shared' = (shared \/ Inside("udp", s) # {})
      /\ UNCHANGED <<icmptab, ipoqueue, at, prmsg, waiting, lost, fault>>
      /\ pool \in SemaphoreOf(Procs)
  BY IdlePosition DEF udp_release, NetInv, NetTypes
<1>1. shared' \in BOOLEAN /\ (~ shared' => ~ shared /\ \A v \in Users : In(at, v, "udp", s) => v = u)
  BY <1>0, NotesSharing DEF NetInv
<1>2. ~ shared' => u \notin waiting
  BY <1>0, <1>1, IdleDoesNotWait
<1> DEFINE e == [udptab[s] EXCEPT !.udstate = "FREE", !.udqueue = <<>>]
           k == Len(udptab[s].udqueue)
<1>3. udptab' = [udptab EXCEPT ![s] = e]
  BY <1>0
<1>4. e \in UdpEntries /\ e.udqueue = <<>> /\ e.udstate = "FREE"
  <2>1. <<>> \in Seq(Packets)
    OBVIOUS
  <2> QED BY ONLY <1>0, <2>1 DEF UdpEntries, States
<1> HIDE DEF e
<1>5. k \in Nat
  BY <1>0 DEF UdpEntries
<1>6. pool' \in SemaphoreOf(Procs) /\ pool'.count = pool.count + k /\ Waiting(pool') \subseteq Waiting(pool)
  BY <1>0, <1>5, SignalledN
<1>7. pool'.count + Len(e.udqueue) = pool.count + Len(udptab[s].udqueue)
  <2>1. Len(e.udqueue) = 0
    BY <1>4
  <2> DEFINE c == pool.count
  <2>2. c \in Int
    BY <1>0 DEF SemaphoreOf
  <2> HIDE DEF c, k
  <2>3. (c + k) + 0 = c + k
    BY ONLY <1>5, <2>2
  <2> QED BY <1>6, <2>1, <2>3 DEF c, k
<1>8. at' = [at EXCEPT ![u] = IDLE]
  BY <1>0, Stands DEF NetInv
<1>9. UNCHANGED <<icmptab, ipoqueue, lost, fault>>
  BY <1>0
<1>10. /\ IDLE.pc # "udp" /\ IDLE \in {IDLE, [pc |-> "udp", slot |-> s, pkt |-> NOPKT]}
       /\ e.udstate # "RECV" /\ prmsg' \subseteq prmsg /\ waiting' \subseteq waiting \cup {u}
       /\ ~ shared' => u \notin waiting'
  BY <1>0, <1>2, <1>4, IdlePosition
<1>11. at[u].pc = "idle" /\ pool' \in SemaphoreOf(Procs) /\ Waiting(pool') \subseteq Waiting(pool)
  BY <1>0, <1>6
<1> QED BY ONLY NetAssumption, NetInv, fault = "none", u \in Users, s \in UdpSlots,
                <1>1, <1>3, <1>4, <1>7, <1>8, <1>9, <1>10, <1>11, UdpCalls

LEMMA UdpRegisterKeeps ==
  ASSUME NetAssumption, NetInv, fault = "none", NEW u \in Users, NEW end \in Endpoints, udp_register(u, end)
  PROVE  NetInv'
<1> DEFINE free == {s \in UdpSlots : udptab[s].udstate = "FREE"}
           s == Min(free)
           e == [udstate |-> "USED", udend |-> end, udpid |-> {}, udqueue |-> <<>>]
<1>0. /\ at[u] = IDLE /\ at[u].pc = "idle" /\ udptab \in [UdpSlots -> UdpEntries] /\ free # {}
      /\ udptab' = [udptab EXCEPT ![s] = e]
      /\ shared' = (shared \/ Inside("udp", s) # {})
      /\ UNCHANGED <<icmptab, ipoqueue, pool, at, prmsg, waiting, lost, fault>>
      /\ pool \in SemaphoreOf(Procs)
  BY IdlePosition DEF udp_register, NetInv, NetTypes
<1>1. free \subseteq Nat
  BY DEF UdpSlots
<1>2. s \in free
  BY <1>0, <1>1, LeastIsMember
<1>3. s \in UdpSlots /\ udptab[s].udstate = "FREE" /\ udptab[s].udqueue = <<>>
  BY <1>2 DEF NetInv, Freed
<1> HIDE DEF free, s
<1>4. e \in UdpEntries /\ e.udqueue = <<>> /\ e.udstate = "USED"
  <2>1. end \in Nat \X Nat \X Nat /\ <<>> \in Seq(Packets) /\ {} \in SUBSET Users
    BY DEF NetAssumption
  <2> QED BY <2>1 DEF UdpEntries, States
<1> HIDE DEF e
<1>5. shared' \in BOOLEAN /\ (~ shared' => ~ shared /\ \A v \in Users : In(at, v, "udp", s) => v = u)
  BY <1>0, NotesSharing DEF NetInv
<1>6. ~ shared' => u \notin waiting
  BY <1>0, <1>5, IdleDoesNotWait
<1>7. pool'.count + Len(e.udqueue) = pool.count + Len(udptab[s].udqueue) /\ pool' \in SemaphoreOf(Procs)
      /\ Waiting(pool') \subseteq Waiting(pool)
  BY <1>0, <1>3, <1>4
<1>8. at' = [at EXCEPT ![u] = IDLE]
  BY <1>0, Stands DEF NetInv
<1>9. UNCHANGED <<icmptab, ipoqueue, lost, fault>>
  BY <1>0
<1>10. /\ IDLE.pc # "udp" /\ IDLE \in {IDLE, [pc |-> "udp", slot |-> s, pkt |-> NOPKT]}
       /\ e.udstate # "RECV" /\ e.udstate # "FREE" /\ prmsg' \subseteq prmsg /\ waiting' \subseteq waiting \cup {u}
       /\ ~ shared' => u \notin waiting'
  BY <1>0, <1>4, <1>6, IdlePosition
<1> QED BY <1>0, <1>3, <1>4, <1>5, <1>7, <1>8, <1>9, <1>10, UdpCalls

-----------------------------------------------------------------------------
\* One more and one less.
LEMMA TakenOne == \A h, c \in Nat : c # 0 => (h + 1) + (c - 1) = h + c /\ c - 1 \in Nat
OBVIOUS

LEMMA IcmpDequeueKeeps ==
  ASSUME NetAssumption, NetInv, fault = "none", NEW u \in Users, NEW s \in IcmpSlots, IcmpDequeue(u, s),
         at[u].pc = "idle" \/ In(at, u, "icmp", s),
         UNCHANGED <<udptab, ipoqueue, lost>>,
         prmsg' \subseteq prmsg, waiting' = waiting, shared' \in BOOLEAN,
         ~ shared' => /\ u \notin waiting /\ ~ shared /\ \A v \in Users : In(at, v, "icmp", s) => v = u
                      /\ icmptab[s].icstate # "FREE"
  PROVE  NetInv'
<1> DEFINE o == icmptab[s]
<1>0. /\ at' = [at EXCEPT ![u] = IDLE] /\ at[u].pc \in {"idle", "udp", "icmp"} /\ IDLE.pc = "idle"
      /\ icmptab \in [IcmpSlots -> IcmpEntries] /\ o \in IcmpEntries /\ pool \in SemaphoreOf(Procs)
      /\ prmsg \subseteq Users /\ waiting \subseteq Users
  BY IdlePosition DEF IcmpDequeue, Done, In, NetInv, NetTypes
<1>1. CASE o.ichead \notin o.icqueue
  <2>1. fault' = "icmp" /\ UNCHANGED <<icmptab, pool>>
    BY <1>1 DEF IcmpDequeue
  <2>2. prmsg' \subseteq Users /\ waiting' \subseteq Users /\ fault' \in {"udp", "icmp"}
    BY <1>0, <2>1
  <2>3. UNCHANGED <<udptab, icmptab, ipoqueue, pool, lost>>
    BY <2>1
  <2> QED BY <1>0, <2>2, <2>3, Faulty
<1>2. CASE o.ichead \in o.icqueue
  <2> DEFINE e == [o EXCEPT !.icqueue = o.icqueue \ {o.ichead}, !.ichead = NextHead(o.ichead),
                            !.iccount = o.iccount - 1, !.icstate = "USED"]
  <2>1. /\ icmptab' = [icmptab EXCEPT ![s].icqueue = @ \ {icmptab[s].ichead}, ![s].ichead = NextHead(@),
                                      ![s].iccount = @ - 1, ![s].icstate = "USED"]
        /\ freebuf /\ fault' = fault
    BY <1>2 DEF IcmpDequeue
  <2>2. icmptab' = [icmptab EXCEPT ![s] = e]
    BY <1>0, <2>1
  <2>3. /\ IsFiniteSet(o.icqueue) /\ Cardinality(o.icqueue) \in Nat /\ Cardinality(o.icqueue) <= o.iccount
        /\ IsFiniteSet(o.icqueue \ {o.ichead}) /\ Cardinality(o.icqueue \ {o.ichead}) \in Nat
        /\ Cardinality(o.icqueue) = Cardinality(o.icqueue \ {o.ichead}) + 1
    <3>1. IsFiniteSet(o.icqueue) /\ Cardinality(o.icqueue) <= o.iccount
      BY DEF NetInv, Freed
    <3>2. /\ IsFiniteSet(o.icqueue \ {o.ichead})
          /\ Cardinality(o.icqueue \ {o.ichead}) = IF o.ichead \in o.icqueue THEN Cardinality(o.icqueue) - 1 ELSE Cardinality(o.icqueue)
      BY <3>1, FS_RemoveElement
    <3>3. Cardinality(o.icqueue) \in Nat /\ Cardinality(o.icqueue \ {o.ichead}) \in Nat
      BY <3>1, <3>2, FS_CardinalityType
    <3> DEFINE a == Cardinality(o.icqueue)
               b == Cardinality(o.icqueue \ {o.ichead})
    <3>4. a \in Nat /\ b = a - 1
      BY <1>2, <3>2, <3>3
    <3> HIDE DEF a, b
    <3>5. a = b + 1
      BY ONLY <3>4
    <3> QED BY <3>1, <3>2, <3>3, <3>5 DEF a, b
  <2>4. o.ichead \in Nat /\ o.iccount \in Nat /\ o.iccount # 0 /\ o.icqueue \in SUBSET Nat /\ o.ictail \in Nat
    <3> DEFINE a == Cardinality(o.icqueue)
               b == Cardinality(o.icqueue \ {o.ichead})
               c == o.iccount
    <3>1. a \in Nat /\ b \in Nat /\ c \in Nat /\ a <= c /\ a = b + 1
      BY <1>0, <2>3 DEF IcmpEntries
    <3> HIDE DEF a, b, c
    <3>2. c # 0
      BY ONLY <3>1
    <3> QED BY <1>0, <3>2 DEF IcmpEntries, c
  <2>5. NextHead(o.ichead) \in Nat /\ o.iccount - 1 \in Nat /\ o.icqueue \ {o.ichead} \in SUBSET Nat
    <3>1. \A n \in Nat : NextHead(n) \in Nat
      BY DEF NextHead
    <3> QED BY <2>4, <3>1, TakenOne
  <2> HIDE DEF o
  <2>6. /\ e \in IcmpEntries /\ e.icqueue = o.icqueue \ {o.ichead} /\ e.icstate = "USED"
        /\ e.ichead = NextHead(o.ichead) /\ e.iccount = o.iccount - 1 /\ e.ictail = o.ictail
    BY ONLY <1>0, <2>5 DEF IcmpEntries, States
  <2> HIDE DEF e
  <2>7. pool' = signaln(pool, 1) /\ 1 \in Nat
    BY <1>0, <2>1, SignalIsOne DEF freebuf
  <2>8. pool' \in SemaphoreOf(Procs) /\ pool'.count = pool.count + 1 /\ Waiting(pool') \subseteq Waiting(pool)
    BY <1>0, <2>7, SignalledN
  <2>9. /\ pool'.count + Cardinality(e.icqueue) = pool.count + Cardinality(icmptab[s].icqueue)
        /\ IsFiniteSet(e.icqueue) /\ Cardinality(e.icqueue) <= e.iccount
    <3> DEFINE c == pool.count
               l == Cardinality(o.icqueue \ {o.ichead})
               k == Cardinality(o.icqueue)
               n == o.iccount
    <3>1. c \in Int /\ l \in Nat /\ k = l + 1 /\ n \in Nat /\ k <= n
      BY <1>0, <2>3, <2>4 DEF SemaphoreOf
    <3>2. Cardinality(icmptab[s].icqueue) = k
      BY DEF o
    <3> HIDE DEF c, l, k, n
    <3>3. (c + 1) + l = c + k /\ l <= n - 1
      BY ONLY <3>1
    <3> QED BY <2>3, <2>6, <2>8, <3>2, <3>3 DEF c, l, k, n
  <2>10. ICMP_QSIZ > 0 => e.ictail < ICMP_QSIZ /\ \A i \in e.icqueue : i < ICMP_QSIZ
    BY <2>6 DEF NetInv, IcmpQueues, o
  <2>11. ~ shared' /\ Fits /\ e.icstate # "FREE" => QueueOf(e)
    <3> SUFFICES ASSUME ~ shared', Fits PROVE QueueOf(e)
      OBVIOUS
    <3>1. /\ ICMP_QSIZ \in Nat /\ ICMP_SLOTS \in Nat /\ ICMP_QSIZ < ICMP_SLOTS
          /\ o.ichead < ICMP_QSIZ
      BY <1>2 DEF NetInv, IcmpQueues, NetAssumption, Fits, o
    <3>2. QueueOf(o)
      BY DEF NetInv, Receivers, InOrder, o
    <3> DEFINE h == o.ichead
               c == o.iccount
    <3>3. h \in Nat /\ c \in Nat /\ c # 0
      BY <2>4
    <3>4. e.ichead = h + 1
      BY <2>6, <3>1, <3>3 DEF NextHead
    <3>5. e.ichead + e.iccount = h + c
      BY <2>6, <3>3, <3>4, TakenOne
    <3>6. QueueOf(o) <=> (h + c <= ICMP_QSIZ =>
                            /\ o.icqueue = h .. (h + c - 1)
                            /\ o.ictail = IF h + c = ICMP_QSIZ THEN 0 ELSE h + c)
      BY DEF QueueOf
    <3>7. QueueOf(e) <=> (h + c <= ICMP_QSIZ =>
                            /\ e.icqueue = e.ichead .. (e.ichead + e.iccount - 1)
                            /\ e.ictail = IF h + c = ICMP_QSIZ THEN 0 ELSE h + c)
      BY <3>5 DEF QueueOf
    <3>8. \A m, n \in Nat : (m .. (m + n - 1)) \ {m} = (m + 1) .. (m + n - 1)
      OBVIOUS
    <3> HIDE DEF h, c
    <3>9. h + c <= ICMP_QSIZ => e.icqueue = (h + 1) .. (h + c - 1)
      <4>1. o.ichead = h
        BY DEF h
      <4> QED BY <2>6, <3>2, <3>3, <3>6, <3>8, <4>1
    <3>10. e.ichead .. (e.ichead + e.iccount - 1) = (h + 1) .. (h + c - 1)
      <4>1. e.ichead = h + 1 /\ e.iccount = c - 1 /\ h \in Nat /\ c \in Nat
        BY <2>6, <3>3, <3>4 DEF c
      <4>2. \A m, n \in Nat : (m + 1) + ((n - 1) - 1) = m + (n - 1)
        OBVIOUS
      <4> QED BY ONLY <4>1, <4>2
    <3>11. h + c <= ICMP_QSIZ => e.ictail = IF h + c = ICMP_QSIZ THEN 0 ELSE h + c
      BY <2>6, <3>2, <3>6
    <3> QED BY ONLY <3>7, <3>9, <3>10, <3>11
  <2>12. UNCHANGED <<udptab, ipoqueue, lost, fault>>
    BY <2>1
  <2>13. /\ IDLE \in {IDLE, [pc |-> "icmp", slot |-> s, pkt |-> NOPKT]}
         /\ e.icstate # "FREE" /\ e.icstate # "RECV" /\ IDLE.pc # "icmp"
         /\ waiting' \subseteq waiting \cup {u}
         /\ ~ shared' => u \notin waiting'
    BY <1>0, <2>6
  <2>14. ~ shared' => ~ shared /\ \A v \in Users : In(at, v, "icmp", s) => v = u
    OBVIOUS
  <2>15. pool' \in SemaphoreOf(Procs) /\ Waiting(pool') \subseteq Waiting(pool) /\ e \in IcmpEntries
         /\ at' = [at EXCEPT ![u] = IDLE]
    BY <1>0, <2>6, <2>8
  <2> QED BY ONLY NetAssumption, NetInv, fault = "none", u \in Users, s \in IcmpSlots,
                  at[u].pc = "idle" \/ In(at, u, "icmp", s), prmsg' \subseteq prmsg, shared' \in BOOLEAN,
                  <2>2, <2>9, <2>10, <2>11, <2>12, <2>13, <2>14, <2>15, IcmpCalls
<1> QED BY <1>1, <1>2

LEMMA IcmpRecvKeeps ==
  ASSUME NetAssumption, NetInv, fault = "none", NEW u \in Users, NEW s \in IcmpSlots, icmp_recv(u, s)
  PROVE  NetInv'
<1> DEFINE o == icmptab[s]
<1>0. /\ at[u].pc = "idle" /\ icmptab \in [IcmpSlots -> IcmpEntries] /\ o \in IcmpEntries /\ o.icstate = "USED"
      /\ shared' = (shared \/ Inside("icmp", s) # {}) /\ UNCHANGED <<udptab, ipoqueue, lost>>
      /\ pool \in SemaphoreOf(Procs)
  BY IdlePosition DEF icmp_recv, NetInv, NetTypes
<1>1. shared' \in BOOLEAN /\ (~ shared' => ~ shared /\ \A v \in Users : In(at, v, "icmp", s) => v = u)
  BY <1>0, NotesSharing DEF NetInv
<1>2. ~ shared' => u \notin waiting
  BY <1>0, <1>1, IdleDoesNotWait
<1>3. CASE IcmpDequeue(u, s) /\ UNCHANGED <<prmsg, waiting>>
  <2>1. prmsg' \subseteq prmsg /\ waiting' = waiting /\ icmptab[s].icstate # "FREE"
    BY <1>0, <1>3
  <2> QED BY <1>0, <1>1, <1>2, <1>3, <2>1, IcmpDequeueKeeps
<1>4. CASE /\ icmptab[s].iccount = 0
           /\ icmptab' = [icmptab EXCEPT ![s].icstate = "RECV", ![s].icpid = {u}]
           /\ AwaitsMessage(u)
           /\ at' = [at EXCEPT ![u] = [pc |-> "icmp", slot |-> s, pkt |-> NOPKT]]
           /\ UNCHANGED <<pool, fault>>
  <2> DEFINE e == [o EXCEPT !.icstate = "RECV", !.icpid = {u}]
             p == [pc |-> "icmp", slot |-> s, pkt |-> NOPKT]
  <2>1. icmptab' = [icmptab EXCEPT ![s] = e] /\ at' = [at EXCEPT ![u] = p]
    BY <1>0, <1>4
  <2>2. p.pc = "icmp" /\ p \in {IDLE, [pc |-> "icmp", slot |-> s, pkt |-> NOPKT]}
    OBVIOUS
  <2> HIDE DEF o, p
  <2>3. /\ e \in IcmpEntries /\ e.icstate = "RECV" /\ e.icpid = {u} /\ e.iccount = o.iccount
        /\ e.icqueue = o.icqueue /\ e.ichead = o.ichead /\ e.ictail = o.ictail
    BY ONLY <1>0, u \in Users DEF IcmpEntries, States
  <2> HIDE DEF e
  <2>4. prmsg' = prmsg \ {u} /\ waiting' = waiting \cup {u}
    BY <1>4 DEF AwaitsMessage
  <2>5. pool'.count + Cardinality(e.icqueue) = pool.count + Cardinality(icmptab[s].icqueue) /\ pool' \in SemaphoreOf(Procs)
        /\ Waiting(pool') \subseteq Waiting(pool)
    BY <1>0, <1>4, <2>3 DEF o
  <2>6. UNCHANGED <<udptab, ipoqueue, lost, fault>>
    BY <1>0, <1>4
  <2>7. e.icstate # "FREE" /\ e.iccount = 0 /\ prmsg' \subseteq prmsg /\ u \notin prmsg'
        /\ waiting' \subseteq waiting \cup {u}
    BY <1>4, <2>3, <2>4 DEF o
  <2>8. /\ IsFiniteSet(e.icqueue) /\ Cardinality(e.icqueue) <= e.iccount
        /\ ICMP_QSIZ > 0 => e.ictail < ICMP_QSIZ /\ \A i \in e.icqueue : i < ICMP_QSIZ
    BY <2>3 DEF NetInv, Freed, IcmpQueues, o
  <2>9. ~ shared' /\ Fits /\ e.icstate # "FREE" => QueueOf(e)
    <3> SUFFICES ASSUME ~ shared', Fits PROVE QueueOf(e)
      OBVIOUS
    <3>1. QueueOf(o)
      BY <1>0, <1>1 DEF NetInv, Receivers, InOrder, o
    <3> QED BY <2>3, <3>1 DEF QueueOf
  <2> QED BY ONLY NetAssumption, NetInv, fault = "none", u \in Users, s \in IcmpSlots,
                  <1>0, <1>1, <2>1, <2>2, <2>3, <2>5, <2>6, <2>7, <2>8, <2>9, IcmpCalls
<1> QED BY <1>3, <1>4 DEF icmp_recv

LEMMA IcmpRecvReturnKeeps ==
  ASSUME NetAssumption, NetInv, fault = "none", NEW u \in Users, IcmpRecvReturn(u)
  PROVE  NetInv'
<1> DEFINE s == at[u].slot
<1>0. /\ at[u].pc = "icmp" /\ u \notin waiting /\ prmsg' = prmsg \ {u} /\ UNCHANGED <<udptab, ipoqueue, waiting, lost, shared>>
      /\ icmptab \in [IcmpSlots -> IcmpEntries] /\ pool \in SemaphoreOf(Procs) /\ shared \in BOOLEAN
  BY DEF IcmpRecvReturn, NetInv, NetTypes
<1>1. s \in IcmpSlots /\ In(at, u, "icmp", s)
  BY <1>0 DEF NetInv, Places, Procs, In
<1>2. ~ shared' => /\ u \notin waiting /\ ~ shared /\ \A v \in Users : In(at, v, "icmp", s) => v = u
                   /\ icmptab[s].icstate # "FREE"
  <2> SUFFICES ASSUME ~ shared
               PROVE  /\ \A v \in Users : In(at, v, "icmp", s) => v = u
                      /\ icmptab[s].icstate # "FREE"
    BY <1>0
  <2>1. Alone /\ InOrder
    BY DEF NetInv, Receivers
  <2> QED BY <1>0, <2>1 DEF Alone, InOrder
<1>3. \/ IcmpDequeue(u, s)
      \/ /\ icmptab' = [icmptab EXCEPT ![s].icstate = "USED"]
         /\ Done(u)
         /\ UNCHANGED <<pool, fault>>
  BY DEF IcmpRecvReturn
<1> HIDE DEF s
<1>4. CASE IcmpDequeue(u, s)
  <2>1. prmsg' \subseteq prmsg /\ waiting' = waiting /\ shared' \in BOOLEAN /\ UNCHANGED <<udptab, ipoqueue, lost>>
    BY <1>0
  <2> QED BY <1>1, <1>2, <1>4, <2>1, IcmpDequeueKeeps
<1>5. CASE /\ icmptab' = [icmptab EXCEPT ![s].icstate = "USED"]
           /\ Done(u)
           /\ UNCHANGED <<pool, fault>>
  <2> DEFINE o == icmptab[s]
             e == [o EXCEPT !.icstate = "USED"]
  <2>0. o \in IcmpEntries
    BY <1>0, <1>1
  <2>1. icmptab' = [icmptab EXCEPT ![s] = e] /\ at' = [at EXCEPT ![u] = IDLE]
    BY <1>0, <1>5 DEF Done
  <2> HIDE DEF o
  <2>2. /\ e \in IcmpEntries /\ e.icstate = "USED" /\ e.iccount = o.iccount
        /\ e.icqueue = o.icqueue /\ e.ichead = o.ichead /\ e.ictail = o.ictail
    BY ONLY <2>0 DEF IcmpEntries, States
  <2>3. IDLE.pc = "idle" /\ IDLE \in {IDLE, [pc |-> "icmp", slot |-> s, pkt |-> NOPKT]}
    BY IdlePosition
  <2> HIDE DEF e
  <2>5. pool'.count + Cardinality(e.icqueue) = pool.count + Cardinality(icmptab[s].icqueue) /\ pool' \in SemaphoreOf(Procs)
        /\ Waiting(pool') \subseteq Waiting(pool)
    BY <1>0, <1>5, <2>2 DEF o
  <2>6. UNCHANGED <<udptab, ipoqueue, lost, fault>> /\ shared' \in BOOLEAN
    BY <1>0, <1>5
  <2>7. e.icstate # "FREE" /\ e.icstate # "RECV" /\ prmsg' \subseteq prmsg /\ IDLE.pc # "icmp"
        /\ waiting' \subseteq waiting \cup {u} /\ u \notin waiting'
    BY <1>0, <2>2, <2>3
  <2>8. ~ shared' => ~ shared /\ \A v \in Users : In(at, v, "icmp", s) => v = u
    BY <1>2
  <2>9. /\ IsFiniteSet(e.icqueue) /\ Cardinality(e.icqueue) <= e.iccount
        /\ ICMP_QSIZ > 0 => e.ictail < ICMP_QSIZ /\ \A i \in e.icqueue : i < ICMP_QSIZ
    BY <1>1, <2>2 DEF NetInv, Freed, IcmpQueues, o
  <2>10. ~ shared' /\ Fits /\ e.icstate # "FREE" => QueueOf(e)
    <3> SUFFICES ASSUME ~ shared', Fits PROVE QueueOf(e)
      OBVIOUS
    <3>1. QueueOf(o)
      BY <1>1, <1>2 DEF NetInv, Receivers, InOrder, o
    <3> QED BY <2>2, <3>1 DEF QueueOf
  <2> QED BY ONLY NetAssumption, NetInv, fault = "none", u \in Users,
                  <1>1, <2>1, <2>2, <2>3, <2>5, <2>6, <2>7, <2>8, <2>9, <2>10, IcmpCalls
<1> QED BY <1>3, <1>4, <1>5


\* More places than an interval has.
LEMMA SameSize ==
  ASSUME NEW A, IsFiniteSet(A), NEW B, B \subseteq A, Cardinality(A) <= Cardinality(B)
  PROVE  B = A /\ Cardinality(B) = Cardinality(A)
<1>1. IsFiniteSet(B) /\ Cardinality(B) <= Cardinality(A) /\ (Cardinality(B) = Cardinality(A) => B = A)
  BY FS_Subset
<1>2. Cardinality(A) \in Nat /\ Cardinality(B) \in Nat
  BY <1>1, FS_CardinalityType
<1> QED BY <1>1, <1>2

LEMMA IcmpReleaseKeeps ==
  ASSUME NetAssumption, NetInv, fault = "none", NEW u \in Users, NEW s \in IcmpSlots, icmp_release(u, s)
  PROVE  NetInv'
<1> DEFINE o == icmptab[s]
           n == o.iccount
           read == {(o.ichead + k) % ICMP_SLOTS : k \in 0 .. (n - 1)}
           e == [o EXCEPT !.icstate = "FREE", !.icqueue = {}, !.iccount = 0]
<1>0. /\ at[u] = IDLE /\ at[u].pc = "idle" /\ icmptab \in [IcmpSlots -> IcmpEntries] /\ o \in IcmpEntries
      /\ shared' = (shared \/ Inside("icmp", s) # {})
      /\ UNCHANGED <<udptab, ipoqueue, at, prmsg, waiting, lost>>
      /\ pool \in SemaphoreOf(Procs) /\ prmsg \subseteq Users /\ waiting \subseteq Users
  BY IdlePosition DEF icmp_release, NetInv, NetTypes
<1>1. shared' \in BOOLEAN /\ (~ shared' => ~ shared /\ \A v \in Users : In(at, v, "icmp", s) => v = u)
  BY <1>0, NotesSharing DEF NetInv
<1>2. ~ shared' => u \notin waiting
  BY <1>0, <1>1, IdleDoesNotWait
<1>3. at' = [at EXCEPT ![u] = IDLE]
  BY <1>0, Stands DEF NetInv
<1>4. \/ /\ read \subseteq o.icqueue /\ Cardinality(read) = n
         /\ pool' = signaln(pool, n)
         /\ icmptab' = [icmptab EXCEPT ![s].icstate = "FREE", ![s].icqueue = {}, ![s].iccount = 0]
         /\ UNCHANGED fault
      \/ fault' = "icmp" /\ UNCHANGED <<icmptab, pool>>
  BY DEF icmp_release
<1> HIDE DEF read
<1>5. CASE fault' = "icmp" /\ UNCHANGED <<icmptab, pool>>
  <2>1. prmsg' \subseteq Users /\ waiting' \subseteq Users /\ fault' \in {"udp", "icmp"} /\ at[u].pc \in {"idle", "udp", "icmp"}
    BY <1>0, <1>5
  <2>2. UNCHANGED <<udptab, icmptab, ipoqueue, pool, lost>>
    BY <1>0, <1>5
  <2> QED BY <1>1, <1>3, <2>1, <2>2, Faulty
<1>6. CASE /\ read \subseteq o.icqueue /\ Cardinality(read) = n
           /\ pool' = signaln(pool, n)
           /\ icmptab' = [icmptab EXCEPT ![s].icstate = "FREE", ![s].icqueue = {}, ![s].iccount = 0]
           /\ UNCHANGED fault
  <2>1. icmptab' = [icmptab EXCEPT ![s] = e]
    BY <1>0, <1>6
  <2>2. IsFiniteSet(o.icqueue) /\ Cardinality(o.icqueue) <= n
    BY DEF NetInv, Freed
  <2>3. n \in Nat /\ o.ictail \in Nat
    BY <1>0 DEF IcmpEntries
  <2>4. Cardinality(o.icqueue) = n
    <3>1. Cardinality(o.icqueue) <= Cardinality(read) /\ read \subseteq o.icqueue
      BY <1>6, <2>2
    <3>2. Cardinality(read) = Cardinality(o.icqueue)
      BY <2>2, <3>1, SameSize
    <3> QED BY <1>6, <3>2
  <2>5. pool' \in SemaphoreOf(Procs) /\ pool'.count = pool.count + n /\ Waiting(pool') \subseteq Waiting(pool)
    BY <1>0, <1>6, <2>3, SignalledN
  <2>6. IsFiniteSet({}) /\ Cardinality({}) = 0
    BY FS_EmptySet
  <2>7. Cardinality(icmptab[s].icqueue) = n
    BY <2>4
  <2>8. ICMP_QSIZ > 0 => o.ictail < ICMP_QSIZ
    BY DEF NetInv, IcmpQueues
  <2> HIDE DEF o, n
  <2>9. /\ e \in IcmpEntries /\ e.icqueue = {} /\ e.icstate = "FREE" /\ e.iccount = 0 /\ e.ictail = o.ictail
    BY ONLY <1>0 DEF IcmpEntries, States
  <2> HIDE DEF e
  <2>10. pool'.count + Cardinality(e.icqueue) = pool.count + Cardinality(icmptab[s].icqueue)
    <3> DEFINE c == pool.count
    <3>1. c \in Int
      BY <1>0 DEF SemaphoreOf
    <3> HIDE DEF c
    <3>2. (c + n) + 0 = c + n
      BY ONLY <2>3, <3>1
    <3> QED BY <2>5, <2>6, <2>7, <2>9, <3>2 DEF c
  <2>11. UNCHANGED <<udptab, ipoqueue, lost, fault>>
    BY <1>0, <1>6
  <2>12. /\ IDLE \in {IDLE, [pc |-> "icmp", slot |-> s, pkt |-> NOPKT]}
         /\ e.icstate # "RECV" /\ IDLE.pc # "icmp" /\ prmsg' \subseteq prmsg
         /\ waiting' \subseteq waiting \cup {u}
         /\ ~ shared' => u \notin waiting'
    BY <1>0, <1>2, <2>9, IdlePosition
  <2>13. IsFiniteSet(e.icqueue) /\ Cardinality(e.icqueue) <= e.iccount
    BY <2>6, <2>9
  <2>14. ICMP_QSIZ > 0 => e.ictail < ICMP_QSIZ /\ \A i \in e.icqueue : i < ICMP_QSIZ
    BY <2>8, <2>9
  <2>15. pool' \in SemaphoreOf(Procs) /\ Waiting(pool') \subseteq Waiting(pool) /\ at[u].pc = "idle"
    BY <1>0, <2>5
  <2> QED BY ONLY NetAssumption, NetInv, fault = "none", u \in Users, s \in IcmpSlots,
                  <1>1, <1>3, <2>1, <2>9, <2>10, <2>11, <2>12, <2>13, <2>14, <2>15, IcmpCalls
<1> QED BY <1>4, <1>5, <1>6

LEMMA IcmpRegisterKeeps ==
  ASSUME NetAssumption, NetInv, fault = "none", NEW u \in Users, NEW remip \in Pings, icmp_register(u, remip)
  PROVE  NetInv'
<1> DEFINE free == {s \in IcmpSlots : icmptab[s].icstate = "FREE"}
           s == Min(free)
           e == [icstate |-> "USED", icremip |-> remip, icpid |-> {},
                 ichead |-> 0, ictail |-> 0, iccount |-> 0, icqueue |-> {}]
<1>0. /\ at[u] = IDLE /\ at[u].pc = "idle" /\ icmptab \in [IcmpSlots -> IcmpEntries] /\ free # {}
      /\ icmptab' = [icmptab EXCEPT ![s] = e]
      /\ shared' = (shared \/ Inside("icmp", s) # {})
      /\ UNCHANGED <<udptab, ipoqueue, pool, at, prmsg, waiting, lost, fault>>
      /\ pool \in SemaphoreOf(Procs)
  BY IdlePosition DEF icmp_register, NetInv, NetTypes
<1>1. free \subseteq Nat
  BY DEF IcmpSlots
<1>2. s \in free
  BY <1>0, <1>1, LeastIsMember
<1>3. s \in IcmpSlots /\ icmptab[s].icstate = "FREE" /\ icmptab[s].icqueue = {}
  BY <1>2 DEF NetInv, Freed
<1> HIDE DEF free, s
<1>4. /\ e \in IcmpEntries /\ e.icqueue = {} /\ e.icstate = "USED"
      /\ e.ichead = 0 /\ e.ictail = 0 /\ e.iccount = 0
  <2>1. remip \in Nat
    BY DEF NetAssumption
  <2> QED BY <2>1 DEF IcmpEntries, States
<1> HIDE DEF e
<1>5. shared' \in BOOLEAN /\ (~ shared' => ~ shared /\ \A v \in Users : In(at, v, "icmp", s) => v = u)
  BY <1>0, NotesSharing DEF NetInv
<1>6. ~ shared' => u \notin waiting
  BY <1>0, <1>5, IdleDoesNotWait
<1>7. pool'.count + Cardinality(e.icqueue) = pool.count + Cardinality(icmptab[s].icqueue) /\ pool' \in SemaphoreOf(Procs)
      /\ Waiting(pool') \subseteq Waiting(pool)
  BY <1>0, <1>3, <1>4
<1>8. at' = [at EXCEPT ![u] = IDLE]
  BY <1>0, Stands DEF NetInv
<1>9. UNCHANGED <<udptab, ipoqueue, lost, fault>>
  BY <1>0
<1>10. /\ IDLE.pc # "icmp" /\ IDLE \in {IDLE, [pc |-> "icmp", slot |-> s, pkt |-> NOPKT]}
       /\ e.icstate # "RECV" /\ e.icstate # "FREE" /\ prmsg' \subseteq prmsg /\ waiting' \subseteq waiting \cup {u}
       /\ ~ shared' => u \notin waiting'
  BY <1>0, <1>4, <1>6, IdlePosition
<1>11. IsFiniteSet(e.icqueue) /\ Cardinality(e.icqueue) <= e.iccount
  <2>1. IsFiniteSet({}) /\ Cardinality({}) = 0
    BY FS_EmptySet
  <2> QED BY <1>4, <2>1
<1>12. ICMP_QSIZ > 0 => e.ictail < ICMP_QSIZ /\ \A i \in e.icqueue : i < ICMP_QSIZ
  BY <1>4
<1>13. ~ shared' /\ Fits /\ e.icstate # "FREE" => QueueOf(e)
  <2> SUFFICES ASSUME Fits PROVE QueueOf(e)
    OBVIOUS
  <2>1. ICMP_QSIZ \in Nat /\ 0 < ICMP_QSIZ
    BY DEF NetAssumption, Fits
  <2> QED BY <1>4, <2>1 DEF QueueOf
<1>14. UNCHANGED <<udptab, ipoqueue, lost, fault>> /\ at[u].pc = "idle"
  BY <1>0
<1> QED BY ONLY NetAssumption, NetInv, fault = "none", u \in Users,
                <1>3, <1>4, <1>5, <1>7, <1>8, <1>10, <1>11, <1>12, <1>13, <1>14, <1>0, IcmpCalls

\* The time is over: one process less waits.
LEMMA ClockWakesKeeps ==
  ASSUME NetInv, NEW u \in Users, ClockWakes(u)
  PROVE  NetInv'
<1>0. /\ NetTypes /\ Places /\ Freed /\ IcmpQueues /\ Balance /\ Receivers
      /\ waiting' \subseteq waiting
      /\ UNCHANGED <<udptab, icmptab, ipoqueue, pool, at, prmsg, lost, shared, fault>>
  BY DEF NetInv, ClockWakes
<1>1. NetTypes' /\ Places' /\ Freed' /\ IcmpQueues' /\ Balance'
  BY <1>0 DEF NetTypes, Places, Freed, IcmpQueues, Balance
<1>2. Receivers'
  BY <1>0 DEF Receivers, Alone, Known, UdpAwaits, IcmpAwaits, Told, InOrder
<1> QED BY <1>1, <1>2 DEF NetInv

-----------------------------------------------------------------------------
(***************************************************************************)
(* Every step keeps the invariant.                                         *)
(***************************************************************************)
\* Calls of programs.
LEMMA CallKeeps ==
  ASSUME NetAssumption, NetInv, fault = "none", NEW u \in Users, Call(u)
  PROVE  NetInv'
<1>1. ASSUME NEW pkt \in Outputs, icmp_send(u, pkt) \/ \E s \in UdpSlots : udp_sendto(u, s, pkt) PROVE NetInv'
  BY <1>1, SendsKeep
<1>2. ASSUME NEW s \in UdpSlots, udp_send(u, s) PROVE NetInv'
  BY <1>2, SendsKeep
<1>3. ASSUME NEW s \in UdpSlots, udp_recv(u, s) \/ udp_recvaddr(u, s) PROVE NetInv'
  BY <1>3, UdpRecvKeeps DEF udp_recvaddr
<1>4. ASSUME NEW s \in UdpSlots, udp_release(u, s) PROVE NetInv'
  BY <1>4, UdpReleaseKeeps
<1>5. ASSUME NEW s \in IcmpSlots, icmp_recv(u, s) PROVE NetInv'
  BY <1>5, IcmpRecvKeeps
<1>6. ASSUME NEW s \in IcmpSlots, icmp_release(u, s) PROVE NetInv'
  BY <1>6, IcmpReleaseKeeps
<1>7. ASSUME NEW end \in Endpoints, udp_register(u, end) PROVE NetInv'
  BY <1>7, UdpRegisterKeeps
<1>8. ASSUME NEW remip \in Pings, icmp_register(u, remip) PROVE NetInv'
  BY <1>8, IcmpRegisterKeeps
<1> QED BY <1>1, <1>2, <1>3, <1>4, <1>5, <1>6, <1>7, <1>8 DEF Call

\* What processes do by themselves.
LEMMA GoesOnKeeps ==
  ASSUME NetAssumption, NetInv, fault = "none", NEW x \in Procs, GoesOn(x)
  PROVE  NetInv'
<1>1. CASE AnswersPing(x)
  BY <1>1, AnswersPingKeeps
<1>2. CASE ip_out(x)
  BY <1>2, IpOutKeeps
<1>3. CASE x \in Users /\ ip_send(x)
  BY <1>3, IpSendKeeps
<1>4. CASE x \in Users /\ ClockWakes(x)
  BY <1>4, ClockWakesKeeps
<1>5. CASE x \in Users /\ UdpRecvReturn(x)
  BY <1>5, UdpRecvReturnKeeps
<1>6. CASE x \in Users /\ IcmpRecvReturn(x)
  BY <1>6, IcmpRecvReturnKeeps
<1> QED BY <1>1, <1>2, <1>3, <1>4, <1>5, <1>6 DEF GoesOn

LEMMA NetNext == ASSUME NetAssumption, NetInv, [Next]_vars PROVE NetInv'
<1>1. CASE UNCHANGED vars
  <2>1. UNCHANGED <<udptab, icmptab, ipoqueue, pool, at, prmsg, waiting, lost, shared, fault>>
    BY <1>1 DEF vars
  <2>2. NetTypes /\ Places /\ Freed /\ IcmpQueues /\ Balance /\ Receivers
    BY DEF NetInv
  <2>3. NetTypes' /\ Places' /\ Freed' /\ IcmpQueues' /\ Balance'
    BY <2>1, <2>2 DEF NetTypes, Places, Freed, IcmpQueues, Balance
  <2>4. Receivers'
    BY <2>1, <2>2 DEF Receivers, Alone, Known, UdpAwaits, IcmpAwaits, Told, InOrder
  <2> QED BY <2>3, <2>4 DEF NetInv
<1>2. CASE fault = "none" /\ ipout
  BY <1>2, IpoutKeeps
<1>3. CASE Others(Netin)
  <2>1. fault = "none" /\ (NetinStarts \/ \E pkt \in Arrivals : netin(pkt))
    BY <1>3 DEF Others, Netin
  <2>2. \A pkt \in Arrivals : pkt \in Packets
    BY DEF NetAssumption
  <2> QED BY <2>1, <2>2, NetinStartsKeeps, NetinKeeps
<1>4. CASE Others(\E u \in Users : Call(u))
  <2>1. fault = "none" /\ \E u \in Users : Call(u)
    BY <1>4 DEF Others
  <2> QED BY <2>1, CallKeeps
<1>5. CASE Others(\E x \in Procs : GoesOn(x))
  <2>1. fault = "none" /\ \E x \in Procs : GoesOn(x)
    BY <1>5 DEF Others
  <2> QED BY <2>1, GoesOnKeeps
<1>6. CASE Stops
  BY <1>1, <1>6 DEF Stops
<1> QED BY <1>1, <1>2, <1>3, <1>4, <1>5, <1>6 DEF Next

-----------------------------------------------------------------------------
(***************************************************************************)
(* What follows from the invariant.                                        *)
(***************************************************************************)
\* What processes hold, and one buffer more for each that waits for one.
LEMMA HeldAndWaiting ==
  ASSUME NetAssumption, NetTypes, Places
  PROVE  HeldBy(Procs) \in Nat /\ HeldBy(Procs) + Len(pool.queue) = AtSum(at)
<1> DEFINE W == Waiting(pool)
           H == [x \in Procs |-> 1 .. Held(x)]
           N == [x \in Procs |-> 1 .. Needs(at[x].pc)]
           V == {<<x, Needs(at[x].pc)>> : x \in W}
           A == Tok(Procs, H)
           B == Tok(Procs, N)
<1>1. /\ IsFiniteSet(W) /\ Cardinality(W) = Len(pool.queue) /\ W \subseteq Procs
  BY WaitingCounted DEF NetTypes
<1>2. \A x \in W : at[x].pc \in {"read", "send", "mkpkt"}
  BY DEF Places
<1>3. \A x \in Procs : Needs(at[x].pc) \in Nat /\ Held(x) \in Nat
  BY DEF Needs, Held
<1>4. \A x \in W : 1 <= Needs(at[x].pc) /\ Held(x) = Needs(at[x].pc) - 1
  BY <1>2, WaitsIff DEF Needs, Held
<1>5. \A x \in Procs \ W : Held(x) = Needs(at[x].pc)
  <2> SUFFICES ASSUME NEW x \in Procs, x \notin W PROVE Held(x) = Needs(at[x].pc)
    OBVIOUS
  <2>1. ~ Waits(pool, x)
    BY WaitsIff
  <2> QED BY <2>1 DEF Needs, Held
<1>6. HeldBy(Procs) = Cardinality(A)
  BY DEF HeldBy, Tok
<1>7. AtSum(at) = Cardinality(B)
  BY DEF AtSum
<1>8. IsFiniteSet(A) /\ Cardinality(A) \in Nat
  <2>1. \A x \in Procs : IsFiniteSet(H[x])
    <3>1. \A n \in Nat : IsFiniteSet(1 .. n)
      BY FS_Interval
    <3> QED BY <1>3, <3>1
  <2>2. IsFiniteSet(Procs)
    BY Finitely
  <2> HIDE DEF H
  <2> QED BY <2>1, <2>2, TokensFinite
<1> HIDE DEF W
<1>9. \A x \in Procs : N[x] = IF x \in W THEN H[x] \cup {Needs(at[x].pc)} ELSE H[x]
  <2> SUFFICES ASSUME NEW x \in Procs PROVE N[x] = IF x \in W THEN H[x] \cup {Needs(at[x].pc)} ELSE H[x]
    OBVIOUS
  <2> DEFINE n == Needs(at[x].pc)
             h == Held(x)
  <2>1. n \in Nat /\ h \in Nat /\ N[x] = 1 .. n /\ H[x] = 1 .. h
    BY <1>3
  <2>2. x \in W => 1 <= n /\ h = n - 1
    BY <1>4
  <2>3. x \notin W => h = n
    BY <1>5
  <2> HIDE DEF n, h, H, N
  <2>4. CASE x \in W
    <3>1. 1 .. n = (1 .. h) \cup {n}
      BY ONLY <2>1, <2>2, <2>4
    <3> QED BY <2>1, <2>4, <3>1 DEF n
  <2>5. CASE x \notin W
    BY <2>1, <2>3, <2>5
  <2> QED BY <2>4, <2>5
<1>10. \A x \in W : Needs(at[x].pc) \notin H[x]
  <2> SUFFICES ASSUME NEW x \in W PROVE Needs(at[x].pc) \notin H[x]
    OBVIOUS
  <2> DEFINE n == Needs(at[x].pc)
             h == Held(x)
  <2>1. x \in Procs /\ n \in Nat /\ h = n - 1 /\ H[x] = 1 .. h
    BY <1>1, <1>3, <1>4
  <2> HIDE DEF n, h, H
  <2>2. n \notin 1 .. h
    BY ONLY <2>1
  <2> QED BY <2>1, <2>2 DEF n
<1> HIDE DEF H, N
<1>11. B = A \cup V
  <2>1. ASSUME NEW t \in B PROVE t \in A \cup V
    <3>1. PICK x \in Procs : t \in {x} \X N[x]
      BY DEF Tok
    <3>2. t = <<x, t[2]>> /\ t[2] \in N[x]
      BY <3>1
    <3>3. t[2] \in H[x] \/ (x \in W /\ t[2] = Needs(at[x].pc))
      BY <1>9, <3>2
    <3>4. CASE t[2] \in H[x]
      BY <3>2, <3>4 DEF Tok
    <3>5. CASE x \in W /\ t[2] = Needs(at[x].pc)
      BY <3>2, <3>5
    <3> QED BY <3>3, <3>4, <3>5
  <2>2. ASSUME NEW t \in A PROVE t \in B
    <3>1. PICK x \in Procs : t \in {x} \X H[x]
      BY DEF Tok
    <3>2. t \in {x} \X N[x]
      BY <1>9, <3>1
    <3> QED BY <3>2 DEF Tok
  <2>3. ASSUME NEW t \in V PROVE t \in B
    <3>1. PICK x \in W : t = <<x, Needs(at[x].pc)>>
      OBVIOUS
    <3>2. x \in Procs /\ t \in {x} \X N[x]
      BY <1>1, <1>9, <3>1
    <3> QED BY <3>2 DEF Tok
  <2> QED BY <2>1, <2>2, <2>3
<1>12. A \cap V = {}
  <2> SUFFICES ASSUME NEW t \in A, t \in V PROVE FALSE
    OBVIOUS
  <2>1. PICK x \in Procs : t \in {x} \X H[x]
    BY DEF Tok
  <2>2. PICK y \in W : t = <<y, Needs(at[y].pc)>>
    OBVIOUS
  <2>3. x = y /\ Needs(at[y].pc) \in H[y]
    BY <2>1, <2>2
  <2> QED BY <1>10, <2>3
<1>13. IsFiniteSet(V) /\ Cardinality(V) = Cardinality(W)
  <2> DEFINE f == [x \in W |-> <<x, Needs(at[x].pc)>>]
  <2>1. f \in Bijection(W, V)
    BY DEF Bijection, Injection, Surjection, IsInjective
  <2>2. ExistsBijection(W, V)
    BY <2>1 DEF ExistsBijection
  <2> HIDE DEF V
  <2> QED BY <1>1, <2>2, FS_Bijection
<1>14. Cardinality(A \cup V) = Cardinality(A) + Cardinality(V) - Cardinality(A \cap V)
  BY <1>8, <1>13, FS_Union
<1>15. Cardinality(A \cap V) = 0
  BY <1>12, FS_EmptySet
<1>16. Cardinality(W) \in Nat
  BY <1>1, FS_CardinalityType
<1> DEFINE a == Cardinality(A)
           b == Cardinality(B)
           w == Cardinality(W)
           i == Cardinality(A \cap V)
<1>17. a \in Nat /\ w \in Nat /\ i = 0 /\ b = a + w - i
  <2>1. a \in Nat /\ w \in Nat /\ i = 0
    BY <1>8, <1>15, <1>16
  <2>2. b = a + w - i
    BY <1>11, <1>13, <1>14
  <2> QED BY <2>1, <2>2
<1> HIDE DEF a, b, w, i
<1>18. a + w = b
  BY ONLY <1>17
<1> QED BY <1>1, <1>6, <1>7, <1>17, <1>18 DEF a, b, w

\* What is in the queues of the endpoints.
LEMMA QueuedIsSum == Queued = UdpSum(udptab) + IcmpSum(icmptab)
<1>1. UNION {{s} \X (1 .. Len(udptab[s].udqueue)) : s \in UdpSlots}
        = Tok(UdpSlots, [s \in UdpSlots |-> 1 .. Len(udptab[s].udqueue)])
  BY DEF Tok
<1>2. UNION {{s} \X icmptab[s].icqueue : s \in IcmpSlots} = Tok(IcmpSlots, [s \in IcmpSlots |-> icmptab[s].icqueue])
  BY DEF Tok
<1> QED BY <1>1, <1>2 DEF Queued, UdpSum, IcmpSum

LEMMA InvIsSound == ASSUME NetAssumption, NetInv PROVE StackSound
<1>0. NetTypes /\ Places /\ Freed /\ Balance /\ Receivers
  BY DEF NetInv
<1>1. BuffersConserved
  <2> SUFFICES ASSUME fault = "none"
               PROVE  pool.count + Len(pool.queue) + Queued + InProgress + lost = nbufs
    BY DEF BuffersConserved
  <2>1. pool.count + UdpSum(udptab) + IcmpSum(icmptab) + AtSum(at) + Len(ipoqueue) + lost = nbufs
    BY <1>0 DEF Balance
  <2>2. UdpSum(udptab) \in Nat /\ IcmpSum(icmptab) \in Nat /\ AtSum(at) \in Nat
    BY <1>0, SumsAreNumbers
  <2>3. HeldBy(Procs) \in Nat /\ HeldBy(Procs) + Len(pool.queue) = AtSum(at)
    BY <1>0, HeldAndWaiting
  <2>4. pool.count \in Int /\ Len(pool.queue) \in Nat /\ Len(ipoqueue) \in Nat /\ lost \in Nat
    BY <1>0 DEF NetTypes, SemaphoreOf
  <2>5. Queued = UdpSum(udptab) + IcmpSum(icmptab) /\ InProgress = HeldBy(Procs) + Len(ipoqueue)
    BY QueuedIsSum DEF InProgress
  <2> DEFINE a == UdpSum(udptab)
             b == IcmpSum(icmptab)
             c == AtSum(at)
             d == HeldBy(Procs)
             e == Len(pool.queue)
             f == Len(ipoqueue)
             g == pool.count
             l == lost
             n == nbufs
             q == Queued
             i == InProgress
  <2>6. /\ g + a + b + c + f + l = n /\ d + e = c /\ q = a + b /\ i = d + f
        /\ a \in Nat /\ b \in Nat /\ c \in Nat /\ d \in Nat /\ e \in Nat /\ f \in Nat /\ g \in Int /\ l \in Nat
    BY <2>1, <2>2, <2>3, <2>4, <2>5
  <2> HIDE DEF a, b, c, d, e, f, g, l, n, q, i
  <2>7. g + e + q + i + l = n
    BY ONLY <2>6
  <2> QED BY <2>7 DEF g, e, q, i, l, n
<1>2. WakesReceiver
  <2> SUFFICES ASSUME fault = "none", ~ shared
               PROVE  /\ \A u \in waiting :
                           IF at[u].pc = "udp" THEN udptab[at[u].slot].udstate = "RECV" /\ udptab[at[u].slot].udpid = {u}
                           ELSE icmptab[at[u].slot].icstate = "RECV" /\ icmptab[at[u].slot].icpid = {u}
                      /\ \A s \in UdpSlots : udptab[s].udstate = "RECV" =>
                           udptab[s].udqueue = <<>> /\ udptab[s].udpid \subseteq Inside("udp", s)
    BY DEF WakesReceiver
  <2>1. Known /\ UdpAwaits
    BY <1>0 DEF Receivers
  <2>2. \A u \in waiting :
          IF at[u].pc = "udp" THEN udptab[at[u].slot].udstate = "RECV" /\ udptab[at[u].slot].udpid = {u}
          ELSE icmptab[at[u].slot].icstate = "RECV" /\ icmptab[at[u].slot].icpid = {u}
    BY <2>1 DEF Known
  <2>3. ASSUME NEW s \in UdpSlots, udptab[s].udstate = "RECV"
        PROVE  udptab[s].udqueue = <<>> /\ udptab[s].udpid \subseteq Inside("udp", s)
    <3>1. udptab[s] \in UdpEntries
      BY <1>0 DEF NetTypes
    <3>2. udptab[s].udpid \subseteq Users
      BY <3>1 DEF UdpEntries
    <3>3. udptab[s].udqueue = <<>> /\ \A u \in udptab[s].udpid : In(at, u, "udp", s)
      BY <2>1, <2>3 DEF UdpAwaits
    <3> QED BY <3>2, <3>3 DEF Inside, In
  <2> QED BY <2>2, <2>3
<1> QED BY <1>1, <1>2 DEF StackSound

-----------------------------------------------------------------------------
(***************************************************************************)
(* What makes a process take a packet from a place where there is none.    *)
(***************************************************************************)
\* In a queue that ICMP_QSIZ replies or fewer have come to, the first place holds
\* a packet, and the places that icmp_release reads are those that hold one.
LEMMA InPlace ==
  ASSUME NetAssumption, Fits, NEW o \in IcmpEntries, QueueOf(o), o.ichead + o.iccount <= ICMP_QSIZ
  PROVE  /\ o.iccount # 0 => o.ichead \in o.icqueue
         /\ LET read == {(o.ichead + k) % ICMP_SLOTS : k \in 0 .. (o.iccount - 1)}
            IN  read \subseteq o.icqueue /\ Cardinality(read) = o.iccount
<1> DEFINE h == o.ichead
           c == o.iccount
           read == {(h + k) % ICMP_SLOTS : k \in 0 .. (c - 1)}
<1>1. h \in Nat /\ c \in Nat /\ ICMP_QSIZ \in Nat /\ ICMP_SLOTS \in Nat /\ ICMP_QSIZ < ICMP_SLOTS /\ h + c <= ICMP_QSIZ
  BY DEF IcmpEntries, NetAssumption, Fits
<1>2. o.icqueue = h .. (h + c - 1)
  BY DEF QueueOf
<1> DEFINE f == [k \in 0 .. (c - 1) |-> h + k]
<1> HIDE DEF h, c
<1>3. c # 0 => h \in h .. (h + c - 1)
  BY ONLY <1>1
<1>4. \A k \in 0 .. (c - 1) : (h + k) % ICMP_SLOTS = h + k
  <2> SUFFICES ASSUME NEW k \in 0 .. (c - 1) PROVE (h + k) % ICMP_SLOTS = h + k
    OBVIOUS
  <2>1. h + k \in 0 .. (ICMP_SLOTS - 1) /\ ICMP_SLOTS \in Nat /\ 0 < ICMP_SLOTS
    BY ONLY <1>1, k \in 0 .. (c - 1)
  <2> QED BY <2>1
<1>5. read = {h + k : k \in 0 .. (c - 1)}
  BY <1>4
<1>6. \A k \in 0 .. (c - 1) : h + k \in h .. (h + c - 1)
  BY ONLY <1>1
<1>7. read \subseteq o.icqueue
  BY <1>2, <1>5, <1>6
<1>8. \A j, k \in 0 .. (c - 1) : h + j = h + k => j = k
  BY ONLY <1>1
<1>9. f \in Bijection(0 .. (c - 1), read)
  BY <1>5, <1>8 DEF Bijection, Injection, Surjection, IsInjective
<1>10. IsFiniteSet(0 .. (c - 1)) /\ Cardinality(0 .. (c - 1)) = c
  <2>1. 0 \in Int /\ c - 1 \in Int
    BY ONLY <1>1
  <2>2. IsFiniteSet(0 .. (c - 1)) /\ Cardinality(0 .. (c - 1)) = IF 0 > c - 1 THEN 0 ELSE (c - 1) - 0 + 1
    BY <2>1, FS_Interval
  <2>3. (IF 0 > c - 1 THEN 0 ELSE (c - 1) - 0 + 1) = c
    BY ONLY <1>1
  <2> QED BY <2>2, <2>3
<1> HIDE DEF f, read
<1>11. Cardinality(read) = c
  <2>1. ExistsBijection(0 .. (c - 1), read)
    BY <1>9 DEF ExistsBijection
  <2>2. IsFiniteSet(read) /\ Cardinality(read) = Cardinality(0 .. (c - 1))
    BY <1>10, <2>1, FS_Bijection
  <2> QED BY <1>10, <2>2
<1> QED BY <1>2, <1>3, <1>7, <1>11 DEF h, c, read

\* More replies than places.
LEMMA TooMany ==
  ASSUME NetAssumption, NetInv, NEW s \in IcmpSlots, ~ (icmptab[s].ichead + icmptab[s].iccount <= ICMP_QSIZ)
  PROVE  icmptab[s].ichead + icmptab[s].iccount > ICMP_QSIZ
<1>1. icmptab[s].ichead \in Nat /\ icmptab[s].iccount \in Nat /\ ICMP_QSIZ \in Nat
  BY DEF NetInv, NetTypes, IcmpEntries, NetAssumption
<1> DEFINE h == icmptab[s].ichead
           c == icmptab[s].iccount
<1>2. h \in Nat /\ c \in Nat /\ ~ (h + c <= ICMP_QSIZ)
  BY <1>1
<1> HIDE DEF h, c
<1>3. h + c > ICMP_QSIZ
  BY ONLY <1>1, <1>2
<1> QED BY <1>3 DEF h, c

\* The pointer that icmp_recv reads.
LEMMA StaleHead ==
  ASSUME NetAssumption, Fits, NetInv, fault = "none", ~ shared, NEW u \in Users, NEW s \in IcmpSlots,
         icmptab[s].icstate # "FREE", icmptab[s].iccount # 0, IcmpDequeue(u, s), fault' # fault
  PROVE  fault' = "icmp" /\ icmptab[s].ichead + icmptab[s].iccount > ICMP_QSIZ
<1>1. icmptab[s].ichead \notin icmptab[s].icqueue /\ fault' = "icmp"
  BY DEF IcmpDequeue
<1>2. icmptab[s] \in IcmpEntries
  BY DEF NetInv, NetTypes
<1>3. QueueOf(icmptab[s])
  BY DEF NetInv, Receivers, InOrder
<1>4. ~ (icmptab[s].ichead + icmptab[s].iccount <= ICMP_QSIZ)
  <2> DEFINE o == icmptab[s]
  <2>1. o \in IcmpEntries /\ QueueOf(o) /\ o.iccount # 0 /\ o.ichead \notin o.icqueue
    BY <1>1, <1>2, <1>3
  <2> HIDE DEF o
  <2>2. ~ (o.ichead + o.iccount <= ICMP_QSIZ)
    BY <2>1, InPlace
  <2> QED BY <2>2 DEF o
<1> QED BY <1>1, <1>4, TooMany

LEMMA FaultNext == ASSUME NetAssumption, Fits, NetInv, [Next]_vars PROVE FaultStep
<1> SUFFICES ASSUME fault' # fault, ~ shared'
             PROVE  fault' = "icmp" /\ \E s \in IcmpSlots : icmptab[s].ichead + icmptab[s].iccount > ICMP_QSIZ
  BY DEF FaultStep
<1>0. NetTypes
  BY DEF NetInv
<1>1. fault = "none" /\ \E u \in Users : \/ \E s \in UdpSlots : udp_recv(u, s)
                                         \/ \E s \in IcmpSlots : icmp_recv(u, s) \/ icmp_release(u, s)
                                         \/ UdpRecvReturn(u) \/ IcmpRecvReturn(u)
  <2>1. ~ UNCHANGED vars
    BY DEF vars
  <2>2. ~ ipout /\ ~ Netin
    BY DEF ipout, Netin, NetinStarts, netin
  <2>3. ASSUME NEW u \in Users, Call(u)
        PROVE  \/ \E s \in UdpSlots : udp_recv(u, s)
               \/ \E s \in IcmpSlots : icmp_recv(u, s) \/ icmp_release(u, s)
    <3>1. ~ \E pkt : Makes(u, pkt)
      BY DEF Makes
    <3>2. ~ \E pkt \in Outputs : icmp_send(u, pkt) \/ \E s \in UdpSlots : udp_sendto(u, s, pkt)
      BY <3>1 DEF icmp_send, udp_sendto
    <3>3. ~ \E s \in UdpSlots : udp_send(u, s) \/ udp_release(u, s)
      BY <3>1 DEF udp_send, udp_release
    <3>4. ~ (\E end \in Endpoints : udp_register(u, end)) /\ ~ \E remip \in Pings : icmp_register(u, remip)
      BY DEF udp_register, icmp_register
    <3> QED BY <2>3, <3>2, <3>3, <3>4 DEF Call, udp_recvaddr
  <2>4. ASSUME NEW x \in Procs, GoesOn(x)
        PROVE  x \in Users /\ (UdpRecvReturn(x) \/ IcmpRecvReturn(x))
    <3>1. ~ AnswersPing(x) /\ ~ ip_out(x) /\ ~ ip_send(x) /\ ~ ClockWakes(x)
      BY DEF AnswersPing, ip_out, ip_send, ClockWakes
    <3> QED BY <2>4, <3>1 DEF GoesOn
  <2>5. fault = "none" /\ ((\E u \in Users : Call(u)) \/ \E x \in Procs : GoesOn(x))
    BY <2>1, <2>2 DEF Next, Others, Stops
  <2> QED BY <2>3, <2>4, <2>5
<1>2. PICK u \in Users : \/ \E s \in UdpSlots : udp_recv(u, s)
                         \/ \E s \in IcmpSlots : icmp_recv(u, s) \/ icmp_release(u, s)
                         \/ UdpRecvReturn(u) \/ IcmpRecvReturn(u)
  BY <1>1
<1>3. CASE \E s \in UdpSlots : udp_recv(u, s)
  BY <1>3 DEF udp_recv, UdpDequeue
<1>4. CASE UdpRecvReturn(u)
  <2>1. at[u].pc = "udp" /\ u \in prmsg /\ udptab[at[u].slot].udqueue = <<>> /\ ~ shared
    BY <1>4 DEF UdpRecvReturn, UdpDequeue, TimedOut
  <2> QED BY <1>1, <2>1 DEF NetInv, Receivers, Told
<1>5. CASE \E s \in IcmpSlots : icmp_recv(u, s)
  <2>1. PICK s \in IcmpSlots : icmp_recv(u, s)
    BY <1>5
  <2>2. ~ shared
    BY <1>0, <2>1 DEF icmp_recv, NetTypes
  <2>3. icmptab[s].icstate # "FREE" /\ icmptab[s].iccount # 0 /\ IcmpDequeue(u, s)
    BY <2>1 DEF icmp_recv
  <2> QED BY <1>1, <2>2, <2>3, StaleHead
<1>6. CASE IcmpRecvReturn(u)
  <2>1. at[u].pc = "icmp" /\ u \in prmsg /\ IcmpDequeue(u, at[u].slot) /\ ~ shared
    BY <1>6 DEF IcmpRecvReturn, TimedOut
  <2>2. at[u].slot \in IcmpSlots
    BY <2>1 DEF NetInv, Places, Procs
  <2>3. icmptab[at[u].slot].iccount # 0 /\ icmptab[at[u].slot].icstate # "FREE"
    BY <1>1, <2>1 DEF NetInv, Receivers, Told, InOrder
  <2> QED BY <1>1, <2>1, <2>2, <2>3, StaleHead
<1>7. CASE \E s \in IcmpSlots : icmp_release(u, s)
  <2>1. PICK s \in IcmpSlots : icmp_release(u, s)
    BY <1>7
  <2> DEFINE o == icmptab[s]
             read == {(o.ichead + k) % ICMP_SLOTS : k \in 0 .. (o.iccount - 1)}
  <2>2. ~ shared
    BY <1>0, <2>1 DEF icmp_release, NetTypes
  <2>3. o.icstate = "USED" /\ ~ (read \subseteq o.icqueue /\ Cardinality(read) = o.iccount) /\ fault' = "icmp"
    BY <2>1 DEF icmp_release
  <2>4. o \in IcmpEntries /\ QueueOf(o)
    BY <1>0, <1>1, <2>2, <2>3 DEF NetInv, NetTypes, Receivers, InOrder
  <2>5. ~ (o.ichead + o.iccount <= ICMP_QSIZ)
    <3>1. o \in IcmpEntries /\ QueueOf(o) /\ ~ (read \subseteq o.icqueue /\ Cardinality(read) = o.iccount)
      BY <2>3, <2>4
    <3> HIDE DEF o
    <3> QED BY <3>1, InPlace
  <2> QED BY <2>3, <2>5, TooMany
<1> QED BY <1>2, <1>3, <1>4, <1>5, <1>6, <1>7

-----------------------------------------------------------------------------
\* udp_recv and udp_release never read a packet that is not there while no two
\* processes use one endpoint, nor do icmp_recv and icmp_release before more than
\* ICMP_QSIZ replies have come: the length at which ichead wraps is of no
\* consequence before, as long as there are more slots than places (icmp.h).
THEOREM FaultCauses == ASSUME NetAssumption, Fits PROVE Spec => [][FaultStep]_vars
<1>1. Init => NetInv
  BY NetInit
<1>2. NetInv /\ [Next]_vars => NetInv'
  BY NetNext
<1>3. NetInv /\ [Next]_vars => [FaultStep]_vars
  BY FaultNext
<1> QED BY <1>1, <1>2, <1>3, PTL DEF Spec
=============================================================================
