---------------------------- MODULE KernelProofs ----------------------------
(***************************************************************************)
(* Theorems about the services of MC_Kernel, for all values of its         *)
(* constants: ports, buffer pools, marks and the Ethernet driver.  Each    *)
(* has an invariant that says how its semaphores' counts follow from its   *)
(* data and from the processes that are in the middle of a call, waiting   *)
(* or released.                                                            *)
(***************************************************************************)
EXTENDS MC_Kernel, Semaphore, FiniteSetTheorems, SequenceTheorems, WellFoundedInduction, TLAPS

-----------------------------------------------------------------------------
(***************************************************************************)
(* Semaphores: each process waits once, and only while the count is        *)
(* negative.                                                               *)
(***************************************************************************)
\* Who waits (Waits) is who is in the queue.
LEMMA WaitsIff == \A s, p : Waits(s, p) <=> p \in Waiting(s)
BY DEF Waits, Waiting

\* semcreate: a count and nobody who waits.
LEMMA Created ==
  ASSUME NEW S, NEW n \in Nat
  PROVE  semcreate(n) \in SemaphoreOf(S) /\ Waiting(semcreate(n)) = {}
BY DEF semcreate, SemaphoreOf, Waiting

\* wait counts down, and queues the caller if the count was not positive.
LEMMA Waited ==
  ASSUME NEW S, NEW s \in SemaphoreOf(S), NEW p \in S, p \notin Waiting(s)
  PROVE  /\ wait(s, p) \in SemaphoreOf(S)
         /\ wait(s, p).count = s.count - 1
         /\ Blocks(s) => /\ Waiting(wait(s, p)) = Waiting(s) \cup {p}
                         /\ Len(wait(s, p).queue) = Len(s.queue) + 1
         /\ ~ Blocks(s) => wait(s, p).queue = s.queue /\ s.queue = <<>>
<1>1. /\ s.count \in Int /\ s.queue \in Seq(S)
      /\ \A j, k \in 1 .. Len(s.queue) : s.queue[j] = s.queue[k] => j = k
      /\ IF s.count < 0 THEN Len(s.queue) = - s.count ELSE s.queue = <<>>
  BY DEF SemaphoreOf
<1>2. wait(s, p).count = s.count - 1 /\ wait(s, p) \in [count : Int, queue : Seq(S)]
  BY <1>1 DEF wait
<1>3. CASE Blocks(s)
  <2> DEFINE q == Append(s.queue, p)
  <2>1. wait(s, p).queue = q /\ s.count - 1 < 0
    BY <1>1, <1>3 DEF wait, Blocks
  <2>2. /\ q \in Seq(S) /\ Len(q) = Len(s.queue) + 1 /\ DOMAIN q = 1 .. (Len(s.queue) + 1)
        /\ \A k \in 1 .. Len(s.queue) : q[k] = s.queue[k]
        /\ q[Len(s.queue) + 1] = p
    BY <1>1
  <2>3. \A k \in 1 .. Len(s.queue) : s.queue[k] # p
    BY <1>1 DEF Waiting
  <2> HIDE DEF q
  <2>4. \A j, k \in DOMAIN q : q[j] = q[k] => j = k
    BY <1>1, <2>2, <2>3, SMTT(30)
  <2>5. {q[k] : k \in DOMAIN q} = {s.queue[k] : k \in DOMAIN s.queue} \cup {p}
    <3>1. DOMAIN s.queue = 1 .. Len(s.queue) /\ Len(s.queue) \in Nat
      BY <1>1
    <3>2. \A k \in DOMAIN q : k \in DOMAIN s.queue \/ k = Len(s.queue) + 1
      BY <2>2, <3>1
    <3>3. Len(s.queue) + 1 \in DOMAIN q /\ \A k \in DOMAIN s.queue : k \in DOMAIN q
      BY <2>2, <3>1
    <3> QED BY <2>2, <3>1, <3>2, <3>3
  <2>6. Len(q) = - (s.count - 1)
    BY <1>1, <1>3, <2>2 DEF Blocks
  <2>7. wait(s, p) \in SemaphoreOf(S)
    BY <1>2, <2>1, <2>4, <2>6 DEF SemaphoreOf
  <2> QED BY <1>2, <1>3, <2>1, <2>2, <2>5, <2>7, SMTT(30) DEF Waiting
<1>4. CASE ~ Blocks(s)
  BY <1>1, <1>2, <1>4 DEF wait, Blocks, SemaphoreOf, Waiting
<1> QED BY <1>3, <1>4

\* signal counts up, and releases the first of those that wait.
LEMMA Signalled ==
  ASSUME NEW S, NEW s \in SemaphoreOf(S)
  PROVE  /\ signal(s) \in SemaphoreOf(S)
         /\ signal(s).count = s.count + 1
         /\ s.count < 0 => \E p \in S : /\ p \in Waiting(s) /\ Waiting(signal(s)) = Waiting(s) \ {p}
                                        /\ Len(signal(s).queue) = Len(s.queue) - 1
         /\ s.count >= 0 => signal(s).queue = s.queue /\ s.queue = <<>>
<1>1. /\ s.count \in Int /\ s.queue \in Seq(S)
      /\ \A j, k \in 1 .. Len(s.queue) : s.queue[j] = s.queue[k] => j = k
      /\ IF s.count < 0 THEN Len(s.queue) = - s.count ELSE s.queue = <<>>
  BY DEF SemaphoreOf
<1>2. CASE s.count < 0
  <2> DEFINE q == Tail(s.queue)
  <2>1. signal(s) = [count |-> s.count + 1, queue |-> q]
    BY <1>2 DEF signal
  <2>2. /\ q \in Seq(S) /\ Len(q) = Len(s.queue) - 1 /\ DOMAIN q = 1 .. (Len(s.queue) - 1)
        /\ \A k \in 1 .. (Len(s.queue) - 1) : q[k] = s.queue[k + 1]
        /\ Len(s.queue) \in Nat \ {0} /\ s.queue[1] \in S
    BY <1>1, <1>2
  <2> HIDE DEF q
  <2>3. \A j, k \in DOMAIN q : q[j] = q[k] => j = k
    BY <1>1, <2>2
  <2>4. {q[k] : k \in DOMAIN q} = {s.queue[k] : k \in DOMAIN s.queue} \ {s.queue[1]}
    <3>1. \A k \in 2 .. Len(s.queue) : k - 1 \in DOMAIN q /\ q[k - 1] = s.queue[k]
      BY <1>1, <2>2
    <3>2. \A k \in DOMAIN q : k + 1 \in 1 .. Len(s.queue) /\ q[k] = s.queue[k + 1] /\ q[k] # s.queue[1]
      BY <1>1, <2>2
    <3>3. \A k \in 1 .. Len(s.queue) : k = 1 \/ k \in 2 .. Len(s.queue)
      BY <2>2
    <3>4. DOMAIN s.queue = 1 .. Len(s.queue)
      BY <1>1
    <3> QED BY <3>1, <3>2, <3>3, <3>4
  <2>5. s.queue[1] \in Waiting(s) /\ Waiting(signal(s)) = Waiting(s) \ {s.queue[1]}
    <3>1. 1 \in DOMAIN s.queue
      BY <1>1, <2>2
    <3> QED BY <2>1, <2>4, <3>1 DEF Waiting
  <2>6. IF s.count + 1 < 0 THEN Len(q) = - (s.count + 1) ELSE q = <<>>
    BY <1>1, <1>2, <2>2
  <2>7. signal(s) \in SemaphoreOf(S)
    <3>1. /\ signal(s).count = s.count + 1 /\ signal(s).queue = q
          /\ signal(s) \in [count : Int, queue : Seq(S)]
      BY <1>1, <2>1, <2>2
    <3> QED BY <2>3, <2>6, <3>1 DEF SemaphoreOf
  <2> QED BY <1>1, <1>2, <2>1, <2>2, <2>5, <2>7, SMTT(30)
<1>3. CASE s.count >= 0
  BY <1>1, <1>3 DEF signal, SemaphoreOf, Waiting
<1> QED BY <1>1, <1>2, <1>3

\* Those that wait and those that a signal released make up all that are inside.
LEMMA InsideCounted ==
  ASSUME NEW S, NEW s \in SemaphoreOf(S), NEW T, IsFiniteSet(T), Waiting(s) \subseteq T
  PROVE  /\ Len(s.queue) \in Nat /\ Cardinality(T) \in Nat
         /\ Cardinality(T \ Waiting(s)) \in Nat
         /\ Cardinality(T) = Len(s.queue) + Cardinality(T \ Waiting(s))
<1> DEFINE n == Len(s.queue)
           f == [k \in 1 .. n |-> s.queue[k]]
<1>1. /\ n \in Nat /\ DOMAIN s.queue = 1 .. n
      /\ \A j, k \in 1 .. n : s.queue[j] = s.queue[k] => j = k
  BY DEF SemaphoreOf
<1>2. Waiting(s) = {s.queue[k] : k \in 1 .. n}
  BY <1>1 DEF Waiting
<1>3. f \in Bijection(1 .. n, Waiting(s))
  BY <1>1, <1>2 DEF Bijection, Injection, Surjection, IsInjective
<1>4. IsFiniteSet(Waiting(s)) /\ Cardinality(Waiting(s)) = n
  BY <1>1, <1>3, FS_CountingElements, FS_Subset DEF ExistsBijection
<1>5. T \cap Waiting(s) = Waiting(s)
  OBVIOUS
<1>6. Cardinality(T \ Waiting(s)) = Cardinality(T) - n
  <2>1. Cardinality(T \ Waiting(s)) = Cardinality(T) - Cardinality(T \cap Waiting(s))
    BY FS_Difference
  <2> QED BY <1>4, <1>5, <2>1
<1>7. Cardinality(T) \in Nat /\ Cardinality(T \ Waiting(s)) \in Nat
  BY FS_CardinalityType, FS_Difference
<1> HIDE DEF n
<1>8. Cardinality(T) = n + Cardinality(T \ Waiting(s))
  BY <1>1, <1>6, <1>7
<1> QED BY <1>1, <1>7, <1>8 DEF n

-----------------------------------------------------------------------------
(***************************************************************************)
(* Buffer pools: a buffer is on its pool's list or held by one process,    *)
(* and a pool's count is what its list holds less those in getbuf.         *)
(***************************************************************************)
\* The operators of Semaphore, through the instance of BufPool.
LEMMA BufPoolSemaphores ==
  /\ \A s, p : /\ B!Waits(s, p) <=> p \in Waiting(s)
               /\ B!wait(s, p) = wait(s, p)
  /\ \A s : B!signal(s) = signal(s) /\ (B!Blocks(s) <=> Blocks(s))
  /\ \A n : B!semcreate(n) = semcreate(n)
BY DEF B!Waits, Waiting, B!wait, wait, B!signal, signal, B!Blocks, Blocks, B!semcreate, semcreate

\* The instance counts as FiniteSets does.
LEMMA BufPoolCounts == \A T : B!Cardinality(T) = Cardinality(T)
BY DEF B!Cardinality, Cardinality, B!IsFiniteSet, IsFiniteSet

PoolTyping ==
  /\ nbpools \in 0 .. NBPOOLS
  /\ bpsem \in [B!Pools -> SemaphoreOf(Procs)]
  /\ bpnext \in [B!Pools -> Seq(B!Buffers)]
  /\ word \in [B!Buffers -> B!Pools \cup {B!LINK}]
  /\ bpheld \in [Procs -> SUBSET B!Buffers]
  /\ bpat \in [Procs -> B!Pools \cup {B!USER}]

\* A process waits in getbuf for the pool on whose semaphore it is.
PoolWaiters == \A i \in B!Pools : \A p \in Waiting(bpsem[i]) : bpat[p] = i

\* The list of a pool: its own buffers, each once.
OwnList(i) == \A j, k \in DOMAIN bpnext[i] :
                /\ bpnext[i][j][1] = i
                /\ bpnext[i][j] = bpnext[i][k] => j = k

\* A buffer in use names its pool in its first word and is on no list.
HeldBuffers ==
  /\ \A p \in Procs : \A b \in bpheld[p] :
       /\ word[b] = b[1] /\ b[1] < nbpools
       /\ \A k \in DOMAIN bpnext[b[1]] : bpnext[b[1]][k] # b
  /\ \A p, q \in Procs : p # q => bpheld[p] \cap bpheld[q] = {}

\* Nobody uses a pool that mkbufpool has not made.
NotMade == \A i \in B!Pools : i >= nbpools =>
             bpnext[i] = <<>> /\ bpsem[i] = semcreate(0) /\ \A p \in Procs : bpat[p] # i

\* The semaphore counts the buffers that no process inside getbuf is to have.
InGetbuf(i) == {p \in Procs : bpat[p] = i}
Balanced(i) == bpsem[i].count = Len(bpnext[i]) - Cardinality(InGetbuf(i))

PoolInv ==
  /\ PoolTyping /\ PoolWaiters /\ HeldBuffers /\ NotMade
  /\ \A i \in B!Pools : OwnList(i) /\ Balanced(i)

\* The numbers of pools and of their buffers (bufpool.h).
LEMMA PoolFacts ==
  /\ B!Pools = 0 .. (NBPOOLS - 1) /\ NBPOOLS \in Nat /\ B!USER = -1 /\ B!LINK = -1
  /\ \A n \in Numbufs : \A k \in 1 .. n, i \in B!Pools : <<i, k>> \in B!Buffers
  /\ \A b \in B!Buffers : b[1] \in B!Pools
<1> DEFINE max == CHOOSE n \in Numbufs : \A m \in Numbufs : m <= n
<1>1. max \in Numbufs /\ \A m \in Numbufs : m <= max
  BY KernelAssumption
<1>2. B!Buffers = B!Pools \X (1 .. max)
  BY DEF B!Buffers
<1> HIDE DEF max
<1>3. ASSUME NEW n \in Numbufs PROVE 1 .. n \subseteq 1 .. max
  <2>1. n \in Nat /\ max \in Nat /\ n <= max
    BY <1>1, KernelAssumption
  <2> QED BY <2>1
<1> QED BY <1>2, <1>3, KernelAssumption DEF B!Pools, B!USER, B!LINK

\* Finitely many processes are in getbuf.
LEMMA GetbufCounted == \A i : IsFiniteSet(InGetbuf(i)) /\ Cardinality(InGetbuf(i)) \in Nat
<1> SUFFICES ASSUME NEW i PROVE IsFiniteSet(InGetbuf(i)) /\ Cardinality(InGetbuf(i)) \in Nat
  OBVIOUS
<1>1. InGetbuf(i) \in SUBSET Procs
  BY DEF InGetbuf
<1> QED BY <1>1, FS_Subset, FS_CardinalityType, KernelAssumption

\* bufinit: no pool, and no buffer anywhere.
LEMMA BufPoolInit == B!Init => PoolInv
<1> SUFFICES ASSUME B!Init PROVE PoolInv
  OBVIOUS
<1> USE DEF B!Init, B!bufinit
<1>1. \A i \in B!Pools : bpsem[i] = semcreate(0) /\ bpsem[i] \in SemaphoreOf(Procs) /\ Waiting(bpsem[i]) = {}
  BY BufPoolSemaphores, Created
<1>2. PoolTyping
  BY <1>1, PoolFacts DEF PoolTyping
<1>3. ASSUME NEW i \in B!Pools
      PROVE  OwnList(i) /\ Balanced(i) /\ bpnext[i] = <<>> /\ bpsem[i] = semcreate(0)
  <2>1. InGetbuf(i) = {}
    BY PoolFacts DEF InGetbuf
  <2>2. bpnext[i] = <<>> /\ Len(bpnext[i]) = 0
    OBVIOUS
  <2>3. bpsem[i].count = 0 /\ Len(bpsem[i].queue) = 0
    BY <1>1 DEF semcreate
  <2>4. Cardinality(InGetbuf(i)) = 0
    BY <2>1, FS_EmptySet
  <2>5. OwnList(i)
    BY <2>2 DEF OwnList
  <2> QED BY <1>1, <2>2, <2>3, <2>4, <2>5 DEF Balanced
<1>4. PoolWaiters
  BY <1>1 DEF PoolWaiters
<1>5. HeldBuffers
  BY DEF HeldBuffers
<1>6. NotMade
  BY <1>3, PoolFacts DEF NotMade
<1> QED BY <1>2, <1>3, <1>4, <1>5, <1>6 DEF PoolInv

\* What the steps of BufPool do to the buffers of the pools that are made.
SameBuffers == \A i \in B!Pools : i < nbpools => (B!Listed(i) \cup B!Used(i))' = B!Listed(i) \cup B!Used(i)

\* mkbufpool strings the new buffers together, in order.
LEMMA Mkbufpool ==
  ASSUME PoolInv, NEW n \in Numbufs, B!mkbufpool(n)
  PROVE  PoolInv' /\ SameBuffers
<1> USE DEF B!mkbufpool
<1>0. n \in Nat /\ nbpools \in B!Pools
  BY KernelAssumption, PoolFacts DEF PoolInv, PoolTyping
<1> DEFINE new == [k \in 1 .. n |-> <<nbpools, k>>]
<1>1. new \in Seq(B!Buffers) /\ Len(new) = n /\ DOMAIN new = 1 .. n
  BY <1>0, PoolFacts
<1>2. /\ bpnext' \in [B!Pools -> Seq(B!Buffers)] /\ bpnext'[nbpools] = new
      /\ bpsem' \in [B!Pools -> SemaphoreOf(Procs)] /\ bpsem'[nbpools] = semcreate(n)
      /\ \A i \in B!Pools \ {nbpools} : bpnext'[i] = bpnext[i] /\ bpsem'[i] = bpsem[i]
      /\ Waiting(bpsem'[nbpools]) = {}
  BY <1>0, <1>1, BufPoolSemaphores, Created DEF PoolInv, PoolTyping
<1>3. PoolTyping'
  BY <1>0, <1>2, PoolFacts DEF PoolInv, PoolTyping
<1>4. PoolWaiters' /\ NotMade'
  BY <1>0, <1>2, PoolFacts DEF PoolInv, PoolTyping, PoolWaiters, NotMade
<1>5. HeldBuffers'
  BY <1>0, <1>2, PoolFacts DEF PoolInv, PoolTyping, HeldBuffers
<1>6. ASSUME NEW i \in B!Pools
      PROVE  OwnList(i)' /\ Balanced(i)'
  <2>1. CASE i = nbpools
    <3>1. OwnList(i)'
      BY <1>0, <1>1, <1>2, <2>1 DEF OwnList
    <3>2. InGetbuf(i)' = {}
      BY <1>0, <2>1, PoolFacts DEF PoolInv, PoolTyping, NotMade, InGetbuf
    <3>3. Cardinality(InGetbuf(i)') = 0
      BY <3>2, FS_EmptySet
    <3>4. bpsem'[i].count = n
      BY <1>2, <2>1 DEF semcreate
    <3> QED BY <1>0, <1>1, <1>2, <2>1, <3>1, <3>3, <3>4 DEF Balanced
  <2>2. CASE i # nbpools
    <3>1. InGetbuf(i)' = InGetbuf(i)
      BY DEF InGetbuf
    <3> QED BY <1>2, <2>2, <3>1 DEF PoolInv, OwnList, Balanced
  <2> QED BY <2>1, <2>2
<1>7. SameBuffers
  BY <1>0, <1>2 DEF SameBuffers, B!Listed, B!Used
<1> QED BY <1>3, <1>4, <1>5, <1>6, <1>7 DEF PoolInv

\* getbuf after its wait: as long as the semaphore counts the buffers there is
\* one to take.
LEMMA Unlinked ==
  ASSUME PoolInv, NEW p \in Procs, NEW i \in B!Pools, i < nbpools,
         NEW sem \in SemaphoreOf(Procs), B!Unlink(p, i, sem),
         sem.queue = bpsem[i].queue, p \notin Waiting(bpsem[i]),
         \/ bpat[p] = B!USER /\ sem.count = bpsem[i].count - 1
         \/ bpat[p] = i /\ sem.count = bpsem[i].count
  PROVE  PoolInv' /\ SameBuffers
<1> DEFINE b == Head(bpnext[i])
           rest == Tail(bpnext[i])
<1>1. /\ bpnext[i] \in Seq(B!Buffers) /\ bpnext[i] # <<>> /\ i \in 0 .. (NBPOOLS - 1)
      /\ Len(bpnext[i]) \in Nat \ {0} /\ DOMAIN bpnext[i] = 1 .. Len(bpnext[i])
      /\ 1 \in DOMAIN bpnext[i]
  BY PoolFacts DEF PoolInv, PoolTyping, B!Unlink
<1>2. /\ b = bpnext[i][1] /\ b \in B!Buffers /\ b[1] = i
      /\ rest \in Seq(B!Buffers) /\ Len(rest) = Len(bpnext[i]) - 1
      /\ DOMAIN rest = 1 .. (Len(bpnext[i]) - 1)
      /\ \A k \in DOMAIN rest : k + 1 \in DOMAIN bpnext[i] /\ rest[k] = bpnext[i][k + 1] /\ rest[k] # b
  BY <1>1 DEF PoolInv, OwnList
<1>3. /\ bpnext' = [bpnext EXCEPT ![i] = rest] /\ word' = [word EXCEPT ![b] = i]
      /\ bpheld' = [bpheld EXCEPT ![p] = @ \cup {b}]
      /\ bpsem' = [bpsem EXCEPT ![i] = sem] /\ bpat' = [bpat EXCEPT ![p] = B!USER]
      /\ nbpools' = nbpools
  BY DEF B!Unlink
<1> HIDE DEF b, rest
<1>4. /\ nbpools \in 0 .. NBPOOLS /\ bpsem \in [B!Pools -> SemaphoreOf(Procs)]
      /\ bpnext \in [B!Pools -> Seq(B!Buffers)] /\ word \in [B!Buffers -> B!Pools \cup {B!LINK}]
      /\ bpheld \in [Procs -> SUBSET B!Buffers] /\ bpat \in [Procs -> B!Pools \cup {B!USER}]
  BY DEF PoolInv, PoolTyping
<1>5. /\ bpnext'[i] = rest /\ bpsem'[i] = sem /\ word'[b] = i
      /\ \A j \in B!Pools \ {i} : bpnext'[j] = bpnext[j] /\ bpsem'[j] = bpsem[j]
      /\ \A c \in B!Buffers \ {b} : word'[c] = word[c]
      /\ bpheld'[p] = bpheld[p] \cup {b} /\ bpat'[p] = B!USER
      /\ \A q \in Procs \ {p} : bpheld'[q] = bpheld[q] /\ bpat'[q] = bpat[q]
  BY <1>2, <1>3, <1>4
<1>6. PoolTyping'
  BY <1>2, <1>3, <1>4 DEF PoolTyping
<1>7. \A q \in Procs : b \notin bpheld[q]
  BY <1>1, <1>2 DEF PoolInv, HeldBuffers
<1>8. HeldBuffers'
  <2>1. ASSUME NEW q \in Procs, NEW c \in bpheld'[q]
        PROVE  /\ word'[c] = c[1] /\ c[1] < nbpools'
               /\ \A k \in DOMAIN bpnext'[c[1]] : bpnext'[c[1]][k] # c
    <3>1. CASE c = b
      BY <1>2, <1>3, <1>5, <3>1
    <3>2. CASE c # b
      <4>1. c \in bpheld[q] /\ c \in B!Buffers /\ c[1] \in B!Pools
        BY <1>4, <1>5, <3>2, PoolFacts, SMTT(30)
      <4>2. /\ word[c] = c[1] /\ c[1] < nbpools
            /\ \A k \in DOMAIN bpnext[c[1]] : bpnext[c[1]][k] # c
        BY <4>1 DEF PoolInv, HeldBuffers
      <4> QED BY <1>2, <1>3, <1>5, <3>2, <4>1, <4>2
    <3> QED BY <3>1, <3>2
  <2>2. \A q, r \in Procs : q # r => bpheld'[q] \cap bpheld'[r] = {}
    BY <1>5, <1>7 DEF PoolInv, HeldBuffers
  <2> QED BY <2>1, <2>2 DEF HeldBuffers
<1>9. Waiting(bpsem'[i]) = Waiting(bpsem[i]) /\ \A j \in B!Pools : Waiting(bpsem'[j]) = Waiting(bpsem[j])
  BY <1>5 DEF Waiting
<1>10. PoolWaiters'
  <2>1. ASSUME NEW j \in B!Pools, NEW q \in Waiting(bpsem[j]) PROVE q # p
    BY <2>1, PoolFacts DEF PoolInv, PoolWaiters
  <2>2. \A j \in B!Pools : Waiting(bpsem[j]) \subseteq Procs
    BY <1>4 DEF SemaphoreOf, Waiting
  <2> QED BY <1>5, <1>9, <2>1, <2>2 DEF PoolWaiters, PoolInv
<1>11. NotMade'
  BY <1>1, <1>3, <1>5, PoolFacts DEF NotMade, PoolInv
<1>12. ASSUME NEW j \in B!Pools PROVE OwnList(j)' /\ Balanced(j)'
  <2>1. OwnList(j) /\ Balanced(j)
    BY DEF PoolInv
  <2>2. CASE j # i
    <3>1. InGetbuf(j)' = InGetbuf(j)
      BY <1>1, <1>5, <2>2, PoolFacts DEF InGetbuf
    <3>2. bpnext'[j] = bpnext[j] /\ bpsem'[j] = bpsem[j]
      BY <1>5, <2>2
    <3> QED BY <2>1, <3>1, <3>2 DEF OwnList, Balanced
  <2>3. CASE j = i
    <3>1. OwnList(i)'
      BY <1>2, <1>5, <2>1, <2>3 DEF OwnList
    <3>2. InGetbuf(i)' = InGetbuf(i) \ {p}
      BY <1>1, <1>5, PoolFacts DEF InGetbuf
    <3> DEFINE L == Len(bpnext[i])
               C == Cardinality(InGetbuf(i))
    <3>3. bpsem[i].count = L - C /\ L \in Nat /\ C \in Nat
      BY <1>1, <1>4, <2>1, <2>3, GetbufCounted DEF Balanced
    <3>4. bpsem'[i].count = sem.count /\ Len(bpnext'[i]) = L - 1
      BY <1>1, <1>2, <1>5
    <3>5. sem.count = (L - 1) - Cardinality(InGetbuf(i) \ {p})
      <4>1. Cardinality(InGetbuf(i) \ {p}) = IF p \in InGetbuf(i) THEN C - 1 ELSE C
        BY GetbufCounted, FS_RemoveElement
      <4>2. p \in InGetbuf(i) <=> bpat[p] = i
        BY DEF InGetbuf
      <4>3. i # B!USER
        BY <1>1, PoolFacts
      <4> HIDE DEF L, C
      <4> QED BY <3>3, <4>1, <4>2, <4>3
    <3> HIDE DEF L, C
    <3>6. Balanced(i)'
      BY <3>2, <3>4, <3>5 DEF Balanced
    <3> QED BY <2>3, <3>1, <3>6
  <2> QED BY <2>2, <2>3
<1>13. SameBuffers
  <2>1. ASSUME NEW j \in B!Pools
        PROVE  (B!Listed(j) \cup B!Used(j))' = B!Listed(j) \cup B!Used(j)
    <3>1. \A c : c \in B!Used(j)' <=> (c \in B!Used(j) \/ (c = b /\ j = i))
      <4>1. \A c : c \in B!Used(j) <=> (c[1] = j /\ \E q \in Procs : c \in bpheld[q])
        BY DEF B!Used
      <4>2. \A c : c \in B!Used(j)' <=> (c[1] = j /\ \E q \in Procs : c \in bpheld'[q])
        BY DEF B!Used
      <4> QED BY <1>2, <1>5, <4>1, <4>2
    <3>2. CASE j # i
      BY <1>5, <3>1, <3>2 DEF B!Listed
    <3>3. CASE j = i
      <4>1. B!Listed(i) = B!Listed(i)' \cup {b}
        <5>1. \A k \in DOMAIN bpnext[i] : k = 1 \/ (k - 1 \in DOMAIN rest /\ rest[k - 1] = bpnext[i][k])
          BY <1>1, <1>2
        <5>2. B!Listed(i) = {bpnext[i][k] : k \in DOMAIN bpnext[i]}
          BY DEF B!Listed, B!Range
        <5>3. B!Listed(i)' = {rest[k] : k \in DOMAIN rest}
          BY <1>5 DEF B!Listed, B!Range
        <5>4. \A c \in {bpnext[i][k] : k \in DOMAIN bpnext[i]} : c = b \/ c \in {rest[k] : k \in DOMAIN rest}
          BY <1>2, <5>1
        <5>5. {rest[k] : k \in DOMAIN rest} \cup {b} \subseteq {bpnext[i][k] : k \in DOMAIN bpnext[i]}
          BY <1>1, <1>2, SMTT(30)
        <5> QED BY <5>2, <5>3, <5>4, <5>5
      <4>2. B!Used(i)' = B!Used(i) \cup {b}
        BY <3>1, <3>3
      <4> QED BY <3>3, <4>1, <4>2
    <3> QED BY <3>2, <3>3
  <2> QED BY <2>1 DEF SameBuffers
<1> QED BY <1>6, <1>8, <1>10, <1>11, <1>12, <1>13 DEF PoolInv

\* getbuf waits, or takes the first buffer at once.
LEMMA Getbuf ==
  ASSUME PoolInv, NEW p \in Procs, NEW i \in B!Pools, B!getbuf(p, i)
  PROVE  PoolInv' /\ SameBuffers
<1>1. /\ bpat[p] = B!USER /\ i < nbpools /\ bpsem[i] \in SemaphoreOf(Procs)
      /\ p \notin Waiting(bpsem[i]) /\ i # B!USER
  BY PoolFacts DEF B!getbuf, PoolInv, PoolTyping, PoolWaiters
<1> DEFINE sem == wait(bpsem[i], p)
<1>2. /\ sem \in SemaphoreOf(Procs) /\ sem.count = bpsem[i].count - 1
      /\ Blocks(bpsem[i]) => Waiting(sem) = Waiting(bpsem[i]) \cup {p}
      /\ ~ Blocks(bpsem[i]) => sem.queue = bpsem[i].queue
  BY <1>1, Waited
<1> HIDE DEF sem
<1>3. CASE ~ Blocks(bpsem[i])
  <2>1. B!Unlink(p, i, sem)
    BY <1>3, BufPoolSemaphores DEF B!getbuf, sem
  <2> QED BY <1>1, <1>2, <1>3, <2>1, Unlinked
<1>4. CASE Blocks(bpsem[i])
  <2>1. /\ bpsem' = [bpsem EXCEPT ![i] = sem] /\ bpat' = [bpat EXCEPT ![p] = i]
        /\ UNCHANGED <<nbpools, bpnext, word, bpheld>>
    BY <1>4, BufPoolSemaphores DEF B!getbuf, sem
  <2>2. /\ bpsem \in [B!Pools -> SemaphoreOf(Procs)] /\ bpat \in [Procs -> B!Pools \cup {B!USER}]
    BY DEF PoolInv, PoolTyping
  <2>3. /\ bpsem'[i] = sem /\ \A j \in B!Pools \ {i} : bpsem'[j] = bpsem[j]
        /\ bpat'[p] = i /\ \A q \in Procs \ {p} : bpat'[q] = bpat[q]
    BY <2>1, <2>2
  <2>4. PoolTyping'
    BY <1>2, <2>1, <2>2 DEF PoolInv, PoolTyping
  <2>5. PoolWaiters'
    <3>1. \A j \in B!Pools : Waiting(bpsem[j]) \subseteq Procs
      BY <2>2 DEF SemaphoreOf, Waiting
    <3> QED BY <1>1, <1>2, <1>4, <2>3, <3>1, PoolFacts DEF PoolInv, PoolWaiters
  <2>6. HeldBuffers' /\ NotMade'
    <3>1. HeldBuffers'
      BY <2>1 DEF PoolInv, HeldBuffers
    <3>2. ASSUME NEW j \in B!Pools, j >= nbpools
          PROVE  bpnext'[j] = <<>> /\ bpsem'[j] = semcreate(0) /\ \A q \in Procs : bpat'[q] # j
      <4>1. j # i /\ bpnext[j] = <<>> /\ bpsem[j] = semcreate(0) /\ \A q \in Procs : bpat[q] # j
        BY <1>1, <3>2, PoolFacts DEF PoolInv, PoolTyping, NotMade
      <4> QED BY <2>1, <2>3, <4>1
    <3> QED BY <2>1, <3>1, <3>2 DEF NotMade
  <2>7. ASSUME NEW j \in B!Pools PROVE OwnList(j)' /\ Balanced(j)'
    <3>1. OwnList(j)' /\ Balanced(j)
      BY <2>1 DEF PoolInv, OwnList
    <3>2. CASE j # i
      <4>1. InGetbuf(j)' = InGetbuf(j)
        BY <1>1, <2>3, <3>2, PoolFacts DEF InGetbuf
      <4> QED BY <2>1, <2>3, <3>1, <3>2, <4>1 DEF Balanced
    <3>3. CASE j = i
      <4>1. InGetbuf(i)' = InGetbuf(i) \cup {p} /\ p \notin InGetbuf(i)
        BY <1>1, <2>3 DEF InGetbuf
      <4> DEFINE C == Cardinality(InGetbuf(i))
                 L == Len(bpnext[i])
      <4>2. Cardinality(InGetbuf(i)') = C + 1 /\ C \in Nat
        BY <4>1, GetbufCounted, FS_AddElement
      <4>3. bpsem[i].count = L - C /\ L \in Nat /\ Len(bpnext'[i]) = L /\ bpsem'[i].count = bpsem[i].count - 1
        BY <1>2, <2>1, <2>3, <3>1, <3>3 DEF Balanced, PoolInv, PoolTyping
      <4> HIDE DEF C, L
      <4>4. bpsem'[i].count = L - (C + 1)
        BY <4>2, <4>3
      <4> QED BY <3>1, <3>3, <4>2, <4>3, <4>4 DEF Balanced
    <3> QED BY <3>2, <3>3
  <2>8. SameBuffers
    BY <2>1 DEF SameBuffers, B!Listed, B!Used
  <2> QED BY <2>4, <2>5, <2>6, <2>7, <2>8 DEF PoolInv
<1> QED BY <1>3, <1>4

\* getbuf goes on when freebuf has released the caller.
LEMMA GetbufReturns ==
  ASSUME PoolInv, NEW p \in Procs, B!GetbufReturn(p)
  PROVE  PoolInv' /\ SameBuffers
<1>1. /\ bpat[p] \in B!Pools /\ bpat[p] < nbpools /\ p \notin Waiting(bpsem[bpat[p]])
      /\ B!Unlink(p, bpat[p], bpsem[bpat[p]]) /\ bpsem[bpat[p]] \in SemaphoreOf(Procs)
  <2>1. bpat[p] \in B!Pools /\ nbpools \in 0 .. NBPOOLS
    BY DEF B!GetbufReturn, PoolInv, PoolTyping
  <2>2. bpat[p] < nbpools
    BY <2>1, PoolFacts DEF PoolInv, NotMade
  <2> QED BY <2>1, <2>2, BufPoolSemaphores DEF B!GetbufReturn, PoolInv, PoolTyping
<1> QED BY <1>1, Unlinked

\* freebuf puts a buffer first on the list of the pool it belongs to.
LEMMA Freebuf ==
  ASSUME PoolInv, NEW p \in Procs, NEW q \in Procs, NEW b \in bpheld[q], B!freebuf(p, q, b)
  PROVE  PoolInv' /\ SameBuffers
<1> DEFINE i == b[1]
           next == <<b>> \o bpnext[i]
           sem == signal(bpsem[i])
<1>1. /\ nbpools \in 0 .. NBPOOLS /\ bpsem \in [B!Pools -> SemaphoreOf(Procs)]
      /\ bpnext \in [B!Pools -> Seq(B!Buffers)] /\ word \in [B!Buffers -> B!Pools \cup {B!LINK}]
      /\ bpheld \in [Procs -> SUBSET B!Buffers] /\ bpat \in [Procs -> B!Pools \cup {B!USER}]
  BY DEF PoolInv, PoolTyping
<1>2. /\ b \in B!Buffers /\ word[b] = i /\ i < nbpools /\ i \in B!Pools
      /\ \A k \in DOMAIN bpnext[i] : bpnext[i][k] # b
      /\ \A r \in Procs \ {q} : b \notin bpheld[r]
  BY <1>1, PoolFacts DEF PoolInv, HeldBuffers
<1>3. /\ bpnext[i] \in Seq(B!Buffers) /\ Len(bpnext[i]) \in Nat
      /\ next \in Seq(B!Buffers) /\ Len(next) = Len(bpnext[i]) + 1
      /\ DOMAIN next = 1 .. (Len(bpnext[i]) + 1) /\ DOMAIN bpnext[i] = 1 .. Len(bpnext[i])
      /\ next[1] = b /\ \A k \in DOMAIN bpnext[i] : next[k + 1] = bpnext[i][k]
  BY <1>1, <1>2
<1>4. /\ sem \in SemaphoreOf(Procs) /\ sem.count = bpsem[i].count + 1
      /\ Waiting(sem) \subseteq Waiting(bpsem[i])
  <2>1. bpsem[i] \in SemaphoreOf(Procs)
    BY <1>1, <1>2
  <2>2. bpsem[i].count \in Int
    BY <2>1 DEF SemaphoreOf
  <2>3. CASE bpsem[i].count < 0
    BY <2>1, <2>3, Signalled
  <2>4. CASE bpsem[i].count >= 0
    BY <2>1, <2>4, Signalled DEF Waiting
  <2> QED BY <2>2, <2>3, <2>4
<1>5. /\ bpnext' = [bpnext EXCEPT ![i] = next] /\ word' = [word EXCEPT ![b] = B!LINK]
      /\ bpsem' = [bpsem EXCEPT ![i] = sem] /\ bpheld' = [bpheld EXCEPT ![q] = @ \ {b}]
      /\ nbpools' = nbpools /\ bpat' = bpat
  BY <1>2, BufPoolSemaphores DEF B!freebuf, B!Freed
<1> HIDE DEF next, sem
<1>6. /\ bpnext'[i] = next /\ bpsem'[i] = sem
      /\ \A j \in B!Pools \ {i} : bpnext'[j] = bpnext[j] /\ bpsem'[j] = bpsem[j]
      /\ \A c \in B!Buffers \ {b} : word'[c] = word[c]
      /\ bpheld'[q] = bpheld[q] \ {b} /\ \A r \in Procs \ {q} : bpheld'[r] = bpheld[r]
  BY <1>1, <1>2, <1>5
<1>7. PoolTyping'
  BY <1>1, <1>2, <1>3, <1>4, <1>5 DEF PoolTyping
<1>8. PoolWaiters'
  BY <1>4, <1>5, <1>6 DEF PoolInv, PoolWaiters
<1>9. HeldBuffers'
  <2>1. ASSUME NEW r \in Procs, NEW c \in bpheld'[r]
        PROVE  /\ word'[c] = c[1] /\ c[1] < nbpools'
               /\ \A k \in DOMAIN bpnext'[c[1]] : bpnext'[c[1]][k] # c
    <3>1. c \in bpheld[r] /\ c # b /\ c \in B!Buffers /\ c[1] \in B!Pools
      BY <1>1, <1>2, <1>6, PoolFacts
    <3>2. /\ word[c] = c[1] /\ c[1] < nbpools
          /\ \A k \in DOMAIN bpnext[c[1]] : bpnext[c[1]][k] # c
      BY <3>1 DEF PoolInv, HeldBuffers
    <3>3. \A k \in DOMAIN bpnext'[c[1]] : bpnext'[c[1]][k] # c
      <4>1. CASE c[1] # i
        BY <1>6, <3>1, <3>2, <4>1
      <4>2. CASE c[1] = i
        <5>1. \A k \in DOMAIN next : k = 1 \/ (k - 1 \in DOMAIN bpnext[i] /\ next[k] = bpnext[i][k - 1])
          BY <1>3, SMTT(30)
        <5>2. ASSUME NEW k \in DOMAIN next PROVE next[k] # c
          BY <1>3, <3>1, <3>2, <4>2, <5>1
        <5> QED BY <1>6, <4>2, <5>2
      <4> QED BY <4>1, <4>2
    <3> QED BY <1>5, <1>6, <3>1, <3>2, <3>3
  <2>2. \A r, t \in Procs : r # t => bpheld'[r] \cap bpheld'[t] = {}
    BY <1>6 DEF PoolInv, HeldBuffers
  <2> QED BY <2>1, <2>2 DEF HeldBuffers
<1>10. NotMade'
  <2>1. ASSUME NEW j \in B!Pools, j >= nbpools
        PROVE  bpnext'[j] = <<>> /\ bpsem'[j] = semcreate(0) /\ \A r \in Procs : bpat'[r] # j
    <3>1. j # i /\ bpnext[j] = <<>> /\ bpsem[j] = semcreate(0) /\ \A r \in Procs : bpat[r] # j
      BY <1>1, <1>2, <2>1, PoolFacts, SMTT(30) DEF PoolInv, NotMade
    <3> QED BY <1>5, <1>6, <3>1
  <2> QED BY <1>5, <2>1 DEF NotMade
<1>11. ASSUME NEW j \in B!Pools PROVE OwnList(j)' /\ Balanced(j)'
  <2>1. OwnList(j) /\ Balanced(j) /\ InGetbuf(j)' = InGetbuf(j)
    BY <1>5 DEF PoolInv, InGetbuf
  <2>2. CASE j # i
    <3>1. bpnext'[j] = bpnext[j] /\ bpsem'[j] = bpsem[j]
      BY <1>6, <2>2
    <3> QED BY <2>1, <3>1 DEF OwnList, Balanced
  <2>3. CASE j = i
    <3>1. OwnList(i)'
      <4>1. \A k \in DOMAIN next : k = 1 \/ (k - 1 \in DOMAIN bpnext[i] /\ next[k] = bpnext[i][k - 1])
        BY <1>3, SMTT(30)
      <4>2. \A k \in DOMAIN next : next[k][1] = i
        BY <1>3, <2>1, <2>3, <4>1 DEF OwnList
      <4>3. \A k, m \in DOMAIN next : next[k] = next[m] => k = m
        BY <1>2, <1>3, <2>1, <2>3, <4>1 DEF OwnList
      <4> QED BY <1>6, <4>2, <4>3 DEF OwnList
    <3> DEFINE L == Len(bpnext[i])
               C == Cardinality(InGetbuf(i))
    <3>2. /\ bpsem[i].count = L - C /\ L \in Nat /\ C \in Nat
          /\ bpsem'[i].count = bpsem[i].count + 1 /\ Len(bpnext'[i]) = L + 1
      BY <1>3, <1>4, <1>6, <2>1, <2>3, GetbufCounted DEF Balanced
    <3> HIDE DEF L, C
    <3>3. bpsem'[i].count = (L + 1) - C
      BY <3>2
    <3> QED BY <2>1, <2>3, <3>1, <3>2, <3>3 DEF Balanced, C
  <2> QED BY <2>2, <2>3
<1>12. SameBuffers
  <2>1. ASSUME NEW j \in B!Pools
        PROVE  (B!Listed(j) \cup B!Used(j))' = B!Listed(j) \cup B!Used(j)
    <3>1. \A c : c \in B!Used(j) <=> (c \in B!Used(j)' \/ (c = b /\ j = i))
      <4>1. \A c : c \in B!Used(j) <=> (c[1] = j /\ \E r \in Procs : c \in bpheld[r])
        BY DEF B!Used
      <4>2. \A c : c \in B!Used(j)' <=> (c[1] = j /\ \E r \in Procs : c \in bpheld'[r])
        BY DEF B!Used
      <4> QED BY <1>2, <1>6, <4>1, <4>2
    <3>2. CASE j # i
      BY <1>6, <3>1, <3>2 DEF B!Listed
    <3>3. CASE j = i
      <4>1. B!Listed(i)' = B!Listed(i) \cup {b}
        <5>1. \A k \in DOMAIN next : k = 1 \/ (k - 1 \in DOMAIN bpnext[i] /\ next[k] = bpnext[i][k - 1])
          BY <1>3, SMTT(30)
        <5>2. B!Listed(i) = {bpnext[i][k] : k \in DOMAIN bpnext[i]}
          BY DEF B!Listed, B!Range
        <5>3. B!Listed(i)' = {next[k] : k \in DOMAIN next}
          BY <1>6 DEF B!Listed, B!Range
        <5>4. \A c \in {next[k] : k \in DOMAIN next} : c = b \/ c \in {bpnext[i][k] : k \in DOMAIN bpnext[i]}
          BY <1>3, <5>1
        <5>5. \A k \in DOMAIN bpnext[i] : k + 1 \in DOMAIN next /\ next[k + 1] = bpnext[i][k]
          BY <1>3
        <5>6. 1 \in DOMAIN next /\ next[1] = b
          BY <1>3
        <5> QED BY <5>2, <5>3, <5>4, <5>5, <5>6
      <4> QED BY <3>1, <3>3, <4>1
    <3> QED BY <3>2, <3>3
  <2> QED BY <2>1 DEF SameBuffers
<1> QED BY <1>7, <1>8, <1>9, <1>10, <1>11, <1>12 DEF PoolInv

\* Every step keeps the pools, and the buffers of a pool are the same ones.
LEMMA BufPoolNext == PoolInv /\ [B!Next]_bvars => PoolInv' /\ SameBuffers
<1> SUFFICES ASSUME PoolInv, [B!Next]_bvars PROVE PoolInv' /\ SameBuffers
  OBVIOUS
<1>1. CASE UNCHANGED bvars
  <2>1. PoolTyping' /\ PoolWaiters' /\ HeldBuffers' /\ NotMade'
    BY <1>1 DEF bvars, PoolInv, PoolTyping, PoolWaiters, HeldBuffers, NotMade
  <2>2. \A i \in B!Pools : InGetbuf(i)' = InGetbuf(i)
    BY <1>1 DEF bvars, InGetbuf
  <2>3. \A i \in B!Pools : OwnList(i)' /\ Balanced(i)'
    BY <1>1, <2>2 DEF bvars, PoolInv, OwnList, Balanced
  <2>4. SameBuffers
    BY <1>1 DEF bvars, SameBuffers, B!Listed, B!Used
  <2> QED BY <2>1, <2>3, <2>4 DEF PoolInv
<1>2. CASE \E n \in Numbufs : B!mkbufpool(n)
  BY <1>2, Mkbufpool
<1>3. CASE \E p \in Procs, i \in B!Pools : B!getbuf(p, i)
  BY <1>3, Getbuf
<1>4. CASE \E p \in Procs : B!GetbufReturn(p)
  BY <1>4, GetbufReturns
<1>5. CASE \E p, q \in Procs : \E b \in bpheld[q] : B!freebuf(p, q, b)
  BY <1>5, Freebuf
<1>6. CASE B!AllWait
  BY <1>1, <1>6 DEF B!AllWait, B!vars, bvars
<1> QED BY <1>1, <1>2, <1>3, <1>4, <1>5, <1>6 DEF B!Next

\* What the invariant says of a pool's count and of where a buffer is.
LEMMA PoolsSound == PoolInv => B!CountsBuffers /\ B!OnePlace
<1> SUFFICES ASSUME PoolInv PROVE B!CountsBuffers /\ B!OnePlace
  OBVIOUS
<1>1. ASSUME NEW i \in B!Pools
      PROVE  /\ bpsem[i].count = Len(bpnext[i]) - Len(bpsem[i].queue) - Cardinality(B!Released(i))
             /\ Cardinality(B!Released(i)) <= Len(bpnext[i])
  <2>1. bpsem[i] \in SemaphoreOf(Procs) /\ Waiting(bpsem[i]) \subseteq InGetbuf(i) /\ Balanced(i)
    BY DEF PoolInv, PoolTyping, PoolWaiters, InGetbuf, SemaphoreOf, Waiting
  <2>2. B!Released(i) = InGetbuf(i) \ Waiting(bpsem[i])
    BY BufPoolSemaphores DEF B!Released, InGetbuf
  <2> DEFINE L == Len(bpnext[i])
             Q == Len(bpsem[i].queue)
             R == Cardinality(B!Released(i))
             C == Cardinality(InGetbuf(i))
  <2>3. L \in Nat /\ Q \in Nat /\ R \in Nat /\ C \in Nat /\ C = Q + R
    <3>1. IsFiniteSet(InGetbuf(i)) /\ L \in Nat
      BY GetbufCounted DEF PoolInv, PoolTyping
    <3>2. /\ Q \in Nat /\ C \in Nat /\ Cardinality(InGetbuf(i) \ Waiting(bpsem[i])) \in Nat
          /\ C = Q + Cardinality(InGetbuf(i) \ Waiting(bpsem[i]))
      BY <2>1, <3>1, InsideCounted
    <3> QED BY <2>2, <3>1, <3>2
  <2>4. bpsem[i].count = L - C /\ (bpsem[i].count < 0 => Q = - bpsem[i].count) /\ (bpsem[i].count >= 0 => Q = 0)
    BY <2>1 DEF Balanced, SemaphoreOf
  <2> HIDE DEF L, Q, R, C
  <2>5. bpsem[i].count = L - Q - R /\ R <= L
    BY <2>3, <2>4
  <2> QED BY <2>5 DEF L, Q, R
<1>2. ASSUME NEW i \in B!Pools
      PROVE  /\ B!IsInjective(bpnext[i]) /\ B!Listed(i) \subseteq {b \in B!Buffers : b[1] = i}
             /\ B!Listed(i) \cap B!Used(i) = {}
  <2>1. bpnext[i] \in Seq(B!Buffers) /\ OwnList(i)
    BY DEF PoolInv, PoolTyping
  <2>2. B!IsInjective(bpnext[i])
    BY <2>1 DEF OwnList, B!IsInjective
  <2>3. B!Listed(i) = {bpnext[i][k] : k \in DOMAIN bpnext[i]}
    BY DEF B!Listed, B!Range
  <2>4. \A b \in B!Used(i) : b[1] = i /\ \E p \in Procs : b \in bpheld[p]
    BY DEF B!Used
  <2>5. B!Listed(i) \cap B!Used(i) = {}
    BY <2>3, <2>4 DEF PoolInv, HeldBuffers
  <2> QED BY <2>1, <2>2, <2>3, <2>5 DEF OwnList
<1>3. \A p, q \in Procs : p # q => bpheld[p] \cap bpheld[q] = {}
  BY DEF PoolInv, HeldBuffers
<1>4. B!CountsBuffers
  BY <1>1, BufPoolCounts DEF B!CountsBuffers
<1> QED BY <1>2, <1>3, <1>4 DEF B!OnePlace
-----------------------------------------------------------------------------
(***************************************************************************)
(* Initialisation marks: at most one process between wait and signal, and  *)
(* a table that can overrun by one less than the number of processes.      *)
(***************************************************************************)
\* The instance's semaphores are those of Semaphore.
LEMMA MarkSemaphores ==
  /\ \A s, p : /\ M!Waits(s, p) <=> p \in Waiting(s)
               /\ M!wait(s, p) = wait(s, p)
  /\ \A s : M!signal(s) = signal(s)
  /\ \A n : M!semcreate(n) = semcreate(n)
BY DEF M!Waits, Waiting, M!wait, wait, M!signal, signal, M!Blocks, Blocks, M!semcreate, semcreate

\* The instance counts as FiniteSets does.
LEMMA MarkCounts == \A T : M!Cardinality(T) = Cardinality(T)
BY DEF M!Cardinality, Cardinality, M!IsFiniteSet, IsFiniteSet

\* Processes past the tests, and those that called wait for the mutex.
AtMark(pcs) == {p \in Procs : mkat[p].pc \in pcs}
Past == AtMark({"tested", "mutex"})
InMutex == AtMark({"mutex", "entry"})

MarkTyping ==
  /\ mkat \in [Procs -> {M!User} \cup [pc : {"tested", "mutex", "entry"}, loc : Locs]]
  /\ val \in [Locs -> Int] /\ marks \in Seq(Locs) /\ nmarks \in Nat
  /\ mkmutex \in SemaphoreOf(Procs)

\* The mutex admits one process, and the table is full or every process past the
\* tests accounts for an entry that it may add.
MutexHeld ==
  /\ \A p \in Waiting(mkmutex) : p \in Procs /\ mkat[p].pc = "mutex"
  /\ mkmutex.count = 1 - Cardinality(InMutex)
EntriesBounded == nmarks + Cardinality(Past) <= MAXMARK + Cardinality(Procs) - 1

Marked(l, v, m) == v[l] \in 0 .. (Len(m) - 1) /\ m[v[l] + 1] = l

\* The locations of the table are marked, but for the one whose index a process
\* has stored and whose entry it is about to add.
TableExact ==
  \/ /\ AtMark({"entry"}) = {} /\ nmarks = Len(marks)
     /\ \A k \in DOMAIN marks : Marked(marks[k], val, marks)
  \/ \E p \in Procs :
       /\ AtMark({"entry"}) = {p} /\ nmarks = Len(marks) + 1
       /\ val[mkat[p].loc] = Len(marks)
       /\ \A k \in DOMAIN marks : marks[k] # mkat[p].loc => Marked(marks[k], val, marks)

MarkInv == MarkTyping /\ MutexHeld /\ EntriesBounded /\ TableExact

\* Finitely many processes are in mark.
LEMMA MarkersCounted ==
  ASSUME NEW pcs
  PROVE  IsFiniteSet(AtMark(pcs)) /\ Cardinality(AtMark(pcs)) \in Nat /\ Cardinality(AtMark(pcs)) <= Cardinality(Procs)
<1>1. AtMark(pcs) \in SUBSET Procs
  BY DEF AtMark
<1> QED BY <1>1, FS_Subset, FS_CardinalityType, KernelAssumption

\* markinit: an empty table and a free mutex.
LEMMA MarkInit == M!Init => MarkInv
<1> SUFFICES ASSUME M!Init PROVE MarkInv
  OBVIOUS
<1> USE DEF M!Init
<1>1. mkmutex = semcreate(1) /\ mkmutex \in SemaphoreOf(Procs) /\ Waiting(mkmutex) = {} /\ mkmutex.count = 1
  BY MarkSemaphores, Created DEF semcreate
<1>2. AtMark({"entry"}) = {} /\ Past = {} /\ InMutex = {}
  BY DEF AtMark, Past, InMutex, M!User
<1>3. Cardinality(Past) = 0 /\ Cardinality(InMutex) = 0
  BY <1>2, FS_EmptySet
<1>4. MarkTyping
  BY <1>1 DEF MarkTyping
<1>5. Cardinality(Procs) \in Nat /\ Cardinality(Procs) # 0
  BY KernelAssumption, FS_CardinalityType, FS_EmptySet
<1>6. EntriesBounded
  BY <1>3, <1>5, KernelAssumption DEF EntriesBounded
<1>7. TableExact
  BY <1>2 DEF TableExact
<1> QED BY <1>1, <1>3, <1>4, <1>6, <1>7 DEF MarkInv, MutexHeld

\* One process at most is past its wait for the mutex.
LEMMA OneInside ==
  ASSUME MarkInv, NEW p \in InMutex \ Waiting(mkmutex), NEW q \in InMutex \ Waiting(mkmutex)
  PROVE  p = q
<1> DEFINE T == InMutex \ Waiting(mkmutex)
           C == Cardinality(InMutex)
           Q == Len(mkmutex.queue)
<1>1. mkmutex \in SemaphoreOf(Procs) /\ IsFiniteSet(InMutex) /\ Waiting(mkmutex) \subseteq InMutex
  BY MarkersCounted DEF MarkInv, MarkTyping, MutexHeld, InMutex, AtMark
<1>2. C = Q + Cardinality(T) /\ C \in Nat /\ Q \in Nat /\ Cardinality(T) \in Nat
  BY <1>1, InsideCounted
<1>3. mkmutex.count = 1 - C /\ (mkmutex.count < 0 => Q = - mkmutex.count) /\ (mkmutex.count >= 0 => Q = 0)
  BY <1>1 DEF MarkInv, MutexHeld, SemaphoreOf
<1> HIDE DEF C, Q
<1>4. Cardinality(T) <= 1
  BY <1>2, <1>3
<1>5. IsFiniteSet(T)
  BY <1>1, FS_Difference
<1>6. Cardinality(T) = 1
  BY <1>2, <1>4, <1>5, FS_EmptySet
<1> QED BY <1>5, <1>6, FS_Singleton

\* mark tests the table, before it takes the mutex.
LEMMA MarkTests ==
  ASSUME MarkInv, NEW p \in Procs, NEW l \in Locs, M!Tests(p, l)
  PROVE  MarkInv'
<1>1. /\ mkat[p].pc = "user" /\ nmarks < MAXMARK /\ mkat' = [mkat EXCEPT ![p] = [pc |-> "tested", loc |-> l]]
      /\ UNCHANGED <<val, marks, nmarks, mkmutex>>
  BY DEF M!Tests, M!NotFull, M!Goto
<1>2. MarkTyping'
  BY <1>1 DEF MarkInv, MarkTyping
<1>3. AtMark({"entry"})' = AtMark({"entry"}) /\ InMutex' = InMutex
  BY <1>1 DEF MarkInv, MarkTyping, AtMark, InMutex
<1>4. MutexHeld'
  BY <1>1, <1>3 DEF MarkInv, MarkTyping, MutexHeld
<1>5. TableExact'
  BY <1>1, <1>3, SMTT(30) DEF MarkInv, MarkTyping, TableExact, Marked, AtMark
<1>6. EntriesBounded'
  <2>1. Past' \in SUBSET Procs
    BY DEF Past, AtMark
  <2>2. Cardinality(Past') <= Cardinality(Procs) /\ Cardinality(Past') \in Nat /\ Cardinality(Procs) \in Nat
    BY <2>1, KernelAssumption, FS_Subset, FS_CardinalityType
  <2> QED BY <1>1, <2>2, KernelAssumption DEF EntriesBounded, MarkInv, MarkTyping
<1> QED BY <1>2, <1>4, <1>5, <1>6 DEF MarkInv

\* mark waits for the mutex.
LEMMA MarkWaits ==
  ASSUME MarkInv, NEW p \in Procs, M!WaitMutex(p)
  PROVE  MarkInv'
<1>1. /\ mkat[p].pc = "tested" /\ mkat' = [mkat EXCEPT ![p] = [pc |-> "mutex", loc |-> mkat[p].loc]]
      /\ mkmutex' = wait(mkmutex, p) /\ UNCHANGED <<val, marks, nmarks>>
  BY MarkSemaphores DEF M!WaitMutex, M!Goto
<1>2. mkat[p].loc \in Locs /\ mkmutex \in SemaphoreOf(Procs) /\ p \notin Waiting(mkmutex)
  BY <1>1 DEF MarkInv, MarkTyping, MutexHeld, M!User
<1>3. /\ mkmutex' \in SemaphoreOf(Procs) /\ mkmutex'.count = mkmutex.count - 1
      /\ Waiting(mkmutex') \subseteq Waiting(mkmutex) \cup {p}
  <2>1. /\ wait(mkmutex, p) \in SemaphoreOf(Procs) /\ wait(mkmutex, p).count = mkmutex.count - 1
        /\ Blocks(mkmutex) => Waiting(wait(mkmutex, p)) = Waiting(mkmutex) \cup {p}
        /\ ~ Blocks(mkmutex) => wait(mkmutex, p).queue = mkmutex.queue
    BY <1>2, Waited
  <2>2. ~ Blocks(mkmutex) => Waiting(wait(mkmutex, p)) = Waiting(mkmutex)
    BY <2>1 DEF Waiting
  <2> QED BY <1>1, <2>1, <2>2
<1>4. MarkTyping'
  BY <1>1, <1>2, <1>3 DEF MarkInv, MarkTyping
<1>5. /\ AtMark({"entry"})' = AtMark({"entry"}) /\ Past' = Past
      /\ InMutex' = InMutex \cup {p} /\ p \notin InMutex
  BY <1>1 DEF MarkInv, MarkTyping, AtMark, InMutex, Past
<1>6. Cardinality(InMutex') = Cardinality(InMutex) + 1 /\ Cardinality(InMutex) \in Nat
  BY <1>5, MarkersCounted, FS_AddElement DEF InMutex
<1>7. MutexHeld'
  <2>1. \A q \in Waiting(mkmutex') : q \in Procs /\ mkat'[q].pc = "mutex"
    BY <1>1, <1>3 DEF MarkInv, MarkTyping, MutexHeld
  <2>2. mkmutex.count = 1 - Cardinality(InMutex)
    BY DEF MarkInv, MutexHeld
  <2> QED BY <1>3, <1>6, <2>1, <2>2 DEF MutexHeld
<1>8. EntriesBounded'
  BY <1>1, <1>5 DEF MarkInv, EntriesBounded
<1>9. TableExact'
  BY <1>1, <1>5, SMTT(30) DEF MarkInv, MarkTyping, TableExact, Marked, AtMark
<1> QED BY <1>4, <1>7, <1>8, <1>9 DEF MarkInv

\* mark stores the index in the location, inside the mutex.
LEMMA MarkTakes ==
  ASSUME MarkInv, NEW p \in Procs, M!TakeIndex(p)
  PROVE  MarkInv'
<1> DEFINE l == mkat[p].loc
<1>1. /\ mkat[p].pc = "mutex" /\ p \notin Waiting(mkmutex)
      /\ val' = [val EXCEPT ![l] = nmarks] /\ nmarks' = nmarks + 1
      /\ mkat' = [mkat EXCEPT ![p] = [pc |-> "entry", loc |-> l]] /\ UNCHANGED <<marks, mkmutex>>
  BY MarkSemaphores DEF M!TakeIndex, M!Goto, M!Inside
<1>2. l \in Locs
  BY <1>1 DEF MarkInv, MarkTyping, M!User
<1>3. MarkTyping'
  BY <1>1, <1>2 DEF MarkInv, MarkTyping
<1>4. /\ InMutex' = InMutex /\ Past' = Past \ {p} /\ p \in Past /\ p \in InMutex
      /\ AtMark({"entry"})' = AtMark({"entry"}) \cup {p}
  BY <1>1 DEF MarkInv, MarkTyping, AtMark, InMutex, Past
<1>5. AtMark({"entry"}) = {}
  <2> SUFFICES ASSUME NEW q \in AtMark({"entry"}) PROVE FALSE
    OBVIOUS
  <2>1. q \in InMutex \ Waiting(mkmutex) /\ q # p
    BY <1>1 DEF AtMark, InMutex, MarkInv, MutexHeld
  <2> QED BY <1>1, <1>4, <2>1, OneInside
<1>6. nmarks = Len(marks) /\ \A k \in DOMAIN marks : Marked(marks[k], val, marks)
  BY <1>5 DEF MarkInv, TableExact
<1>7. MutexHeld'
  BY <1>1, <1>4 DEF MarkInv, MarkTyping, MutexHeld
<1>8. EntriesBounded'
  <2> DEFINE C == Cardinality(Past)
  <2>1. Cardinality(Past') = C - 1 /\ C \in Nat
    BY <1>4, MarkersCounted, FS_RemoveElement DEF Past
  <2>2. nmarks + C <= MAXMARK + Cardinality(Procs) - 1 /\ nmarks \in Nat /\ Cardinality(Procs) \in Nat
    BY KernelAssumption, FS_CardinalityType DEF MarkInv, MarkTyping, EntriesBounded
  <2> HIDE DEF C
  <2> QED BY <1>1, <2>1, <2>2, KernelAssumption DEF EntriesBounded
<1>9. TableExact'
  <2>1. /\ AtMark({"entry"})' = {p} /\ nmarks' = Len(marks') + 1 /\ mkat'[p].loc = l /\ val'[l] = Len(marks')
    BY <1>1, <1>2, <1>4, <1>5, <1>6 DEF MarkInv, MarkTyping
  <2>2. \A k \in DOMAIN marks' : marks'[k] # l => Marked(marks'[k], val', marks')
    BY <1>1, <1>6 DEF MarkInv, MarkTyping, Marked
  <2> QED BY <2>1, <2>2 DEF TableExact
<1> QED BY <1>3, <1>7, <1>8, <1>9 DEF MarkInv

\* mark adds the entry and releases the mutex.
LEMMA MarkSets ==
  ASSUME MarkInv, NEW p \in Procs, M!SetEntry(p)
  PROVE  MarkInv' /\ nmarks' = Len(marks')
<1> DEFINE l == mkat[p].loc
           n == Len(marks)
<1>1. /\ mkat[p].pc = "entry" /\ mkmutex' = signal(mkmutex) /\ marks' = Append(marks, l)
      /\ mkat' = [mkat EXCEPT ![p] = M!User] /\ UNCHANGED <<val, nmarks>>
  BY MarkSemaphores DEF M!SetEntry, M!Inside
<1>2. l \in Locs /\ mkmutex \in SemaphoreOf(Procs) /\ marks \in Seq(Locs) /\ n \in Nat
  BY <1>1 DEF MarkInv, MarkTyping, M!User
<1>3. /\ mkmutex' \in SemaphoreOf(Procs) /\ mkmutex'.count = mkmutex.count + 1
      /\ Waiting(mkmutex') \subseteq Waiting(mkmutex)
  <2>1. mkmutex.count \in Int
    BY <1>2 DEF SemaphoreOf
  <2>2. CASE mkmutex.count < 0
    BY <1>1, <1>2, <2>2, Signalled
  <2>3. CASE mkmutex.count >= 0
    BY <1>1, <1>2, <2>3, Signalled DEF Waiting
  <2> QED BY <2>1, <2>2, <2>3
<1>4. MarkTyping'
  BY <1>1, <1>2, <1>3 DEF MarkInv, MarkTyping
<1>5. /\ InMutex' = InMutex \ {p} /\ Past' = Past /\ p \in InMutex
      /\ AtMark({"entry"})' = AtMark({"entry"}) \ {p} /\ p \in AtMark({"entry"})
  BY <1>1 DEF MarkInv, MarkTyping, AtMark, InMutex, Past, M!User
<1>6. /\ AtMark({"entry"}) = {p} /\ nmarks = n + 1 /\ val[l] = n
      /\ \A k \in DOMAIN marks : marks[k] # l => Marked(marks[k], val, marks)
  BY <1>5 DEF MarkInv, TableExact
<1>7. MutexHeld'
  <2> DEFINE C == Cardinality(InMutex)
  <2>1. Cardinality(InMutex') = C - 1 /\ C \in Nat
    BY <1>5, MarkersCounted, FS_RemoveElement DEF InMutex
  <2>2. mkmutex.count = 1 - C
    BY DEF MarkInv, MutexHeld
  <2> HIDE DEF C
  <2>3. mkmutex'.count = 1 - (C - 1)
    BY <1>3, <2>1, <2>2
  <2>4. \A q \in Waiting(mkmutex') : q \in Procs /\ mkat'[q].pc = "mutex"
    BY <1>1, <1>3 DEF MarkInv, MarkTyping, MutexHeld
  <2> QED BY <2>1, <2>3, <2>4 DEF MutexHeld
<1>8. EntriesBounded'
  BY <1>1, <1>5 DEF MarkInv, EntriesBounded
<1>9. TableExact' /\ nmarks' = Len(marks')
  <2>1. /\ Len(marks') = n + 1 /\ DOMAIN marks' = 1 .. (n + 1) /\ marks'[n + 1] = l
        /\ DOMAIN marks = 1 .. n /\ \A k \in 1 .. n : marks'[k] = marks[k]
    BY <1>1, <1>2
  <2> HIDE DEF n
  <2>2. Marked(l, val', marks')
    BY <1>1, <1>2, <1>6, <2>1 DEF Marked
  <2>3. ASSUME NEW k \in DOMAIN marks' PROVE Marked(marks'[k], val', marks')
    <3>1. CASE marks'[k] = l
      BY <2>2, <3>1
    <3>2. CASE marks'[k] # l
      <4>1. k \in 1 .. n /\ marks'[k] = marks[k] /\ Marked(marks[k], val, marks)
        BY <1>2, <1>6, <2>1, <3>2
      <4> QED BY <1>1, <1>2, <2>1, <4>1 DEF Marked, n
    <3> QED BY <3>1, <3>2
  <2> QED BY <1>1, <1>5, <1>6, <2>1, <2>3 DEF TableExact
<1> QED BY <1>4, <1>7, <1>8, <1>9 DEF MarkInv

\* What a step leaves marked.
KeepsMarked ==
  (\A p \in Procs : mkat'[p].pc # "entry") =>
    \A l \in Locs : ((\E k \in DOMAIN marks : marks[k] = l) => ~ M!notmarked(l)')

\* Every step keeps the table, and what is marked stays marked.
LEMMA MarkNext == MarkInv /\ [M!Next]_mvars => MarkInv' /\ KeepsMarked
<1> SUFFICES ASSUME MarkInv, [M!Next]_mvars PROVE MarkInv' /\ KeepsMarked
  OBVIOUS
<1>1. ASSUME UNCHANGED mvars PROVE MarkInv'
  <2>1. \A pcs : AtMark(pcs)' = AtMark(pcs)
    BY <1>1 DEF mvars, AtMark
  <2>2. MarkTyping' /\ MutexHeld' /\ EntriesBounded'
    BY <1>1, <2>1 DEF mvars, MarkInv, MarkTyping, MutexHeld, EntriesBounded, Past, InMutex
  <2>3. TableExact'
    BY <1>1, <2>1 DEF mvars, MarkInv, TableExact
  <2> QED BY <2>2, <2>3 DEF MarkInv
<1>2. MarkInv'
  <2>1. CASE \E p \in Procs : \E l \in Locs : M!Tests(p, l)
    BY <2>1, MarkTests
  <2>2. CASE \E p \in Procs : M!WaitMutex(p)
    BY <2>2, MarkWaits
  <2>3. CASE \E p \in Procs : M!TakeIndex(p)
    BY <2>3, MarkTakes
  <2>4. CASE \E p \in Procs : M!SetEntry(p)
    BY <2>4, MarkSets
  <2> QED BY <1>1, <2>1, <2>2, <2>3, <2>4 DEF M!Next, M!vars, mvars
<1>3. \A k \in DOMAIN marks : k \in DOMAIN marks' /\ marks'[k] = marks[k]
  <2>1. marks \in Seq(Locs)
    BY DEF MarkInv, MarkTyping
  <2>2. marks' = marks \/ \E l : marks' = Append(marks, l)
    BY DEF M!Next, M!vars, mvars, M!Tests, M!WaitMutex, M!TakeIndex, M!SetEntry
  <2>3. ASSUME NEW l, marks' = Append(marks, l)
        PROVE \A k \in DOMAIN marks : k \in DOMAIN marks' /\ marks'[k] = marks[k]
    BY <2>1, <2>3
  <2> QED BY <2>2, <2>3
<1>4. KeepsMarked
  <2> SUFFICES ASSUME \A p \in Procs : mkat'[p].pc # "entry",
                      NEW l \in Locs, NEW k \in DOMAIN marks, marks[k] = l
               PROVE  ~ M!notmarked(l)'
    BY DEF KeepsMarked
  <2>1. AtMark({"entry"})' = {}
    BY DEF AtMark
  <2>2. nmarks' = Len(marks') /\ Marked(marks'[k], val', marks')
    BY <1>2, <1>3, <2>1 DEF MarkInv, TableExact
  <2>3. marks'[k] = l /\ Len(marks') \in Nat
    BY <1>2, <1>3 DEF MarkInv, MarkTyping
  <2> QED BY <2>2, <2>3 DEF Marked, M!notmarked
<1> QED BY <1>2, <1>4
-----------------------------------------------------------------------------
(***************************************************************************)
(* Ports.                                                                  *)
(***************************************************************************)

\* The instance's semaphores are those of Semaphore.
LEMMA PortSemaphores ==
  /\ \A s, p : /\ P!Waits(s, p) <=> p \in Waiting(s)
               /\ P!wait(s, p) = wait(s, p)
  /\ \A s : P!signal(s) = signal(s) /\ (P!Blocks(s) <=> Blocks(s))
  /\ \A n : P!semcreate(n) = semcreate(n)
  /\ \A s, n : P!semreset(s, n) = semcreate(n)
BY DEF P!Waits, Waiting, P!wait, wait, P!signal, signal, P!Blocks, Blocks, P!semcreate, semcreate, P!semreset

\* The instance counts as FiniteSets does.
LEMMA PortCounts == \A T : P!Cardinality(T) = Cardinality(T)
BY DEF P!Cardinality, Cardinality, P!IsFiniteSet, IsFiniteSet

\* The ports' numbers (ports.h).
LEMMA PortIds == P!Ids = 0 .. (NPORTS - 1) /\ 0 \in P!Ids /\ IsFiniteSet(P!Ids)
BY KernelAssumption, FS_Interval DEF P!Ids

-----------------------------------------------------------------------------
\* The message nodes of the ports.
NodesOf(m) == UNION {{i} \X DOMAIN m[i] : i \in P!Ids}

\* The nodes on lists of messages are finitely many.
LEMMA NodesFinite ==
  ASSUME NEW S, NEW m \in [P!Ids -> Seq(S)]
  PROVE  IsFiniteSet(NodesOf(m))
<1> DEFINE F == {{i} \X DOMAIN m[i] : i \in P!Ids}
<1>1. ASSUME NEW i \in P!Ids PROVE IsFiniteSet({i} \X DOMAIN m[i])
  <2>1. DOMAIN m[i] = 1 .. Len(m[i]) /\ Len(m[i]) \in Nat
    OBVIOUS
  <2>2. IsFiniteSet(1 .. Len(m[i]))
    BY <2>1, FS_Interval
  <2>3. IsFiniteSet({i})
    BY FS_Singleton
  <2> QED BY <2>1, <2>2, <2>3, FS_Product
<1>2. IsFiniteSet(F)
  <2> DEFINE f == [i \in P!Ids |-> {i} \X DOMAIN m[i]]
  <2>1. f \in Surjection(P!Ids, F)
    BY DEF Surjection
  <2> QED BY <2>1, PortIds, FS_Surjection
<1>3. \A T \in F : IsFiniteSet(T)
  BY <1>1
<1> HIDE DEF F
<1>4. IsFiniteSet(UNION F)
  BY <1>2, <1>3, FS_UNION
<1> QED BY <1>4 DEF F, NodesOf

\* Emptying a port gives back as many nodes as it has messages.
LEMMA NodesWithout ==
  ASSUME NEW S, NEW m \in [P!Ids -> Seq(S)], NEW i \in P!Ids
  PROVE  /\ Cardinality(NodesOf(m)) = Cardinality(NodesOf([m EXCEPT ![i] = <<>>])) + Len(m[i])
         /\ Cardinality(NodesOf([m EXCEPT ![i] = <<>>])) \in Nat
<1> DEFINE e == [m EXCEPT ![i] = <<>>]
           T == {i} \X (1 .. Len(m[i]))
<1>1. e \in [P!Ids -> Seq(S)] /\ e[i] = <<>> /\ \A j \in P!Ids \ {i} : e[j] = m[j]
  OBVIOUS
<1>2. Len(m[i]) \in Nat /\ DOMAIN m[i] = 1 .. Len(m[i]) /\ DOMAIN e[i] = {}
  BY <1>1
<1>3. \A c : c \in NodesOf(e) <=> \E j \in P!Ids : c \in {j} \X DOMAIN e[j]
  BY DEF NodesOf
<1>4. \A c : c \in NodesOf(m) <=> \E j \in P!Ids : c \in {j} \X DOMAIN m[j]
  BY DEF NodesOf
<1>5. NodesOf(m) = NodesOf(e) \cup T
  <2> HIDE DEF e
  <2>1. \A c : c \in NodesOf(e) <=> \E j \in P!Ids \ {i} : c \in {j} \X DOMAIN m[j]
    BY <1>1, <1>2, <1>3
  <2>2. \A c : c \in NodesOf(m) <=> c \in T \/ \E j \in P!Ids \ {i} : c \in {j} \X DOMAIN m[j]
    BY <1>2, <1>4
  <2> QED BY <2>1, <2>2
<1>6. NodesOf(e) \cap T = {}
  <2> HIDE DEF e
  <2>1. ASSUME NEW c \in T, c \in NodesOf(e) PROVE FALSE
    <3>1. PICK j \in P!Ids : c \in {j} \X DOMAIN e[j]
      BY <1>3, <2>1
    <3>2. c[1] = i /\ c[1] = j
      BY <2>1, <3>1
    <3> QED BY <1>2, <3>1, <3>2
  <2> QED BY <2>1
<1>7. IsFiniteSet(T) /\ Cardinality(T) = Len(m[i])
  <2>1. IsFiniteSet({i}) /\ Cardinality({i}) = 1
    BY FS_Singleton
  <2>2. IsFiniteSet(1 .. Len(m[i])) /\ Cardinality(1 .. Len(m[i])) = Len(m[i])
    <3> DEFINE L == Len(m[i])
    <3>1. L \in Nat /\ (1 > L <=> L = 0)
      BY <1>2
    <3> HIDE DEF L
    <3>2. IsFiniteSet(1 .. L) /\ Cardinality(1 .. L) = IF 1 > L THEN 0 ELSE L - 1 + 1
      BY <3>1, FS_Interval
    <3> QED BY <3>1, <3>2 DEF L
  <2>3. IsFiniteSet(T) /\ Cardinality(T) = Cardinality({i}) * Cardinality(1 .. Len(m[i]))
    BY <2>1, <2>2, FS_Product
  <2> QED BY <1>2, <2>1, <2>2, <2>3
<1>8. IsFiniteSet(NodesOf(e)) /\ Cardinality(NodesOf(e)) \in Nat
  BY <1>1, NodesFinite, FS_CardinalityType
<1> HIDE DEF T, e
<1>9. Cardinality(NodesOf(e) \cup T) = Cardinality(NodesOf(e)) + Cardinality(T) - Cardinality(NodesOf(e) \cap T)
  BY <1>7, <1>8, FS_Union
<1>10. Cardinality(NodesOf(e) \cap T) = 0
  BY <1>6, FS_EmptySet
<1>11. Cardinality(NodesOf(m)) = Cardinality(NodesOf(e)) + Len(m[i])
  BY <1>2, <1>5, <1>7, <1>8, <1>9, <1>10
<1> QED BY <1>8, <1>11 DEF e

\* What a change to the messages of one port does to the number of nodes.
LEMMA NodesChange ==
  ASSUME NEW S, NEW m \in [P!Ids -> Seq(S)], NEW i \in P!Ids, NEW s \in Seq(S)
  PROVE  /\ Cardinality(NodesOf([m EXCEPT ![i] = s])) = Cardinality(NodesOf(m)) - Len(m[i]) + Len(s)
         /\ Cardinality(NodesOf(m)) \in Nat
<1> DEFINE n == [m EXCEPT ![i] = s]
           e == [m EXCEPT ![i] = <<>>]
<1>1. n \in [P!Ids -> Seq(S)] /\ n[i] = s /\ [n EXCEPT ![i] = <<>>] = e
  OBVIOUS
<1> HIDE DEF n, e
<1>2. Cardinality(NodesOf(n)) = Cardinality(NodesOf(e)) + Len(s) /\ Cardinality(NodesOf(e)) \in Nat
  BY <1>1, NodesWithout
<1>3. Cardinality(NodesOf(m)) = Cardinality(NodesOf(e)) + Len(m[i])
  BY NodesWithout DEF e
<1>4. Len(m[i]) \in Nat /\ Len(s) \in Nat
  OBVIOUS
<1> DEFINE A == Cardinality(NodesOf(n))
           C == Cardinality(NodesOf(e))
           D == Cardinality(NodesOf(m))
           L == Len(m[i])
           K == Len(s)
<1>5. A = C + K /\ D = C + L /\ C \in Nat /\ L \in Nat /\ K \in Nat
  BY <1>2, <1>3, <1>4
<1> HIDE DEF A, C, D, L, K
<1>6. A = D - L + K /\ D \in Nat
  BY <1>5
<1> QED BY <1>6 DEF A, D, L, K, n

-----------------------------------------------------------------------------
InSend(i) == {p \in Procs : ptat[p].pc = "ptsend" /\ ptat[p].port = i /\ ptat[p].seq = ptseq[i]}
InReceive(i) == {p \in Procs : ptat[p].pc = "ptrecv" /\ ptat[p].port = i /\ ptat[p].seq = ptseq[i]}
Clearing == {p \in Procs : ptat[p].pc \in {"_ptclear", "_ptclear_end"}}

PortAt ==
  {P!User} \cup [pc : {"ptsend"}, port : P!Ids, seq : Nat, msg : Msgs]
           \cup [pc : {"ptrecv"}, port : P!Ids, seq : Nat]
           \cup [pc : {"_ptclear", "_ptclear_end"}, port : P!Ids, new : {"ALLOC", "FREE"}]

PortTyping ==
  /\ ptstate \in [P!Ids -> {"FREE", "ALLOC", "LIMBO"}]
  /\ ptseq \in [P!Ids -> Nat] /\ ptmaxcnt \in [P!Ids -> Nat]
  /\ ptssem \in [P!Ids -> SemaphoreOf(Procs)] /\ ptrsem \in [P!Ids -> SemaphoreOf(Procs)]
  /\ ptmsgs \in [P!Ids -> Seq([msg : Msgs, seq : Nat])]
  /\ ptfree \in Nat /\ ptnextid \in P!Ids /\ panicked \in BOOLEAN
  /\ ptat \in [Procs -> PortAt]

\* Senders wait for the port as it is; receivers for that or, while it is being
\* cleared, for the one before.  A call that goes on finds no later port.
PortCallers(i) ==
  /\ \A p \in Waiting(ptssem[i]) : p \in InSend(i)
  /\ \A p \in Waiting(ptrsem[i]) :
       ptat[p].pc = "ptrecv" /\ ptat[p].port = i /\ (ptstate[i] = "ALLOC" => ptat[p].seq = ptseq[i])
  /\ \A p \in Procs : ptat[p].pc \in {"ptsend", "ptrecv"} /\ ptat[p].port = i =>
       ptat[p].seq <= ptseq[i] /\ (ptstate[i] # "ALLOC" => ptat[p].seq < ptseq[i])

\* One process clears a port, which is empty then.
PortCleared(i) ==
  /\ ptstate[i] # "ALLOC" => ptmsgs[i] = <<>>
  /\ ptstate[i] = "FREE" => Waiting(ptrsem[i]) = {}
  /\ \A p \in Clearing : ptat[p].port = i =>
       /\ ptstate[i] = "LIMBO" /\ ptssem[i] = semcreate(P!SenderCount(i, ptat[p].new))
       /\ ptat[p].pc = "_ptclear_end" => ptrsem[i] = semcreate(0)
       /\ \A q \in Clearing : ptat[q].port = i => q = p

\* The semaphores of a port count the calls inside it that are about to be done.
PortCounted(i) == (ptstate[i] = "ALLOC" /\ ~ panicked) =>
  /\ ptssem[i].count = ptmaxcnt[i] - Len(ptmsgs[i]) - Cardinality(InSend(i))
  /\ ptrsem[i].count = Len(ptmsgs[i]) - Cardinality(InReceive(i))
PortFresh(i) == ptstate[i] = "ALLOC" => \A k \in DOMAIN ptmsgs[i] : ptmsgs[i][k].seq = ptseq[i]

PortOk(i) == PortCallers(i) /\ PortCleared(i) /\ PortCounted(i) /\ PortFresh(i)
PortInv == PortTyping /\ P!NodesConserved /\ \A i \in P!Ids : PortOk(i)

\* Finitely many processes are in ptsend and in ptrecv.
LEMMA CallsCounted ==
  \A i : /\ IsFiniteSet(InSend(i)) /\ Cardinality(InSend(i)) \in Nat
         /\ IsFiniteSet(InReceive(i)) /\ Cardinality(InReceive(i)) \in Nat
<1> SUFFICES ASSUME NEW i
             PROVE  /\ IsFiniteSet(InSend(i)) /\ Cardinality(InSend(i)) \in Nat
                    /\ IsFiniteSet(InReceive(i)) /\ Cardinality(InReceive(i)) \in Nat
  OBVIOUS
<1>1. InSend(i) \in SUBSET Procs /\ InReceive(i) \in SUBSET Procs
  BY DEF InSend, InReceive
<1> QED BY <1>1, FS_Subset, FS_CardinalityType, KernelAssumption

\* What a process in a call remembers is a port and a sequence number.
LEMMA PortAtFields ==
  /\ P!User \in PortAt /\ P!User.pc = "user"
  /\ \A a \in PortAt : a.pc \in {"user", "ptsend", "ptrecv", "_ptclear", "_ptclear_end"}
  /\ \A a \in PortAt : a.pc # "user" => a.port \in P!Ids
  /\ \A a \in PortAt : a.pc \in {"ptsend", "ptrecv"} => a.seq \in Nat
  /\ \A a \in PortAt : a.pc = "ptsend" => a.msg \in Msgs
  /\ \A a \in PortAt : a.pc \in {"_ptclear", "_ptclear_end"} => a.new \in {"ALLOC", "FREE"}
  /\ \A i \in P!Ids, s \in Nat : /\ \A m \in Msgs : [pc |-> "ptsend", port |-> i, seq |-> s, msg |-> m] \in PortAt
                                /\ [pc |-> "ptrecv", port |-> i, seq |-> s] \in PortAt
  /\ \A i \in P!Ids, n \in {"ALLOC", "FREE"}, c \in {"_ptclear", "_ptclear_end"} :
       [pc |-> c, port |-> i, new |-> n] \in PortAt
BY DEF PortAt, P!User

\* Only processes wait.
LEMMA PortWaitersProcs ==
  ASSUME PortTyping, NEW i \in P!Ids
  PROVE  Waiting(ptssem[i]) \subseteq Procs /\ Waiting(ptrsem[i]) \subseteq Procs
BY SMTT(30) DEF PortTyping, SemaphoreOf, Waiting

\* NodesConserved, with FiniteSets' Cardinality.
LEMMA NodesBridge == P!NodesConserved <=> Cardinality(NodesOf(ptmsgs)) + ptfree = MAXMSGS
BY PortCounts DEF P!NodesConserved, P!Nodes, NodesOf

\* ptinit: all nodes are free, and so are the ports.
LEMMA PortInit == P!Init => PortInv
<1> SUFFICES ASSUME P!Init PROVE PortInv
  OBVIOUS
<1> USE DEF P!Init
<1>1. semcreate(0) \in SemaphoreOf(Procs) /\ Waiting(semcreate(0)) = {} /\ semcreate(0).count = 0
  BY Created DEF semcreate
<1>2. PortTyping
  <2>1. /\ ptssem \in [P!Ids -> SemaphoreOf(Procs)] /\ ptrsem \in [P!Ids -> SemaphoreOf(Procs)]
        /\ ptmsgs \in [P!Ids -> Seq([msg : Msgs, seq : Nat])]
    BY <1>1, PortSemaphores
  <2>2. ptat \in [Procs -> PortAt]
    BY PortAtFields
  <2>3. ptfree \in Nat /\ ptnextid \in P!Ids
    BY PortIds, KernelAssumption
  <2> QED BY <2>1, <2>2, <2>3 DEF PortTyping
<1>3. NodesOf(ptmsgs) = {}
  BY DEF NodesOf
<1>4. P!NodesConserved
  <2>1. Cardinality(NodesOf(ptmsgs)) = 0
    BY <1>3, FS_EmptySet
  <2> HIDE DEF P!Init
  <2>2. ptfree = MAXMSGS
    BY DEF P!Init
  <2> QED BY <2>1, <2>2, NodesBridge, KernelAssumption
<1>5. ASSUME NEW i \in P!Ids PROVE PortOk(i)
  <2>1. PortCallers(i)
    BY <1>1, PortSemaphores DEF PortCallers, P!User
  <2>2. PortCleared(i)
    BY <1>1, PortSemaphores DEF PortCleared, Clearing, P!User
  <2> QED BY <2>1, <2>2 DEF PortOk, PortCounted, PortFresh
<1> QED BY <1>2, <1>4, <1>5 DEF PortInv

\* A step of a process on a port leaves the others as they are.
PortFrame(p, i) ==
  /\ \A j \in P!Ids \ {i} :
       /\ ptstate'[j] = ptstate[j] /\ ptseq'[j] = ptseq[j] /\ ptmaxcnt'[j] = ptmaxcnt[j]
       /\ ptssem'[j] = ptssem[j] /\ ptrsem'[j] = ptrsem[j] /\ ptmsgs'[j] = ptmsgs[j]
  /\ \A q \in Procs \ {p} : ptat'[q] = ptat[q]
  /\ ptat[p].pc = "user" \/ ptat[p].port = i
  /\ ptat'[p].pc = "user" \/ ptat'[p].port = i
  /\ panicked => panicked'

\* A step at one port leaves the others as they are.
LEMMA PortStep ==
  ASSUME PortInv, NEW p \in Procs, NEW i \in P!Ids, PortFrame(p, i),
         PortTyping', P!NodesConserved', PortOk(i)'
  PROVE  PortInv'
<1>1. ASSUME NEW j \in P!Ids \ {i} PROVE PortOk(j)'
  <2>1. PortOk(j)
    BY DEF PortInv
  <2>2. InSend(j)' = InSend(j) /\ InReceive(j)' = InReceive(j)
    BY DEF InSend, InReceive, PortFrame
  <2>3. \A q \in Procs : (q \in Clearing /\ ptat[q].port = j) <=> (q \in Clearing' /\ ptat'[q].port = j)
    BY DEF Clearing, PortFrame
  <2>4. \A q \in Procs : ptat'[q].pc # "user" /\ ptat'[q].port = j => ptat'[q] = ptat[q]
    BY DEF PortFrame
  <2>5. Clearing \subseteq Procs /\ Clearing' \subseteq Procs
    BY DEF Clearing
  <2>6. \A q \in Procs : ptat[q].pc # "user" /\ ptat[q].port = j => ptat'[q] = ptat[q]
    BY DEF PortFrame
  <2>7. /\ ptstate'[j] = ptstate[j] /\ ptseq'[j] = ptseq[j] /\ ptmaxcnt'[j] = ptmaxcnt[j]
        /\ ptssem'[j] = ptssem[j] /\ ptrsem'[j] = ptrsem[j] /\ ptmsgs'[j] = ptmsgs[j]
    BY DEF PortFrame
  <2>8. PortCallers(j)'
    <3>1. Waiting(ptrsem[j]) \subseteq Procs
      BY PortWaitersProcs DEF PortInv
    <3> QED BY <2>1, <2>2, <2>4, <2>6, <2>7, <3>1 DEF PortOk, PortCallers
  <2>9. PortCleared(j)'
    <3>1. \A q \in Clearing' : ptat'[q].port = j => ptat'[q] = ptat[q] /\ q \in Clearing
      BY <2>3, <2>4, <2>5 DEF Clearing
    <3>2. \A n : P!SenderCount(j, n)' = P!SenderCount(j, n)
      BY <2>7 DEF P!SenderCount
    <3> QED BY <2>1, <2>7, <3>1, <3>2 DEF PortOk, PortCleared
  <2>10. PortCounted(j)'
    BY <2>1, <2>2, <2>7 DEF PortOk, PortCounted, PortFrame
  <2>11. PortFresh(j)'
    BY <2>1, <2>7 DEF PortOk, PortFresh
  <2> QED BY <2>8, <2>9, <2>10, <2>11 DEF PortOk
<1> QED BY <1>1 DEF PortInv

\* A signal to a port's semaphore releases one of those in the call.
LEMMA SignalReleases ==
  ASSUME NEW S, NEW s \in SemaphoreOf(S)
  PROVE  signal(s) \in SemaphoreOf(S) /\ signal(s).count = s.count + 1 /\ Waiting(signal(s)) \subseteq Waiting(s)
<1>1. s.count \in Int
  BY DEF SemaphoreOf
<1>2. CASE s.count < 0
  BY <1>2, Signalled
<1>3. CASE s.count >= 0
  BY <1>3, Signalled DEF Waiting
<1> QED BY <1>1, <1>2, <1>3

\* The rest of ptsend and of ptrecv.
LEMMA PortDelivers ==
  ASSUME PortInv, NEW p \in Procs, NEW i \in P!Ids, NEW m \in Msgs, NEW ssem \in SemaphoreOf(Procs),
         P!Deliver(p, i, m, ptseq[i], ssem), ~ panicked, ptstate[i] = "ALLOC",
         ssem.queue = ptssem[i].queue, p \notin Waiting(ptssem[i]), p \notin Waiting(ptrsem[i]),
         \/ ptat[p].pc = "user" /\ ssem.count = ptssem[i].count - 1
         \/ p \in InSend(i) /\ ssem.count = ptssem[i].count
  PROVE  PortInv'
<1> DEFINE new == Append(ptmsgs[i], [msg |-> m, seq |-> ptseq[i]])
           rsem == signal(ptrsem[i])
<1>1. PortTyping /\ PortOk(i) /\ P!NodesConserved
  BY DEF PortInv
<1> DEFINE Msg == [msg : Msgs, seq : Nat]
           r == [msg |-> m, seq |-> ptseq[i]]
<1>2. /\ ptmsgs[i] \in Seq(Msg) /\ new \in Seq(Msg) /\ Len(new) = Len(ptmsgs[i]) + 1
      /\ DOMAIN new = 1 .. (Len(ptmsgs[i]) + 1)
      /\ \A k \in 1 .. Len(ptmsgs[i]) : new[k] = ptmsgs[i][k]
      /\ new[Len(ptmsgs[i]) + 1] = r
      /\ Len(ptmsgs[i]) \in Nat /\ DOMAIN ptmsgs[i] = 1 .. Len(ptmsgs[i])
  <2>1. ptmsgs[i] \in Seq(Msg) /\ r \in Msg
    BY <1>1 DEF PortTyping
  <2>2. new = Append(ptmsgs[i], r)
    OBVIOUS
  <2> HIDE DEF Msg, r, new
  <2> QED BY <2>1, <2>2
<1>3. /\ rsem \in SemaphoreOf(Procs) /\ rsem.count = ptrsem[i].count + 1
      /\ Waiting(rsem) \subseteq Waiting(ptrsem[i])
  <2>1. ptrsem[i] \in SemaphoreOf(Procs)
    BY <1>1 DEF PortTyping
  <2> QED BY <2>1, SignalReleases
<1>4. /\ ptssem' = [ptssem EXCEPT ![i] = ssem] /\ ptat' = [ptat EXCEPT ![p] = P!User]
      /\ UNCHANGED <<ptstate, ptseq, ptmaxcnt, ptnextid>>
  BY DEF P!Deliver, P!Goto
<1>5. \/ panicked' = TRUE /\ UNCHANGED <<ptmsgs, ptfree, ptrsem>>
      \/ /\ ptfree > 0 /\ ptfree' = ptfree - 1 /\ ptmsgs' = [ptmsgs EXCEPT ![i] = new]
         /\ ptrsem' = [ptrsem EXCEPT ![i] = rsem] /\ panicked' = panicked
  BY PortSemaphores DEF P!Deliver
<1> HIDE DEF new, rsem
<1>6. PortTyping'
  <2> HIDE DEF Msg
  <2>1. /\ ptmsgs \in [P!Ids -> Seq(Msg)] /\ ptfree \in Nat /\ panicked \in BOOLEAN
        /\ ptssem \in [P!Ids -> SemaphoreOf(Procs)] /\ ptrsem \in [P!Ids -> SemaphoreOf(Procs)]
    BY <1>1 DEF PortTyping, Msg
  <2>2. /\ ptmsgs' \in [P!Ids -> Seq(Msg)] /\ ptfree' \in Nat /\ panicked' \in BOOLEAN
        /\ ptssem' \in [P!Ids -> SemaphoreOf(Procs)] /\ ptrsem' \in [P!Ids -> SemaphoreOf(Procs)]
    <3>1. ptmsgs' \in [P!Ids -> Seq(Msg)]
      <4>1. ptmsgs' = ptmsgs \/ ptmsgs' = [ptmsgs EXCEPT ![i] = new]
        BY <1>5
      <4> QED BY <1>2, <2>1, <4>1
    <3>2. ptrsem' \in [P!Ids -> SemaphoreOf(Procs)]
      <4>1. ptrsem' = ptrsem \/ ptrsem' = [ptrsem EXCEPT ![i] = rsem]
        BY <1>5
      <4> QED BY <1>3, <2>1, <4>1
    <3>3. ptssem' \in [P!Ids -> SemaphoreOf(Procs)]
      BY <1>4, <2>1
    <3>4. ptfree' \in Nat
      <4>1. ptfree' = ptfree \/ (ptfree > 0 /\ ptfree' = ptfree - 1)
        BY <1>5
      <4> QED BY <2>1, <4>1
    <3>5. panicked' \in BOOLEAN
      <4>1. panicked' = TRUE \/ panicked' = panicked
        BY <1>5, Zenon
      <4> QED BY <2>1, <4>1, Zenon
    <3> QED BY <3>1, <3>2, <3>3, <3>4, <3>5
  <2> QED BY <1>1, <1>4, <2>2, PortAtFields DEF PortTyping, Msg
<1>7. /\ ptssem'[i] = ssem /\ ptat'[p] = P!User
      /\ \A q \in Procs \ {p} : ptat'[q] = ptat[q]
  BY <1>1, <1>4 DEF PortTyping
<1>8. PortFrame(p, i)
  <2>1. ptat[p].pc = "user" \/ ptat[p].port = i
    BY DEF InSend
  <2>2. ptat'[p].pc = "user"
    BY <1>7 DEF P!User
  <2>3. \A j \in P!Ids \ {i} : ptssem'[j] = ptssem[j] /\ ptrsem'[j] = ptrsem[j] /\ ptmsgs'[j] = ptmsgs[j]
    BY <1>1, <1>4, <1>5 DEF PortTyping
  <2> QED BY <1>4, <1>7, <2>1, <2>2, <2>3 DEF PortFrame
<1>9. /\ InSend(i)' = InSend(i) \ {p} /\ InReceive(i)' = InReceive(i)
      /\ \A q \in Clearing' : q \in Clearing /\ ptat'[q] = ptat[q]
  BY <1>4, <1>7 DEF InSend, InReceive, Clearing, P!User
<1>10. Waiting(ptssem'[i]) = Waiting(ptssem[i]) /\ Waiting(ptrsem'[i]) \subseteq Waiting(ptrsem[i])
  <2>1. ptrsem'[i] = ptrsem[i] \/ ptrsem'[i] = rsem
    BY <1>1, <1>5 DEF PortTyping
  <2>2. Waiting(ssem) = Waiting(ptssem[i])
    BY DEF Waiting
  <2> QED BY <1>3, <1>7, <2>1, <2>2
<1>11. PortCallers(i)'
  <2>1. Waiting(ptrsem[i]) \subseteq Procs
    BY <1>1, PortWaitersProcs
  <2>2. PortCallers(i)
    BY <1>1 DEF PortOk
  <2>3. \A q \in Waiting(ptssem'[i]) : q \in InSend(i)'
    BY <1>9, <1>10, <2>2 DEF PortCallers
  <2>4. \A q \in Waiting(ptrsem'[i]) : ptat'[q] = ptat[q] /\ q \in Waiting(ptrsem[i])
    BY <1>7, <1>10, <2>1
  <2>5. \A q \in Procs : ptat'[q].pc \in {"ptsend", "ptrecv"} => ptat'[q] = ptat[q]
    BY <1>7 DEF P!User
  <2> QED BY <1>4, <2>2, <2>3, <2>4, <2>5 DEF PortCallers
<1>12. PortCleared(i)'
  BY <1>1, <1>4, <1>9 DEF PortOk, PortCleared
<1>13. PortFresh(i)'
  <2>1. \A k \in DOMAIN new : new[k].seq = ptseq[i]
    <3>1. \A k \in DOMAIN new : k \in 1 .. Len(ptmsgs[i]) \/ k = Len(ptmsgs[i]) + 1
      BY <1>2
    <3>2. r.seq = ptseq[i]
      OBVIOUS
    <3> QED BY <1>1, <1>2, <3>1, <3>2 DEF PortOk, PortFresh
  <2> QED BY <1>1, <1>4, <1>5, <2>1 DEF PortOk, PortFresh, PortTyping
<1>14. PortCounted(i)'
  <2> SUFFICES ASSUME ~ panicked' PROVE PortCounted(i)'
    BY DEF PortCounted
  <2> DEFINE L == Len(ptmsgs[i])
             S == Cardinality(InSend(i))
             R == Cardinality(InReceive(i))
             x == ptmaxcnt[i]
  <2>1. /\ ptssem[i].count = x - L - S /\ ptrsem[i].count = L - R
        /\ L \in Nat /\ S \in Nat /\ R \in Nat /\ x \in Nat
    BY <1>1, <1>2, CallsCounted DEF PortOk, PortCounted, PortTyping
  <2>2. Len(ptmsgs'[i]) = L + 1 /\ ptrsem'[i].count = ptrsem[i].count + 1
    BY <1>1, <1>2, <1>3, <1>5 DEF PortTyping
  <2>3. Cardinality(InSend(i)') = IF p \in InSend(i) THEN S - 1 ELSE S
    BY <1>9, CallsCounted, FS_RemoveElement
  <2>4. p \in InSend(i) => ptat[p].pc # "user"
    BY DEF InSend
  <2> HIDE DEF L, S, R, x
  <2>5. /\ ptssem'[i].count = x - (L + 1) - Cardinality(InSend(i)')
        /\ ptrsem'[i].count = (L + 1) - R
    BY <1>7, <2>1, <2>2, <2>3, <2>4
  <2> QED BY <1>4, <1>9, <2>2, <2>5 DEF PortCounted, R, x
<1>15. P!NodesConserved'
  <2> DEFINE N == Cardinality(NodesOf(ptmsgs))
  <2>1. N + ptfree = MAXMSGS /\ N \in Nat
    BY <1>1, <1>2, NodesBridge, NodesChange DEF PortTyping
  <2>2. CASE ptmsgs' = ptmsgs /\ ptfree' = ptfree
    BY <1>1, <2>2 DEF P!NodesConserved, P!Nodes
  <2>3. CASE ptfree' = ptfree - 1 /\ ptmsgs' = [ptmsgs EXCEPT ![i] = new]
    <3> DEFINE L == Len(ptmsgs[i])
               K == Cardinality(NodesOf([ptmsgs EXCEPT ![i] = new]))
    <3>1. K = N - L + Len(new)
      <4>1. ptmsgs \in [P!Ids -> Seq(Msg)]
        BY <1>1 DEF PortTyping
      <4> HIDE DEF Msg
      <4> QED BY <1>2, <4>1, NodesChange, ZenonT(60)
    <3>2. Len(new) = L + 1 /\ L \in Nat /\ ptfree \in Nat
      BY <1>1, <1>2 DEF PortTyping
    <3> HIDE DEF N, L, K
    <3>3. K + ptfree' = MAXMSGS
      BY <2>1, <2>3, <3>1, <3>2, KernelAssumption
    <3>4. Cardinality(NodesOf(ptmsgs')) + ptfree' = MAXMSGS
      BY <2>3, <3>3 DEF K
    <3> QED BY <3>4, PortCounts DEF P!NodesConserved, P!Nodes, NodesOf
  <2> QED BY <1>5, <2>2, <2>3
<1>16. PortOk(i)'
  BY <1>11, <1>12, <1>13, <1>14 DEF PortOk
<1> QED BY <1>6, <1>8, <1>15, <1>16, PortStep

\* ptrecv takes the first message of a list that is not empty.
LEMMA PortTakes ==
  ASSUME PortInv, NEW p \in Procs, NEW i \in P!Ids, NEW rsem \in SemaphoreOf(Procs),
         P!Take(p, i, rsem), ~ panicked, ptstate[i] = "ALLOC",
         rsem.queue = ptrsem[i].queue, p \notin Waiting(ptssem[i]), p \notin Waiting(ptrsem[i]),
         \/ ptat[p].pc = "user" /\ rsem.count = ptrsem[i].count - 1 /\ ptrsem[i].count > 0
         \/ p \in InReceive(i) /\ rsem.count = ptrsem[i].count
  PROVE  PortInv' /\ Len(ptmsgs[i]) > 0
<1> DEFINE Msg == [msg : Msgs, seq : Nat]
           old == ptmsgs[i]
           new == Tail(ptmsgs[i])
           ssem == signal(ptssem[i])
           L == Len(ptmsgs[i])
           S == Cardinality(InSend(i))
           R == Cardinality(InReceive(i))
           x == ptmaxcnt[i]
<1>1. PortTyping /\ PortOk(i) /\ P!NodesConserved
  BY DEF PortInv
<1>2. /\ ptssem[i].count = x - L - S /\ ptrsem[i].count = L - R
      /\ L \in Nat /\ S \in Nat /\ R \in Nat /\ x \in Nat
  BY <1>1, CallsCounted DEF PortOk, PortCounted, PortTyping
<1>3. L > 0
  <2>1. CASE ptrsem[i].count > 0
    <3> HIDE DEF L, R
    <3> QED BY <1>2, <2>1
  <2>2. CASE p \in InReceive(i)
    <3> DEFINE T == InReceive(i) \ Waiting(ptrsem[i])
               Q == Len(ptrsem[i].queue)
    <3>1. ptrsem[i] \in SemaphoreOf(Procs) /\ IsFiniteSet(InReceive(i)) /\ Waiting(ptrsem[i]) \subseteq InReceive(i)
      <4>1. Waiting(ptrsem[i]) \subseteq InReceive(i)
        BY <1>1, PortWaitersProcs DEF PortOk, PortCallers, InReceive
      <4> QED BY <1>1, <4>1, CallsCounted DEF PortTyping
    <3>2. R = Q + Cardinality(T) /\ Q \in Nat /\ Cardinality(T) \in Nat
      BY <3>1, InsideCounted
    <3>3. p \in T /\ IsFiniteSet(T)
      BY <2>2, <3>1, FS_Difference
    <3>4. Cardinality(T) # 0
      BY <3>3, FS_EmptySet
    <3>5. (ptrsem[i].count < 0 => Q = - ptrsem[i].count) /\ (ptrsem[i].count >= 0 => Q = 0)
      BY <3>1 DEF SemaphoreOf
    <3> HIDE DEF L, R, Q, T
    <3> QED BY <1>2, <3>2, <3>4, <3>5
  <2> QED BY <2>1, <2>2
<1>4. /\ old \in Seq(Msg) /\ new \in Seq(Msg) /\ Len(new) = L - 1 /\ DOMAIN old = 1 .. L
      /\ \A k \in DOMAIN new : k + 1 \in DOMAIN old /\ new[k] = old[k + 1]
  <2>1. old \in Seq(Msg)
    BY <1>1 DEF PortTyping
  <2>2. new = Tail(old) /\ L = Len(old)
    OBVIOUS
  <2> HIDE DEF Msg, old, new, L
  <2>3. old # <<>>
    BY <1>3, <2>2
  <2> QED BY <1>3, <2>1, <2>2, <2>3
<1>5. /\ ssem \in SemaphoreOf(Procs) /\ ssem.count = ptssem[i].count + 1
      /\ Waiting(ssem) \subseteq Waiting(ptssem[i])
  <2>1. ptssem[i] \in SemaphoreOf(Procs)
    BY <1>1 DEF PortTyping
  <2> QED BY <2>1, SignalReleases
<1>6. /\ ptmsgs' = [ptmsgs EXCEPT ![i] = new] /\ ptfree' = ptfree + 1
      /\ ptrsem' = [ptrsem EXCEPT ![i] = rsem] /\ ptssem' = [ptssem EXCEPT ![i] = ssem]
      /\ ptat' = [ptat EXCEPT ![p] = P!User]
      /\ UNCHANGED <<ptstate, ptseq, ptmaxcnt, ptnextid, panicked>>
  BY PortSemaphores DEF P!Take, P!Goto
<1> HIDE DEF new, ssem
<1>7. /\ ptmsgs'[i] = new /\ ptrsem'[i] = rsem /\ ptssem'[i] = ssem /\ ptat'[p] = P!User
      /\ \A q \in Procs \ {p} : ptat'[q] = ptat[q]
      /\ \A j \in P!Ids \ {i} : ptssem'[j] = ptssem[j] /\ ptrsem'[j] = ptrsem[j] /\ ptmsgs'[j] = ptmsgs[j]
  BY <1>1, <1>6 DEF PortTyping
<1>8. PortTyping'
  <2> HIDE DEF Msg
  <2>1. /\ ptmsgs \in [P!Ids -> Seq(Msg)] /\ ptfree \in Nat
        /\ ptssem \in [P!Ids -> SemaphoreOf(Procs)] /\ ptrsem \in [P!Ids -> SemaphoreOf(Procs)]
    BY <1>1 DEF PortTyping, Msg
  <2>2. /\ ptmsgs' \in [P!Ids -> Seq(Msg)] /\ ptfree' \in Nat
        /\ ptssem' \in [P!Ids -> SemaphoreOf(Procs)] /\ ptrsem' \in [P!Ids -> SemaphoreOf(Procs)]
    BY <1>4, <1>5, <1>6, <2>1
  <2> QED BY <1>1, <1>6, <2>2, PortAtFields DEF PortTyping, Msg
<1>9. PortFrame(p, i)
  <2>1. ptat[p].pc = "user" \/ ptat[p].port = i
    BY DEF InReceive
  <2>2. ptat'[p].pc = "user"
    BY <1>7 DEF P!User
  <2> QED BY <1>6, <1>7, <2>1, <2>2 DEF PortFrame
<1>10. /\ InReceive(i)' = InReceive(i) \ {p} /\ InSend(i)' = InSend(i)
       /\ \A q \in Clearing' : q \in Clearing /\ ptat'[q] = ptat[q]
  BY <1>6, <1>7 DEF InSend, InReceive, Clearing, P!User
<1>11. Waiting(ptrsem'[i]) = Waiting(ptrsem[i]) /\ Waiting(ptssem'[i]) \subseteq Waiting(ptssem[i])
  BY <1>5, <1>7 DEF Waiting
<1>12. PortCallers(i)'
  <2>1. Waiting(ptrsem[i]) \subseteq Procs
    BY <1>1, PortWaitersProcs
  <2>2. PortCallers(i)
    BY <1>1 DEF PortOk
  <2>3. \A q \in Waiting(ptssem'[i]) : q \in InSend(i)'
    BY <1>10, <1>11, <2>2 DEF PortCallers
  <2>4. \A q \in Waiting(ptrsem'[i]) : ptat'[q] = ptat[q] /\ q \in Waiting(ptrsem[i])
    BY <1>7, <1>11, <2>1
  <2>5. \A q \in Procs : ptat'[q].pc \in {"ptsend", "ptrecv"} => ptat'[q] = ptat[q]
    BY <1>7 DEF P!User
  <2> QED BY <1>6, <2>2, <2>3, <2>4, <2>5 DEF PortCallers
<1>13. PortCleared(i)'
  BY <1>1, <1>6, <1>10 DEF PortOk, PortCleared
<1>14. PortFresh(i)'
  <2>1. \A k \in DOMAIN old : old[k].seq = ptseq[i]
    BY <1>1 DEF PortOk, PortFresh
  <2> HIDE DEF old
  <2> QED BY <1>4, <1>6, <1>7, <2>1 DEF PortFresh
<1>15. PortCounted(i)'
  <2>1. Cardinality(InReceive(i)') = IF p \in InReceive(i) THEN R - 1 ELSE R
    BY <1>10, CallsCounted, FS_RemoveElement
  <2>2. p \in InReceive(i) => ptat[p].pc # "user"
    BY DEF InReceive
  <2> HIDE DEF L, S, R, x
  <2>3. /\ ptssem'[i].count = x - (L - 1) - S
        /\ ptrsem'[i].count = (L - 1) - Cardinality(InReceive(i)')
    BY <1>2, <1>5, <1>7, <2>1, <2>2
  <2> QED BY <1>4, <1>6, <1>7, <1>10, <2>3 DEF PortCounted, S, x
<1>16. P!NodesConserved'
  <2> DEFINE N == Cardinality(NodesOf(ptmsgs))
             K == Cardinality(NodesOf([ptmsgs EXCEPT ![i] = new]))
  <2>1. N + ptfree = MAXMSGS
    BY <1>1, NodesBridge
  <2>2. K = N - L + Len(new) /\ N \in Nat
    <3>1. ptmsgs \in [P!Ids -> Seq(Msg)]
      BY <1>1 DEF PortTyping
    <3> HIDE DEF Msg
    <3> QED BY <1>4, <3>1, NodesChange
  <2>3. ptfree \in Nat
    BY <1>1 DEF PortTyping
  <2> HIDE DEF N, K, L
  <2>4. K + ptfree' = MAXMSGS
    BY <1>2, <1>4, <1>6, <2>1, <2>2, <2>3, KernelAssumption
  <2>5. Cardinality(NodesOf(ptmsgs')) + ptfree' = MAXMSGS
    BY <1>6, <2>4 DEF K
  <2> QED BY <2>5, PortCounts DEF P!NodesConserved, P!Nodes, NodesOf
<1>17. PortOk(i)'
  BY <1>12, <1>13, <1>14, <1>15 DEF PortOk
<1> QED BY <1>3, <1>8, <1>9, <1>16, <1>17, PortStep

\* ptsend and ptrecv up to a wait that blocks.
LEMMA PortSendWaits ==
  ASSUME PortInv, NEW p \in Procs, NEW i \in P!Ids, NEW m \in Msgs, ptat[p].pc = "user", ptstate[i] = "ALLOC",
         Blocks(ptssem[i]), ptssem' = [ptssem EXCEPT ![i] = wait(ptssem[i], p)],
         ptat' = [ptat EXCEPT ![p] = [pc |-> "ptsend", port |-> i, seq |-> ptseq[i], msg |-> m]],
         UNCHANGED <<ptstate, ptseq, ptmaxcnt, ptrsem, ptmsgs, ptfree, ptnextid, panicked>>
  PROVE  PortInv'
<1> DEFINE ssem == wait(ptssem[i], p)
           here == [pc |-> "ptsend", port |-> i, seq |-> ptseq[i], msg |-> m]
<1>1. PortTyping /\ PortOk(i) /\ P!NodesConserved
  BY DEF PortInv
<1>2. p \notin Waiting(ptssem[i]) /\ p \notin Waiting(ptrsem[i])
  BY <1>1 DEF PortOk, PortCallers, InSend
<1>3. ssem \in SemaphoreOf(Procs) /\ ssem.count = ptssem[i].count - 1 /\ Waiting(ssem) = Waiting(ptssem[i]) \cup {p}
  <2>1. ptssem[i] \in SemaphoreOf(Procs)
    BY <1>1 DEF PortTyping
  <2> QED BY <1>2, <2>1, Waited
<1>4. here.pc = "ptsend" /\ here.port = i /\ here.seq = ptseq[i]
      /\ here \in PortAt
  BY <1>1, PortAtFields DEF PortTyping
<1> HIDE DEF ssem, here
<1>5. ptssem' = [ptssem EXCEPT ![i] = ssem] /\ ptat' = [ptat EXCEPT ![p] = here]
  BY DEF ssem, here
<1>6. /\ ptssem'[i] = ssem /\ ptat'[p] = here
      /\ \A q \in Procs \ {p} : ptat'[q] = ptat[q]
      /\ \A j \in P!Ids \ {i} : ptssem'[j] = ptssem[j]
  BY <1>1, <1>5 DEF PortTyping
<1>7. PortTyping'
  <2>1. ptssem' \in [P!Ids -> SemaphoreOf(Procs)]
    BY <1>1, <1>3, <1>5 DEF PortTyping
  <2>2. ptat' \in [Procs -> PortAt]
    BY <1>1, <1>4, <1>5 DEF PortTyping
  <2> QED BY <1>1, <2>1, <2>2 DEF PortTyping
<1>8. PortFrame(p, i)
  BY <1>4, <1>6 DEF PortFrame
<1>9. /\ InSend(i)' = InSend(i) \cup {p} /\ p \notin InSend(i) /\ InReceive(i)' = InReceive(i)
      /\ \A q \in Clearing' : q \in Clearing /\ ptat'[q] = ptat[q]
  BY <1>4, <1>6 DEF InSend, InReceive, Clearing
<1>10. PortCallers(i)'
  <2>1. Waiting(ptrsem[i]) \subseteq Procs
    BY <1>1, PortWaitersProcs
  <2>2. PortCallers(i)
    BY <1>1 DEF PortOk
  <2>3. \A q \in Waiting(ptssem'[i]) : q \in InSend(i)'
    BY <1>3, <1>6, <1>9, <2>2 DEF PortCallers
  <2>4. \A q \in Waiting(ptrsem'[i]) : ptat'[q] = ptat[q] /\ q \in Waiting(ptrsem[i])
    BY <1>2, <1>6, <2>1
  <2>5. \A q \in Procs : ptat'[q] = ptat[q] \/ (ptat'[q].seq = ptseq[i])
    BY <1>4, <1>6
  <2>6. ptseq[i] <= ptseq[i]
    BY <1>1 DEF PortTyping
  <2> QED BY <2>2, <2>3, <2>4, <2>5, <2>6 DEF PortCallers
<1>11. PortCleared(i)'
  BY <1>1, <1>9 DEF PortOk, PortCleared
<1>12. PortCounted(i)' /\ PortFresh(i)'
  <2> DEFINE L == Len(ptmsgs[i])
             S == Cardinality(InSend(i))
             x == ptmaxcnt[i]
  <2>1. ~ panicked => ptssem[i].count = x - L - S /\ ptrsem[i].count = L - Cardinality(InReceive(i))
    BY <1>1 DEF PortOk, PortCounted
  <2>2. L \in Nat /\ S \in Nat /\ x \in Nat
    BY <1>1, CallsCounted DEF PortTyping
  <2>3. Cardinality(InSend(i)') = S + 1
    BY <1>9, CallsCounted, FS_AddElement, ZenonT(60)
  <2> HIDE DEF L, S, x
  <2>4. ~ panicked => ptssem'[i].count = x - L - (S + 1)
    BY <1>3, <1>6, <2>1, <2>2
  <2>5. PortCounted(i)'
    BY <1>9, <2>1, <2>3, <2>4 DEF PortCounted, L, x
  <2>6. PortFresh(i)'
    BY <1>1 DEF PortOk, PortFresh
  <2> QED BY <2>5, <2>6
<1>13. P!NodesConserved'
  BY <1>1 DEF P!NodesConserved, P!Nodes
<1>14. PortOk(i)'
  BY <1>10, <1>11, <1>12 DEF PortOk
<1> QED BY <1>7, <1>8, <1>13, <1>14, PortStep

\* ptrecv waits for a message.
LEMMA PortReceiveWaits ==
  ASSUME PortInv, NEW p \in Procs, NEW i \in P!Ids, ptat[p].pc = "user", ptstate[i] = "ALLOC",
         Blocks(ptrsem[i]), ptrsem' = [ptrsem EXCEPT ![i] = wait(ptrsem[i], p)],
         ptat' = [ptat EXCEPT ![p] = [pc |-> "ptrecv", port |-> i, seq |-> ptseq[i]]],
         UNCHANGED <<ptstate, ptseq, ptmaxcnt, ptssem, ptmsgs, ptfree, ptnextid, panicked>>
  PROVE  PortInv'
<1> DEFINE rsem == wait(ptrsem[i], p)
           here == [pc |-> "ptrecv", port |-> i, seq |-> ptseq[i]]
<1>1. PortTyping /\ PortOk(i) /\ P!NodesConserved
  BY DEF PortInv
<1>2. p \notin Waiting(ptssem[i]) /\ p \notin Waiting(ptrsem[i])
  BY <1>1 DEF PortOk, PortCallers, InSend
<1>3. rsem \in SemaphoreOf(Procs) /\ rsem.count = ptrsem[i].count - 1 /\ Waiting(rsem) = Waiting(ptrsem[i]) \cup {p}
  <2>1. ptrsem[i] \in SemaphoreOf(Procs)
    BY <1>1 DEF PortTyping
  <2> QED BY <1>2, <2>1, Waited
<1>4. here.pc = "ptrecv" /\ here.port = i /\ here.seq = ptseq[i]
      /\ here \in PortAt
  BY <1>1, PortAtFields DEF PortTyping
<1> HIDE DEF rsem, here
<1>5. ptrsem' = [ptrsem EXCEPT ![i] = rsem] /\ ptat' = [ptat EXCEPT ![p] = here]
  BY DEF rsem, here
<1>6. /\ ptrsem'[i] = rsem /\ ptat'[p] = here
      /\ \A q \in Procs \ {p} : ptat'[q] = ptat[q]
      /\ \A j \in P!Ids \ {i} : ptrsem'[j] = ptrsem[j]
  BY <1>1, <1>5 DEF PortTyping
<1>7. PortTyping'
  <2>1. ptrsem' \in [P!Ids -> SemaphoreOf(Procs)]
    BY <1>1, <1>3, <1>5 DEF PortTyping
  <2>2. ptat' \in [Procs -> PortAt]
    BY <1>1, <1>4, <1>5 DEF PortTyping
  <2> QED BY <1>1, <2>1, <2>2 DEF PortTyping
<1>8. PortFrame(p, i)
  BY <1>4, <1>6 DEF PortFrame
<1>9. /\ InReceive(i)' = InReceive(i) \cup {p} /\ p \notin InReceive(i) /\ InSend(i)' = InSend(i)
      /\ \A q \in Clearing' : q \in Clearing /\ ptat'[q] = ptat[q]
  BY <1>4, <1>6 DEF InSend, InReceive, Clearing
<1>10. PortCallers(i)'
  <2>1. Waiting(ptrsem[i]) \subseteq Procs
    BY <1>1, PortWaitersProcs
  <2>2. PortCallers(i)
    BY <1>1 DEF PortOk
  <2>3. \A q \in Waiting(ptssem'[i]) : q \in InSend(i)'
    BY <1>9, <2>2 DEF PortCallers
  <2>4. \A q \in Waiting(ptrsem'[i]) : q = p \/ (ptat'[q] = ptat[q] /\ q \in Waiting(ptrsem[i]))
    BY <1>2, <1>3, <1>6, <2>1
  <2>5. \A q \in Procs : ptat'[q] = ptat[q] \/ (ptat'[q].seq = ptseq[i])
    BY <1>4, <1>6
  <2>6. ptseq[i] <= ptseq[i]
    BY <1>1 DEF PortTyping
  <2> QED BY <1>4, <1>6, <2>2, <2>3, <2>4, <2>5, <2>6 DEF PortCallers
<1>11. PortCleared(i)'
  BY <1>1, <1>9 DEF PortOk, PortCleared
<1>12. PortCounted(i)' /\ PortFresh(i)'
  <2> DEFINE L == Len(ptmsgs[i])
             R == Cardinality(InReceive(i))
  <2>1. ~ panicked => /\ ptssem[i].count = ptmaxcnt[i] - L - Cardinality(InSend(i))
                      /\ ptrsem[i].count = L - R
    BY <1>1 DEF PortOk, PortCounted
  <2>2. L \in Nat /\ R \in Nat
    BY <1>1, CallsCounted DEF PortTyping
  <2>3. Cardinality(InReceive(i)') = R + 1
    BY <1>9, CallsCounted, FS_AddElement
  <2> HIDE DEF L, R
  <2>4. ~ panicked => ptrsem'[i].count = L - (R + 1)
    BY <1>3, <1>6, <2>1, <2>2
  <2>5. PortCounted(i)'
    BY <1>9, <2>1, <2>3, <2>4 DEF PortCounted, L
  <2>6. PortFresh(i)'
    BY <1>1 DEF PortOk, PortFresh
  <2> QED BY <2>5, <2>6
<1>13. P!NodesConserved'
  BY <1>1 DEF P!NodesConserved, P!Nodes
<1>14. PortOk(i)'
  BY <1>10, <1>11, <1>12 DEF PortOk
<1> QED BY <1>7, <1>8, <1>13, <1>14, PortStep

\* A call whose port was reset or deleted meanwhile returns SYSERR.
LEMMA PortGivesUp ==
  ASSUME PortInv, NEW p \in Procs, NEW i \in P!Ids, ptat[p].port = i, ptat[p].pc \in {"ptsend", "ptrecv"},
         p \notin Waiting(ptssem[i]), p \notin Waiting(ptrsem[i]), p \notin InSend(i), p \notin InReceive(i),
         P!GiveUp(p)
  PROVE  PortInv'
<1>1. PortTyping /\ PortOk(i) /\ P!NodesConserved
  BY DEF PortInv
<1>2. /\ ptat' = [ptat EXCEPT ![p] = P!User]
      /\ UNCHANGED <<ptstate, ptseq, ptmaxcnt, ptssem, ptrsem, ptmsgs, ptfree, ptnextid, panicked>>
  BY DEF P!GiveUp, P!Goto, P!porttab
<1>3. ptat'[p] = P!User /\ \A q \in Procs \ {p} : ptat'[q] = ptat[q]
  BY <1>1, <1>2 DEF PortTyping
<1>4. PortTyping'
  BY <1>1, <1>2, PortAtFields DEF PortTyping
<1>5. PortFrame(p, i)
  BY <1>2, <1>3 DEF PortFrame, P!User
<1>6. /\ InSend(i)' = InSend(i) /\ InReceive(i)' = InReceive(i)
      /\ \A q \in Clearing' : q \in Clearing /\ ptat'[q] = ptat[q]
  BY <1>2, <1>3 DEF InSend, InReceive, Clearing, P!User
<1>7. PortCallers(i)'
  <2>1. Waiting(ptrsem[i]) \subseteq Procs
    BY <1>1, PortWaitersProcs
  <2>2. \A q \in Waiting(ptrsem'[i]) : ptat'[q] = ptat[q]
    BY <1>2, <1>3, <2>1
  <2>3. \A q \in Procs : ptat'[q].pc \in {"ptsend", "ptrecv"} => ptat'[q] = ptat[q]
    BY <1>3 DEF P!User
  <2> QED BY <1>1, <1>2, <1>6, <2>2, <2>3 DEF PortOk, PortCallers
<1>8. PortCleared(i)'
  BY <1>1, <1>2, <1>6 DEF PortOk, PortCleared, P!SenderCount
<1>9. PortCounted(i)' /\ PortFresh(i)'
  BY <1>1, <1>2, <1>6 DEF PortOk, PortCounted, PortFresh
<1>10. P!NodesConserved'
  BY <1>1, <1>2 DEF P!NodesConserved, P!Nodes
<1>11. PortOk(i)'
  BY <1>7, <1>8, <1>9 DEF PortOk
<1> QED BY <1>4, <1>5, <1>10, <1>11, PortStep

\* ptcreate finds a free entry.
LEMMA PortSlot ==
  ASSUME PortTyping, P!FreeSlots # {}
  PROVE  P!Slot(P!Min(P!FreeSlots)) \in P!Ids /\ ptstate[P!Slot(P!Min(P!FreeSlots))] = "FREE"
<1>1. P!FreeSlots \subseteq Nat
  BY PortIds DEF P!FreeSlots
<1>2. P!Min(P!FreeSlots) \in P!FreeSlots
  <2> DEFINE T == P!FreeSlots
  <2> HIDE DEF T
  <2>1. T \subseteq Nat /\ T # {}
    BY <1>1 DEF T
  <2>2. PICK k \in T : \A y \in T : ~ (<<y, k>> \in OpToRel(<, Nat))
    BY <2>1, NatLessThanWellFounded, WFMin
  <2>3. \A y \in T : ~ (y < k)
    BY <2>1, <2>2, Zenon DEF OpToRel
  <2>4. \A y \in T : k <= y
    BY <2>1, <2>3
  <2>5. P!Min(T) \in T
    BY <2>4 DEF P!Min
  <2> QED BY <2>5 DEF T
<1>3. P!Slot(P!Min(P!FreeSlots)) \in 0 .. (NPORTS - 1)
  <2> DEFINE a == ptnextid + P!Min(P!FreeSlots)
  <2>1. a \in Nat
    <3>1. ptnextid \in 0 .. (NPORTS - 1)
      BY PortIds DEF PortTyping
    <3>2. P!Min(P!FreeSlots) \in Nat
      BY <1>1, <1>2
    <3> QED BY <3>1, <3>2, KernelAssumption
  <2> HIDE DEF a
  <2>2. a % NPORTS \in 0 .. (NPORTS - 1)
    BY <2>1, KernelAssumption
  <2> QED BY <2>2 DEF a, P!Slot
<1> QED BY <1>2, <1>3, PortIds DEF P!FreeSlots

\* ptcreate takes a free port, whatever calls are still leaving it.
LEMMA PortCreated ==
  ASSUME PortInv, NEW p \in Procs, NEW c \in Counts, P!ptcreate(p, c)
  PROVE  PortInv'
<1>1. PortTyping /\ P!NodesConserved
  BY DEF PortInv
<1> SUFFICES ASSUME NEW i \in P!Ids, i = P!Slot(P!Min(P!FreeSlots)) PROVE PortInv'
  BY <1>1, PortSlot DEF P!ptcreate
<1>2. i \in P!Ids /\ ptstate[i] = "FREE" /\ ptat[p].pc = "user"
  BY <1>1, PortSlot DEF P!ptcreate, P!Calls
<1>3. /\ ptnextid' = (i + 1) % NPORTS
      /\ ptstate' = [ptstate EXCEPT ![i] = "ALLOC"]
      /\ ptssem' = [ptssem EXCEPT ![i] = semcreate(c)]
      /\ ptrsem' = [ptrsem EXCEPT ![i] = semcreate(0)]
      /\ ptmsgs' = [ptmsgs EXCEPT ![i] = <<>>]
      /\ ptseq' = [ptseq EXCEPT ![i] = @ + 1]
      /\ ptmaxcnt' = [ptmaxcnt EXCEPT ![i] = c]
      /\ UNCHANGED <<ptfree, ptat, panicked>>
  BY PortSemaphores DEF P!ptcreate
<1>4. PortOk(i) /\ c \in Nat
  BY <1>2, KernelAssumption DEF PortInv
<1>5. /\ semcreate(c) \in SemaphoreOf(Procs) /\ semcreate(0) \in SemaphoreOf(Procs)
      /\ Waiting(semcreate(c)) = {} /\ Waiting(semcreate(0)) = {}
      /\ semcreate(c).count = c /\ semcreate(0).count = 0
  BY <1>4, Created DEF semcreate
<1>6. /\ ptstate'[i] = "ALLOC" /\ ptssem'[i] = semcreate(c) /\ ptrsem'[i] = semcreate(0)
      /\ ptmsgs'[i] = <<>> /\ ptseq'[i] = ptseq[i] + 1 /\ ptmaxcnt'[i] = c
      /\ \A j \in P!Ids \ {i} :
           /\ ptstate'[j] = ptstate[j] /\ ptseq'[j] = ptseq[j] /\ ptmaxcnt'[j] = ptmaxcnt[j]
           /\ ptssem'[j] = ptssem[j] /\ ptrsem'[j] = ptrsem[j] /\ ptmsgs'[j] = ptmsgs[j]
  BY <1>1, <1>2, <1>3 DEF PortTyping
<1>7. PortTyping'
  <2> DEFINE Msg == [msg : Msgs, seq : Nat]
  <2> HIDE DEF Msg
  <2>1. ptmsgs \in [P!Ids -> Seq(Msg)]
    BY <1>1 DEF PortTyping, Msg
  <2>2. ptmsgs' \in [P!Ids -> Seq(Msg)]
    BY <1>3, <2>1
  <2>3. ptssem' \in [P!Ids -> SemaphoreOf(Procs)] /\ ptrsem' \in [P!Ids -> SemaphoreOf(Procs)]
    BY <1>1, <1>3, <1>5 DEF PortTyping
  <2>4. ptseq' \in [P!Ids -> Nat] /\ ptmaxcnt' \in [P!Ids -> Nat]
    <3>1. ptseq \in [P!Ids -> Nat] /\ ptmaxcnt \in [P!Ids -> Nat] /\ ptseq[i] + 1 \in Nat
      BY <1>1 DEF PortTyping
    <3> QED BY <1>3, <1>4, <3>1
  <2>5. ptstate' \in [P!Ids -> {"FREE", "ALLOC", "LIMBO"}]
    BY <1>1, <1>3 DEF PortTyping
  <2>6. ptnextid' \in P!Ids
    BY <1>2, <1>3, PortIds, KernelAssumption
  <2> QED BY <1>1, <1>3, <2>2, <2>3, <2>4, <2>5, <2>6 DEF PortTyping, Msg
<1>8. PortFrame(p, i)
  BY <1>2, <1>3, <1>6 DEF PortFrame
<1>9. InSend(i)' = {} /\ InReceive(i)' = {}
  <2>1. \A q \in Procs : ptat[q].pc \in {"ptsend", "ptrecv"} /\ ptat[q].port = i => ptat[q].seq <= ptseq[i] /\ ptat[q].seq \in Nat
    BY <1>1, <1>2, <1>4, PortAtFields DEF PortTyping, PortOk, PortCallers
  <2>2. ptseq[i] \in Nat
    BY <1>1, <1>2 DEF PortTyping
  <2>3. \A q \in Procs : ptat[q].pc \in {"ptsend", "ptrecv"} /\ ptat[q].port = i => ptat[q].seq # ptseq'[i]
    BY <1>6, <2>1, <2>2
  <2> QED BY <1>3, <2>3 DEF InSend, InReceive
<1>10. PortCallers(i)'
  <2>1. \A q \in Procs : ptat[q].pc \in {"ptsend", "ptrecv"} /\ ptat[q].port = i => ptat[q].seq <= ptseq[i] + 1
    <3>1. \A q \in Procs : ptat[q].pc \in {"ptsend", "ptrecv"} /\ ptat[q].port = i => ptat[q].seq <= ptseq[i] /\ ptat[q].seq \in Nat
      BY <1>1, <1>2, <1>4, PortAtFields DEF PortTyping, PortOk, PortCallers
    <3>2. ptseq[i] \in Nat
      BY <1>1 DEF PortTyping
    <3> QED BY <3>1, <3>2
  <2> QED BY <1>3, <1>5, <1>6, <2>1 DEF PortCallers
<1>11. PortCleared(i)'
  <2>1. \A q \in Clearing' : ptat'[q].port # i
    BY <1>2, <1>3, <1>4 DEF PortOk, PortCleared, Clearing
  <2> QED BY <1>6, <2>1 DEF PortCleared
<1>12. PortCounted(i)' /\ PortFresh(i)'
  <2>1. Cardinality({}) = 0 /\ Len(<<>>) = 0
    BY FS_EmptySet
  <2>2. c = c - 0 - 0 /\ 0 = 0 - 0
    BY <1>4
  <2> QED BY <1>5, <1>6, <1>9, <2>1, <2>2 DEF PortCounted, PortFresh
<1>13. P!NodesConserved'
  <2>1. ptmsgs[i] = <<>>
    BY <1>2, <1>4 DEF PortOk, PortCleared
  <2>2. ptmsgs' = ptmsgs
    BY <1>1, <1>2, <1>3, <2>1 DEF PortTyping
  <2> QED BY <1>1, <1>3, <2>2, ZenonT(60) DEF P!NodesConserved, P!Nodes
<1>14. PortOk(i)'
  BY <1>10, <1>11, <1>12 DEF PortOk
<1> QED BY <1>2, <1>7, <1>8, <1>13, <1>14, PortStep

\* _ptclear takes the messages one at a time, then resets both semaphores.
LEMMA PortClears ==
  ASSUME PortInv, NEW p \in Procs, NEW i \in P!Ids, NEW new \in {"ALLOC", "FREE"}, P!_ptclear(p, i, new)
  PROVE  PortInv'
<1> DEFINE n == P!SenderCount(i, new)
<1>1. PortTyping /\ P!NodesConserved /\ PortOk(i)
  BY DEF PortInv
<1>2. n \in Nat /\ (new = "ALLOC" => n = ptmaxcnt[i])
  BY <1>1 DEF P!SenderCount, PortTyping
<1> HIDE DEF n
<1>3. /\ ptat[p].pc = "user" /\ ptstate[i] = "ALLOC"
      /\ ptseq' = [ptseq EXCEPT ![i] = @ + 1] /\ ptfree' = ptfree + Len(ptmsgs[i])
      /\ ptmsgs' = [ptmsgs EXCEPT ![i] = <<>>] /\ ptssem' = [ptssem EXCEPT ![i] = semcreate(n)]
      /\ UNCHANGED <<ptmaxcnt, panicked>>
  BY PortSemaphores DEF P!_ptclear, P!Calls, P!Cleared, n
<1>4. \/ /\ ptstate' = [ptstate EXCEPT ![i] = "LIMBO"]
         /\ ptat' = [ptat EXCEPT ![p] = [pc |-> "_ptclear", port |-> i, new |-> new]]
         /\ UNCHANGED <<ptrsem, ptnextid>>
      \/ /\ ptrsem' = [ptrsem EXCEPT ![i] = semcreate(0)]
         /\ ptstate' = [ptstate EXCEPT ![i] = "LIMBO"]
         /\ ptat' = [ptat EXCEPT ![p] = [pc |-> "_ptclear_end", port |-> i, new |-> new]]
         /\ UNCHANGED ptnextid
      \/ /\ ptrsem' = [ptrsem EXCEPT ![i] = semcreate(0)]
         /\ ptstate' = [ptstate EXCEPT ![i] = new] /\ ptnextid' \in {i, ptnextid} /\ UNCHANGED ptat
  BY PortSemaphores DEF P!_ptclear, P!Goto, P!FinishClear
<1>5. /\ semcreate(n) \in SemaphoreOf(Procs) /\ semcreate(0) \in SemaphoreOf(Procs)
      /\ Waiting(semcreate(n)) = {} /\ Waiting(semcreate(0)) = {}
      /\ semcreate(n).count = n /\ semcreate(0).count = 0
  BY <1>2, Created DEF semcreate
<1>6. /\ ptssem'[i] = semcreate(n) /\ ptmsgs'[i] = <<>> /\ ptseq'[i] = ptseq[i] + 1
      /\ \/ ptstate'[i] = "LIMBO" /\ ptat'[p] = [pc |-> "_ptclear", port |-> i, new |-> new] /\ ptrsem' = ptrsem
         \/ /\ ptstate'[i] = "LIMBO" /\ ptat'[p] = [pc |-> "_ptclear_end", port |-> i, new |-> new]
            /\ ptrsem'[i] = semcreate(0)
         \/ ptstate'[i] = new /\ ptat'[p] = ptat[p] /\ ptrsem'[i] = semcreate(0)
  BY <1>1, <1>3, <1>4 DEF PortTyping
<1>7. \A q \in Procs \ {p} : ptat'[q] = ptat[q]
  BY <1>1, <1>4 DEF PortTyping
<1>8. PortTyping'
  <2> DEFINE Msg == [msg : Msgs, seq : Nat]
  <2>1. /\ [pc |-> "_ptclear", port |-> i, new |-> new] \in PortAt
        /\ [pc |-> "_ptclear_end", port |-> i, new |-> new] \in PortAt
    BY PortAtFields
  <2> HIDE DEF Msg
  <2>2. ptmsgs \in [P!Ids -> Seq(Msg)] /\ ptat \in [Procs -> PortAt]
    BY <1>1 DEF PortTyping, Msg
  <2>3. ptmsgs' \in [P!Ids -> Seq(Msg)]
    BY <1>3, <2>2
  <2>4. ptat' \in [Procs -> PortAt]
    BY <1>4, <2>1, <2>2
  <2>5. ptssem' \in [P!Ids -> SemaphoreOf(Procs)]
    BY <1>1, <1>3, <1>5 DEF PortTyping
  <2>6. ptrsem' \in [P!Ids -> SemaphoreOf(Procs)]
    <3>1. ptrsem' = ptrsem \/ ptrsem' = [ptrsem EXCEPT ![i] = semcreate(0)]
      BY <1>4
    <3> QED BY <1>1, <1>5, <3>1 DEF PortTyping
  <2>7. ptseq' \in [P!Ids -> Nat] /\ ptstate' \in [P!Ids -> {"FREE", "ALLOC", "LIMBO"}]
    <3>1. ptseq \in [P!Ids -> Nat] /\ ptseq[i] + 1 \in Nat /\ ptstate \in [P!Ids -> {"FREE", "ALLOC", "LIMBO"}]
      BY <1>1 DEF PortTyping
    <3>2. \E x \in {"FREE", "ALLOC", "LIMBO"} : ptstate' = [ptstate EXCEPT ![i] = x]
      BY <1>4
    <3> QED BY <1>3, <3>1, <3>2
  <2>8. ptnextid' \in P!Ids
    BY <1>1, <1>4 DEF PortTyping
  <2>9. ptfree' \in Nat
    BY <1>1, <1>3 DEF PortTyping
  <2> QED BY <1>1, <1>3, <2>3, <2>4, <2>5, <2>6, <2>7, <2>8, <2>9 DEF PortTyping, Msg
<1>9. PortFrame(p, i)
  <2>1. \A j \in P!Ids \ {i} :
           /\ ptstate'[j] = ptstate[j] /\ ptseq'[j] = ptseq[j] /\ ptssem'[j] = ptssem[j]
           /\ ptrsem'[j] = ptrsem[j] /\ ptmsgs'[j] = ptmsgs[j]
    BY <1>1, <1>3, <1>4 DEF PortTyping
  <2>2. ptat'[p].pc = "user" \/ ptat'[p].port = i
    BY <1>3, <1>6
  <2> QED BY <1>3, <1>7, <2>1, <2>2 DEF PortFrame
<1>10. \A q \in Procs : ptat'[q].pc \in {"ptsend", "ptrecv"} => ptat'[q] = ptat[q]
  BY <1>6, <1>7
<1>11. \A q \in Procs : ptat[q].pc \in {"ptsend", "ptrecv"} => ptat'[q] = ptat[q]
  BY <1>3, <1>7
<1>12. \A q \in Procs : ptat'[q].pc \in {"ptsend", "ptrecv"} /\ ptat'[q].port = i => ptat'[q].seq < ptseq'[i]
  <2>1. ptseq[i] \in Nat
    BY <1>1 DEF PortTyping
  <2>2. ASSUME NEW q \in Procs, ptat[q].pc \in {"ptsend", "ptrecv"}, ptat[q].port = i
        PROVE  ptat[q].seq <= ptseq[i] /\ ptat[q].seq \in Nat
    BY <1>1, <2>2, PortAtFields DEF PortTyping, PortOk, PortCallers
  <2> QED BY <1>6, <1>10, <2>1, <2>2
<1>13. InSend(i)' = {} /\ InReceive(i)' = {}
  <2>1. ptseq'[i] \in Nat
    BY <1>8 DEF PortTyping
  <2>2. \A q \in Procs : ptat'[q].pc \in {"ptsend", "ptrecv"} /\ ptat'[q].port = i => ptat'[q].seq # ptseq'[i]
    BY <1>12, <2>1
  <2> QED BY <2>2 DEF InSend, InReceive
<1>14. PortCallers(i)'
  <2>1. Waiting(ptrsem'[i]) = {} \/ (ptstate'[i] = "LIMBO" /\ Waiting(ptrsem'[i]) = Waiting(ptrsem[i]))
    BY <1>5, <1>6
  <2>2. \A q \in Waiting(ptrsem[i]) : q \in Procs /\ ptat[q].pc = "ptrecv" /\ ptat[q].port = i
    BY <1>1, PortWaitersProcs DEF PortOk, PortCallers
  <2>3. \A q \in Waiting(ptrsem'[i]) : /\ ptat'[q].pc = "ptrecv" /\ ptat'[q].port = i
                                       /\ (ptstate'[i] = "ALLOC" => ptat'[q].seq = ptseq'[i])
    BY <1>11, <2>1, <2>2
  <2>4. \A q \in Procs : ptat'[q].pc \in {"ptsend", "ptrecv"} /\ ptat'[q].port = i =>
                           ptat'[q].seq <= ptseq'[i] /\ ptat'[q].seq < ptseq'[i]
    <3>1. ptseq'[i] \in Nat
      BY <1>8 DEF PortTyping
    <3>2. ASSUME NEW q \in Procs, ptat'[q].pc \in {"ptsend", "ptrecv"}
          PROVE  ptat'[q].seq \in Nat
      BY <1>8, <3>2, PortAtFields DEF PortTyping
    <3> QED BY <1>12, <3>1, <3>2
  <2>5. Waiting(ptssem'[i]) = {}
    BY <1>5, <1>6
  <2> QED BY <2>3, <2>4, <2>5 DEF PortCallers
<1>15. PortCleared(i)'
  <2>1. \A q \in Clearing : ptat[q].port # i
    BY <1>1, <1>3 DEF PortOk, PortCleared
  <2>2. \A q \in Clearing' : ptat'[q].port = i => q = p /\ ptstate'[i] = "LIMBO" /\ ptat'[q].new = new
    BY <1>3, <1>6, <1>7, <2>1 DEF Clearing
  <2>3. ASSUME NEW q \in Clearing', ptat'[q].port = i
        PROVE  /\ ptssem'[i] = semcreate(IF ptat'[q].new = "ALLOC" THEN ptmaxcnt'[i] ELSE 0)
               /\ ptat'[q].pc = "_ptclear_end" => ptrsem'[i] = semcreate(0)
    <3>1. q = p /\ ptat'[q].new = new
      BY <2>2, <2>3
    <3>2. n = IF new = "ALLOC" THEN ptmaxcnt'[i] ELSE 0
      BY <1>3 DEF P!SenderCount, n
    <3>3. ptat'[p].pc = "_ptclear_end" => ptrsem'[i] = semcreate(0)
      BY <1>3, <1>6
    <3> QED BY <1>6, <3>1, <3>2, <3>3
  <2>4. ptstate'[i] = "FREE" => Waiting(ptrsem'[i]) = {}
    BY <1>5, <1>6
  <2> QED BY <1>6, <2>2, <2>3, <2>4 DEF PortCleared, P!SenderCount
<1>16. PortCounted(i)' /\ PortFresh(i)'
  <2>1. Cardinality({}) = 0 /\ Len(<<>>) = 0
    BY FS_EmptySet
  <2>2. ptstate'[i] = "ALLOC" => new = "ALLOC" /\ ptrsem'[i] = semcreate(0)
    BY <1>6
  <2>3. n = n - 0 - 0 /\ 0 = 0 - 0
    BY <1>2
  <2>4. PortCounted(i)'
    BY <1>2, <1>3, <1>5, <1>6, <1>13, <2>1, <2>2, <2>3 DEF PortCounted
  <2> QED BY <1>6, <2>4 DEF PortFresh
<1>17. P!NodesConserved'
  <2> DEFINE N == Cardinality(NodesOf(ptmsgs))
             K == Cardinality(NodesOf([ptmsgs EXCEPT ![i] = <<>>]))
             L == Len(ptmsgs[i])
             Msg == [msg : Msgs, seq : Nat]
  <2>1. N + ptfree = MAXMSGS /\ ptfree \in Nat
    BY <1>1, NodesBridge DEF PortTyping
  <2>2. ptmsgs \in [P!Ids -> Seq(Msg)]
    BY <1>1 DEF PortTyping
  <2> HIDE DEF Msg
  <2>3. N = K + L /\ K \in Nat /\ L \in Nat
    <3>1. N = K + L /\ K \in Nat
      BY <2>2, NodesWithout
    <3>2. L \in Nat
      BY <2>2
    <3> QED BY <3>1, <3>2
  <2>4. ptfree' = ptfree + L
    BY <1>3
  <2> HIDE DEF N, K, L
  <2>5. K + ptfree' = MAXMSGS
    BY <2>1, <2>3, <2>4, KernelAssumption
  <2>6. Cardinality(NodesOf(ptmsgs')) + ptfree' = MAXMSGS
    BY <1>3, <2>5 DEF K
  <2> QED BY <2>6, PortCounts DEF P!NodesConserved, P!Nodes, NodesOf
<1>18. PortOk(i)'
  BY <1>14, <1>15, <1>16 DEF PortOk
<1> QED BY <1>8, <1>9, <1>17, <1>18, PortStep

\* The end of _ptclear, with no receiver to release or after they were released.
LEMMA PortFinished ==
  ASSUME PortInv, NEW p \in Procs, NEW i \in P!Ids, p \in Clearing, ptat[p].port = i,
         P!FinishClear(i, ptat[p].new), P!Goto(p, P!User),
         \/ ptrsem' = [ptrsem EXCEPT ![i] = semcreate(0)]
         \/ ptat[p].pc = "_ptclear_end" /\ ptrsem' = ptrsem,
         UNCHANGED <<ptseq, ptmaxcnt, ptssem, ptmsgs, ptfree, panicked>>
  PROVE  PortInv'
<1>1. PortTyping /\ P!NodesConserved /\ PortOk(i)
  BY DEF PortInv
<1> SUFFICES ASSUME NEW new, new = ptat[p].new PROVE PortInv'
  OBVIOUS
<1>2. new \in {"ALLOC", "FREE"} /\ ptstate[i] = "LIMBO" /\ ptssem[i] = semcreate(P!SenderCount(i, new))
  BY <1>1, PortAtFields DEF PortTyping, Clearing, PortOk, PortCleared
<1>3. /\ ptstate' = [ptstate EXCEPT ![i] = new] /\ ptnextid' \in {i, ptnextid}
      /\ ptat' = [ptat EXCEPT ![p] = P!User] /\ ptrsem' = [ptrsem EXCEPT ![i] = semcreate(0)]
  <2>1. ptrsem' = [ptrsem EXCEPT ![i] = semcreate(0)]
    BY <1>1 DEF PortTyping, PortOk, PortCleared
  <2> QED BY <2>1 DEF P!FinishClear, P!Goto
<1>4. semcreate(0) \in SemaphoreOf(Procs) /\ Waiting(semcreate(0)) = {} /\ semcreate(0).count = 0
  BY Created DEF semcreate
<1>5. /\ ptstate'[i] = new /\ ptrsem'[i] = semcreate(0) /\ ptat'[p] = P!User
      /\ \A q \in Procs \ {p} : ptat'[q] = ptat[q]
      /\ \A j \in P!Ids \ {i} : ptstate'[j] = ptstate[j] /\ ptrsem'[j] = ptrsem[j]
  BY <1>1, <1>3 DEF PortTyping
<1>6. PortTyping'
  <2>1. ptstate' \in [P!Ids -> {"FREE", "ALLOC", "LIMBO"}] /\ ptnextid' \in P!Ids
    BY <1>1, <1>2, <1>3 DEF PortTyping
  <2>2. ptrsem' \in [P!Ids -> SemaphoreOf(Procs)]
    BY <1>1, <1>3, <1>4 DEF PortTyping
  <2>3. ptat' \in [Procs -> PortAt]
    BY <1>1, <1>3, PortAtFields DEF PortTyping
  <2> QED BY <1>1, <2>1, <2>2, <2>3 DEF PortTyping
<1>7. PortFrame(p, i)
  BY <1>5, PortAtFields DEF PortFrame
<1>8. InSend(i)' = {} /\ InReceive(i)' = {}
  <2>1. \A q \in Procs : ptat[q].pc \in {"ptsend", "ptrecv"} /\ ptat[q].port = i =>
                           ptat[q].seq \in Nat /\ ptat[q].seq < ptseq[i]
    BY <1>1, <1>2, PortAtFields DEF PortTyping, PortOk, PortCallers
  <2>2. ptseq[i] \in Nat
    BY <1>1 DEF PortTyping
  <2>3. \A q \in Procs : ptat[q].pc \in {"ptsend", "ptrecv"} /\ ptat[q].port = i => ptat[q].seq # ptseq[i]
    BY <2>1, <2>2
  <2> QED BY <1>5, <2>3, PortAtFields DEF InSend, InReceive
<1>9. Waiting(ptssem[i]) = {}
  <2>1. P!SenderCount(i, new) \in Nat
    BY <1>1 DEF P!SenderCount, PortTyping
  <2> QED BY <1>2, <2>1, Created
<1>10. PortCallers(i)'
  <2>1. \A q \in Procs : ptat'[q].pc \in {"ptsend", "ptrecv"} => ptat'[q] = ptat[q]
    BY <1>5, PortAtFields
  <2>2. \A q \in Procs : ptat[q].pc \in {"ptsend", "ptrecv"} /\ ptat[q].port = i =>
                           ptat[q].seq <= ptseq[i] /\ ptat[q].seq < ptseq[i]
    BY <1>1, <1>2 DEF PortOk, PortCallers
  <2> QED BY <1>4, <1>5, <1>9, <2>1, <2>2 DEF PortCallers
<1>11. PortCleared(i)'
  <2>1. \A q \in Clearing : ptat[q].port = i => q = p
    BY <1>1 DEF PortOk, PortCleared
  <2>2. \A q \in Clearing' : ptat'[q].port # i
    BY <1>5, <2>1, PortAtFields DEF Clearing
  <2>3. ptmsgs[i] = <<>>
    BY <1>1, <1>2 DEF PortOk, PortCleared
  <2> QED BY <1>4, <1>5, <2>2, <2>3 DEF PortCleared
<1>12. PortCounted(i)' /\ PortFresh(i)'
  <2>1. Cardinality({}) = 0 /\ Len(<<>>) = 0
    BY FS_EmptySet
  <2>2. ptmsgs[i] = <<>> /\ ptmaxcnt[i] \in Nat
    BY <1>1, <1>2 DEF PortOk, PortCleared, PortTyping
  <2>3. ptmaxcnt[i] = ptmaxcnt[i] - 0 - 0 /\ 0 = 0 - 0
    BY <2>2
  <2>4. new = "ALLOC" => ptssem[i].count = ptmaxcnt[i]
    BY <1>2 DEF P!SenderCount, semcreate
  <2>5. PortCounted(i)'
    BY <1>4, <1>5, <1>8, <2>1, <2>2, <2>3, <2>4 DEF PortCounted
  <2> QED BY <2>2, <2>5 DEF PortFresh
<1>13. P!NodesConserved'
  BY <1>1 DEF P!NodesConserved, P!Nodes
<1>14. PortOk(i)'
  BY <1>10, <1>11, <1>12 DEF PortOk
<1> QED BY <1>6, <1>7, <1>13, <1>14, PortStep

\* _ptclear after the senders were released, with receivers to release.
LEMMA PortReleases ==
  ASSUME PortInv, NEW p \in Procs, NEW i \in P!Ids, ptat[p].pc = "_ptclear", ptat[p].port = i,
         ptat' = [ptat EXCEPT ![p] = [ptat[p] EXCEPT !.pc = "_ptclear_end"]],
         ptrsem' = [ptrsem EXCEPT ![i] = semcreate(0)],
         UNCHANGED <<ptstate, ptnextid, ptseq, ptmaxcnt, ptssem, ptmsgs, ptfree, panicked>>
  PROVE  PortInv'
<1>1. PortTyping /\ P!NodesConserved /\ PortOk(i)
  BY DEF PortInv
<1>2. p \in Clearing /\ ptstate[i] = "LIMBO"
  BY <1>1 DEF Clearing, PortOk, PortCleared
<1>3. semcreate(0) \in SemaphoreOf(Procs) /\ Waiting(semcreate(0)) = {}
  BY Created
<1>4. /\ ptat'[p].pc = "_ptclear_end" /\ ptat'[p].port = i /\ ptat'[p].new = ptat[p].new /\ ptat'[p] \in PortAt
  <2>1. ptat[p] \in [pc : {"_ptclear", "_ptclear_end"}, port : P!Ids, new : {"ALLOC", "FREE"}]
    BY <1>1 DEF PortTyping, PortAt, P!User
  <2>2. ptat'[p] = [ptat[p] EXCEPT !.pc = "_ptclear_end"]
    BY <1>1 DEF PortTyping
  <2> QED BY <2>1, <2>2 DEF PortAt
<1>5. /\ ptrsem'[i] = semcreate(0) /\ \A q \in Procs \ {p} : ptat'[q] = ptat[q]
      /\ \A j \in P!Ids \ {i} : ptrsem'[j] = ptrsem[j]
  BY <1>1 DEF PortTyping
<1>6. PortTyping'
  <2>1. ptrsem' \in [P!Ids -> SemaphoreOf(Procs)]
    BY <1>1, <1>3 DEF PortTyping
  <2>2. ptat' \in [Procs -> PortAt]
    BY <1>1, <1>4, <1>5 DEF PortTyping
  <2> QED BY <1>1, <2>1, <2>2 DEF PortTyping
<1>7. PortFrame(p, i)
  BY <1>4, <1>5 DEF PortFrame
<1>8. \A q \in Procs : ptat'[q].pc \in {"ptsend", "ptrecv"} => ptat'[q] = ptat[q]
  BY <1>4, <1>5
<1>9. Clearing' = Clearing /\ \A q \in Clearing : ptat'[q].port = ptat[q].port /\ ptat'[q].new = ptat[q].new
  BY <1>2, <1>4, <1>5 DEF Clearing
<1>10. PortCallers(i)'
  <2>1. Waiting(ptssem[i]) = {}
    <3>1. ptssem[i] = semcreate(P!SenderCount(i, ptat[p].new)) /\ P!SenderCount(i, ptat[p].new) \in Nat
      BY <1>1, <1>2 DEF PortOk, PortCleared, PortTyping, P!SenderCount
    <3> QED BY <3>1, Created
  <2> QED BY <1>1, <1>3, <1>5, <1>8, <2>1 DEF PortOk, PortCallers
<1>11. PortCleared(i)'
  <2>1. \A q \in Clearing : ptat[q].port = i => q = p
    BY <1>1, <1>2 DEF PortOk, PortCleared
  <2>2. ptssem[i] = semcreate(IF ptat[p].new = "ALLOC" THEN ptmaxcnt[i] ELSE 0) /\ ptmsgs[i] = <<>>
    BY <1>1, <1>2 DEF PortOk, PortCleared, P!SenderCount
  <2>3. \A q \in Clearing' : ptat'[q].port = i => q = p
    BY <1>9, <2>1
  <2> QED BY <1>2, <1>4, <1>5, <2>2, <2>3 DEF PortCleared, P!SenderCount
<1>12. PortCounted(i)' /\ PortFresh(i)'
  BY <1>2 DEF PortCounted, PortFresh
<1>13. P!NodesConserved'
  BY <1>1 DEF P!NodesConserved, P!Nodes
<1>14. PortOk(i)'
  BY <1>10, <1>11, <1>12 DEF PortOk
<1> QED BY <1>6, <1>7, <1>13, <1>14, PortStep

-----------------------------------------------------------------------------
\* ptsend, at once or waiting.
LEMMA PortSends ==
  ASSUME PortInv, NEW p \in Procs, NEW i \in P!Ids, NEW m \in Msgs, P!ptsend(p, i, m)
  PROVE  PortInv'
<1>1. ~ panicked /\ ptat[p].pc = "user" /\ ptstate[i] = "ALLOC" /\ ptssem[i] \in SemaphoreOf(Procs)
  BY DEF P!ptsend, P!Calls, PortInv, PortTyping
<1>2. p \notin Waiting(ptssem[i]) /\ p \notin Waiting(ptrsem[i])
  BY <1>1 DEF PortInv, PortOk, PortCallers, InSend
<1>3. CASE ~ Blocks(ptssem[i])
  <2>1. /\ wait(ptssem[i], p) \in SemaphoreOf(Procs) /\ wait(ptssem[i], p).count = ptssem[i].count - 1
        /\ wait(ptssem[i], p).queue = ptssem[i].queue
    BY <1>1, <1>2, <1>3, Waited
  <2>2. P!Deliver(p, i, m, ptseq[i], wait(ptssem[i], p))
    BY <1>3, PortSemaphores DEF P!ptsend
  <2> QED BY <1>1, <1>2, <2>1, <2>2, PortDelivers
<1>4. CASE Blocks(ptssem[i])
  <2>1. /\ ptssem' = [ptssem EXCEPT ![i] = wait(ptssem[i], p)]
        /\ ptat' = [ptat EXCEPT ![p] = [pc |-> "ptsend", port |-> i, seq |-> ptseq[i], msg |-> m]]
        /\ UNCHANGED <<ptstate, ptseq, ptmaxcnt, ptrsem, ptmsgs, ptfree, ptnextid, panicked>>
    BY <1>4, PortSemaphores DEF P!ptsend, P!Goto
  <2> QED BY <1>1, <1>4, <2>1, PortSendWaits
<1> QED BY <1>3, <1>4

\* ptrecv, at once or waiting.
LEMMA PortReceives ==
  ASSUME PortInv, NEW p \in Procs, NEW i \in P!Ids, P!ptrecv(p, i)
  PROVE  PortInv'
<1>1. ~ panicked /\ ptat[p].pc = "user" /\ ptstate[i] = "ALLOC" /\ ptrsem[i] \in SemaphoreOf(Procs)
  BY DEF P!ptrecv, P!Calls, PortInv, PortTyping
<1>2. p \notin Waiting(ptssem[i]) /\ p \notin Waiting(ptrsem[i])
  BY <1>1 DEF PortInv, PortOk, PortCallers, InSend
<1>3. CASE ~ Blocks(ptrsem[i])
  <2>1. /\ wait(ptrsem[i], p) \in SemaphoreOf(Procs) /\ wait(ptrsem[i], p).count = ptrsem[i].count - 1
        /\ wait(ptrsem[i], p).queue = ptrsem[i].queue
    BY <1>1, <1>2, <1>3, Waited
  <2>2. P!Take(p, i, wait(ptrsem[i], p)) /\ ptrsem[i].count > 0
    BY <1>1, <1>3, PortSemaphores DEF P!ptrecv, Blocks, SemaphoreOf
  <2> QED BY <1>1, <1>2, <2>1, <2>2, PortTakes
<1>4. CASE Blocks(ptrsem[i])
  <2>1. /\ ptrsem' = [ptrsem EXCEPT ![i] = wait(ptrsem[i], p)]
        /\ ptat' = [ptat EXCEPT ![p] = [pc |-> "ptrecv", port |-> i, seq |-> ptseq[i]]]
        /\ UNCHANGED <<ptstate, ptseq, ptmaxcnt, ptssem, ptmsgs, ptfree, ptnextid, panicked>>
    BY <1>4, PortSemaphores DEF P!ptrecv, P!Goto
  <2> QED BY <1>1, <1>4, <2>1, PortReceiveWaits
<1> QED BY <1>3, <1>4

\* A call goes on after its wait.
LEMMA PortContinues ==
  ASSUME PortInv, NEW p \in Procs, P!Continue(p)
  PROVE  PortInv'
<1>1. ptat[p] \in PortAt /\ ptat[p].pc # "user"
  BY DEF PortInv, PortTyping, P!Continue, P!SendReturn, P!ReceiveReturn, P!ClearReceivers, P!ClearReturn, P!Resumes
<1> SUFFICES ASSUME NEW i \in P!Ids, i = ptat[p].port PROVE PortInv'
  BY <1>1, PortAtFields
<1>2. ~ panicked /\ p \notin Waiting(ptssem[i]) /\ p \notin Waiting(ptrsem[i])
  BY PortSemaphores DEF P!Continue, P!SendReturn, P!ReceiveReturn, P!ClearReceivers, P!ClearReturn, P!Resumes
<1>3. PortCallers(i) /\ ptseq[i] \in Nat /\ ptssem[i] \in SemaphoreOf(Procs) /\ ptrsem[i] \in SemaphoreOf(Procs)
  BY DEF PortInv, PortOk, PortTyping
<1>4. CASE P!SendReturn(p)
  <2>1. ptat[p].pc = "ptsend" /\ ptat[p].seq \in Nat /\ ptat[p].msg \in Msgs
    BY <1>1, <1>4, PortAtFields DEF P!SendReturn, P!Resumes
  <2>2. CASE ~ P!SendValid(i, ptat[p].seq)
    <3>1. P!GiveUp(p)
      BY <1>4, <2>2 DEF P!SendReturn
    <3>2. p \notin InSend(i) /\ p \notin InReceive(i)
      BY <1>3, <2>1, <2>2 DEF P!SendValid, PortCallers, InSend, InReceive
    <3> QED BY <1>2, <2>1, <3>1, <3>2, PortGivesUp
  <2>3. CASE P!SendValid(i, ptat[p].seq)
    <3>1. ptstate[i] = "ALLOC" /\ p \in InSend(i) /\ P!Deliver(p, i, ptat[p].msg, ptseq[i], ptssem[i])
      BY <1>4, <2>1, <2>3 DEF P!SendReturn, P!SendValid, InSend
    <3> SUFFICES ASSUME NEW m \in Msgs, m = ptat[p].msg, NEW ssem \in SemaphoreOf(Procs), ssem = ptssem[i] PROVE PortInv'
      BY <1>3, <2>1
    <3> QED BY <1>2, <1>3, <3>1, PortDelivers
  <2> QED BY <2>2, <2>3
<1>5. CASE P!ReceiveReturn(p)
  <2>1. ptat[p].pc = "ptrecv" /\ ptat[p].seq \in Nat
    BY <1>1, <1>5, PortAtFields DEF P!ReceiveReturn, P!Resumes
  <2>2. CASE ~ P!ReceiveValid(i, ptat[p].seq)
    <3>1. P!GiveUp(p)
      BY <1>5, <2>2 DEF P!ReceiveReturn
    <3>2. p \notin InSend(i) /\ p \notin InReceive(i)
      BY <1>3, <2>1, <2>2 DEF P!ReceiveValid, PortCallers, InSend, InReceive
    <3> QED BY <1>2, <2>1, <3>1, <3>2, PortGivesUp
  <2>3. CASE P!ReceiveValid(i, ptat[p].seq)
    <3>1. ptstate[i] = "ALLOC" /\ p \in InReceive(i) /\ P!Take(p, i, ptrsem[i])
      BY <1>5, <2>1, <2>3 DEF P!ReceiveReturn, P!ReceiveValid, InReceive
    <3> SUFFICES ASSUME NEW rsem \in SemaphoreOf(Procs), rsem = ptrsem[i] PROVE PortInv'
      BY <1>3
    <3> QED BY <1>2, <1>3, <3>1, PortTakes
  <2> QED BY <2>2, <2>3
<1>6. CASE P!ClearReceivers(p)
  <2>1. ptat[p].pc = "_ptclear" /\ p \in Clearing
    BY <1>6 DEF P!ClearReceivers, P!Resumes, Clearing
  <2>2. /\ ptrsem' = [ptrsem EXCEPT ![i] = semcreate(0)]
        /\ UNCHANGED <<ptseq, ptmaxcnt, ptssem, ptmsgs, ptfree, panicked>>
    BY <1>6, PortSemaphores DEF P!ClearReceivers
  <2>3. \/ /\ ptat' = [ptat EXCEPT ![p] = [ptat[p] EXCEPT !.pc = "_ptclear_end"]] /\ UNCHANGED <<ptstate, ptnextid>>
        \/ P!FinishClear(i, ptat[p].new) /\ P!Goto(p, P!User)
    BY <1>6 DEF P!ClearReceivers, P!Goto
  <2>4. CASE ptat' = [ptat EXCEPT ![p] = [ptat[p] EXCEPT !.pc = "_ptclear_end"]] /\ UNCHANGED <<ptstate, ptnextid>>
    BY <2>1, <2>2, <2>4, PortReleases
  <2>5. CASE P!FinishClear(i, ptat[p].new) /\ P!Goto(p, P!User)
    BY <2>1, <2>2, <2>5, PortFinished
  <2> QED BY <2>3, <2>4, <2>5
<1>7. CASE P!ClearReturn(p)
  <2>1. ptat[p].pc = "_ptclear_end" /\ p \in Clearing
    BY <1>7 DEF P!ClearReturn, P!Resumes, Clearing
  <2>2. /\ P!FinishClear(i, ptat[p].new) /\ P!Goto(p, P!User) /\ ptrsem' = ptrsem
        /\ UNCHANGED <<ptseq, ptmaxcnt, ptssem, ptmsgs, ptfree, panicked>>
    BY <1>7 DEF P!ClearReturn
  <2> QED BY <2>1, <2>2, PortFinished
<1> QED BY <1>4, <1>5, <1>6, <1>7 DEF P!Continue

\* Every step keeps the ports.
LEMMA PortNext == PortInv /\ [P!Next]_pvars => PortInv'
<1> SUFFICES ASSUME PortInv, [P!Next]_pvars PROVE PortInv'
  OBVIOUS
<1>1. CASE UNCHANGED pvars
  <2>1. \A i : InSend(i)' = InSend(i) /\ InReceive(i)' = InReceive(i)
    BY <1>1 DEF pvars, InSend, InReceive
  <2>2. PortTyping'
    BY <1>1 DEF pvars, PortInv, PortTyping
  <2>3. P!NodesConserved'
    BY <1>1 DEF pvars, PortInv, P!NodesConserved, P!Nodes
  <2>4. ASSUME NEW i \in P!Ids PROVE PortOk(i)'
    <3>1. PortOk(i)
      BY DEF PortInv
    <3>2. PortCallers(i)'
      BY <1>1, <2>1, <3>1 DEF pvars, PortOk, PortCallers
    <3>3. PortCleared(i)'
      BY <1>1, <3>1 DEF pvars, PortOk, PortCleared, Clearing, P!SenderCount
    <3>4. PortCounted(i)' /\ PortFresh(i)'
      BY <1>1, <2>1, <3>1 DEF pvars, PortOk, PortCounted, PortFresh
    <3> QED BY <3>2, <3>3, <3>4 DEF PortOk
  <2> QED BY <2>2, <2>3, <2>4 DEF PortInv
<1>2. CASE \E p \in Procs : \E c \in Counts : P!ptcreate(p, c)
  BY <1>2, PortCreated
<1>3. CASE \E p \in Procs : \E i \in P!Ids, m \in Msgs : P!ptsend(p, i, m)
  BY <1>3, PortSends
<1>4. CASE \E p \in Procs : \E i \in P!Ids : P!ptrecv(p, i)
  BY <1>4, PortReceives
<1>5. CASE \E p \in Procs : \E i \in P!Ids : P!ptreset(p, i) \/ P!ptdelete(p, i)
  BY <1>5, PortClears DEF P!ptreset, P!ptdelete
<1>6. CASE \E p \in Procs : P!Continue(p)
  BY <1>6, PortContinues
<1>7. CASE P!Stopped \/ P!Idle
  BY <1>1, <1>7 DEF P!Stopped, P!Idle, P!vars, P!porttab, pvars
<1> QED BY <1>1, <1>2, <1>3, <1>4, <1>5, <1>6, <1>7 DEF P!Next

\* What the invariant says of the semaphores, in the words of the properties.
LEMMA PortsSound == PortInv => P!SemaphoresAgree /\ P!NoStaleMessage /\ P!CountMeans
<1> SUFFICES ASSUME PortInv PROVE P!SemaphoresAgree /\ P!NoStaleMessage /\ P!CountMeans
  OBVIOUS
<1>1. ASSUME NEW i \in P!Ids, ptstate[i] = "ALLOC", ~ panicked
      PROVE  /\ ptssem[i].count = ptmaxcnt[i] - Len(ptmsgs[i]) - Len(ptssem[i].queue)
                                    - Cardinality(P!Released("ptsend", i))
             /\ ptrsem[i].count = Len(ptmsgs[i]) - Len(ptrsem[i].queue) - Cardinality(P!Released("ptrecv", i))
             /\ Cardinality(P!Released("ptrecv", i)) <= Len(ptmsgs[i])
             /\ LET n == Len(ptmsgs[i]) + Len(ptssem[i].queue) - Cardinality(P!Released("ptrecv", i))
                IN  IF ptrsem[i].queue = <<>> THEN P!ptcount(i) = n ELSE P!ptcount(i) = - Len(ptrsem[i].queue)
  <2>1. /\ ptssem[i] \in SemaphoreOf(Procs) /\ ptrsem[i] \in SemaphoreOf(Procs)
        /\ PortCallers(i) /\ PortCounted(i) /\ ptmaxcnt[i] \in Nat /\ Len(ptmsgs[i]) \in Nat
    BY DEF PortInv, PortTyping, PortOk
  <2>2. Waiting(ptssem[i]) \subseteq InSend(i)
    BY <2>1 DEF PortCallers
  <2>3. Waiting(ptrsem[i]) \subseteq InReceive(i)
    BY <1>1, <2>1, PortWaitersProcs DEF PortInv, PortCallers, InReceive
  <2>4. P!Released("ptsend", i) = InSend(i) \ Waiting(ptssem[i])
    BY <2>3, PortSemaphores DEF P!Released, InSend, InReceive
  <2>5. P!Released("ptrecv", i) = InReceive(i) \ Waiting(ptrsem[i])
    BY <2>2, PortSemaphores DEF P!Released, InSend, InReceive
  <2> DEFINE L == Len(ptmsgs[i])
             x == ptmaxcnt[i]
             QS == Len(ptssem[i].queue)
             QR == Len(ptrsem[i].queue)
             S == Cardinality(InSend(i))
             R == Cardinality(InReceive(i))
             RS == Cardinality(P!Released("ptsend", i))
             RR == Cardinality(P!Released("ptrecv", i))
  <2>6. S = QS + RS /\ QS \in Nat /\ RS \in Nat
    BY <2>1, <2>2, <2>4, CallsCounted, InsideCounted
  <2>7. R = QR + RR /\ QR \in Nat /\ RR \in Nat
    BY <2>1, <2>3, <2>5, CallsCounted, InsideCounted
  <2>8. /\ ptssem[i].count = x - L - S /\ ptrsem[i].count = L - R /\ x \in Nat /\ L \in Nat
        /\ ptssem[i].count \in Int /\ ptrsem[i].count \in Int
        /\ (ptssem[i].count < 0 => QS = - ptssem[i].count) /\ (ptssem[i].count >= 0 => QS = 0)
        /\ (ptrsem[i].count < 0 => QR = - ptrsem[i].count) /\ (ptrsem[i].count >= 0 => QR = 0)
    BY <1>1, <2>1 DEF PortCounted, SemaphoreOf
  <2>9. ptrsem[i].queue = <<>> <=> QR = 0
    BY <2>1 DEF SemaphoreOf
  <2> HIDE DEF L, x, QS, QR, S, R, RS, RR
  <2>10. ptssem[i].count = x - L - QS - RS /\ ptrsem[i].count = L - QR - RR /\ RR <= L
    BY <2>6, <2>7, <2>8
  <2>11. IF ptrsem[i].queue = <<>> THEN P!ptcount(i) = L + QS - RR ELSE P!ptcount(i) = - QR
    BY <2>6, <2>7, <2>8, <2>9 DEF P!ptcount
  <2> QED BY <2>10, <2>11 DEF L, x, QS, QR, RS, RR
<1>2. P!NoStaleMessage
  BY DEF PortInv, PortOk, PortFresh, P!NoStaleMessage
<1>3. P!SemaphoresAgree
  BY <1>1, PortCounts DEF P!SemaphoresAgree
<1>4. P!CountMeans
  BY <1>1, PortCounts DEF P!CountMeans
<1> QED BY <1>2, <1>3, <1>4

-----------------------------------------------------------------------------
(***************************************************************************)
(* The rings of the Ethernet driver.                                       *)
(***************************************************************************)

\* The instance's semaphores are those of Semaphore.
LEMMA EthSemaphores ==
  /\ \A s, p : /\ E!Waits(s, p) <=> p \in Waiting(s)
               /\ E!wait(s, p) = wait(s, p)
  /\ \A s : E!Blocks(s) <=> Blocks(s)
  /\ \A n : E!semcreate(n) = semcreate(n)
  /\ \A s, n : E!signaln(s, n) = signaln(s, n)
BY DEF E!Waits, Waiting, E!wait, wait, E!Blocks, Blocks, E!semcreate, semcreate, E!signaln, signaln

\* The instance counts as FiniteSets does.
LEMMA EthCounts == \A T : E!Cardinality(T) = Cardinality(T)
BY DEF E!Cardinality, Cardinality, E!IsFiniteSet, IsFiniteSet

\* signaln counts up by n, and releases so many of those that wait.
LEMMA SignalledN ==
  ASSUME NEW S, NEW s \in SemaphoreOf(S), NEW n \in Nat
  PROVE  signaln(s, n) \in SemaphoreOf(S) /\ signaln(s, n).count = s.count + n
         /\ Waiting(signaln(s, n)) \subseteq Waiting(s)
<1> DEFINE out == IF s.count >= 0 THEN 0 ELSE IF n < - s.count THEN n ELSE - s.count
           L == Len(s.queue)
           q == SubSeq(s.queue, out + 1, L)
<1>1. /\ s.count \in Int /\ s.queue \in Seq(S)
      /\ \A j, k \in 1 .. L : s.queue[j] = s.queue[k] => j = k
      /\ L \in Nat /\ (s.count < 0 => L = - s.count) /\ (s.count >= 0 => L = 0)
  BY DEF SemaphoreOf
<1>2. signaln(s, n) = [count |-> s.count + n, queue |-> q]
  BY DEF signaln
<1>3. out \in 0 .. L /\ (s.count + n < 0 => L - out = - (s.count + n)) /\ (s.count + n >= 0 => out = L)
  BY <1>1
<1> HIDE DEF out, L
<1>4. /\ q \in Seq(S) /\ Len(q) = L - out /\ \A k \in 1 .. (L - out) : q[k] = s.queue[out + k]
  BY <1>1, <1>3 DEF L
<1> HIDE DEF q
<1>5. DOMAIN q = 1 .. (L - out)
  BY <1>4
<1>6. \A j, k \in DOMAIN q : q[j] = q[k] => j = k
  <2>0. \A k \in 1 .. (L - out) : k \in Int /\ out + k \in 1 .. L
    <3>1. L \in Nat /\ out \in 0 .. L
      BY <1>1, <1>3
    <3> QED BY <3>1
  <2>1. \A k \in DOMAIN q : k \in Int /\ out + k \in 1 .. L /\ q[k] = s.queue[out + k]
    BY <1>4, <1>5, <2>0
  <2>2. ASSUME NEW j \in DOMAIN q, NEW k \in DOMAIN q, q[j] = q[k] PROVE j = k
    <3>1. out + j = out + k
      BY <1>1, <2>1, <2>2
    <3> QED BY <1>1, <1>3, <2>1, <3>1
  <2> QED BY <2>2
<1>7. \A k \in DOMAIN q : \E j \in DOMAIN s.queue : q[k] = s.queue[j]
  <2> SUFFICES ASSUME NEW k \in DOMAIN q PROVE \E j \in DOMAIN s.queue : q[k] = s.queue[j]
    OBVIOUS
  <2>0. L \in Nat /\ out \in 0 .. L /\ k \in 1 .. (L - out)
    BY <1>1, <1>3, <1>5
  <2>1. out + k \in 1 .. L /\ q[k] = s.queue[out + k]
    <3>1. out + k \in 1 .. L
      BY <2>0
    <3> QED BY <1>4, <2>0, <3>1
  <2>2. DOMAIN s.queue = 1 .. L
    BY <1>1 DEF L
  <2> QED BY <2>1, <2>2
<1>8. IF s.count + n < 0 THEN Len(q) = - (s.count + n) ELSE q = <<>>
  BY <1>1, <1>3, <1>4
<1>9. signaln(s, n) \in SemaphoreOf(S)
  <2>1. /\ signaln(s, n).count = s.count + n /\ signaln(s, n).queue = q
        /\ signaln(s, n) \in [count : Int, queue : Seq(S)]
    BY <1>1, <1>2, <1>4
  <2> QED BY <1>6, <1>8, <2>1 DEF SemaphoreOf
<1> QED BY <1>2, <1>7, <1>9 DEF Waiting

-----------------------------------------------------------------------------
\* Places of a ring.
Ahead(x, h, n) == IF x >= h THEN x - h ELSE x - h + n

\* Steps around the ring, without the remainder.
LEMMA RingPlaces ==
  ASSUME NEW n \in Nat \ {0}, NEW h \in 0 .. (n - 1)
  PROVE  /\ \A x \in 0 .. (n - 1) : (x - h) % n = Ahead(x, h, n) /\ Ahead(x, h, n) \in 0 .. (n - 1)
         /\ \A k \in 0 .. n : /\ (h + k) % n = IF h + k < n THEN h + k ELSE h + k - n
                              /\ (h + k) % n \in 0 .. (n - 1)
<1>1. ASSUME NEW x \in 0 .. (n - 1)
      PROVE  (x - h) % n = Ahead(x, h, n) /\ Ahead(x, h, n) \in 0 .. (n - 1)
  <2> DEFINE d == x - h
  <2>1. CASE x >= h
    <3>1. d \in 0 .. (n - 1)
      BY <2>1
    <3> HIDE DEF d
    <3>2. d % n = d
      BY <3>1
    <3> QED BY <2>1, <3>1, <3>2 DEF Ahead, d
  <2>2. CASE x < h
    <3>1. d \in (- n) .. -1 /\ d + n \in 0 .. (n - 1)
      BY <2>2
    <3> HIDE DEF d
    <3>2. d % n = d + n
      BY <3>1
    <3> QED BY <2>2, <3>1, <3>2 DEF Ahead, d
  <2> QED BY <2>1, <2>2
<1>2. ASSUME NEW k \in 0 .. n
      PROVE  (h + k) % n = IF h + k < n THEN h + k ELSE h + k - n
  <2> DEFINE d == h + k
  <2>1. d \in 0 .. (2 * n - 1)
    OBVIOUS
  <2> HIDE DEF d
  <2>2. CASE d < n
    <3>1. d % n = d
      BY <2>1, <2>2
    <3> QED BY <2>2, <3>1 DEF d
  <2>3. CASE d >= n
    <3>1. d % n = d - n
      BY <2>1, <2>3
    <3> QED BY <2>1, <2>3, <3>1 DEF d
  <2> QED BY <2>1, <2>2, <2>3
<1>3. ASSUME NEW k \in 0 .. n
      PROVE  (h + k) % n \in 0 .. (n - 1)
  BY <1>2
<1> QED BY <1>1, <1>2, <1>3

\* Sums and differences of multiples, and the only one below the boundary.
LEMMA Multiples ==
  ASSUME NEW b \in Nat \ {0}, NEW x \in Int, NEW y \in Int, x % b = 0, y % b = 0
  PROVE  (x + y) % b = 0 /\ (x - y) % b = 0 /\ (x \in 0 .. (b - 1) => x = 0)
<1>1. x = b * (x \div b) /\ y = b * (y \div b) /\ x \div b \in Int /\ y \div b \in Int
  OBVIOUS
<1>2. PICK q \in Int, r \in Int : x = b * q /\ y = b * r
  BY <1>1
<1>3. x + y = b * (q + r) + 0 /\ x - y = b * (q - r) + 0
  BY <1>2
<1>4. \A k \in Int : (b * k + 0) % b = 0
  OBVIOUS
<1>5. (x + y) % b = 0 /\ (x - y) % b = 0
  BY <1>3, <1>4
<1>6. x \in 0 .. (b - 1) => x % b = x
  OBVIOUS
<1> QED BY <1>5, <1>6

\* Done finds how many descriptors are done: there is one such number.
LEMMA DoneIs ==
  ASSUME NEW ring, NEW n \in Nat \ {0}, NEW i, NEW k \in 0 .. n,
         \A j \in 0 .. (k - 1) : ring[(i + j) % n],
         k = n \/ ~ ring[(i + k) % n]
  PROVE  E!Done(ring, n, i) = k
<1> DEFINE D(m) == /\ \A j \in 0 .. (m - 1) : ring[(i + j) % n]
                   /\ m = n \/ ~ ring[(i + m) % n]
<1>1. D(k)
  OBVIOUS
<1>2. ASSUME NEW m \in 0 .. n, D(m) PROVE m = k
  <2>1. CASE m < k
    <3>1. m \in 0 .. (k - 1) /\ m # n
      BY <2>1
    <3> QED BY <1>2, <3>1
  <2>2. CASE k < m
    <3>1. k \in 0 .. (m - 1) /\ k # n
      BY <2>2
    <3> QED BY <1>2, <3>1
  <2> QED BY <2>1, <2>2
<1>3. E!Done(ring, n, i) = CHOOSE m \in 0 .. n : D(m)
  BY DEF E!Done
<1> HIDE DEF D
<1> QED BY <1>1, <1>2, <1>3

-----------------------------------------------------------------------------
\* The receive ring, from where ethread takes the next packet: those that the
\* handler has seen, those that the NIC has stored, the descriptors the NIC may
\* still store into, and less than a part of the ring that it may not.
RxShape(ring, h, t, dh, dt) ==
  LET Off(x) == Ahead(x, h, rxRingSize)
  IN  /\ ring \in [E!Rx -> BOOLEAN] /\ h \in E!Rx /\ t \in E!Rx /\ dh \in E!Rx /\ dt \in E!Rx
      /\ Off(t) <= Off(dh) /\ Off(dh) <= Off(dt)
      /\ rxRingSize - E1000_RING_BOUNDARY <= Off(dt) /\ dt % E1000_RING_BOUNDARY = 0
      /\ \A x \in E!Rx : ring[x] <=> Off(x) < Off(dh)

\* The places of the receive ring.
LEMMA RxPlaces == E!Rx = 0 .. (rxRingSize - 1) /\ rxRingSize \in Nat \ {0} /\ 0 \in E!Rx
BY KernelAssumption DEF E!Rx

\* The receive ring as ethinit and the NIC's configuration leave it.
LEMMA RxStart ==
  RxShape([x \in E!Rx |-> FALSE], 0, 0, 0, rxRingSize - E1000_RING_BOUNDARY)
<1> DEFINE n == rxRingSize
           b == E1000_RING_BOUNDARY
           ring == [x \in E!Rx |-> FALSE]
<1>1. n \in Nat \ {0} /\ b \in 1 .. n /\ b \in Nat \ {0} /\ n % b = 0 /\ E!Rx = 0 .. (n - 1)
  BY KernelAssumption, RxPlaces
<1>2. b = b * 1 + 0
  BY <1>1
<1>3. b % b = 0
  <2>1. (b * 1 + 0) % b = 0
    BY <1>1
  <2> QED BY <1>2, <2>1
<1>4. (n - b) % b = 0
  <2>1. n \in Int /\ b \in Int /\ b \in Nat \ {0} /\ n % b = 0
    BY <1>1
  <2> HIDE DEF n, b
  <2> QED BY <1>3, <2>1, Multiples, Zenon
<1>5. ring \in [E!Rx -> BOOLEAN] /\ \A x \in E!Rx : ~ ring[x]
  OBVIOUS
<1> HIDE DEF n, b, ring
<1>6. n - b \in E!Rx /\ 0 \in E!Rx
  BY <1>1
<1>7. /\ Ahead(0, 0, n) = 0 /\ Ahead(n - b, 0, n) = n - b /\ \A x \in E!Rx : Ahead(x, 0, n) = x
  BY <1>1 DEF Ahead
<1>8. RxShape(ring, 0, 0, 0, n - b)
  BY <1>1, <1>4, <1>5, <1>6, <1>7 DEF RxShape, n, b
<1> QED BY <1>8 DEF ring, n, b

\* The NIC stores a packet.
LEMMA RxReceived ==
  ASSUME NEW ring, NEW h, NEW t, NEW dh, NEW dt, RxShape(ring, h, t, dh, dt), dh # dt
  PROVE  RxShape([ring EXCEPT ![dh] = TRUE], h, t, (dh + 1) % rxRingSize, dt)
<1> DEFINE n == rxRingSize
           new == [ring EXCEPT ![dh] = TRUE]
           Off(x) == Ahead(x, h, n)
           next == (dh + 1) % n
<1>1. /\ ring \in [E!Rx -> BOOLEAN] /\ h \in E!Rx /\ t \in E!Rx /\ dh \in E!Rx /\ dt \in E!Rx
      /\ Off(t) <= Off(dh) /\ Off(dh) <= Off(dt)
      /\ n - E1000_RING_BOUNDARY <= Off(dt) /\ dt % E1000_RING_BOUNDARY = 0
      /\ \A x \in E!Rx : ring[x] <=> Off(x) < Off(dh)
  BY DEF RxShape
<1>2. n \in Nat \ {0} /\ E!Rx = 0 .. (n - 1)
  BY RxPlaces
<1>3. /\ new \in [E!Rx -> BOOLEAN] /\ new[dh] /\ \A x \in E!Rx \ {dh} : new[x] <=> ring[x]
  BY <1>1
<1> HIDE DEF n, new
<1>4. next = IF dh + 1 < n THEN dh + 1 ELSE dh + 1 - n
  BY <1>1, <1>2, RingPlaces
<1> HIDE DEF next
<1>5. /\ next \in E!Rx /\ Off(next) = Off(dh) + 1 /\ Off(next) <= Off(dt) /\ Off(t) <= Off(next)
      /\ Off(dh) \in Nat
  BY <1>1, <1>2, <1>4 DEF Ahead
<1>6. ASSUME NEW x \in E!Rx PROVE new[x] <=> Off(x) < Off(next)
  <2>1. CASE x = dh
    BY <1>3, <1>5, <2>1
  <2>2. CASE x # dh
    <3>1. Off(x) # Off(dh) /\ Off(x) \in Nat
      BY <1>1, <1>2, <2>2 DEF Ahead
    <3>2. Off(x) < Off(dh) <=> Off(x) < Off(next)
      BY <1>5, <3>1
    <3> QED BY <1>1, <1>3, <2>2, <3>2
  <2> QED BY <2>1, <2>2
<1>7. RxShape(new, h, t, next, dt)
  BY <1>1, <1>3, <1>5, <1>6 DEF RxShape, n
<1> QED BY <1>7 DEF new, next, n

\* The handler finds just the packets that the NIC has stored since.
LEMMA RxSeen ==
  ASSUME NEW ring, NEW h, NEW t, NEW dh, NEW dt, RxShape(ring, h, t, dh, dt)
  PROVE  LET k == Ahead(dh, h, rxRingSize) - Ahead(t, h, rxRingSize)
         IN  k \in Nat /\ E!Done(ring, rxRingSize, t) = k /\ (t + k) % rxRingSize = dh
             /\ RxShape(ring, h, dh, dh, dt)
<1> DEFINE n == rxRingSize
           Off(x) == Ahead(x, h, n)
           k == Off(dh) - Off(t)
<1>1. /\ ring \in [E!Rx -> BOOLEAN] /\ h \in E!Rx /\ t \in E!Rx /\ dh \in E!Rx /\ dt \in E!Rx
      /\ Off(t) <= Off(dh)
      /\ \A x \in E!Rx : ring[x] <=> Off(x) < Off(dh)
  BY DEF RxShape
<1>2. n \in Nat \ {0} /\ E!Rx = 0 .. (n - 1)
  BY RxPlaces
<1> HIDE DEF n
<1>3. k \in 0 .. (n - 1) /\ Off(t) \in Nat /\ Off(dh) \in 0 .. (n - 1)
  BY <1>1, <1>2 DEF Ahead
<1> HIDE DEF k
<1>k. k = Off(dh) - Off(t) /\ k \in 0 .. n
  BY <1>2, <1>3 DEF k
<1>4. ASSUME NEW j \in 0 .. k
      PROVE  (t + j) % n \in E!Rx /\ Off((t + j) % n) = Off(t) + j
  <2>1. j \in 0 .. n
    BY <1>2, <1>3
  <2>2. (t + j) % n = IF t + j < n THEN t + j ELSE t + j - n
    BY <1>1, <1>2, <2>1, RingPlaces
  <2>3. t + j \in Int /\ Off(t) + j <= Off(dh)
    BY <1>1, <1>2, <1>3, <1>k
  <2> QED BY <1>1, <1>2, <1>3, <2>2, <2>3, SMTT(30) DEF Ahead
<1>5. (t + k) % n = dh
  <2>1. (t + k) % n = IF t + k < n THEN t + k ELSE t + k - n
    BY <1>1, <1>2, <1>k, RingPlaces
  <2> QED BY <1>1, <1>2, <1>k, <2>1 DEF Ahead
<1>6. ~ ring[(t + k) % n]
  BY <1>1, <1>3, <1>5
<1>7. \A j \in 0 .. (k - 1) : ring[(t + j) % n]
  <2> SUFFICES ASSUME NEW j \in 0 .. (k - 1) PROVE ring[(t + j) % n]
    OBVIOUS
  <2>1. j \in 0 .. k /\ Off(t) + j < Off(dh)
    BY <1>3, <1>k
  <2> QED BY <1>1, <1>4, <2>1
<1>8. E!Done(ring, n, t) = k
  <2> QED BY <1>2, <1>6, <1>7, <1>k, DoneIs
<1>9. RxShape(ring, h, dh, dh, dt)
  <2>1. Off(dh) <= Off(dh)
    BY <1>3
  <2> QED BY <2>1 DEF RxShape, n
<1> QED BY <1>3, <1>5, <1>8, <1>9 DEF n, k

\* A multiple of the boundary is where the NIC may not go on: the part of the
\* ring before it is given back then.
LEMMA RxTaken ==
  ASSUME NEW ring, NEW h, NEW t, NEW dh, NEW dt, RxShape(ring, h, t, dh, dt), t # h
  PROVE  LET next == (h + 1) % rxRingSize
             given == IF h % E1000_RING_BOUNDARY = 0 THEN (dt + E1000_RING_BOUNDARY) % rxRingSize ELSE dt
         IN  /\ RxShape([ring EXCEPT ![h] = FALSE], next, t, dh, given)
             /\ Ahead(t, next, rxRingSize) = Ahead(t, h, rxRingSize) - 1 /\ ring[h]
<1> DEFINE n == rxRingSize
           b == E1000_RING_BOUNDARY
           new == [ring EXCEPT ![h] = FALSE]
           Off(x) == Ahead(x, h, n)
           next == (h + 1) % n
           Off2(x) == Ahead(x, next, n)
           given == IF h % b = 0 THEN (dt + b) % n ELSE dt
<1>1. /\ ring \in [E!Rx -> BOOLEAN] /\ h \in E!Rx /\ t \in E!Rx /\ dh \in E!Rx /\ dt \in E!Rx
      /\ Off(t) <= Off(dh) /\ Off(dh) <= Off(dt)
      /\ n - b <= Off(dt) /\ dt % b = 0
      /\ \A x \in E!Rx : ring[x] <=> Off(x) < Off(dh)
  BY DEF RxShape
<1>2. n \in Nat \ {0} /\ E!Rx = 0 .. (n - 1) /\ b \in 1 .. n /\ n % b = 0 /\ b \in Nat \ {0}
  BY KernelAssumption, RxPlaces
<1>3. /\ new \in [E!Rx -> BOOLEAN] /\ ~ new[h] /\ \A x \in E!Rx \ {h} : new[x] <=> ring[x]
  BY <1>1
<1> HIDE DEF n, b, new
<1>4. next = IF h + 1 < n THEN h + 1 ELSE h + 1 - n
  BY <1>1, <1>2, RingPlaces
<1> HIDE DEF next
<1>5. /\ next \in E!Rx /\ Off2(h) = n - 1 /\ \A x \in E!Rx \ {h} : Off2(x) = Off(x) - 1 /\ Off(x) \in 1 .. (n - 1)
      /\ Off(h) = 0
  BY <1>1, <1>2, <1>4 DEF Ahead
<1>6. Off(t) >= 1 /\ Off(dh) >= 1 /\ dh # h /\ dt # h /\ ring[h]
  BY <1>1, <1>2, <1>5
<1>7. ASSUME NEW x \in E!Rx PROVE new[x] <=> Off2(x) < Off2(dh)
  <2>1. Off2(dh) = Off(dh) - 1 /\ Off(dh) \in 1 .. (n - 1)
    BY <1>1, <1>5, <1>6
  <2>2. CASE x = h
    <3>1. ~ (Off2(h) < Off2(dh))
      BY <1>2, <1>5, <2>1
    <3> QED BY <1>3, <2>2, <3>1
  <2>3. CASE x # h
    <3>1. Off2(x) = Off(x) - 1 /\ Off(x) \in 1 .. (n - 1)
      BY <1>5, <2>3
    <3>2. Off(x) < Off(dh) <=> Off2(x) < Off2(dh)
      BY <1>2, <2>1, <3>1
    <3> QED BY <1>1, <1>3, <2>3, <3>2
  <2> QED BY <2>2, <2>3
\* The part before h is what the NIC may not use exactly if h is a multiple.
<1>8. h % b = 0 <=> Off(dt) = n - b
  <2>1. ASSUME h % b = 0 PROVE Off(dt) = n - b
    <3>1. Off(dt) % b = 0
      <4>1. (dt - h) % b = 0 /\ dt - h \in Int
        <5>1. dt \in Int /\ h \in Int /\ dt - h \in Int
          BY <1>1, <1>2
        <5> QED BY <1>1, <1>2, <2>1, <5>1, Multiples, Zenon
      <4>2. ((dt - h) + n) % b = 0
        <5>1. n \in Int
          BY <1>2
        <5> QED BY <1>2, <4>1, <5>1, Multiples, Zenon
      <4> QED BY <1>1, <1>2, <4>1, <4>2 DEF Ahead
    <3>2. b % b = 0
      <4>1. (b * 1 + 0) % b = 0 /\ b = b * 1 + 0
        BY <1>2
      <4> QED BY <4>1
    <3> DEFINE o == Off(dt)
    <3>3. o \in 0 .. (n - 1) /\ n - b <= o /\ o % b = 0
      BY <1>1, <1>2, <3>1 DEF Ahead
    <3> HIDE DEF o
    <3>4. (n - b) % b = 0 /\ n - b \in Int
      <4>1. n \in Int /\ b \in Int /\ n - b \in Int
        BY <1>2
      <4> QED BY <1>2, <3>2, <4>1, Multiples, Zenon
    <3>5. (o - (n - b)) % b = 0
      <4>1. o \in Int
        BY <3>3
      <4> QED BY <1>2, <3>3, <3>4, <4>1, Multiples, Zenon
    <3> DEFINE e == o - (n - b)
    <3>6. e \in 0 .. (b - 1) /\ e % b = 0
      BY <1>2, <3>3, <3>5
    <3> HIDE DEF e
    <3>7. e = 0
      BY <1>2, <3>6, Multiples
    <3>8. o = n - b
      BY <1>2, <3>3, <3>7 DEF e
    <3> QED BY <3>8 DEF o
  <2>2. ASSUME Off(dt) = n - b PROVE h % b = 0
    <3>1. b % b = 0
      <4>1. (b * 1 + 0) % b = 0 /\ b = b * 1 + 0
        BY <1>2
      <4> QED BY <4>1
    <3>2. (dt + b) % b = 0 /\ dt + b \in Int
      <4>1. dt \in Int /\ b \in Int /\ dt + b \in Int
        BY <1>1, <1>2
      <4> QED BY <1>1, <1>2, <3>1, <4>1, Multiples, Zenon
    <3>3. ((dt + b) - n) % b = 0
      <4>1. n \in Int
        BY <1>2
      <4> QED BY <1>2, <3>2, <4>1, Multiples, Zenon
    <3>4. h = dt + b \/ h = (dt + b) - n
      BY <1>1, <1>2, <2>2 DEF Ahead
    <3> QED BY <3>2, <3>3, <3>4
  <2> QED BY <2>1, <2>2
<1>9. given \in E!Rx /\ given % b = 0 /\ n - b <= Off2(given) /\ Off2(dh) <= Off2(given)
  <2>1. CASE h % b = 0
    <3>1. (dt + b) % n = IF dt + b < n THEN dt + b ELSE dt + b - n
      <4>1. b \in 0 .. n /\ dt \in 0 .. (n - 1)
        BY <1>1, <1>2
      <4> QED BY <1>2, <4>1, RingPlaces, ZenonT(60)
    <3>2. given = (dt + b) % n
      BY <2>1
    <3>3. given = h
      BY <1>1, <1>2, <1>8, <2>1, <3>1, <3>2 DEF Ahead
    <3>4. given \in E!Rx /\ Off2(given) = n - 1
      BY <1>1, <1>5, <3>3
    <3>5. given % b = 0
      BY <2>1, <3>3
    <3>6. Off2(dh) <= n - 1 /\ n - b <= n - 1
      BY <1>1, <1>2, <1>5, <1>6
    <3> QED BY <3>4, <3>5, <3>6
  <2>2. CASE h % b # 0
    <3>1. given = dt /\ Off2(dt) = Off(dt) - 1 /\ Off2(dh) = Off(dh) - 1
      BY <1>1, <1>5, <1>6, <2>2
    <3>2. Off(dt) # n - b /\ Off(dt) \in Nat /\ Off(dh) \in Nat
      BY <1>1, <1>2, <1>8, <2>2 DEF Ahead
    <3> HIDE DEF given, Off, Off2
    <3>3. n - b <= Off(dt) - 1 /\ Off(dh) - 1 <= Off(dt) - 1
      BY <1>1, <1>2, <3>2
    <3> QED BY <1>1, <3>1, <3>3
  <2> QED BY <2>1, <2>2
<1>10. Off2(t) = Off(t) - 1 /\ Off2(t) <= Off2(dh)
  BY <1>1, <1>2, <1>5, <1>6
<1> HIDE DEF given
<1>11. RxShape(new, next, t, dh, given)
  BY <1>1, <1>3, <1>5, <1>7, <1>9, <1>10 DEF RxShape, n, b
<1> QED BY <1>6, <1>10, <1>11 DEF new, next, given, n, b

-----------------------------------------------------------------------------
\* The transmit ring, from the first descriptor that is not free: those that the
\* NIC has sent and the handler has not seen, and those it is to send.
TxShape(ring, h, t, dh, s, u) ==
  /\ ring \in [E!Tx -> BOOLEAN] /\ h \in E!Tx /\ t \in E!Tx /\ dh \in E!Tx
  /\ s \in 0 .. u /\ u \in 0 .. txRingSize
  /\ dh = (h + s) % txRingSize /\ t = (h + u) % txRingSize
  /\ \A x \in E!Tx : ring[x] <=> Ahead(x, h, txRingSize) < s

\* The places of the transmit ring.
LEMMA TxPlaces == E!Tx = 0 .. (txRingSize - 1) /\ txRingSize \in Nat \ {0} /\ 0 \in E!Tx
BY KernelAssumption DEF E!Tx

\* Steps around the transmit ring.
LEMMA TxWraps ==
  ASSUME NEW h \in E!Tx, NEW k \in 0 .. txRingSize
  PROVE  (h + k) % txRingSize = IF h + k < txRingSize THEN h + k ELSE h + k - txRingSize
BY TxPlaces, RingPlaces

\* The transmit ring as ethinit leaves it.
LEMMA TxStart == TxShape([x \in E!Tx |-> FALSE], 0, 0, 0, 0, 0)
<1> DEFINE n == txRingSize
           ring == [x \in E!Tx |-> FALSE]
<1>1. n \in Nat \ {0} /\ E!Tx = 0 .. (n - 1)
  BY TxPlaces
<1>2. ring \in [E!Tx -> BOOLEAN] /\ \A x \in E!Tx : ~ ring[x]
  OBVIOUS
<1> HIDE DEF n, ring
<1>3. (0 + 0) % n = 0
  BY <1>1
<1>4. \A x \in E!Tx : Ahead(x, 0, n) \in Nat /\ ~ (Ahead(x, 0, n) < 0)
  BY <1>1 DEF Ahead
<1>5. TxShape(ring, 0, 0, 0, 0, 0)
  BY <1>1, <1>2, <1>3, <1>4 DEF TxShape, n
<1> QED BY <1>5 DEF ring

\* The NIC sends a packet.
LEMMA TxSent ==
  ASSUME NEW ring, NEW h, NEW t, NEW dh, NEW s, NEW u, TxShape(ring, h, t, dh, s, u), dh # t
  PROVE  TxShape([ring EXCEPT ![dh] = TRUE], h, t, (dh + 1) % txRingSize, s + 1, u)
<1> DEFINE n == txRingSize
           new == [ring EXCEPT ![dh] = TRUE]
           Off(x) == Ahead(x, h, n)
           next == (dh + 1) % n
<1>1. /\ ring \in [E!Tx -> BOOLEAN] /\ h \in E!Tx /\ t \in E!Tx /\ dh \in E!Tx
      /\ s \in 0 .. u /\ u \in 0 .. n /\ dh = (h + s) % n /\ t = (h + u) % n
      /\ \A x \in E!Tx : ring[x] <=> Off(x) < s
  BY DEF TxShape
<1>2. n \in Nat \ {0} /\ E!Tx = 0 .. (n - 1)
  BY TxPlaces
<1>3. /\ new \in [E!Tx -> BOOLEAN] /\ new[dh] /\ \A x \in E!Tx \ {dh} : new[x] <=> ring[x]
  BY <1>1
<1> HIDE DEF n, new
<1>4. s < u /\ s + 1 \in 0 .. n /\ s \in 0 .. n
  BY <1>1, <1>2
<1>5. dh = IF h + s < n THEN h + s ELSE h + s - n
  BY <1>1, <1>4, TxWraps DEF n
<1>6. next = IF dh + 1 < n THEN dh + 1 ELSE dh + 1 - n
  <2>1. 1 \in 0 .. n
    BY <1>2
  <2> QED BY <1>1, <2>1, TxWraps DEF n
<1>7. (h + (s + 1)) % n = IF h + (s + 1) < n THEN h + (s + 1) ELSE h + (s + 1) - n
  BY <1>1, <1>4, TxWraps DEF n
<1> DEFINE other == (h + (s + 1)) % n
<1> HIDE DEF next, other
<1>8. next = other /\ next \in E!Tx
  BY <1>1, <1>2, <1>4, <1>5, <1>6, <1>7 DEF other
<1>9. Off(dh) = s
  BY <1>1, <1>2, <1>4, <1>5 DEF Ahead
<1>10. ASSUME NEW x \in E!Tx PROVE new[x] <=> Off(x) < s + 1
  <2>1. CASE x = dh
    <3>1. s < s + 1
      BY <1>1
    <3> QED BY <1>3, <1>9, <2>1, <3>1
  <2>2. CASE x # dh
    <3>1. Off(x) # Off(dh) /\ Off(x) \in Nat
      BY <1>1, <1>2, <2>2 DEF Ahead
    <3>2. Off(x) < s <=> Off(x) < s + 1
      BY <1>1, <1>9, <3>1
    <3> QED BY <1>1, <1>3, <2>2, <3>2
  <2> QED BY <2>1, <2>2
<1>11. s + 1 \in 0 .. u
  BY <1>1, <1>4
<1>12. TxShape(new, h, t, next, s + 1, u)
  BY <1>1, <1>3, <1>8, <1>10, <1>11 DEF TxShape, n, other
<1> QED BY <1>12 DEF new, next, n

\* The handler finds just the packets that the NIC has sent since, and frees them.
LEMMA TxSeen ==
  ASSUME NEW ring, NEW h, NEW t, NEW dh, NEW s, NEW u, TxShape(ring, h, t, dh, s, u)
  PROVE  /\ E!Done(ring, txRingSize, h) = s /\ (h + s) % txRingSize = dh
         /\ TxShape([i \in E!Tx |-> ring[i] /\ (i - h) % txRingSize >= s], dh, t, dh, 0, u - s)
<1> DEFINE n == txRingSize
           new == [i \in E!Tx |-> ring[i] /\ (i - h) % n >= s]
           Off(x) == Ahead(x, h, n)
<1>1. /\ ring \in [E!Tx -> BOOLEAN] /\ h \in E!Tx /\ t \in E!Tx /\ dh \in E!Tx
      /\ s \in 0 .. u /\ u \in 0 .. n /\ dh = (h + s) % n /\ t = (h + u) % n
      /\ \A x \in E!Tx : ring[x] <=> Off(x) < s
  BY DEF TxShape
<1>2. n \in Nat \ {0} /\ E!Tx = 0 .. (n - 1) /\ s \in 0 .. n
  BY <1>1, TxPlaces
<1> HIDE DEF n
<1>3. ASSUME NEW k \in 0 .. n, k < n
      PROVE  (h + k) % n \in E!Tx /\ Off((h + k) % n) = k
  <2>1. (h + k) % n = IF h + k < n THEN h + k ELSE h + k - n
    BY <1>1, TxWraps DEF n
  <2> QED BY <1>1, <1>2, <1>3, <2>1 DEF Ahead
<1>4. \A j \in 0 .. (s - 1) : ring[(h + j) % n]
  <2> SUFFICES ASSUME NEW j \in 0 .. (s - 1) PROVE ring[(h + j) % n]
    OBVIOUS
  <2>1. j \in 0 .. n /\ j < n /\ j < s
    BY <1>2
  <2> QED BY <1>1, <1>3, <2>1
<1>5. s = n \/ ~ ring[(h + s) % n]
  <2>1. ASSUME s # n PROVE ~ ring[(h + s) % n]
    <3>1. s < n /\ ~ (s < s)
      BY <1>2, <2>1
    <3> QED BY <1>1, <1>2, <1>3, <3>1
  <2> QED BY <2>1
<1>6. E!Done(ring, n, h) = s
  BY <1>2, <1>4, <1>5, DoneIs
<1>7. ASSUME NEW x \in E!Tx PROVE new[x] = FALSE
  <2>0. n \in Nat \ {0} /\ h \in 0 .. (n - 1) /\ x \in 0 .. (n - 1)
    BY <1>1, <1>2
  <2>a. (x - h) % n = Ahead(x, h, n) /\ Ahead(x, h, n) \in 0 .. (n - 1)
    BY <2>0, RingPlaces
  <2>1. (x - h) % n = Off(x) /\ Off(x) \in Nat
    BY <2>0, <2>a
  <2>2. ~ (Off(x) < s /\ Off(x) >= s)
    BY <1>2, <2>1
  <2> QED BY <1>1, <2>1, <2>2
<1>8. new \in [E!Tx -> BOOLEAN]
  BY <1>7
<1> HIDE DEF new
<1>9. (dh + 0) % n = dh /\ u - s \in 0 .. n /\ 0 \in 0 .. (u - s)
  BY <1>1, <1>2
<1>10. (dh + (u - s)) % n = t
  <2>1. dh = IF h + s < n THEN h + s ELSE h + s - n
    BY <1>1, <1>2, TxWraps DEF n
  <2>2. t = IF h + u < n THEN h + u ELSE h + u - n
    BY <1>1, <1>2, TxWraps DEF n
  <2> DEFINE w == u - s
  <2> HIDE DEF w
  <2>3. (dh + w) % n = IF dh + w < n THEN dh + w ELSE dh + w - n
    BY <1>1, <1>9, TxWraps DEF n, w
  <2>4. (IF dh + w < n THEN dh + w ELSE dh + w - n) = t
    BY <1>1, <1>2, <2>1, <2>2 DEF w
  <2> QED BY <2>3, <2>4 DEF w
<1>11. \A x \in E!Tx : ~ (Ahead(x, dh, n) < 0)
  BY <1>1, <1>2 DEF Ahead
<1>12. TxShape(new, dh, t, dh, 0, u - s)
  BY <1>1, <1>7, <1>8, <1>9, <1>10, <1>11 DEF TxShape, n
<1> QED BY <1>1, <1>6, <1>12 DEF new, n

\* A writer queues a packet.
LEMMA TxQueued ==
  ASSUME NEW ring, NEW h, NEW t, NEW dh, NEW s, NEW u, TxShape(ring, h, t, dh, s, u), u < txRingSize
  PROVE  TxShape([ring EXCEPT ![t] = FALSE], h, (t + 1) % txRingSize, dh, s, u + 1)
<1> DEFINE n == txRingSize
           new == [ring EXCEPT ![t] = FALSE]
           Off(x) == Ahead(x, h, n)
           next == (t + 1) % n
           other == (h + (u + 1)) % n
<1>1. /\ ring \in [E!Tx -> BOOLEAN] /\ h \in E!Tx /\ t \in E!Tx /\ dh \in E!Tx
      /\ s \in 0 .. u /\ u \in 0 .. n /\ dh = (h + s) % n /\ t = (h + u) % n
      /\ \A x \in E!Tx : ring[x] <=> Off(x) < s
  BY DEF TxShape
<1>2. n \in Nat \ {0} /\ E!Tx = 0 .. (n - 1) /\ u < n
  BY TxPlaces
<1>3. /\ new \in [E!Tx -> BOOLEAN] /\ ~ new[t] /\ \A x \in E!Tx \ {t} : new[x] <=> ring[x]
  BY <1>1
<1> HIDE DEF n, new
<1>4. u + 1 \in 0 .. n /\ s \in 0 .. (u + 1) /\ 1 \in 0 .. n
  BY <1>1, <1>2
<1>5. t = IF h + u < n THEN h + u ELSE h + u - n
  BY <1>1, TxWraps DEF n
<1>6. next = IF t + 1 < n THEN t + 1 ELSE t + 1 - n
  BY <1>1, <1>4, TxWraps DEF n
<1>7. other = IF h + (u + 1) < n THEN h + (u + 1) ELSE h + (u + 1) - n
  BY <1>1, <1>4, TxWraps DEF n
<1> HIDE DEF next, other
<1>8. next = other /\ next \in E!Tx
  BY <1>1, <1>2, <1>4, <1>5, <1>6, <1>7
<1>9. Off(t) = u /\ ~ (u < s)
  BY <1>1, <1>2, <1>5 DEF Ahead
<1>10. \A x \in E!Tx : new[x] <=> Off(x) < s
  BY <1>1, <1>3, <1>9
<1>11. TxShape(new, h, next, dh, s, u + 1)
  BY <1>1, <1>3, <1>4, <1>8, <1>10 DEF TxShape, n, other
<1> QED BY <1>11 DEF new, next, n


-----------------------------------------------------------------------------
EthProcs == {Writer1, Writer2}
Inside(at, where) == {p \in EthProcs : at[p] = where}

\* What the semaphore admits, counting those that it has admitted and that are
\* still inside.
Admits(sem, T, m) ==
  /\ sem \in SemaphoreOf(EthProcs) /\ Waiting(sem) \subseteq T
  /\ sem.count + Cardinality(T) = m

\* Finitely many processes use the driver.
LEMMA EthProcsFinite == ASSUME NEW T \in SUBSET EthProcs PROVE IsFiniteSet(T)
<1>1. IsFiniteSet({Writer1} \cup {Writer2})
  BY FS_Singleton, FS_AddElement
<1>2. EthProcs = {Writer1} \cup {Writer2}
  BY DEF EthProcs
<1> QED BY <1>1, <1>2, FS_Subset

\* The count, in terms of those that wait and those that were released.
LEMMA AdmitsReady ==
  ASSUME NEW sem, NEW T \in SUBSET EthProcs, NEW m, Admits(sem, T, m)
  PROVE  LET ready == Cardinality(T \ Waiting(sem))
         IN  /\ ready \in Nat /\ m \in Nat /\ Len(sem.queue) \in Nat /\ sem.count \in Int
             /\ Cardinality(T) \in Nat
             /\ sem.count = m - Len(sem.queue) - ready
             /\ sem.count > 0 => m > 0
             /\ T \ Waiting(sem) # {} => m > 0
<1> DEFINE ready == Cardinality(T \ Waiting(sem))
           L == Len(sem.queue)
           c == Cardinality(T)
<1>1. IsFiniteSet(T) /\ sem \in SemaphoreOf(EthProcs) /\ Waiting(sem) \subseteq T
  BY EthProcsFinite DEF Admits
<1>2. L \in Nat /\ c \in Nat /\ ready \in Nat /\ c = L + ready
  BY <1>1, InsideCounted
<1>3. sem.count \in Int /\ (sem.count < 0 => L = - sem.count) /\ sem.count + c = m
  BY <1>1 DEF SemaphoreOf, Admits
<1>4. T \ Waiting(sem) # {} => ready # 0
  BY <1>1, FS_EmptySet, FS_Subset
<1> HIDE DEF ready, L, c
<1>5. m \in Nat /\ sem.count = m - L - ready /\ (sem.count > 0 => m > 0) /\ (ready # 0 => m > 0)
  BY <1>2, <1>3
<1> QED BY <1>2, <1>3, <1>4, <1>5 DEF ready, L, c

\* wait: the caller is admitted, or joins those inside that wait.
LEMMA AdmitsWait ==
  ASSUME NEW sem, NEW T \in SUBSET EthProcs, NEW m, Admits(sem, T, m), NEW p \in EthProcs \ T
  PROVE  /\ ~ Blocks(sem) => m > 0 /\ Admits(wait(sem, p), T, m - 1)
         /\ Blocks(sem) => Admits(wait(sem, p), T \cup {p}, m)
<1>1. sem \in SemaphoreOf(EthProcs) /\ Waiting(sem) \subseteq T /\ p \notin Waiting(sem)
  BY DEF Admits
<1> DEFINE c == Cardinality(T)
<1>2. m \in Nat /\ sem.count \in Int /\ c \in Nat /\ sem.count + c = m /\ (sem.count > 0 => m > 0)
  BY AdmitsReady DEF Admits
<1>3. Cardinality(T \cup {p}) = c + 1
  BY EthProcsFinite, FS_AddElement
<1>4. /\ wait(sem, p) \in SemaphoreOf(EthProcs) /\ wait(sem, p).count = sem.count - 1
      /\ Blocks(sem) => Waiting(wait(sem, p)) = Waiting(sem) \cup {p}
      /\ ~ Blocks(sem) => wait(sem, p).queue = sem.queue
  BY <1>1, Waited
<1> HIDE DEF c
<1>5. ASSUME ~ Blocks(sem) PROVE m > 0 /\ Admits(wait(sem, p), T, m - 1)
  <2>1. sem.count > 0 /\ (sem.count - 1) + c = m - 1
    BY <1>2, <1>5 DEF Blocks
  <2>2. Waiting(wait(sem, p)) = Waiting(sem)
    BY <1>4, <1>5 DEF Waiting
  <2> QED BY <1>1, <1>2, <1>4, <2>1, <2>2 DEF Admits, c
<1>6. ASSUME Blocks(sem) PROVE Admits(wait(sem, p), T \cup {p}, m)
  <2>1. (sem.count - 1) + (c + 1) = m
    BY <1>2
  <2>2. Waiting(wait(sem, p)) \subseteq T \cup {p}
    BY <1>1, <1>4, <1>6
  <2> QED BY <1>3, <1>4, <2>1, <2>2 DEF Admits
<1> QED BY <1>5, <1>6

\* One that was admitted leaves.
LEMMA AdmitsReturn ==
  ASSUME NEW sem, NEW T \in SUBSET EthProcs, NEW m, Admits(sem, T, m), NEW p \in T \ Waiting(sem)
  PROVE  m > 0 /\ Admits(sem, T \ {p}, m - 1)
<1> DEFINE c == Cardinality(T)
<1>1. m \in Nat /\ sem.count \in Int /\ c \in Nat /\ sem.count + c = m /\ m > 0
  BY AdmitsReady DEF Admits
<1>2. Cardinality(T \ {p}) = c - 1
  BY EthProcsFinite, FS_RemoveElement
<1>3. sem \in SemaphoreOf(EthProcs) /\ Waiting(sem) \subseteq T \ {p}
  BY DEF Admits
<1> HIDE DEF c
<1>4. sem.count + (c - 1) = m - 1
  BY <1>1
<1> QED BY <1>1, <1>2, <1>3, <1>4 DEF Admits

\* signaln: more are admitted.
LEMMA AdmitsMore ==
  ASSUME NEW sem, NEW T \in SUBSET EthProcs, NEW m, Admits(sem, T, m), NEW k \in Nat
  PROVE  Admits(signaln(sem, k), T, m + k)
<1> DEFINE c == Cardinality(T)
<1>1. m \in Nat /\ sem.count \in Int /\ c \in Nat /\ sem.count + c = m
  BY AdmitsReady DEF Admits
<1>2. /\ signaln(sem, k) \in SemaphoreOf(EthProcs) /\ signaln(sem, k).count = sem.count + k
      /\ Waiting(signaln(sem, k)) \subseteq Waiting(sem)
  BY SignalledN DEF Admits
<1>3. Waiting(signaln(sem, k)) \subseteq T
  BY <1>2 DEF Admits
<1> HIDE DEF c
<1>4. (sem.count + k) + c = m + k
  BY <1>1
<1> QED BY <1>2, <1>3, <1>4 DEF Admits, c

RxOk(ring, h, t, dh, dt, sem, at) ==
  /\ RxShape(ring, h, t, dh, dt)
  /\ Admits(sem, Inside(at, "ethread"), Ahead(t, h, rxRingSize))
TxOk(ring, h, t, dh, dt, sem, at) ==
  \E s, u : /\ TxShape(ring, h, t, dh, s, u) /\ dt = t
            /\ Admits(sem, Inside(at, "ethwrite"), txRingSize - u)
EthTyped(at) == at \in [EthProcs -> {"user", "ethread", "ethwrite"}]

\* The rings and their semaphores: the inductive invariant of the driver.
RxInv == RxOk(rx, rxHead, rxTail, RDH, RDT, isem, ethat)
TxInv == TxOk(tx, txHead, txTail, TDH, TDT, osem, ethat)
EthInv == EthTyped(ethat) /\ RxInv /\ TxInv

\* ethinit and the NIC's configuration.
LEMMA EthInit == E!Init => EthInv
<1> SUFFICES ASSUME E!Init PROVE EthInv
  OBVIOUS
<1>1. /\ rx = [i \in E!Rx |-> FALSE] /\ rxHead = 0 /\ rxTail = 0 /\ isem = semcreate(0)
      /\ tx = [i \in E!Tx |-> FALSE] /\ txHead = 0 /\ txTail = 0 /\ osem = semcreate(txRingSize)
      /\ RDH = 0 /\ RDT = rxRingSize - E1000_RING_BOUNDARY /\ TDH = 0 /\ TDT = 0
      /\ ethat = [p \in EthProcs |-> "user"]
  BY EthSemaphores DEF E!Init, E!configure_rx, E!configure_tx, EthProcs
<1>2. Inside(ethat, "ethread") = {} /\ Inside(ethat, "ethwrite") = {} /\ EthTyped(ethat)
  BY <1>1 DEF Inside, EthTyped
<1>3. ASSUME NEW n \in Nat PROVE Admits(semcreate(n), {}, n)
  BY Created, FS_EmptySet DEF Admits, semcreate
<1>4. RxInv
  <2>1. Ahead(0, 0, rxRingSize) = 0
    BY DEF Ahead
  <2> QED BY <1>1, <1>2, <1>3, <2>1, RxStart DEF RxInv, RxOk
<1>5. TxInv
  <2>1. txRingSize - 0 = txRingSize /\ txRingSize \in Nat
    BY TxPlaces
  <2> QED BY <1>1, <1>2, <1>3, <2>1, TxStart DEF TxInv, TxOk
<1> QED BY <1>2, <1>4, <1>5 DEF EthInv

\* Where a process is when it goes in or comes out.
LEMMA InsideMoves ==
  ASSUME NEW at, EthTyped(at), NEW p \in EthProcs, NEW w \in {"user", "ethread", "ethwrite"},
         NEW x \in {"ethread", "ethwrite"}
  PROVE  /\ EthTyped([at EXCEPT ![p] = w]) /\ Inside(at, x) \in SUBSET EthProcs
         /\ x = w => Inside([at EXCEPT ![p] = w], x) = Inside(at, x) \cup {p}
         /\ x # w => Inside([at EXCEPT ![p] = w], x) = Inside(at, x) \ {p}
         /\ p \in Inside(at, x) <=> at[p] = x
<1>1. at \in [EthProcs -> {"user", "ethread", "ethwrite"}]
  BY DEF EthTyped
<1> DEFINE new == [at EXCEPT ![p] = w]
<1>2. /\ new \in [EthProcs -> {"user", "ethread", "ethwrite"}]
      /\ new[p] = w /\ \A q \in EthProcs \ {p} : new[q] = at[q]
  BY <1>1
<1> HIDE DEF new
<1>3. x = w => Inside(new, x) = Inside(at, x) \cup {p}
  BY <1>2 DEF Inside
<1>4. x # w => Inside(new, x) = Inside(at, x) \ {p}
  BY <1>2 DEF Inside
<1>5. EthTyped(new)
  BY <1>2 DEF EthTyped
<1>6. Inside(at, x) \in SUBSET EthProcs /\ (p \in Inside(at, x) <=> at[p] = x)
  BY DEF Inside
<1> QED BY <1>3, <1>4, <1>5, <1>6 DEF new

\* The receive side does not depend on who writes.
LEMMA RxAdmitsSame ==
  ASSUME NEW ring, NEW h, NEW t, NEW dh, NEW dt, NEW sem, NEW at, NEW new,
         RxOk(ring, h, t, dh, dt, sem, at), Inside(new, "ethread") = Inside(at, "ethread")
  PROVE  RxOk(ring, h, t, dh, dt, sem, new)
BY DEF RxOk

\* The transmit side does not depend on who reads.
LEMMA TxAdmitsSame ==
  ASSUME NEW ring, NEW h, NEW t, NEW dh, NEW dt, NEW sem, NEW at, NEW new,
         TxOk(ring, h, t, dh, dt, sem, at), Inside(new, "ethwrite") = Inside(at, "ethwrite")
  PROVE  TxOk(ring, h, t, dh, dt, sem, new)
BY DEF TxOk

\* ethread takes a packet: the semaphore admitted it now, or before it waited.
LEMMA PacketTaken ==
  ASSUME EthTyped(ethat), RxInv, TxInv, NEW p \in EthProcs, NEW sem,
         \/ ethat[p] = "user" /\ ~ Blocks(isem) /\ sem = wait(isem, p)
         \/ ethat[p] = "ethread" /\ p \notin Waiting(isem) /\ sem = isem,
         E!TakePacket(p, sem)
  PROVE  EthTyped(ethat') /\ RxInv' /\ TxInv'
<1> DEFINE T == Inside(ethat, "ethread")
           m == Ahead(rxTail, rxHead, rxRingSize)
           new == [ethat EXCEPT ![p] = "user"]
           given == IF rxHead % E1000_RING_BOUNDARY = 0
                    THEN (RDT + E1000_RING_BOUNDARY) % rxRingSize ELSE RDT
<1>1. /\ rx' = [rx EXCEPT ![rxHead] = FALSE] /\ RDT' = given
      /\ rxHead' = (rxHead + 1) % rxRingSize /\ isem' = sem /\ ethat' = new
      /\ rxTail' = rxTail /\ RDH' = RDH
      /\ tx' = tx /\ txHead' = txHead /\ txTail' = txTail /\ TDH' = TDH /\ TDT' = TDT /\ osem' = osem
  BY DEF E!TakePacket, E!GiveBack, E!StatusCleared
<1>2. /\ EthTyped(new) /\ T \in SUBSET EthProcs /\ Inside(new, "ethread") = T \ {p}
      /\ p \in T <=> ethat[p] = "ethread"
      /\ ethat[p] \in {"user", "ethread"} => Inside(new, "ethwrite") = Inside(ethat, "ethwrite")
  <2>1. "user" \in {"user", "ethread", "ethwrite"} /\ "ethread" \in {"ethread", "ethwrite"}
        /\ "ethwrite" \in {"ethread", "ethwrite"} /\ "user" # "ethread" /\ "user" # "ethwrite"
    OBVIOUS
  <2>2. ethat[p] \in {"user", "ethread"} => p \notin Inside(ethat, "ethwrite")
    BY DEF Inside
  <2>3. /\ EthTyped(new) /\ Inside(ethat, "ethread") \in SUBSET EthProcs
        /\ Inside(new, "ethread") = Inside(ethat, "ethread") \ {p}
        /\ p \in Inside(ethat, "ethread") <=> ethat[p] = "ethread"
    BY <2>1, InsideMoves
  <2>4. /\ Inside(ethat, "ethwrite") \in SUBSET EthProcs
        /\ Inside(new, "ethwrite") = Inside(ethat, "ethwrite") \ {p}
        /\ p \in Inside(ethat, "ethwrite") <=> ethat[p] = "ethwrite"
    BY <2>1, InsideMoves
  <2> QED BY <2>2, <2>3, <2>4
<1>3. Admits(isem, T, m) /\ RxShape(rx, rxHead, rxTail, RDH, RDT)
  BY DEF RxInv, RxOk
<1>4. m > 0 /\ Admits(sem, T \ {p}, m - 1)
  <2>1. CASE ethat[p] = "user" /\ ~ Blocks(isem) /\ sem = wait(isem, p)
    <3>1. p \in EthProcs \ T /\ T \ {p} = T
      BY <1>2, <2>1
    <3> QED BY <1>2, <1>3, <2>1, <3>1, AdmitsWait
  <2>2. CASE ethat[p] = "ethread" /\ p \notin Waiting(isem) /\ sem = isem
    <3>1. p \in T \ Waiting(isem)
      BY <1>2, <2>2
    <3> QED BY <1>2, <1>3, <2>2, <3>1, AdmitsReturn
  <2> QED BY <2>1, <2>2
<1>5. rxTail # rxHead
  <2>1. rxHead \in Int
    BY <1>3, RxPlaces DEF RxShape
  <2>2. rxHead - rxHead = 0
    BY <2>1
  <2>3. rxTail = rxHead => m = 0
    BY <2>1, <2>2 DEF Ahead
  <2> QED BY <1>4, <2>3
<1>6. /\ RxShape([rx EXCEPT ![rxHead] = FALSE], (rxHead + 1) % rxRingSize, rxTail, RDH, given)
      /\ Ahead(rxTail, (rxHead + 1) % rxRingSize, rxRingSize) = m - 1
  BY <1>3, <1>5, RxTaken
<1> HIDE DEF given, m, T, new
<1>7. RxInv'
  BY <1>1, <1>2, <1>4, <1>6 DEF RxInv, RxOk
<1>8. TxInv'
  <2>1. TxOk(tx, txHead, txTail, TDH, TDT, osem, new)
    BY <1>2, TxAdmitsSame DEF TxInv
  <2> QED BY <1>1, <2>1 DEF TxInv
<1> QED BY <1>1, <1>2, <1>7, <1>8

\* ethread takes a packet or waits for one.
LEMMA EthReadKeeps ==
  ASSUME EthInv, NEW p \in EthProcs, E!ethread(p) \/ E!ReadReturn(p)
  PROVE  EthInv'
<1>1. EthTyped(ethat) /\ RxInv /\ TxInv
  BY DEF EthInv
<1>2. CASE E!ReadReturn(p)
  <2>1. ethat[p] = "ethread" /\ p \notin Waiting(isem) /\ E!TakePacket(p, isem)
    BY <1>2, EthSemaphores DEF E!ReadReturn, E!Runs
  <2> QED BY <1>1, <2>1, PacketTaken DEF EthInv
<1>3. CASE E!ethread(p) /\ ~ Blocks(isem)
  <2>1. ethat[p] = "user" /\ E!TakePacket(p, wait(isem, p))
    BY <1>3, EthSemaphores DEF E!ethread, E!Runs
  <2> QED BY <1>1, <1>3, <2>1, PacketTaken DEF EthInv
<1>4. CASE E!ethread(p) /\ Blocks(isem)
  <2> DEFINE T == Inside(ethat, "ethread")
             new == [ethat EXCEPT ![p] = "ethread"]
             m == Ahead(rxTail, rxHead, rxRingSize)
  <2>1. /\ ethat[p] = "user" /\ isem' = wait(isem, p) /\ ethat' = new
        /\ rx' = rx /\ rxHead' = rxHead /\ rxTail' = rxTail /\ RDH' = RDH /\ RDT' = RDT
        /\ tx' = tx /\ txHead' = txHead /\ txTail' = txTail /\ TDH' = TDH /\ TDT' = TDT /\ osem' = osem
    BY <1>4, EthSemaphores DEF E!ethread, E!Runs, E!regs
  <2>2. /\ EthTyped(new) /\ T \in SUBSET EthProcs /\ Inside(new, "ethread") = T \cup {p}
        /\ p \in EthProcs \ T /\ Inside(new, "ethwrite") = Inside(ethat, "ethwrite")
    <3>1. "ethread" \in {"user", "ethread", "ethwrite"} /\ "ethread" \in {"ethread", "ethwrite"}
          /\ "ethwrite" \in {"ethread", "ethwrite"} /\ "ethread" # "ethwrite" /\ "user" # "ethread"
      OBVIOUS
    <3>2. p \notin Inside(ethat, "ethwrite")
      BY <2>1 DEF Inside
    <3>3. /\ EthTyped(new) /\ T \in SUBSET EthProcs /\ Inside(new, "ethread") = T \cup {p}
          /\ p \in T <=> ethat[p] = "ethread"
      BY <1>1, <3>1, InsideMoves, ZenonT(60)
    <3>4. Inside(new, "ethwrite") = Inside(ethat, "ethwrite") \ {p}
      BY <1>1, <3>1, InsideMoves
    <3> QED BY <2>1, <3>1, <3>2, <3>3, <3>4
  <2>3. Admits(isem, T, m) /\ RxShape(rx, rxHead, rxTail, RDH, RDT)
    BY <1>1 DEF RxInv, RxOk
  <2>4. Admits(wait(isem, p), T \cup {p}, m)
    BY <1>4, <2>2, <2>3, AdmitsWait
  <2> HIDE DEF T, new
  <2>5. RxInv'
    BY <2>1, <2>2, <2>3, <2>4 DEF RxInv, RxOk
  <2>6. TxInv'
    <3>1. TxOk(tx, txHead, txTail, TDH, TDT, osem, new)
      BY <1>1, <2>2, TxAdmitsSame DEF TxInv
    <3> QED BY <2>1, <3>1 DEF TxInv
  <2> QED BY <2>1, <2>2, <2>5, <2>6 DEF EthInv
<1> QED BY <1>2, <1>3, <1>4

\* ethwrite queues a packet in a descriptor that the semaphore left free.
LEMMA PacketQueued ==
  ASSUME EthTyped(ethat), RxInv, TxInv, NEW p \in EthProcs, NEW sem,
         \/ ethat[p] = "user" /\ ~ Blocks(osem) /\ sem = wait(osem, p)
         \/ ethat[p] = "ethwrite" /\ p \notin Waiting(osem) /\ sem = osem,
         E!QueuePacket(p, sem)
  PROVE  EthTyped(ethat') /\ RxInv' /\ TxInv'
<1> DEFINE T == Inside(ethat, "ethwrite")
           new == [ethat EXCEPT ![p] = "user"]
<1>1. /\ tx' = [tx EXCEPT ![txTail] = FALSE] /\ TDT' = (TDT + 1) % txRingSize
      /\ txTail' = (txTail + 1) % txRingSize /\ osem' = sem /\ ethat' = new
      /\ txHead' = txHead /\ TDH' = TDH
      /\ rx' = rx /\ rxHead' = rxHead /\ rxTail' = rxTail /\ RDH' = RDH /\ RDT' = RDT /\ isem' = isem
  BY DEF E!QueuePacket, E!NextTDT
<1>2. /\ EthTyped(new) /\ T \in SUBSET EthProcs /\ Inside(new, "ethwrite") = T \ {p}
      /\ p \in T <=> ethat[p] = "ethwrite"
      /\ ethat[p] \in {"user", "ethwrite"} => Inside(new, "ethread") = Inside(ethat, "ethread")
  <2>1. "user" \in {"user", "ethread", "ethwrite"} /\ "ethread" \in {"ethread", "ethwrite"}
        /\ "ethwrite" \in {"ethread", "ethwrite"} /\ "user" # "ethread" /\ "user" # "ethwrite"
    OBVIOUS
  <2>2. ethat[p] \in {"user", "ethwrite"} => p \notin Inside(ethat, "ethread")
    BY DEF Inside
  <2>3. /\ EthTyped(new) /\ Inside(ethat, "ethread") \in SUBSET EthProcs
        /\ Inside(new, "ethread") = Inside(ethat, "ethread") \ {p}
        /\ p \in Inside(ethat, "ethread") <=> ethat[p] = "ethread"
    BY <2>1, InsideMoves, ZenonT(60)
  <2>4. /\ Inside(ethat, "ethwrite") \in SUBSET EthProcs
        /\ Inside(new, "ethwrite") = Inside(ethat, "ethwrite") \ {p}
        /\ p \in Inside(ethat, "ethwrite") <=> ethat[p] = "ethwrite"
    BY <2>1, InsideMoves
  <2> QED BY <2>2, <2>3, <2>4
<1>3. PICK s, u : /\ TxShape(tx, txHead, txTail, TDH, s, u) /\ TDT = txTail
                  /\ Admits(osem, T, txRingSize - u)
  BY DEF TxInv, TxOk
<1> DEFINE m == txRingSize - u
<1>4. m > 0 /\ Admits(sem, T \ {p}, m - 1)
  <2>1. CASE ethat[p] = "user" /\ ~ Blocks(osem) /\ sem = wait(osem, p)
    <3>1. p \in EthProcs \ T /\ T \ {p} = T
      BY <1>2, <2>1
    <3> QED BY <1>2, <1>3, <2>1, <3>1, AdmitsWait
  <2>2. CASE ethat[p] = "ethwrite" /\ p \notin Waiting(osem) /\ sem = osem
    <3>1. p \in T \ Waiting(osem)
      BY <1>2, <2>2
    <3> QED BY <1>2, <1>3, <2>2, <3>1, AdmitsReturn
  <2> QED BY <2>1, <2>2
<1>5. u < txRingSize /\ m - 1 = txRingSize - (u + 1)
  <2>1. u \in Int /\ txRingSize \in Int
    BY <1>3, TxPlaces DEF TxShape
  <2> QED BY <1>4, <2>1
<1>6. TxShape([tx EXCEPT ![txTail] = FALSE], txHead, (txTail + 1) % txRingSize, TDH, s, u + 1)
  BY <1>3, <1>5, TxQueued
<1> HIDE DEF T, new, m
<1>7. TxInv'
  <2>1. /\ TxShape(tx', txHead', txTail', TDH', s, u + 1) /\ TDT' = txTail'
        /\ Admits(osem', Inside(ethat', "ethwrite"), txRingSize - (u + 1))
    BY <1>1, <1>2, <1>3, <1>4, <1>5, <1>6
  <2> QED BY <2>1 DEF TxInv, TxOk
<1>8. RxInv'
  <2>1. RxOk(rx, rxHead, rxTail, RDH, RDT, isem, new)
    BY <1>2, RxAdmitsSame DEF RxInv
  <2> QED BY <1>1, <2>1 DEF RxInv
<1> QED BY <1>1, <1>2, <1>7, <1>8

\* ethwrite queues a packet or waits for a free descriptor.
LEMMA EthWriteKeeps ==
  ASSUME EthInv, NEW p \in EthProcs, E!ethwrite(p) \/ E!WriteReturn(p)
  PROVE  EthInv'
<1>1. EthTyped(ethat) /\ RxInv /\ TxInv
  BY DEF EthInv
<1>2. CASE E!WriteReturn(p)
  <2>1. ethat[p] = "ethwrite" /\ p \notin Waiting(osem) /\ E!QueuePacket(p, osem)
    BY <1>2, EthSemaphores DEF E!WriteReturn, E!Runs
  <2> QED BY <1>1, <2>1, PacketQueued DEF EthInv
<1>3. CASE E!ethwrite(p) /\ ~ Blocks(osem)
  <2>1. ethat[p] = "user" /\ E!QueuePacket(p, wait(osem, p))
    BY <1>3, EthSemaphores DEF E!ethwrite, E!Runs
  <2> QED BY <1>1, <1>3, <2>1, PacketQueued DEF EthInv
<1>4. CASE E!ethwrite(p) /\ Blocks(osem)
  <2> DEFINE T == Inside(ethat, "ethwrite")
             new == [ethat EXCEPT ![p] = "ethwrite"]
  <2>1. /\ ethat[p] = "user" /\ osem' = wait(osem, p) /\ ethat' = new
        /\ rx' = rx /\ rxHead' = rxHead /\ rxTail' = rxTail /\ RDH' = RDH /\ RDT' = RDT
        /\ tx' = tx /\ txHead' = txHead /\ txTail' = txTail /\ TDH' = TDH /\ TDT' = TDT /\ isem' = isem
    BY <1>4, EthSemaphores DEF E!ethwrite, E!Runs, E!regs
  <2>2. /\ EthTyped(new) /\ T \in SUBSET EthProcs /\ Inside(new, "ethwrite") = T \cup {p}
        /\ p \in EthProcs \ T /\ Inside(new, "ethread") = Inside(ethat, "ethread")
    <3>1. "ethwrite" \in {"user", "ethread", "ethwrite"} /\ "ethread" \in {"ethread", "ethwrite"}
          /\ "ethwrite" \in {"ethread", "ethwrite"} /\ "ethread" # "ethwrite" /\ "user" # "ethwrite"
      OBVIOUS
    <3>2. p \notin Inside(ethat, "ethread")
      BY <2>1 DEF Inside
    <3>3. /\ EthTyped(new) /\ T \in SUBSET EthProcs /\ Inside(new, "ethwrite") = T \cup {p}
          /\ p \in T <=> ethat[p] = "ethwrite"
      BY <1>1, <3>1, InsideMoves
    <3>4. Inside(new, "ethread") = Inside(ethat, "ethread") \ {p}
      BY <1>1, <3>1, InsideMoves, ZenonT(60)
    <3> QED BY <2>1, <3>1, <3>2, <3>3, <3>4
  <2>3. PICK s, u : /\ TxShape(tx, txHead, txTail, TDH, s, u) /\ TDT = txTail
                    /\ Admits(osem, T, txRingSize - u)
    BY <1>1 DEF TxInv, TxOk
  <2>4. Admits(wait(osem, p), T \cup {p}, txRingSize - u)
    BY <1>4, <2>2, <2>3, AdmitsWait
  <2> HIDE DEF T, new
  <2>5. TxInv'
    BY <2>1, <2>2, <2>3, <2>4 DEF TxInv, TxOk
  <2>6. RxInv'
    <3>1. RxOk(rx, rxHead, rxTail, RDH, RDT, isem, new)
      BY <1>1, <2>2, RxAdmitsSame DEF RxInv
    <3> QED BY <2>1, <3>1 DEF RxInv
  <2> QED BY <2>1, <2>2, <2>5, <2>6 DEF EthInv
<1> QED BY <1>2, <1>3, <1>4

\* The NIC receives or sends.
LEMMA NicKeeps ==
  ASSUME EthInv, E!NicReceives \/ E!NicSends
  PROVE  EthInv'
<1>1. EthTyped(ethat) /\ RxInv /\ TxInv
  BY DEF EthInv
<1>2. CASE E!NicReceives
  <2>1. /\ RDH # RDT /\ rx' = [rx EXCEPT ![RDH] = TRUE] /\ RDH' = (RDH + 1) % rxRingSize
        /\ rxHead' = rxHead /\ rxTail' = rxTail /\ RDT' = RDT /\ isem' = isem /\ ethat' = ethat
        /\ tx' = tx /\ txHead' = txHead /\ txTail' = txTail /\ TDH' = TDH /\ TDT' = TDT /\ osem' = osem
    BY <1>2 DEF E!NicReceives
  <2>2. RxShape([rx EXCEPT ![RDH] = TRUE], rxHead, rxTail, (RDH + 1) % rxRingSize, RDT)
    BY <1>1, <2>1, RxReceived DEF RxInv, RxOk
  <2>3. RxInv'
    BY <1>1, <2>1, <2>2 DEF RxInv, RxOk
  <2>4. TxInv'
    BY <1>1, <2>1 DEF TxInv
  <2> QED BY <1>1, <2>1, <2>3, <2>4 DEF EthInv
<1>3. CASE E!NicSends
  <2>1. /\ TDH # TDT /\ tx' = [tx EXCEPT ![TDH] = TRUE] /\ TDH' = (TDH + 1) % txRingSize
        /\ txHead' = txHead /\ txTail' = txTail /\ TDT' = TDT /\ osem' = osem /\ ethat' = ethat
        /\ rx' = rx /\ rxHead' = rxHead /\ rxTail' = rxTail /\ RDH' = RDH /\ RDT' = RDT /\ isem' = isem
    BY <1>3 DEF E!NicSends
  <2>2. PICK s, u : /\ TxShape(tx, txHead, txTail, TDH, s, u) /\ TDT = txTail
                    /\ Admits(osem, Inside(ethat, "ethwrite"), txRingSize - u)
    BY <1>1 DEF TxInv, TxOk
  <2>3. TxShape([tx EXCEPT ![TDH] = TRUE], txHead, txTail, (TDH + 1) % txRingSize, s + 1, u)
    BY <2>1, <2>2, TxSent
  <2>4. TxInv'
    BY <2>1, <2>2, <2>3 DEF TxInv, TxOk
  <2>5. RxInv'
    BY <1>1, <2>1 DEF RxInv
  <2> QED BY <1>1, <2>1, <2>4, <2>5 DEF EthInv
<1> QED BY <1>2, <1>3

\* ethhandler counts what is done, frees the sent descriptors, and signals.
LEMMA HandlerKeeps == ASSUME EthInv, E!ethhandler PROVE EthInv'
<1>1. EthTyped(ethat) /\ RxInv /\ TxInv
  BY DEF EthInv
<1>2. E!rxPackets /\ E!txPackets /\ rx' = rx /\ rxHead' = rxHead /\ txTail' = txTail
      /\ RDH' = RDH /\ RDT' = RDT /\ TDH' = TDH /\ TDT' = TDT /\ ethat' = ethat
  BY DEF E!ethhandler
<1>3. RxInv'
  <2> DEFINE T == Inside(ethat, "ethread")
             m == Ahead(rxTail, rxHead, rxRingSize)
             k == Ahead(RDH, rxHead, rxRingSize) - m
  <2>1. Admits(isem, T, m) /\ RxShape(rx, rxHead, rxTail, RDH, RDT) /\ T \in SUBSET EthProcs
    BY <1>1 DEF RxInv, RxOk, Inside
  <2>2. CASE "RXT0" \in cause
    <3>1. /\ k \in Nat /\ E!Done(rx, rxRingSize, rxTail) = k /\ (rxTail + k) % rxRingSize = RDH
          /\ RxShape(rx, rxHead, RDH, RDH, RDT)
      BY <2>1, RxSeen
    <3>2. /\ rxTail' = (rxTail + E!Done(rx, rxRingSize, rxTail)) % rxRingSize
          /\ isem' = signaln(isem, E!Done(rx, rxRingSize, rxTail))
      BY <1>2, <2>2, EthSemaphores DEF E!rxPackets
    <3>3. rxTail' = RDH /\ isem' = signaln(isem, k)
      BY <3>1, <3>2
    <3>4. Admits(signaln(isem, k), T, m + k)
      BY <2>1, <3>1, AdmitsMore
    <3>5. m + k = Ahead(RDH, rxHead, rxRingSize)
      <4>1. m \in Int /\ Ahead(RDH, rxHead, rxRingSize) \in Int
        BY <2>1, RxPlaces DEF RxShape, Ahead
      <4> QED BY <4>1
    <3> HIDE DEF k, m, T
    <3>6. /\ RxShape(rx', rxHead', rxTail', RDH', RDT')
          /\ Admits(isem', Inside(ethat', "ethread"), Ahead(rxTail', rxHead', rxRingSize))
      BY <1>2, <3>1, <3>3, <3>4, <3>5 DEF T
    <3> QED BY <3>6 DEF RxInv, RxOk
  <2>3. CASE "RXT0" \notin cause
    <3>1. rxTail' = rxTail /\ isem' = isem
      BY <1>2, <2>3 DEF E!rxPackets
    <3> QED BY <1>1, <1>2, <3>1 DEF RxInv
  <2> QED BY <2>2, <2>3
<1>4. TxInv'
  <2> DEFINE T == Inside(ethat, "ethwrite")
  <2>1. PICK s, u : /\ TxShape(tx, txHead, txTail, TDH, s, u) /\ TDT = txTail
                    /\ Admits(osem, T, txRingSize - u)
    BY <1>1 DEF TxInv, TxOk
  <2>2. CASE "TXDW" \in cause
    <3> DEFINE n == E!Done(tx, txRingSize, txHead)
               new(k) == [i \in E!Tx |-> tx[i] /\ (i - txHead) % txRingSize >= k]
    <3>1. /\ n = s /\ (txHead + s) % txRingSize = TDH
          /\ TxShape(new(s), TDH, txTail, TDH, 0, u - s)
      BY <2>1, TxSeen
    <3>2. tx' = new(n) /\ txHead' = (txHead + n) % txRingSize /\ osem' = signaln(osem, n)
      BY <1>2, <2>2, EthSemaphores DEF E!txPackets, E!txClear
    <3> HIDE DEF n
    <3>3. tx' = new(s) /\ txHead' = TDH /\ osem' = signaln(osem, s)
      BY <3>1, <3>2
    <3>4. s \in Nat /\ u \in Int /\ txRingSize \in Int /\ T \in SUBSET EthProcs
      BY <2>1, TxPlaces DEF TxShape, Inside
    <3>5. Admits(signaln(osem, s), T, (txRingSize - u) + s)
      BY <2>1, <3>4, AdmitsMore
    <3>6. (txRingSize - u) + s = txRingSize - (u - s)
      BY <3>4
    <3> HIDE DEF T, new
    <3>7. /\ TxShape(tx', txHead', txTail', TDH', 0, u - s) /\ TDT' = txTail'
          /\ Admits(osem', Inside(ethat', "ethwrite"), txRingSize - (u - s))
      BY <1>2, <2>1, <3>1, <3>3, <3>5, <3>6 DEF T
    <3> QED BY <3>7 DEF TxInv, TxOk
  <2>3. CASE "TXDW" \notin cause
    <3>1. tx' = tx /\ txHead' = txHead /\ osem' = osem
      BY <1>2, <2>3 DEF E!txPackets
    <3> QED BY <1>1, <1>2, <3>1 DEF TxInv
  <2> QED BY <2>2, <2>3
<1> QED BY <1>1, <1>2, <1>3, <1>4 DEF EthInv

\* Every step of the driver and of the NIC keeps the rings and their semaphores.
LEMMA EthNext == EthInv /\ [E!Next]_ethvars => EthInv'
<1> SUFFICES ASSUME EthInv, [E!Next]_ethvars PROVE EthInv'
  OBVIOUS
<1> DEFINE Quiet == UNCHANGED <<rx, rxHead, rxTail, isem, tx, txHead, txTail, osem, RDH, RDT, TDH, TDT, ethat>>
<1>1. ASSUME Quiet PROVE EthInv'
  BY <1>1 DEF EthInv, RxInv, TxInv
<1>2. CASE E!reset_hw \/ E!init_hw \/ E!AwaitLink \/ E!NoDevice
  <2>1. ASSUME NEW from, NEW to, E!NextState(from, to) PROVE Quiet
    BY <2>1 DEF E!NextState, E!driver, E!regs
  <2>2. Quiet
    BY <1>2, <2>1 DEF E!reset_hw, E!init_hw, E!AwaitLink, E!NoDevice
  <2> QED BY <1>1, <2>2
<1>3. CASE E!NicReceives \/ E!NicSends
  BY <1>3, NicKeeps
<1>4. CASE E!HandlerStarts
  <2>1. Quiet
    BY <1>4 DEF E!HandlerStarts, E!driver
  <2> QED BY <1>1, <2>1
<1>5. CASE E!ethhandler
  BY <1>5, HandlerKeeps
<1>6. ASSUME NEW p \in EthProcs, E!ethread(p) \/ E!ReadReturn(p) \/ E!ethwrite(p) \/ E!WriteReturn(p)
      PROVE  EthInv'
  BY <1>6, EthReadKeeps, EthWriteKeeps
<1>7. CASE E!AllWait \/ UNCHANGED ethvars
  <2>1. Quiet
    BY <1>7 DEF E!AllWait, E!vars, E!driver, E!regs, ethvars
  <2> QED BY <1>1, <2>1
<1> HIDE DEF Quiet
<1>8. CASE E!Next
  <2>1. CASE \E p \in EthProcs : E!ethread(p) \/ E!ReadReturn(p) \/ E!ethwrite(p) \/ E!WriteReturn(p)
    BY <1>6, <2>1
  <2> QED BY <1>2, <1>3, <1>4, <1>5, <1>7, <1>8, <2>1 DEF E!Next, EthProcs
<1> QED BY <1>7, <1>8

\* Those that the semaphore admitted are ready.
LEMMA EthReady ==
  \A where, s : E!Cardinality(E!Ready(where, s)) = Cardinality(Inside(ethat, where) \ Waiting(s))
<1> SUFFICES ASSUME NEW where, NEW s
             PROVE  E!Cardinality(E!Ready(where, s)) = Cardinality(Inside(ethat, where) \ Waiting(s))
  OBVIOUS
<1>1. E!Ready(where, s) = Inside(ethat, where) \ Waiting(s)
  BY EthSemaphores DEF E!Ready, Inside, EthProcs
<1> QED BY <1>1, EthCounts

\* The receive ring: what the invariant says of the NIC's part and of the count.
LEMMA RxSound == RxInv => E!NoOverwrite /\ E!InputCounted
<1> SUFFICES ASSUME RxInv PROVE E!NoOverwrite /\ E!InputCounted
  OBVIOUS
<1> DEFINE n == rxRingSize
           Off(x) == Ahead(x, rxHead, n)
           T == Inside(ethat, "ethread")
           ready == Cardinality(T \ Waiting(isem))
<1>1. /\ rxHead \in E!Rx /\ rxTail \in E!Rx /\ RDH \in E!Rx /\ RDT \in E!Rx
      /\ Off(rxTail) <= Off(RDH) /\ Off(RDH) <= Off(RDT)
      /\ \A x \in E!Rx : rx[x] <=> Off(x) < Off(RDH)
  BY DEF RxInv, RxOk, RxShape
<1>2. n \in Nat \ {0} /\ E!Rx = 0 .. (n - 1)
  BY RxPlaces
<1>3. Admits(isem, T, Off(rxTail)) /\ T \in SUBSET EthProcs
  BY DEF RxInv, RxOk, Inside
<1>4. E!Counted = Off(rxTail)
  <2>1. (rxTail - rxHead) % n = Ahead(rxTail, rxHead, n)
    <3>1. rxHead \in 0 .. (n - 1) /\ rxTail \in 0 .. (n - 1)
      BY <1>1, <1>2
    <3> QED BY <1>2, <3>1, RingPlaces
  <2> QED BY <2>1 DEF E!Counted
<1>5. isem.count = Off(rxTail) - Len(isem.queue) - ready
  BY <1>3, AdmitsReady
<1>6. isem.count = E!Counted - Len(isem.queue) - E!Cardinality(E!Ready("ethread", isem))
  BY <1>4, <1>5, EthReady
<1> HIDE DEF n
<1>7. ASSUME NEW k \in 0 .. (E!Counted - 1) PROVE rx[(rxHead + k) % n]
  <2>1. Off(rxTail) \in 0 .. (n - 1) /\ Off(RDH) \in 0 .. (n - 1)
    BY <1>1, <1>2 DEF Ahead
  <2>2. k \in 0 .. n /\ k < n /\ k < Off(RDH)
    BY <1>1, <1>2, <1>4, <2>1
  <2>3. (rxHead + k) % n = IF rxHead + k < n THEN rxHead + k ELSE rxHead + k - n
    <3>1. rxHead \in 0 .. (n - 1)
      BY <1>1, <1>2
    <3> QED BY <1>2, <2>2, <3>1, RingPlaces
  <2> DEFINE x == (rxHead + k) % n
  <2> HIDE DEF x
  <2>4. x \in E!Rx /\ Off(x) = k
    BY <1>1, <1>2, <2>2, <2>3 DEF Ahead, x
  <2>5. rx[x]
    BY <1>1, <2>2, <2>4
  <2> QED BY <2>5 DEF x
<1>8. E!InputCounted
  BY <1>6, <1>7 DEF E!InputCounted, n
<1>9. ASSUME NEW k \in E!Rx, (k - RDH) % n < (RDT - RDH) % n PROVE ~ rx[k]
  <2>1. RDH \in 0 .. (n - 1) /\ k \in 0 .. (n - 1) /\ RDT \in 0 .. (n - 1) /\ rxHead \in 0 .. (n - 1)
    BY <1>1, <1>2
  <2>2. (k - RDH) % n = Ahead(k, RDH, n) /\ (RDT - RDH) % n = Ahead(RDT, RDH, n)
    BY <1>2, <2>1, RingPlaces
  <2>3. Ahead(k, RDH, n) < Ahead(RDT, RDH, n)
    BY <1>9, <2>2
  <2>4. ~ (Off(k) < Off(RDH))
    BY <1>1, <1>2, <2>1, <2>3 DEF Ahead
  <2> QED BY <1>1, <2>4
<1>10. E!NoOverwrite
  BY <1>9 DEF E!NoOverwrite, n
<1> QED BY <1>8, <1>10

\* The transmit ring: what the invariant says of the count, and when the NIC idles.
LEMMA TxSound == TxInv => E!OutputCounted /\ E!IdleOnlyWhenFull
<1> SUFFICES ASSUME TxInv PROVE E!OutputCounted /\ E!IdleOnlyWhenFull
  OBVIOUS
<1> DEFINE n == txRingSize
           T == Inside(ethat, "ethwrite")
           ready == Cardinality(T \ Waiting(osem))
           L == Len(osem.queue)
<1>1. PICK s, u : TxShape(tx, txHead, txTail, TDH, s, u) /\ TDT = txTail /\ Admits(osem, T, n - u)
  BY DEF TxInv, TxOk
<1>2. /\ txHead \in E!Tx /\ txTail \in E!Tx /\ TDH \in E!Tx
      /\ s \in 0 .. u /\ u \in 0 .. n /\ TDH = (txHead + s) % n /\ txTail = (txHead + u) % n
      /\ \A x \in E!Tx : tx[x] <=> Ahead(x, txHead, n) < s
  BY <1>1 DEF TxShape
<1>3. n \in Nat \ {0} /\ E!Tx = 0 .. (n - 1)
  BY TxPlaces
<1>4. osem.count = (n - u) - L - ready /\ ready \in Nat /\ L \in Nat
  <2>1. T \in SUBSET EthProcs
    BY DEF Inside
  <2> QED BY <1>1, <2>1, AdmitsReady
<1>5. E!InUse = n - osem.count - L - ready
  BY EthReady DEF E!InUse
<1> HIDE DEF ready, L, n
<1>6. E!InUse = u
  BY <1>2, <1>3, <1>4, <1>5
<1>7. E!OutputCounted
  BY <1>2, <1>6 DEF E!OutputCounted, n
<1>8. ASSUME TDH = TDT, u > 0, \A k \in E!Tx : ~ tx[k] PROVE u = n
  <2>1. Ahead(txHead, txHead, n) = 0
    BY <1>2, <1>3 DEF Ahead
  <2>2. s = 0
    BY <1>2, <1>8, <2>1
  <2>3. (txHead + s) % n = IF txHead + s < n THEN txHead + s ELSE txHead + s - n
    <3>1. s \in 0 .. n
      BY <1>2, <1>3
    <3> QED BY <1>2, <3>1, TxWraps DEF n
  <2>4. (txHead + u) % n = IF txHead + u < n THEN txHead + u ELSE txHead + u - n
    BY <1>2, TxWraps DEF n
  <2>5. (IF txHead + s < n THEN txHead + s ELSE txHead + s - n)
          = IF txHead + u < n THEN txHead + u ELSE txHead + u - n
    BY <1>1, <1>2, <1>8, <2>3, <2>4
  <2> QED BY <1>2, <1>3, <1>8, <2>2, <2>5
<1>9. E!IdleOnlyWhenFull
  BY <1>6, <1>8 DEF E!IdleOnlyWhenFull, n
<1> QED BY <1>7, <1>9

\* What the invariant says of both rings.
LEMMA EthSound == EthInv => E!NoOverwrite /\ E!InputCounted /\ E!OutputCounted /\ E!IdleOnlyWhenFull
BY RxSound, TxSound DEF EthInv

-----------------------------------------------------------------------------
(***************************************************************************)
(* The services together: KernelSpec runs one at a time, and the others    *)
(* stay as they are.                                                       *)
(***************************************************************************)
KernelInv == PortInv /\ PoolInv /\ MarkInv /\ EthInv

\* Every service starts as its module says.
LEMMA KernelStarts == KernelInit => KernelInv
BY PortInit, BufPoolInit, MarkInit, EthInit DEF KernelInit, KernelInv

\* A step of the kernel is one of each service, or leaves it as it is.
LEMMA KernelSteps ==
  [KernelNext]_kernelvars => [P!Next]_pvars /\ [B!Next]_bvars /\ [M!Next]_mvars /\ [E!Next]_ethvars
<1> SUFFICES ASSUME [KernelNext]_kernelvars
             PROVE  [P!Next]_pvars /\ [B!Next]_bvars /\ [M!Next]_mvars /\ [E!Next]_ethvars
  OBVIOUS
<1>1. CASE UNCHANGED kernelvars
  <2>1. UNCHANGED pvars /\ UNCHANGED bvars /\ UNCHANGED mvars /\ UNCHANGED ethvars
    BY <1>1 DEF kernelvars
  <2> QED BY <2>1
<1>2. CASE KernelNext
  <2>1. P!Next \/ UNCHANGED pvars
    BY <1>2 DEF KernelNext
  <2>2. B!Next \/ UNCHANGED bvars
    BY <1>2 DEF KernelNext
  <2>3. M!Next \/ UNCHANGED mvars
    BY <1>2 DEF KernelNext
  <2>4. E!Next \/ UNCHANGED ethvars
    BY <1>2 DEF KernelNext
  <2> QED BY <2>1, <2>2, <2>3, <2>4
<1> QED BY <1>1, <1>2

\* Every step keeps the services.
LEMMA KernelKeeps ==
  KernelInv /\ [KernelNext]_kernelvars => KernelInv' /\ SameBuffers /\ KeepsMarked
<1> SUFFICES ASSUME KernelInv, [KernelNext]_kernelvars
             PROVE  KernelInv' /\ SameBuffers /\ KeepsMarked
  OBVIOUS
<1>1. [P!Next]_pvars /\ [B!Next]_bvars /\ [M!Next]_mvars /\ [E!Next]_ethvars
  BY KernelSteps
<1>2. PortInv /\ PoolInv /\ MarkInv /\ EthInv
  BY DEF KernelInv
<1>3. PortInv'
  BY <1>1, <1>2, PortNext
<1>4. PoolInv' /\ SameBuffers
  BY <1>1, <1>2, BufPoolNext
<1>5. MarkInv' /\ KeepsMarked
  BY <1>1, <1>2, MarkNext
<1>6. EthInv'
  BY <1>1, <1>2, EthNext
<1> QED BY <1>3, <1>4, <1>5, <1>6 DEF KernelInv

\* The invariant of the ports, the buffer pools, the marks and the Ethernet
\* driver, with their processes in the middle of calls (pt*.c, *buf*.c, mark.c,
\* device/eth).
THEOREM ServicesInductive == KernelSpec => []KernelInv
BY KernelStarts, KernelKeeps, PTL DEF KernelSpec

\* A port's semaphores agree with the messages in it and with the processes that
\* they admitted, so that ptsend and ptrecv never find what they were promised
\* gone; no message outlives its port; nodes are conserved; and a pool's
\* semaphore counts its free buffers, each buffer being in one place (ptsend,
\* ptrecv, ptdelete, ptreset, getbuf, freebuf).
THEOREM PortsAndPools == KernelSpec => []PortsAndPoolsSound
<1>1. KernelInv => PortsAndPoolsSound
  BY PortsSound, PoolsSound
     DEF KernelInv, PortInv, PortsAndPoolsSound, SemaphoresAgree, NoStaleMessage, NodesConserved,
         CountMeans, CountsBuffers, OnePlace
<1> QED BY <1>1, ServicesInductive, PTL

\* No step loses a buffer of a pool or makes one up (getbuf, freebuf, mkbufpool).
THEOREM BuffersKept == KernelSpec => NoneLost
<1>1. KernelInv /\ [KernelNext]_kernelvars
        => [\A i \in B!Pools : i < nbpools => (B!Listed(i) \cup B!Used(i))' = B!Listed(i) \cup B!Used(i)]_(B!vars)
  BY KernelKeeps DEF SameBuffers
<1> QED BY <1>1, ServicesInductive, PTL DEF KernelSpec, NoneLost, B!NoneLost

\* mark tests the table before it takes the mutex, and still stores no more than
\* one entry for each other process past the end of the table.
THEOREM MarksBounded == KernelSpec => []OverrunBounded
<1>1. KernelInv => OverrunBounded
  <2> SUFFICES ASSUME KernelInv PROVE nmarks <= MAXMARK + M!Cardinality(Procs) - 1
    BY DEF OverrunBounded, M!OverrunBounded
  <2> DEFINE c == Cardinality(Past)
             d == Cardinality(Procs)
  <2>1. nmarks + c <= MAXMARK + d - 1 /\ nmarks \in Nat
    BY DEF KernelInv, MarkInv, MarkTyping, EntriesBounded
  <2>2. c \in Nat /\ d \in Nat
    BY MarkersCounted, KernelAssumption, FS_CardinalityType DEF Past
  <2> HIDE DEF c, d
  <2>3. nmarks <= MAXMARK + d - 1
    BY <2>1, <2>2, KernelAssumption
  <2> QED BY <2>3, MarkCounts DEF d
<1> QED BY <1>1, ServicesInductive, PTL

\* A location that is marked stays marked, whoever writes another entry (mark).
THEOREM MarksStay == KernelSpec => StaysMarked
<1>1. KernelInv /\ [KernelNext]_kernelvars
        => [(\A p \in Procs : mkat'[p].pc # "entry") =>
             \A l \in Locs : ((\E k \in DOMAIN marks : marks[k] = l) => ~ M!notmarked(l)')]_(M!vars)
  BY KernelKeeps DEF KeepsMarked
<1> QED BY <1>1, ServicesInductive, PTL DEF KernelSpec, StaysMarked, M!StaysMarked

\* The NIC never stores into a descriptor that ethread has not read, though part
\* of the ring is given back in advance; the semaphores of the rings count what
\* is in them; and a packet is left in an idle ring only when the ring is full
\* (ethread, ethwrite, ethhandler).
THEOREM EthernetRings == KernelSpec => []RingsSound
<1>1. KernelInv => RingsSound
  BY EthSound DEF KernelInv, RingsSound, NoOverwrite, EthInputCounted, EthOutputCounted, IdleOnlyWhenFull
<1> QED BY <1>1, ServicesInductive, PTL

=============================================================================
