------------------------------ MODULE BufPool -------------------------------
(***************************************************************************)
(* Buffer pools: buffers of one size on a list, and a semaphore that       *)
(* counts them.  The first word of a buffer is the link of the free list   *)
(* while the buffer is free and the pool ID while it is in use; freebuf    *)
(* finds the pool from it.  getbuf is one step up to a wait that blocks.   *)
(***************************************************************************)
EXTENDS Integers, Sequences, FiniteSets, Functions, Semaphore

CONSTANTS
  Procs,
  NBPOOLS,
  Numbufs      \* bound: the numbufs arguments of mkbufpool

VARIABLES
  nbpools,
  bpnext,      \* buftab: the list of free buffers of each pool, first one first
  bpsem,       \* buftab: the semaphore of each pool
  word,        \* the first word of each buffer: a pool ID or a link
  held,        \* the buffers that a process uses
  at           \* the pool a process waits for in getbuf, or USER

vars == <<nbpools, bpnext, bpsem, word, held, at>>

Pools == 0 .. (NBPOOLS - 1)
LINK == -1
USER == -1
Buffers == Pools \X (1 .. (CHOOSE n \in Numbufs : \A m \in Numbufs : m <= n))

bufinit ==
  /\ nbpools = 0
  /\ bpnext = [i \in Pools |-> <<>>]
  /\ bpsem = [i \in Pools |-> semcreate(0)]
  /\ word = [b \in Buffers |-> LINK]
  /\ held = [p \in Procs |-> {}]
  /\ at = [p \in Procs |-> USER]

Init == bufinit

\* mkbufpool: the buffers are linked in the order of their addresses.
mkbufpool(n) ==
  /\ nbpools < NBPOOLS
  /\ nbpools' = nbpools + 1
  /\ bpnext' = [bpnext EXCEPT ![nbpools] = [k \in 1 .. n |-> <<nbpools, k>>]]
  /\ bpsem' = [bpsem EXCEPT ![nbpools] = semcreate(n)]
  /\ UNCHANGED <<word, held, at>>

\* The part of getbuf after the wait: the first buffer is unlinked and the pool
\* ID stored in it.  (CountsBuffers says that there is one.)
Unlink(p, i, sem) ==
  /\ bpnext[i] # <<>>
  /\ LET b == Head(bpnext[i])
     IN  /\ bpnext' = [bpnext EXCEPT ![i] = Tail(@)]
         /\ word' = [word EXCEPT ![b] = i]
         /\ held' = [held EXCEPT ![p] = @ \cup {b}]
  /\ bpsem' = [bpsem EXCEPT ![i] = sem]
  /\ at' = [at EXCEPT ![p] = USER]
  /\ UNCHANGED nbpools

getbuf(p, i) ==
  /\ at[p] = USER /\ i < nbpools
  /\ \/ ~ Blocks(bpsem[i]) /\ Unlink(p, i, wait(bpsem[i], p))
     \/ /\ Blocks(bpsem[i])
        /\ bpsem' = [bpsem EXCEPT ![i] = wait(@, p)]
        /\ at' = [at EXCEPT ![p] = i]
        /\ UNCHANGED <<nbpools, bpnext, word, held>>

\* A process that a signal released goes on.
GetbufReturn(p) ==
  /\ at[p] \in Pools
  /\ ~ Waits(bpsem[at[p]], p)
  /\ Unlink(p, at[p], bpsem[at[p]])

\* freebuf: any process may free a buffer that somebody handed to it.
FreedNoLink(i, b) == bpnext' = [bpnext EXCEPT ![i] = <<b>>]
FreedFirstPool(i, b) == bpnext' = [bpnext EXCEPT ![0] = <<b>> \o @]
Freed(i, b) == bpnext' = [bpnext EXCEPT ![i] = <<b>> \o @]

freebuf(p, q, b) ==
  /\ at[p] = USER /\ b \in held[q]
  /\ word[b] \in Pools /\ word[b] < nbpools
  /\ Freed(word[b], b)
  /\ word' = [word EXCEPT ![b] = LINK]
  /\ bpsem' = [bpsem EXCEPT ![word[b]] = signal(@)]
  /\ held' = [held EXCEPT ![q] = @ \ {b}]
  /\ UNCHANGED <<nbpools, at>>

\* Programs that hold buffers may wait for each other for ever.
AllWait == (\A p \in Procs : \E i \in Pools : Waits(bpsem[i], p)) /\ UNCHANGED vars

Next ==
  \/ \E n \in Numbufs : mkbufpool(n)
  \/ \E p \in Procs : \/ \E i \in Pools : getbuf(p, i)
                      \/ GetbufReturn(p)
                      \/ \E q \in Procs : \E b \in held[q] : freebuf(p, q, b)
  \/ AllWait

-----------------------------------------------------------------------------
Released(i) == {p \in Procs : at[p] = i /\ ~ Waits(bpsem[i], p)}

\* The semaphore of a pool counts the buffers on its list that no released
\* process is about to take: a process that getbuf lets through finds a buffer.
CountsBuffers ==
  \A i \in Pools :
    /\ bpsem[i].count = Len(bpnext[i]) - Len(bpsem[i].queue) - Cardinality(Released(i))
    /\ Cardinality(Released(i)) <= Len(bpnext[i])

Listed(i) == Range(bpnext[i])
Used(i) == {b \in UNION {held[p] : p \in Procs} : b[1] = i}

\* A buffer is on the list of the pool it was made for, once, or held by one
\* process, whoever frees it and in whatever order.
OnePlace ==
  /\ \A i \in Pools : /\ IsInjective(bpnext[i])
                      /\ Listed(i) \subseteq {b \in Buffers : b[1] = i}
                      /\ Listed(i) \cap Used(i) = {}
  /\ \A p, q \in Procs : p # q => held[p] \cap held[q] = {}

\* No call loses a buffer of a pool or adds one to it.
NoneLost == [][\A i \in Pools : i < nbpools => (Listed(i) \cup Used(i))' = Listed(i) \cup Used(i)]_vars

=============================================================================
