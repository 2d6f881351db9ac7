------------------------------- MODULE Queues -------------------------------
(***************************************************************************)
(* The table of process queues.  Entries below NPROC are processes, each   *)
(* on one queue at most; a queue q has its head at q and its tail at       *)
(* q + 1.  A queue is a doubly linked list from the head to the tail.      *)
(* The operations are operators on a table t; with them the kernel         *)
(* computes its new table.                                                 *)
(***************************************************************************)
EXTENDS Integers, SequencesExt

CONSTANTS
  NPROC,       \* entries of proctab
  NSEM,        \* entries of semtab
  Keys         \* bound: the keys and delays of this module's own specification

VARIABLES queuetab, nextqid

vars == <<queuetab, nextqid>>

NQENT == NPROC + 4 + NSEM + NSEM
Pids == 0 .. NPROC - 1
Nodes == 0 .. NQENT - 1
EMPTY == -1
MAXKEY == 2147483647
MINKEY == - 2147483647 - 1

queuehead(q) == q
queuetail(q) == q + 1
firstid(t, q) == t[queuehead(q)].qnext
lastid(t, q) == t[queuetail(q)].qprev
isempty(t, q) == firstid(t, q) >= NPROC
nonempty(t, q) == firstid(t, q) < NPROC
firstkey(t, q) == t[firstid(t, q)].qkey

\* The table as it is loaded.
Cleared == [i \in Nodes |-> [qkey |-> 0, qnext |-> 0, qprev |-> 0]]

\* The head and the tail of a new queue.
MakeQueue(t, q) ==
  [t EXCEPT ![queuehead(q)] = [qkey |-> MAXKEY, qnext |-> queuetail(q), qprev |-> EMPTY],
            ![queuetail(q)] = [qkey |-> MINKEY, qnext |-> EMPTY, qprev |-> queuehead(q)]]

\* Process p goes between the nodes a and b.
Link(t, p, a, b, k) ==
  [t EXCEPT ![p] = [qkey |-> k, qnext |-> b, qprev |-> a], ![a].qnext = p, ![b].qprev = p]

enqueue(t, p, q) == Link(t, p, lastid(t, q), queuetail(q), t[p].qkey)

InsertBefore(t, p, q, key) ==
  LET Skip[i \in Nodes] == IF t[i].qkey > key THEN Skip[t[i].qnext] ELSE i
      curr == Skip[firstid(t, q)]
  IN  Link(t, p, t[curr].qprev, curr, key)
insert(t, p, q, key) ==
  LET Skip[i \in Nodes] == IF t[i].qkey >= key THEN Skip[t[i].qnext] ELSE i
      curr == Skip[firstid(t, q)]
  IN  Link(t, p, t[curr].qprev, curr, key)

\* insertd: the delta list is walked with what is left of the delay.
Walk(t, q, key) ==
  LET Go[prev \in Nodes, next \in Nodes, k \in Int] ==
        IF next # queuetail(q) /\ t[next].qkey <= k
        THEN Go[next, t[next].qnext, k - t[next].qkey]
        ELSE [prev |-> prev, next |-> next, key |-> k]
  IN  Go[queuehead(q), firstid(t, q), key]
LinkDeltaTail(t, p, q, w) ==
  LET u == Link(t, p, w.prev, w.next, w.key)
  IN  [u EXCEPT ![w.next].qkey = @ - w.key]
LinkDelta(t, p, q, w) ==
  LET u == Link(t, p, w.prev, w.next, w.key)
  IN  IF w.next # queuetail(q) THEN [u EXCEPT ![w.next].qkey = @ - w.key] ELSE u
insertd(t, p, q, key) == LinkDelta(t, p, q, Walk(t, q, key))

GetItemForward(t, p) == [t EXCEPT ![t[p].qprev].qnext = t[p].qnext]
getitem(t, p) == [t EXCEPT ![t[p].qprev].qnext = t[p].qnext, ![t[p].qnext].qprev = t[p].qprev]

getfirst(t, q) == getitem(t, firstid(t, q))
getlast(t, q) == getitem(t, lastid(t, q))

dequeue(t, q) == [getfirst(t, q) EXCEPT ![firstid(t, q)].qprev = EMPTY, ![firstid(t, q)].qnext = EMPTY]

-----------------------------------------------------------------------------
(***************************************************************************)
(* What the links say.                                                     *)
(***************************************************************************)

\* The processes from node i on, as the links of a table lead, and the node
\* where the way ends; a way longer than NPROC goes round.
Way(i, link) ==
  LET Go[n \in 0 .. NPROC, j \in Nodes \cup {EMPTY}] ==
        IF j \in Pids /\ n > 0 THEN <<j>> \o Go[n - 1, link[j]] ELSE <<j>>
  IN  Go[NPROC, i]
Forward(t, q) == Way(firstid(t, q), [j \in Pids |-> t[j].qnext])
Backward(t, q) == Way(lastid(t, q), [j \in Pids |-> t[j].qprev])

Contents(t, q) == Front(Forward(t, q))
List(t, q) == LET c == Contents(t, q) IN [i \in DOMAIN c |-> [pid |-> c[i], key |-> t[c[i]].qkey]]

\* The list of q is whole: it can be walked in both directions.
Whole(t, q) ==
  /\ Append(Reverse(Forward(t, q)), queuehead(q)) = <<queuetail(q)>> \o Backward(t, q)
  /\ t[queuehead(q)].qkey = MAXKEY /\ t[queuetail(q)].qkey = MINKEY

-----------------------------------------------------------------------------
(***************************************************************************)
(* The table by itself.  The kernel allocates NSEM + 2 queues; the first   *)
(* here is first in first out, the second ordered and the third a delta    *)
(* list, as for a semaphore, the ready list and the sleep queue.           *)
(***************************************************************************)
Made == {q \in NPROC .. nextqid - 1 : (q - NPROC) % 2 = 0}
FifoQ == NPROC
OrderedQ == NPROC + 2
DeltaQ == NPROC + 4
OnNone(p) == \A q \in Made : p \notin ToSet(Contents(queuetab, q))

Init == queuetab = Cleared /\ nextqid = NPROC

newqueue ==
  /\ Cardinality(Made) < NSEM + 2
  /\ ~ (nextqid > NQENT)
  /\ queuetab' = MakeQueue(queuetab, nextqid)
  /\ nextqid' = nextqid + 2

Change(t) == queuetab' = t /\ UNCHANGED nextqid

Next ==
  \/ newqueue
  \/ \E p \in Pids :
        /\ OnNone(p)
        /\ \/ FifoQ \in Made /\ Change(enqueue(queuetab, p, FifoQ))
           \/ OrderedQ \in Made /\ \E k \in Keys : Change(insert(queuetab, p, OrderedQ, k))
           \/ DeltaQ \in Made /\ \E k \in Keys : Change(insertd(queuetab, p, DeltaQ, k))
  \/ \E q \in Made : nonempty(queuetab, q) /\ Change(dequeue(queuetab, q))
  \/ /\ FifoQ \in Made /\ nonempty(queuetab, FifoQ)
     /\ Change(getfirst(queuetab, FifoQ)) \/ Change(getlast(queuetab, FifoQ))
  \/ /\ OrderedQ \in Made
     /\ \E p \in ToSet(Contents(queuetab, OrderedQ)) : Change(getitem(queuetab, p))

\* Every list can be walked from both ends, whatever was inserted and removed
\* in the middle (enqueue, insert, insertd, getitem).
ListsWhole == \A q \in Made : Whole(queuetab, q)

\* The links implement the lists: the order of insert, the delays of insertd,
\* the processes that getfirst, getlast, getitem and dequeue leave.
L == INSTANCE QueueLists WITH
       Procs <- Pids,
       Fifo <- {FifoQ}, Ordered <- {OrderedQ}, Delta <- {DeltaQ},
       lists <- [q \in Made |-> List(queuetab, q)]
QueuesAreLists == L!Spec
=============================================================================
