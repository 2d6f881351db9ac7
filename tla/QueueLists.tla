----------------------------- MODULE QueueLists -----------------------------
(***************************************************************************)
(* What the queues of queuetab promise: lists of processes with their      *)
(* keys, every process on at most one of them.                             *)
(***************************************************************************)
EXTENDS Integers, SequencesExt

CONSTANTS
  Procs, Keys,
  Fifo, Ordered, Delta     \* the queues, by what they are for

VARIABLE lists      \* the queues that exist, each a sequence of processes with keys

Idle(p) == \A l \in Range(lists) : \A i \in DOMAIN l : l[i].pid # p

\* The ticks until entry i of a delta list is due.
Due(l, i) == FoldLeft(LAMBDA t, n : t + n.key, 0, SubSeq(l, 1, i))

Init == lists = [q \in {} |-> <<>>]

\* A new queue is empty.
New(q) == q \notin DOMAIN lists /\ lists' = [r \in DOMAIN lists \cup {q} |-> IF r = q THEN <<>> ELSE lists[r]]

\* First in, first out; the key does not matter.
PutLast(p, q) ==
  /\ lists'[q] # <<>>
  /\ lists' = [lists EXCEPT ![q] = Append(@, [pid |-> p, key |-> Last(lists'[q]).key])]

\* By descending key; after those with the same key.
PutOrdered(p, q, k) ==
  \E old \in {lists[q]} : \E n \in 0 .. Len(old) :
     /\ \A i \in DOMAIN old : (old[i].key >= k) = (i <= n)
     /\ lists' = [lists EXCEPT ![q] = InsertAt(old, n + 1, [pid |-> p, key |-> k])]

\* By the time when a process is due, which is then d ticks for p and what it
\* was for all others.
Delayed(old, new, p, d) ==
  /\ Len(new) = Len(old) + 1
  /\ \E n \in DOMAIN new :
        /\ new[n].pid = p /\ Due(new, n) = d
        /\ \A i \in DOMAIN old :
              \E j \in {IF i < n THEN i ELSE i + 1} :
                 /\ new[j].pid = old[i].pid /\ Due(new, j) = Due(old, i)
                 /\ (i < n) = (Due(old, i) <= d)
PutDelta(p, q, d) ==
  \E old \in {lists}, new \in {lists'} :
     Delayed(old[q], new[q], p, d) /\ new = [old EXCEPT ![q] = new[q]]

\* One process leaves its queue.
Take(q) == \E i \in DOMAIN lists[q] : lists' = [lists EXCEPT ![q] = RemoveAt(@, i)]

Next ==
  \/ \E q \in Fifo \cup Ordered \cup Delta : New(q)
  \/ \E p \in {r \in Procs : Idle(r)} :
        \/ \E q \in Fifo \cap DOMAIN lists : PutLast(p, q)
        \/ \E q \in Ordered \cap DOMAIN lists, k \in Keys : PutOrdered(p, q, k)
        \/ \E q \in Delta \cap DOMAIN lists, d \in Keys : PutDelta(p, q, d)
  \/ \E q \in DOMAIN lists : Take(q)

Spec == Init /\ [][Next]_lists
=============================================================================
