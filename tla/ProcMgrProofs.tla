---------------------------- MODULE ProcMgrProofs ----------------------------
(***************************************************************************)
(* Proofs about ProcMgr, for every number of processes and semaphores,     *)
(* every set of programs and every time slice: the states of the processes *)
(* and the queues agree, counts and messages are right, the dead stay      *)
(* dead, and the delta list is exact.                                      *)
(*                                                                         *)
(* First the queues, of every length: where insert, getitem, insertd and   *)
(* unsleep put or take an entry, what they leave alone, and what the keys  *)
(* of the delta list add up to before and after.                           *)
(***************************************************************************)
EXTENDS ProcMgr, TLAPS, SequenceTheorems, FiniteSetTheorems, WellFoundedInduction

-----------------------------------------------------------------------------
(***************************************************************************)
(* Numbers and recursion.                                                  *)
(***************************************************************************)

\* A set of naturals that is not empty has a least element.
LEMMA LeastNat ==
  ASSUME NEW T, T \subseteq Nat, T # {}
  PROVE  \E x \in T : \A y \in T : x <= y
<1>1. PICK x \in T : \A y \in T : ~ (<<y, x>> \in OpToRel(<, Nat))
  BY NatLessThanWellFounded, WFMin
<1>2. \A y \in T : ~ (y < x)
  BY <1>1, Zenon DEF OpToRel
<1> QED BY <1>2

\* Min of a set of naturals is its least element (newpid, newsem, getitem).
LEMMA MinIsFirst ==
  ASSUME NEW T, T \subseteq Nat, T # {}
  PROVE  Min(T) \in T /\ \A y \in T : Min(T) <= y
<1>1. PICK x \in T : \A y \in T : x <= y
  BY LeastNat
<1> QED BY <1>1 DEF Min

\* Induction on the elements of a set of naturals.
LEMMA Induction ==
  ASSUME NEW T, 0 \in T, \A n \in Nat : n \in T => n + 1 \in T
  PROVE  Nat \subseteq T
<1> SUFFICES ASSUME Nat \ T # {} PROVE FALSE
  OBVIOUS
<1>1. PICK x \in Nat \ T : \A y \in Nat \ T : x <= y
  BY LeastNat
<1>2. x # 0
  BY <1>1
<1>3. x - 1 \in Nat /\ x - 1 \in T
  BY <1>1, <1>2
<1> QED BY <1>1, <1>3

\* The keys of a delta list that are summed up.
LEMMA SumExists ==
  ASSUME NEW q
  PROVE  \A n \in Nat : \E f : f = [j \in 0 .. n |-> IF j = 0 THEN 0 ELSE f[j - 1] + q[j].key]
<1> DEFINE IsSum(f, n) == f = [j \in 0 .. n |-> IF j = 0 THEN 0 ELSE f[j - 1] + q[j].key]
           T == {n \in Nat : \E f : IsSum(f, n)}
<1>1. 0 \in T
  <2> DEFINE f == [j \in 0 .. 0 |-> 0]
  <2>1. IsSum(f, 0)
    <3> SUFFICES f = [j \in 0 .. 0 |-> IF j = 0 THEN 0 ELSE f[j - 1] + q[j].key]
      OBVIOUS
    <3>1. \A j \in 0 .. 0 : j = 0
      OBVIOUS
    <3> QED BY <3>1
  <2> QED BY <2>1
<1>2. ASSUME NEW n \in Nat, n \in T
      PROVE  n + 1 \in T
  <2>1. PICK f : IsSum(f, n)
    BY <1>2
  <2> DEFINE g == [j \in 0 .. (n + 1) |-> IF j = n + 1 THEN f[n] + q[n + 1].key ELSE f[j]]
  <2>2. ASSUME NEW j \in 0 .. (n + 1)
        PROVE  g[j] = IF j = 0 THEN 0 ELSE g[j - 1] + q[j].key
    <3>1. CASE j = n + 1
      <4>1. g[j] = f[n] + q[j].key
        BY <3>1
      <4>2. j # 0 /\ n \in 0 .. (n + 1) /\ n # n + 1 /\ j - 1 = n
        BY <3>1
      <4>3. g[n] = f[n]
        BY <4>2
      <4> HIDE DEF g
      <4> QED BY <4>1, <4>2, <4>3
    <3>2. CASE j # n + 1 /\ j # 0
      <4>1. j \in 0 .. n /\ j - 1 \in 0 .. (n + 1) /\ j - 1 # n + 1
        BY <3>2
      <4>2. f[j] = IF j = 0 THEN 0 ELSE f[j - 1] + q[j].key
        BY <2>1, <4>1
      <4> QED BY <3>2, <4>1, <4>2
    <3>3. CASE j = 0
      <4>1. j \in 0 .. n /\ j # n + 1
        BY <3>3
      <4>2. f[j] = 0
        BY <2>1, <3>3, <4>1
      <4> QED BY <3>3, <4>1, <4>2
    <3> QED BY <3>1, <3>2, <3>3
  <2>3. IsSum(g, n + 1)
    <3>1. g = [j \in 0 .. (n + 1) |-> g[j]]
      OBVIOUS
    <3> HIDE DEF g
    <3> QED BY <2>2, <3>1
  <2> HIDE DEF g
  <2>4. \E h : IsSum(h, n + 1)
    BY <2>3
  <2> QED BY <2>4
<1> HIDE DEF T
<1>3. Nat \subseteq T
  BY <1>1, <1>2, Induction
<1> QED BY <1>3 DEF T

\* The sum of the keys, one key at a time.
LEMMA DueSteps ==
  ASSUME NEW q, Len(q) \in Nat
  PROVE  /\ Due(q, 0) = 0
         /\ \A i \in 1 .. Len(q) : Due(q, i) = Due(q, i - 1) + q[i].key
<1> DEFINE IsSum(f) == f = [j \in 0 .. Len(q) |-> IF j = 0 THEN 0 ELSE f[j - 1] + q[j].key]
           sum == CHOOSE f : IsSum(f)
<1>1. \E f : IsSum(f)
  BY SumExists
<1>2. IsSum(sum)
  BY <1>1
<1>3. \A i : Due(q, i) = sum[i]
  BY DEF Due
<1> HIDE DEF sum
<1>4. sum[0] = 0
  BY <1>2
<1>5. ASSUME NEW i \in 1 .. Len(q)
      PROVE  sum[i] = sum[i - 1] + q[i].key
  <2>1. i \in 0 .. Len(q) /\ i # 0
    OBVIOUS
  <2> QED BY <1>2, <2>1
<1> QED BY <1>3, <1>4, <1>5

-----------------------------------------------------------------------------
(***************************************************************************)
(* Queues.                                                                 *)
(***************************************************************************)
Nodes == [pid : Pids, key : Int]

\* No process is twice on a queue.
Distinct(q) == \A i, j \in 1 .. Len(q) : q[i].pid = q[j].pid => i = j

IsQueue(q) == q \in Seq(Nodes) /\ Distinct(q)

\* What the proofs use of a queue.
LEMMA QueueFacts ==
  ASSUME NEW q, IsQueue(q)
  PROVE  /\ q \in Seq(Nodes) /\ Len(q) \in Nat /\ DOMAIN q = 1 .. Len(q)
         /\ \A i \in 1 .. Len(q) : q[i] \in Nodes /\ q[i].pid \in Pids /\ q[i].key \in Int
         /\ \A i, j \in 1 .. Len(q) : q[i].pid = q[j].pid => i = j
         /\ \A p : p \in Entries(q) <=> \E i \in 1 .. Len(q) : q[i].pid = p
         /\ Entries(q) \subseteq Pids
<1>1. q \in Seq(Nodes)
  BY DEF IsQueue
<1>2. Len(q) \in Nat /\ DOMAIN q = 1 .. Len(q)
  BY <1>1, LenProperties
<1>3. \A i \in 1 .. Len(q) : q[i] \in Nodes
  BY <1>1, ElementOfSeq
<1>4. \A i \in 1 .. Len(q) : q[i].pid \in Pids /\ q[i].key \in Int
  BY <1>3 DEF Nodes
<1>5. \A p : p \in Entries(q) <=> \E i \in 1 .. Len(q) : q[i].pid = p
  BY <1>2 DEF Entries
<1> QED BY <1>1, <1>2, <1>3, <1>4, <1>5 DEF IsQueue, Distinct

\* A queue without repetition is as long as the number of its processes.
LEMMA QueueNoRepeats ==
  ASSUME NEW q, IsQueue(q)
  PROVE  NoRepeats(q) /\ IsFiniteSet(Entries(q)) /\ Cardinality(Entries(q)) = Len(q)
<1> DEFINE f == [i \in 1 .. Len(q) |-> q[i].pid]
<1>1. Len(q) \in Nat
  BY QueueFacts
<1>2. f \in [1 .. Len(q) -> Entries(q)]
  BY QueueFacts
<1>3. \A i, j \in 1 .. Len(q) : f[i] = f[j] => i = j
  BY QueueFacts
<1>4. \A p \in Entries(q) : \E i \in 1 .. Len(q) : f[i] = p
  BY QueueFacts
<1> HIDE DEF f
<1>5. f \in Bijection(1 .. Len(q), Entries(q))
  BY <1>2, <1>3, <1>4 DEF Bijection, Injection, Surjection, IsInjective
<1>6. ExistsBijection(1 .. Len(q), Entries(q))
  BY <1>5 DEF ExistsBijection
<1>7. IsFiniteSet(1 .. Len(q)) /\ Cardinality(1 .. Len(q)) = Len(q)
  <2>1. 1 \in Int /\ Len(q) \in Int
    BY <1>1
  <2>2. /\ IsFiniteSet(1 .. Len(q))
        /\ Cardinality(1 .. Len(q)) = IF 1 > Len(q) THEN 0 ELSE Len(q) - 1 + 1
    BY <2>1, FS_Interval, Zenon
  <2> QED BY <1>1, <2>2
<1> QED BY <1>6, <1>7, FS_Bijection DEF NoRepeats

\* The entries of a sequence after one was taken out (getitem, dequeue).
LEMMA RemoveAtProperties ==
  ASSUME NEW s \in Seq(Nodes), NEW i \in 1 .. Len(s), NEW t, t = RemoveAt(s, i)
  PROVE  /\ t \in Seq(Nodes) /\ Len(t) = Len(s) - 1
         /\ \A j \in 1 .. (Len(s) - 1) : t[j] = IF j < i THEN s[j] ELSE s[j + 1]
<1>0. Len(s) \in Nat /\ \A j \in 1 .. Len(s) : s[j] \in Nodes
  BY LenProperties, ElementOfSeq
<1> DEFINE a == SubSeq(s, 1, i - 1)
           b == SubSeq(s, i + 1, Len(s))
<1>1. /\ a \in Seq(Nodes) /\ Len(a) = i - 1
      /\ \A j \in 1 .. (i - 1) : a[j] = s[j]
  BY <1>0, SubSeqProperties
<1>2. /\ b \in Seq(Nodes) /\ Len(b) = Len(s) - i
      /\ \A j \in 1 .. (Len(s) - i) : b[j] = s[i + j]
  BY <1>0, SubSeqProperties
<1>3. t = a \o b
  BY DEF RemoveAt
<1> HIDE DEF a, b
<1>3a. /\ a \o b \in Seq(Nodes) /\ Len(a \o b) = Len(a) + Len(b)
       /\ \A j \in 1 .. (Len(a) + Len(b)) :
            (a \o b)[j] = IF j <= Len(a) THEN a[j] ELSE b[j - Len(a)]
  BY <1>1, <1>2, ConcatProperties
<1>4. /\ t \in Seq(Nodes) /\ Len(t) = Len(a) + Len(b)
      /\ \A j \in 1 .. (Len(a) + Len(b)) : t[j] = IF j <= Len(a) THEN a[j] ELSE b[j - Len(a)]
  BY <1>3, <1>3a
<1>5. Len(a) + Len(b) = Len(s) - 1
  BY <1>0, <1>1, <1>2
<1>6. ASSUME NEW j \in 1 .. (Len(s) - 1)
      PROVE  t[j] = IF j < i THEN s[j] ELSE s[j + 1]
  <2>1. CASE j < i
    <3>1. j <= Len(a) /\ j \in 1 .. (i - 1)
      BY <1>0, <1>1, <2>1
    <3> QED BY <1>1, <1>4, <1>5, <2>1, <3>1
  <2>2. CASE ~ (j < i)
    <3>1. ~ (j <= Len(a)) /\ j - Len(a) \in 1 .. (Len(s) - i) /\ i + (j - Len(a)) = j + 1
      BY <1>0, <1>1, <2>2
    <3> QED BY <1>2, <1>4, <1>5, <2>2, <3>1
  <2> QED BY <2>1, <2>2
<1> QED BY <1>4, <1>5, <1>6

-----------------------------------------------------------------------------
\* t is the queue q with the entry e inserted at position i.
Inserted(q, i, e, t) ==
  /\ t \in Seq(Nodes) /\ Len(t) = Len(q) + 1
  /\ \A j \in 1 .. (Len(q) + 1) : t[j] = IF j < i THEN q[j] ELSE IF j = i THEN e ELSE q[j - 1]

\* The entries of a sequence after one was put in (insert, insertd).
LEMMA IsInserted ==
  ASSUME NEW s \in Seq(Nodes), NEW i \in 1 .. (Len(s) + 1), NEW e \in Nodes
  PROVE  Inserted(s, i, e, InsertAt(s, i, e))
<1>0. Len(s) \in Nat /\ \A j \in 1 .. Len(s) : s[j] \in Nodes
  BY LenProperties, ElementOfSeq
<1> DEFINE a == SubSeq(s, 1, i - 1)
           b == SubSeq(s, i, Len(s))
           c == a \o <<e>>
           t == InsertAt(s, i, e)
<1>1. /\ a \in Seq(Nodes) /\ Len(a) = i - 1
      /\ \A j \in 1 .. (i - 1) : a[j] = s[j]
  BY <1>0, SubSeqProperties
<1>2. /\ b \in Seq(Nodes) /\ Len(b) = Len(s) - i + 1
      /\ \A j \in 1 .. (Len(s) - i + 1) : b[j] = s[i + j - 1]
  BY <1>0, SubSeqProperties
<1>3. t = c \o b
  BY DEF InsertAt
<1>4. <<e>> \in Seq(Nodes) /\ Len(<<e>>) = 1 /\ <<e>>[1] = e
  OBVIOUS
<1> HIDE DEF a, b, t
<1>5. /\ c \in Seq(Nodes) /\ Len(c) = i
      /\ \A j \in 1 .. i : c[j] = IF j <= i - 1 THEN a[j] ELSE <<e>>[j - (i - 1)]
  BY <1>0, <1>1, <1>4, ConcatProperties
<1>6. \A j \in 1 .. i : c[j] = IF j < i THEN s[j] ELSE e
  BY <1>0, <1>1, <1>4, <1>5
<1> HIDE DEF c
<1>6a. /\ c \o b \in Seq(Nodes) /\ Len(c \o b) = Len(c) + Len(b)
       /\ \A j \in 1 .. (Len(c) + Len(b)) :
            (c \o b)[j] = IF j <= Len(c) THEN c[j] ELSE b[j - Len(c)]
  BY <1>2, <1>5, ConcatProperties
<1>7. /\ t \in Seq(Nodes) /\ Len(t) = Len(s) + 1
      /\ \A j \in 1 .. (Len(s) + 1) : t[j] = IF j <= i THEN c[j] ELSE b[j - i]
  BY <1>0, <1>2, <1>3, <1>5, <1>6a
<1>8. ASSUME NEW j \in 1 .. (Len(s) + 1)
      PROVE  t[j] = IF j < i THEN s[j] ELSE IF j = i THEN e ELSE s[j - 1]
  <2>1. CASE j <= i
    BY <1>0, <1>6, <1>7, <2>1
  <2>2. CASE i < j
    <3>1. j - i \in 1 .. (Len(s) - i + 1) /\ i + (j - i) - 1 = j - 1
      BY <1>0, <2>2
    <3>2. t[j] = b[j - i]
      BY <1>7, <2>2
    <3>3. b[j - i] = s[j - 1]
      BY <1>2, <3>1
    <3> QED BY <2>2, <3>2, <3>3
  <2> QED BY <1>0, <2>1, <2>2
<1>9. Inserted(s, i, e, t)
  BY <1>7, <1>8, Zenon DEF Inserted
<1> QED BY <1>9 DEF t

\* Inserting a process that is not on the queue.
LEMMA InsertQueue ==
  ASSUME NEW q, IsQueue(q), NEW e \in Nodes, e.pid \notin Entries(q),
         NEW i \in 1 .. (Len(q) + 1), NEW t, Inserted(q, i, e, t)
  PROVE  IsQueue(t) /\ Entries(t) = Entries(q) \union {e.pid}
<1>1. /\ q \in Seq(Nodes) /\ Len(q) \in Nat
      /\ \A j, m \in 1 .. Len(q) : q[j].pid = q[m].pid => j = m
      /\ \A r : r \in Entries(q) <=> \E j \in 1 .. Len(q) : q[j].pid = r
  BY QueueFacts
<1>3. /\ t \in Seq(Nodes) /\ Len(t) = Len(q) + 1
      /\ \A j \in 1 .. (Len(q) + 1) :
           t[j] = IF j < i THEN q[j] ELSE IF j = i THEN e ELSE q[j - 1]
  BY DEF Inserted
<1>4. \A j \in 1 .. Len(q) : q[j].pid # e.pid
  BY <1>1
<1> DEFINE from(j) == IF j < i THEN j ELSE j - 1
<1>5. \A j \in 1 .. Len(t) : j # i => from(j) \in 1 .. Len(q) /\ t[j] = q[from(j)]
  BY <1>1, <1>3
<1>6. \A j, m \in 1 .. Len(t) : j # i /\ m # i /\ from(j) = from(m) => j = m
  BY <1>1, <1>3
<1>7. i \in 1 .. Len(t) /\ t[i] = e
  BY <1>1, <1>3
<1>8. \A j \in 1 .. Len(q) : \E m \in 1 .. Len(t) : t[m] = q[j]
  <2> SUFFICES ASSUME NEW j \in 1 .. Len(q) PROVE \E m \in 1 .. Len(t) : t[m] = q[j]
    OBVIOUS
  <2>1. CASE j < i
    BY <1>1, <1>3, <2>1
  <2>2. CASE ~ (j < i)
    <3>1. j + 1 \in 1 .. Len(t) /\ j + 1 > i /\ (j + 1) - 1 = j
      BY <1>1, <1>3, <2>2
    <3> QED BY <1>3, <3>1
  <2> QED BY <2>1, <2>2
<1> HIDE DEF from
<1>9. Distinct(t)
  <2> SUFFICES ASSUME NEW j \in 1 .. Len(t), NEW m \in 1 .. Len(t), t[j].pid = t[m].pid
               PROVE  j = m
    BY DEF Distinct
  <2>1. CASE j = i \/ m = i
    BY <1>4, <1>5, <1>7, <2>1
  <2>2. CASE j # i /\ m # i
    BY <1>1, <1>5, <1>6, <2>2
  <2> QED BY <2>1, <2>2
<1>10. IsQueue(t)
  BY <1>3, <1>9 DEF IsQueue
<1>11. \A r : r \in Entries(t) <=> \E j \in 1 .. Len(t) : t[j].pid = r
  BY <1>10, QueueFacts
<1>12. \A r : r \in Entries(t) <=> r \in Entries(q) \/ r = e.pid
  <2>1. ASSUME NEW j \in 1 .. Len(t) PROVE t[j].pid \in Entries(q) \/ t[j].pid = e.pid
    <3>1. CASE j = i
      BY <1>7, <3>1
    <3>2. CASE j # i
      BY <1>1, <1>5, <3>2
    <3> QED BY <3>1, <3>2
  <2>2. \A r \in Entries(q) : \E j \in 1 .. Len(t) : t[j].pid = r
    BY <1>1, <1>8
  <2> QED BY <1>7, <1>11, <2>1, <2>2
<1> QED BY <1>10, <1>12

\* t is the queue q without its entry at position i.
Removed(q, i, t) ==
  /\ t \in Seq(Nodes) /\ Len(t) = Len(q) - 1
  /\ \A j \in 1 .. (Len(q) - 1) : t[j] = IF j < i THEN q[j] ELSE q[j + 1]

\* The same, by the name of the relation.
LEMMA IsRemoved ==
  ASSUME NEW q \in Seq(Nodes), NEW i \in 1 .. Len(q)
  PROVE  Removed(q, i, RemoveAt(q, i))
BY RemoveAtProperties DEF Removed

\* Removing an entry.
LEMMA RemoveQueue ==
  ASSUME NEW q, IsQueue(q), NEW i \in 1 .. Len(q), NEW t, Removed(q, i, t)
  PROVE  IsQueue(t) /\ Entries(t) = Entries(q) \ {q[i].pid}
<1>1. /\ q \in Seq(Nodes) /\ Len(q) \in Nat
      /\ \A j, m \in 1 .. Len(q) : q[j].pid = q[m].pid => j = m
      /\ \A r : r \in Entries(q) <=> \E j \in 1 .. Len(q) : q[j].pid = r
  BY QueueFacts
<1>2. /\ t \in Seq(Nodes) /\ Len(t) = Len(q) - 1
      /\ \A j \in 1 .. (Len(q) - 1) : t[j] = IF j < i THEN q[j] ELSE q[j + 1]
  BY DEF Removed
<1> DEFINE from(j) == IF j < i THEN j ELSE j + 1
<1>3. \A j \in 1 .. Len(t) : from(j) \in 1 .. Len(q) /\ from(j) # i /\ t[j] = q[from(j)]
  BY <1>1, <1>2
<1>4. \A j, m \in 1 .. Len(t) : from(j) = from(m) => j = m
  BY <1>1, <1>2
<1>5. \A j \in 1 .. Len(q) : j # i => \E m \in 1 .. Len(t) : t[m] = q[j]
  <2> SUFFICES ASSUME NEW j \in 1 .. Len(q), j # i PROVE \E m \in 1 .. Len(t) : t[m] = q[j]
    OBVIOUS
  <2>1. CASE j < i
    BY <1>1, <1>2, <2>1
  <2>2. CASE j > i
    <3>1. j - 1 \in 1 .. Len(t) /\ ~ (j - 1 < i) /\ (j - 1) + 1 = j
      BY <1>1, <1>2, <2>2
    <3> QED BY <1>2, <3>1
  <2> QED BY <2>1, <2>2
<1> HIDE DEF from
<1>6. Distinct(t)
  <2> SUFFICES ASSUME NEW j \in 1 .. Len(t), NEW m \in 1 .. Len(t), t[j].pid = t[m].pid
               PROVE  j = m
    BY DEF Distinct
  <2>1. /\ from(j) \in 1 .. Len(q) /\ from(m) \in 1 .. Len(q)
        /\ q[from(j)].pid = q[from(m)].pid
    BY <1>3
  <2> QED BY <1>1, <1>4, <2>1
<1>7. IsQueue(t)
  BY <1>2, <1>6 DEF IsQueue
<1>8. \A r : r \in Entries(t) <=> \E j \in 1 .. Len(t) : t[j].pid = r
  BY <1>7, QueueFacts
<1>9. \A r : r \in Entries(t) <=> r \in Entries(q) /\ r # q[i].pid
  <2>1. \A j \in 1 .. Len(t) : t[j].pid \in Entries(q) /\ t[j].pid # q[i].pid
    BY <1>1, <1>3
  <2>2. ASSUME NEW r \in Entries(q), r # q[i].pid
        PROVE  \E j \in 1 .. Len(t) : t[j].pid = r
    <3>1. PICK m \in 1 .. Len(q) : q[m].pid = r
      BY <1>1
    <3>2. PICK j \in 1 .. Len(t) : t[j] = q[m]
      BY <1>5, <2>2, <3>1
    <3> QED BY <3>1, <3>2
  <2> QED BY <1>8, <2>1, <2>2
<1> QED BY <1>7, <1>9

\* Taking the first of a queue (dequeue, getfirst).
LEMMA TailRemoved ==
  ASSUME NEW q \in Seq(Nodes), q # <<>>
  PROVE  /\ 1 \in 1 .. Len(q) /\ Head(q) = q[1]
         /\ Removed(q, 1, Tail(q))
<1>1. Len(q) \in Nat /\ Len(q) # 0
  BY LenProperties, EmptySeq
<1>2. /\ Head(q) = q[1] /\ Tail(q) \in Seq(Nodes) /\ Len(Tail(q)) = Len(q) - 1
      /\ \A j \in 1 .. Len(Tail(q)) : Tail(q)[j] = q[j + 1]
  BY HeadTailProperties
<1> QED BY <1>1, <1>2 DEF Removed

\* Where a process is on a queue.
LEMMA IndexFacts ==
  ASSUME NEW q, IsQueue(q), NEW p
  PROVE  /\ On(q, p) <=> p \in Entries(q)
         /\ p \in Entries(q) => Index(q, p) \in 1 .. Len(q) /\ q[Index(q, p)].pid = p
<1> DEFINE I == {i \in 1 .. Len(q) : q[i].pid = p}
<1>1. \A r : r \in Entries(q) <=> \E j \in 1 .. Len(q) : q[j].pid = r
  BY QueueFacts
<1>2. Index(q, p) = IF I # {} THEN Min(I) ELSE 0
  BY DEF Index, SelectInSeq
<1>3. p \in Entries(q) <=> I # {}
  BY <1>1
<1>4. ASSUME I # {}
      PROVE  Min(I) \in I
  <2>1. I \subseteq Nat
    OBVIOUS
  <2> HIDE DEF I
  <2> QED BY <1>4, <2>1, MinIsFirst
<1>5. I # {} => Min(I) \in 1 .. Len(q) /\ q[Min(I)].pid = p /\ Min(I) # 0
  BY <1>4
<1> HIDE DEF I
<1> QED BY <1>2, <1>3, <1>5 DEF On

\* getitem takes a process, and no other, off a queue.
LEMMA GetitemQueue ==
  ASSUME NEW q, IsQueue(q), NEW p
  PROVE  IsQueue(getitem(q, p)) /\ Entries(getitem(q, p)) = Entries(q) \ {p}
<1>1. q \in Seq(Nodes)
  BY QueueFacts
<1>2. CASE p \in Entries(q)
  <2>1. Index(q, p) \in 1 .. Len(q) /\ q[Index(q, p)].pid = p
    BY <1>2, IndexFacts
  <2>2. getitem(q, p) = RemoveAt(q, Index(q, p))
    BY <1>2, IndexFacts DEF getitem
  <2>3. Removed(q, Index(q, p), getitem(q, p))
    BY <1>1, <2>1, <2>2, IsRemoved
  <2> QED BY <2>1, <2>3, RemoveQueue
<1>3. CASE p \notin Entries(q)
  BY <1>3, IndexFacts DEF getitem
<1> QED BY <1>2, <1>3

\* insert goes behind the entries of at least its key.
LEMMA InsertPosition ==
  ASSUME NEW q, IsQueue(q), NEW p, NEW k \in Int
  PROVE  \E i \in 1 .. (Len(q) + 1) :
           /\ insert(q, p, k) = InsertAt(q, i, Node(p, k))
           /\ \A j \in 1 .. Len(q) : j < i => q[j].key >= k
           /\ i <= Len(q) => q[i].key < k
<1> DEFINE I == {i \in 1 .. Len(q) : q[i].key < k}
           i == IF I # {} THEN Min(I) ELSE Len(q) + 1
<1>1. /\ Len(q) \in Nat
      /\ \A j \in 1 .. Len(q) : q[j].key \in Int
  BY QueueFacts
<1>2. ASSUME I # {}
      PROVE  Min(I) \in I /\ \A j \in I : Min(I) <= j
  <2>1. I \subseteq Nat
    OBVIOUS
  <2> HIDE DEF I
  <2> QED BY <1>2, <2>1, MinIsFirst
<1>3. I # {} => Min(I) # 0
  BY <1>2
<1>4. insert(q, p, k) = InsertAt(q, i, Node(p, k))
  BY <1>3 DEF insert, SelectInSeq
<1>5. i \in 1 .. (Len(q) + 1)
  BY <1>1, <1>2
<1>6. i <= Len(q) => q[i].key < k
  BY <1>1, <1>2
<1>7. ASSUME NEW j \in 1 .. Len(q), j < i
      PROVE  q[j].key >= k
  <2>1. j \notin I
    BY <1>1, <1>2, <1>7
  <2> QED BY <1>1, <2>1
<1> HIDE DEF i
<1> QED BY <1>4, <1>5, <1>6, <1>7

\* An entry of a queue holds a process and its key.
LEMMA NodeFacts ==
  \A p, k : Node(p, k).pid = p /\ Node(p, k).key = k /\ (p \in Pids /\ k \in Int => Node(p, k) \in Nodes)
BY DEF Node, Nodes

\* insert puts a process on a queue.
LEMMA InsertIsQueue ==
  ASSUME NEW q, IsQueue(q), NEW p \in Pids, p \notin Entries(q), NEW k \in Int
  PROVE  IsQueue(insert(q, p, k)) /\ Entries(insert(q, p, k)) = Entries(q) \union {p}
<1>1. PICK i \in 1 .. (Len(q) + 1) : insert(q, p, k) = InsertAt(q, i, Node(p, k))
  BY InsertPosition
<1>2. Node(p, k) \in Nodes /\ Node(p, k).pid = p
  BY NodeFacts
<1>3. q \in Seq(Nodes)
  BY QueueFacts
<1>4. Inserted(q, i, Node(p, k), insert(q, p, k))
  BY <1>1, <1>2, <1>3, IsInserted
<1> QED BY <1>2, <1>4, InsertQueue

\* enqueue puts a process at the end of a queue.
LEMMA AppendQueue ==
  ASSUME NEW q, IsQueue(q), NEW p \in Pids, p \notin Entries(q), NEW k \in Int
  PROVE  /\ IsQueue(Append(q, Node(p, k)))
         /\ Entries(Append(q, Node(p, k))) = Entries(q) \union {p}
         /\ Len(Append(q, Node(p, k))) = Len(q) + 1
<1> DEFINE t == Append(q, Node(p, k))
<1>1. Node(p, k) \in Nodes /\ Node(p, k).pid = p
  BY NodeFacts
<1>2. q \in Seq(Nodes) /\ Len(q) \in Nat
  BY QueueFacts
<1>3. /\ t \in Seq(Nodes) /\ Len(t) = Len(q) + 1
      /\ \A i \in 1 .. Len(q) : t[i] = q[i]
      /\ t[Len(q) + 1] = Node(p, k)
  BY <1>1, <1>2, AppendProperties
<1> HIDE DEF t
<1>4. Inserted(q, Len(q) + 1, Node(p, k), t)
  BY <1>2, <1>3 DEF Inserted
<1>5. Len(q) + 1 \in 1 .. (Len(q) + 1)
  BY <1>2
<1>6. IsQueue(t) /\ Entries(t) = Entries(q) \union {p}
  BY <1>1, <1>4, <1>5, InsertQueue
<1> QED BY <1>3, <1>6 DEF t

\* t is the queue q without its first n entries.
Suffix(q, n, t) ==
  /\ t \in Seq(Nodes) /\ Len(t) = Len(q) - n
  /\ \A j \in 1 .. (Len(q) - n) : t[j] = q[n + j]

\* A suffix is taken by SubSeq.
LEMMA SuffixTaken ==
  ASSUME NEW q, IsQueue(q), NEW n \in 0 .. Len(q)
  PROVE  Suffix(q, n, SubSeq(q, n + 1, Len(q)))
<1> DEFINE t == SubSeq(q, n + 1, Len(q))
<1>0. q \in Seq(Nodes) /\ Len(q) \in Nat
  BY QueueFacts
<1>1. Len(q) \in Nat /\ \A j \in 1 .. Len(q) : q[j] \in Nodes
  BY <1>0, ElementOfSeq
<1>2. /\ t \in Seq(Nodes) /\ Len(t) = Len(q) - n
      /\ \A j \in 1 .. (Len(q) - n) : t[j] = q[n + j]
  BY <1>1, SubSeqProperties
<1> HIDE DEF t
<1>3. Suffix(q, n, t)
  BY <1>2, Zenon DEF Suffix
<1> QED BY <1>3 DEF t

\* A queue without its first n entries (wakeup, signaln, semdelete).
LEMMA SuffixQueue ==
  ASSUME NEW q, IsQueue(q), NEW n \in 0 .. Len(q), NEW t, Suffix(q, n, t)
  PROVE  /\ IsQueue(t)
         /\ \A r : r \in Entries(t) <=> \E j \in 1 .. Len(q) : j > n /\ q[j].pid = r
         /\ \A r : r \in Entries(t) <=> r \in Entries(q) /\ \A j \in 1 .. n : q[j].pid # r
<1>1. /\ q \in Seq(Nodes) /\ Len(q) \in Nat
      /\ \A j, m \in 1 .. Len(q) : q[j].pid = q[m].pid => j = m
      /\ \A r : r \in Entries(q) <=> \E j \in 1 .. Len(q) : q[j].pid = r
  BY QueueFacts
<1>2. /\ t \in Seq(Nodes) /\ Len(t) = Len(q) - n
      /\ \A j \in 1 .. (Len(q) - n) : t[j] = q[n + j]
  BY DEF Suffix
<1>3. ASSUME NEW j \in 1 .. Len(t), NEW m \in 1 .. Len(t), t[j].pid = t[m].pid
      PROVE  j = m
  <2>1. n + j \in 1 .. Len(q) /\ n + m \in 1 .. Len(q) /\ q[n + j].pid = q[n + m].pid
    BY <1>1, <1>2, <1>3
  <2> QED BY <1>1, <2>1
<1>4. IsQueue(t)
  BY <1>2, <1>3 DEF IsQueue, Distinct
<1>5. \A r : r \in Entries(t) <=> \E j \in 1 .. Len(t) : t[j].pid = r
  BY <1>4, QueueFacts
<1>6. ASSUME NEW r
      PROVE  r \in Entries(t) <=> \E j \in 1 .. Len(q) : j > n /\ q[j].pid = r
  <2>1. ASSUME NEW j \in 1 .. Len(t), t[j].pid = r
        PROVE  \E m \in 1 .. Len(q) : m > n /\ q[m].pid = r
    <3>1. n + j \in 1 .. Len(q) /\ n + j > n /\ q[n + j].pid = r
      BY <1>1, <1>2, <2>1
    <3> QED BY <3>1
  <2>2. ASSUME NEW m \in 1 .. Len(q), m > n, q[m].pid = r
        PROVE  \E j \in 1 .. Len(t) : t[j].pid = r
    <3>1. m - n \in 1 .. Len(t) /\ n + (m - n) = m
      BY <1>1, <1>2, <2>2
    <3> QED BY <1>2, <2>2, <3>1
  <2> QED BY <1>5, <2>1, <2>2
<1>7. ASSUME NEW r
      PROVE  r \in Entries(t) <=> r \in Entries(q) /\ \A j \in 1 .. n : q[j].pid # r
  <2>1. \A j \in 1 .. n : j \in 1 .. Len(q) /\ ~ (j > n)
    BY <1>1
  <2>2. \A j \in 1 .. Len(q) : j > n \/ j \in 1 .. n
    BY <1>1
  <2> QED BY <1>1, <1>6, <2>1, <2>2
<1> QED BY <1>4, <1>6, <1>7

\* A queue whose keys are changed.
LEMMA RekeyedQueue ==
  ASSUME NEW q, IsQueue(q), NEW t \in Seq(Nodes), Len(t) = Len(q),
         \A j \in 1 .. Len(q) : t[j].pid = q[j].pid
  PROVE  IsQueue(t) /\ Entries(t) = Entries(q)
<1>1. /\ \A j, m \in 1 .. Len(q) : q[j].pid = q[m].pid => j = m
      /\ \A r : r \in Entries(q) <=> \E j \in 1 .. Len(q) : q[j].pid = r
  BY QueueFacts
<1>2. IsQueue(t)
  BY <1>1 DEF IsQueue, Distinct
<1>3. \A r : r \in Entries(t) <=> \E j \in 1 .. Len(t) : t[j].pid = r
  BY <1>2, QueueFacts
<1>4. \A r : r \in Entries(t) <=> r \in Entries(q)
  BY <1>1, <1>3
<1> QED BY <1>2, <1>4

\* An entry whose key is changed.
Rekeyed(q, i, k) == [q EXCEPT ![i].key = k]

\* Changing the key of one entry (insertd, unsleep, clkhandler).
LEMMA RekeyEntry ==
  ASSUME NEW q, IsQueue(q), NEW i \in 1 .. Len(q), NEW k \in Int,
         NEW t, t = Rekeyed(q, i, k)
  PROVE  /\ t \in Seq(Nodes) /\ Len(t) = Len(q)
         /\ \A j \in 1 .. Len(q) : /\ t[j].pid = q[j].pid
                                   /\ t[j].key = IF j = i THEN k ELSE q[j].key
         /\ \A j \in 1 .. Len(q) : j # i => t[j] = q[j]
         /\ IsQueue(t) /\ Entries(t) = Entries(q)
<1>1. /\ q \in Seq(Nodes) /\ Len(q) \in Nat
      /\ \A j \in 1 .. Len(q) : q[j] \in Nodes
  BY QueueFacts
<1> DEFINE e == [q[i] EXCEPT !.key = k]
<1>2. e \in Nodes /\ e.pid = q[i].pid /\ e.key = k
  BY <1>1 DEF Nodes
<1>3. t = [q EXCEPT ![i] = e]
  BY DEF Rekeyed
<1> HIDE DEF e
<1>4. /\ t \in Seq(Nodes) /\ Len(t) = Len(q)
      /\ \A j \in 1 .. Len(q) : t[j] = IF j = i THEN e ELSE q[j]
  BY <1>1, <1>2, <1>3, ExceptSeq
<1>5. \A j \in 1 .. Len(q) : t[j].pid = q[j].pid /\ t[j].key = IF j = i THEN k ELSE q[j].key
  BY <1>2, <1>4
<1>6. \A j \in 1 .. Len(q) : j # i => t[j] = q[j]
  BY <1>4
<1>7. IsQueue(t) /\ Entries(t) = Entries(q)
  BY <1>4, <1>5, RekeyedQueue
<1> QED BY <1>4, <1>5, <1>6, <1>7

-----------------------------------------------------------------------------
(***************************************************************************)
(* The delta list.                                                         *)
(***************************************************************************)
Delta(q) == IsQueue(q) /\ \A i \in 1 .. Len(q) : q[i].key \in Nat

\* A function that adds up the keys is Due.
LEMMA DueIs ==
  ASSUME NEW q, Len(q) \in Nat, NEW g, g[0] = 0,
         \A i \in 1 .. Len(q) : g[i] = g[i - 1] + q[i].key
  PROVE  \A i \in 0 .. Len(q) : Due(q, i) = g[i]
<1> DEFINE T == {n \in Nat : n <= Len(q) => Due(q, n) = g[n]}
<1>1. /\ Due(q, 0) = 0
      /\ \A i \in 1 .. Len(q) : Due(q, i) = Due(q, i - 1) + q[i].key
  BY DueSteps
<1>2. 0 \in T
  BY <1>1
<1>3. ASSUME NEW n \in Nat, n \in T
      PROVE  n + 1 \in T
  <2> SUFFICES ASSUME n + 1 <= Len(q)
               PROVE  Due(q, n + 1) = g[n + 1]
    OBVIOUS
  <2>1. Due(q, n) = g[n] /\ n + 1 \in 1 .. Len(q) /\ (n + 1) - 1 = n
    BY <1>3
  <2> QED BY <1>1, <2>1
<1> HIDE DEF T
<1>4. Nat \subseteq T
  BY <1>2, <1>3, Induction
<1>5. \A i \in 0 .. Len(q) : i \in Nat /\ i <= Len(q)
  OBVIOUS
<1> QED BY <1>4, <1>5 DEF T

\* Who comes later in the list is due later.
LEMMA DueGrows ==
  ASSUME NEW q, Delta(q)
  PROVE  /\ \A i \in 0 .. Len(q) : Due(q, i) \in Nat
         /\ \A i \in 0 .. Len(q) : \A j \in 0 .. i : Due(q, j) <= Due(q, i)
<1>0. Len(q) \in Nat /\ \A i \in 1 .. Len(q) : q[i].key \in Nat
  BY QueueFacts DEF Delta
<1>1. /\ Due(q, 0) = 0
      /\ \A i \in 1 .. Len(q) : Due(q, i) = Due(q, i - 1) + q[i].key
  BY <1>0, DueSteps
<1> DEFINE T == {n \in Nat : n <= Len(q) =>
                               \A j \in 0 .. n : Due(q, j) \in Nat /\ Due(q, j) <= Due(q, n)}
<1>2. 0 \in T
  <2>1. \A j \in 0 .. 0 : j = 0
    OBVIOUS
  <2>2. \A j \in 0 .. 0 : Due(q, j) \in Nat /\ Due(q, j) <= Due(q, 0)
    BY <1>1, <2>1
  <2> QED BY <2>2
<1>3. ASSUME NEW n \in Nat, n \in T
      PROVE  n + 1 \in T
  <2> SUFFICES ASSUME n + 1 <= Len(q)
               PROVE  \A j \in 0 .. (n + 1) : Due(q, j) \in Nat /\ Due(q, j) <= Due(q, n + 1)
    OBVIOUS
  <2>1. /\ \A j \in 0 .. n : Due(q, j) \in Nat /\ Due(q, j) <= Due(q, n)
        /\ n \in 0 .. n /\ n + 1 \in 1 .. Len(q) /\ (n + 1) - 1 = n
    BY <1>0, <1>3
  <2>2. Due(q, n + 1) = Due(q, n) + q[n + 1].key /\ q[n + 1].key \in Nat
    BY <1>0, <1>1, <2>1
  <2>3. Due(q, n + 1) \in Nat /\ Due(q, n) <= Due(q, n + 1)
    BY <2>1, <2>2
  <2>4. ASSUME NEW j \in 0 .. (n + 1)
        PROVE  Due(q, j) \in Nat /\ Due(q, j) <= Due(q, n + 1)
    <3>1. CASE j = n + 1
      BY <2>3, <3>1
    <3>2. CASE j # n + 1
      <4>1. j \in 0 .. n
        BY <3>2
      <4>2. Due(q, j) \in Nat /\ Due(q, j) <= Due(q, n) /\ Due(q, n) \in Nat
        BY <2>1, <4>1
      <4> QED BY <2>3, <4>2
    <3> QED BY <3>1, <3>2
  <2> QED BY <2>4
<1> HIDE DEF T
<1>4. Nat \subseteq T
  BY <1>2, <1>3, Induction
<1>5. \A i \in 0 .. Len(q) : i \in Nat /\ i <= Len(q) /\ i \in 0 .. i
  BY <1>0
<1> QED BY <1>4, <1>5 DEF T

\* The entries due by d come first, as many as insertd counts.
LEMMA DueByPrefix ==
  ASSUME NEW q, Delta(q), NEW d \in Nat,
         NEW n, n = Cardinality({i \in DOMAIN q : Due(q, i) <= d})
  PROVE  /\ n \in 0 .. Len(q)
         /\ \A i \in 0 .. n : Due(q, i) <= d
         /\ \A i \in 1 .. Len(q) : i > n => Due(q, i) > d
<1>0. Len(q) \in Nat /\ DOMAIN q = 1 .. Len(q)
  BY QueueFacts DEF Delta
<1>1. /\ \A i \in 0 .. Len(q) : Due(q, i) \in Nat
      /\ \A i \in 0 .. Len(q) : \A j \in 0 .. i : Due(q, j) <= Due(q, i)
      /\ Due(q, 0) = 0
  BY <1>0, DueGrows, DueSteps
<1> DEFINE Late == {i \in 1 .. Len(q) : Due(q, i) > d}
<1>2. \E m \in 0 .. Len(q) : \A i \in 1 .. Len(q) : Due(q, i) <= d <=> i <= m
  <2>1. CASE Late = {}
    <3>1. \A i \in 1 .. Len(q) : Due(q, i) <= d /\ i <= Len(q)
      BY <1>1, <2>1
    <3> QED BY <1>0, <3>1
  <2>2. CASE Late # {}
    <3>1. Late \subseteq Nat
      OBVIOUS
    <3>2. PICK x \in Late : \A y \in Late : x <= y
      BY <2>2, <3>1, LeastNat
    <3>3. x \in 1 .. Len(q) /\ Due(q, x) > d
      OBVIOUS
    <3>4. ASSUME NEW i \in 1 .. Len(q)
          PROVE  Due(q, i) <= d <=> i <= x - 1
      <4>1. CASE i <= x - 1
        <5>1. i \notin Late
          BY <3>2, <3>3, <4>1
        <5> QED BY <1>1, <4>1, <5>1
      <4>2. CASE ~ (i <= x - 1)
        <5>1. x \in 0 .. i /\ i \in 0 .. Len(q) /\ x \in 0 .. Len(q)
          BY <3>3, <4>2
        <5>2. Due(q, x) <= Due(q, i) /\ Due(q, x) \in Nat /\ Due(q, i) \in Nat
          BY <1>1, <5>1
        <5> QED BY <3>3, <4>2, <5>2
      <4> QED BY <4>1, <4>2
    <3>5. x - 1 \in 0 .. Len(q)
      BY <1>0, <3>3
    <3> QED BY <3>4, <3>5
  <2> QED BY <2>1, <2>2
<1>3. PICK m \in 0 .. Len(q) : \A i \in 1 .. Len(q) : Due(q, i) <= d <=> i <= m
  BY <1>2
<1>4. {i \in DOMAIN q : Due(q, i) <= d} = 1 .. m
  BY <1>0, <1>3
<1>5. n = m
  <2>1. Cardinality(1 .. m) = m
    BY <1>0, FS_Interval
  <2> QED BY <1>4, <2>1
<1>6. ASSUME NEW i \in 0 .. n
      PROVE  Due(q, i) <= d
  <2>1. i = 0 \/ (i \in 1 .. Len(q) /\ i <= m)
    BY <1>0, <1>5
  <2> QED BY <1>1, <1>3, <2>1
<1>7. ASSUME NEW i \in 1 .. Len(q), i > n
      PROVE  Due(q, i) > d
  <2>1. ~ (i <= m) /\ i \in 0 .. Len(q)
    BY <1>0, <1>5, <1>7
  <2>2. ~ (Due(q, i) <= d) /\ Due(q, i) \in Nat
    BY <1>1, <1>3, <2>1
  <2> QED BY <2>2
<1> QED BY <1>5, <1>6, <1>7

\* insertd puts p in its place and leaves the others due when they were.
LEMMA InsertdIs ==
  ASSUME NEW q, Delta(q), NEW p \in Pids, p \notin Entries(q), NEW d \in Nat,
         NEW t, t = insertd(q, p, d)
  PROVE  /\ Delta(t) /\ Entries(t) = Entries(q) \union {p}
         /\ \A j \in 1 .. Len(t) :
              \/ t[j].pid = p /\ Due(t, j) = d
              \/ \E m \in 1 .. Len(q) : t[j].pid = q[m].pid /\ Due(t, j) = Due(q, m)
<1>0. /\ Len(q) \in Nat /\ q \in Seq(Nodes) /\ IsQueue(q)
      /\ \A i \in 1 .. Len(q) : q[i].key \in Nat /\ q[i] \in Nodes
  BY QueueFacts DEF Delta
<1>1. /\ Due(q, 0) = 0
      /\ \A i \in 1 .. Len(q) : Due(q, i) = Due(q, i - 1) + q[i].key
      /\ \A i \in 0 .. Len(q) : Due(q, i) \in Nat
  BY <1>0, DueSteps, DueGrows
<1> DEFINE n == Cardinality({i \in DOMAIN q : Due(q, i) <= d})
           k == d - Due(q, n)
           r == IF n < Len(q) THEN [q EXCEPT ![n + 1].key = @ - k] ELSE q
           e == Node(p, k)
<1>2. /\ n \in 0 .. Len(q)
      /\ \A i \in 0 .. n : Due(q, i) <= d
      /\ \A i \in 1 .. Len(q) : i > n => Due(q, i) > d
  BY DueByPrefix
<1>3. t = InsertAt(r, n + 1, e)
  BY DEF insertd
<1> HIDE DEF n
<1>4. k \in Nat /\ Due(q, n) + k = d
  <2>1. Due(q, n) \in Nat /\ Due(q, n) <= d
    BY <1>1, <1>2
  <2> QED BY <2>1
<1> HIDE DEF k
<1>5. e \in Nodes /\ e.pid = p /\ e.key = k
  BY <1>4, NodeFacts
<1> HIDE DEF e
<1>6. /\ r \in Seq(Nodes) /\ Len(r) = Len(q) /\ IsQueue(r) /\ Entries(r) = Entries(q)
      /\ \A j \in 1 .. Len(q) : /\ r[j].pid = q[j].pid
                                /\ r[j].key = IF j = n + 1 THEN q[j].key - k ELSE q[j].key
  <2>1. CASE n < Len(q)
    <3> DEFINE c == q[n + 1].key - k
    <3>1. n + 1 \in 1 .. Len(q) /\ c \in Int
      BY <1>0, <1>2, <1>4, <2>1
    <3>2. r = Rekeyed(q, n + 1, c)
      BY <2>1 DEF Rekeyed
    <3> HIDE DEF r, c
    <3>3. /\ r \in Seq(Nodes) /\ Len(r) = Len(q)
          /\ \A j \in 1 .. Len(q) : /\ r[j].pid = q[j].pid
                                    /\ r[j].key = IF j = n + 1 THEN c ELSE q[j].key
          /\ IsQueue(r) /\ Entries(r) = Entries(q)
      BY <1>0, <3>1, <3>2, RekeyEntry
    <3> QED BY <3>3 DEF c
  <2>2. CASE ~ (n < Len(q))
    BY <1>0, <1>2, <2>2
  <2> QED BY <2>1, <2>2
<1> HIDE DEF r
<1>7. Inserted(r, n + 1, e, t)
  <2>1. n + 1 \in 1 .. (Len(r) + 1)
    BY <1>0, <1>2, <1>6
  <2> QED BY <1>3, <1>5, <1>6, <2>1, IsInserted
<1>8. IsQueue(t) /\ Entries(t) = Entries(q) \union {p}
  <2>1. n + 1 \in 1 .. (Len(r) + 1)
    BY <1>0, <1>2, <1>6
  <2> QED BY <1>5, <1>6, <1>7, <2>1, InsertQueue
<1>9. /\ Len(t) = Len(q) + 1
      /\ \A j \in 1 .. (Len(q) + 1) :
           t[j] = IF j < n + 1 THEN r[j] ELSE IF j = n + 1 THEN e ELSE r[j - 1]
  BY <1>6, <1>7 DEF Inserted
<1> DEFINE g == [j \in 0 .. Len(t) |-> IF j <= n THEN Due(q, j) ELSE IF j = n + 1 THEN d ELSE Due(q, j - 1)]
<1>9a. \A i \in 0 .. Len(t) : g[i] = IF i <= n THEN Due(q, i) ELSE IF i = n + 1 THEN d ELSE Due(q, i - 1)
  OBVIOUS
<1> HIDE DEF g
<1>10. ASSUME NEW j \in 1 .. Len(t)
       PROVE  t[j].key \in Nat /\ g[j] = g[j - 1] + t[j].key
  <2>0. j \in 0 .. Len(t) /\ j - 1 \in 0 .. Len(t) /\ j \in 1 .. (Len(q) + 1)
    BY <1>0, <1>9
  <2>1. CASE j <= n
    <3>1. j \in 1 .. Len(q) /\ j < n + 1 /\ j # n + 1 /\ j - 1 <= n
      BY <1>0, <1>2, <2>1
    <3>2. t[j].key = q[j].key
      BY <1>6, <1>9, <2>0, <3>1
    <3>3. g[j] = Due(q, j) /\ g[j - 1] = Due(q, j - 1)
      BY <1>9a, <2>0, <2>1, <3>1
    <3> QED BY <1>0, <1>1, <3>1, <3>2, <3>3
  <2>2. CASE j = n + 1
    <3>1. t[j].key = k
      BY <1>5, <1>9, <2>0, <2>2
    <3>2. g[j] = d /\ g[j - 1] = Due(q, n)
      BY <1>2, <1>9a, <2>0, <2>2
    <3> QED BY <1>4, <3>1, <3>2
  <2>3. CASE j = n + 2
    <3>1. n + 1 \in 1 .. Len(q) /\ j - 1 = n + 1
      BY <1>0, <1>2, <1>9, <2>0, <2>3
    <3>2. t[j].key = q[n + 1].key - k
      <4>1. t[j] = r[n + 1]
        BY <1>2, <1>9, <2>0, <2>3, <3>1
      <4> QED BY <1>6, <3>1, <4>1
    <3>3. g[j] = Due(q, n + 1) /\ g[j - 1] = d
      BY <1>2, <1>9a, <2>0, <2>3, <3>1
    <3>4. Due(q, n + 1) = Due(q, n) + q[n + 1].key /\ Due(q, n + 1) > d
      <4>1. (n + 1) - 1 = n /\ n + 1 > n
        BY <1>2
      <4> QED BY <1>1, <1>2, <3>1, <4>1
    <3>5. Due(q, n) \in Nat /\ q[n + 1].key \in Nat
      BY <1>0, <1>1, <1>2, <3>1
    <3>6. q[n + 1].key - k \in Nat /\ Due(q, n + 1) = d + (q[n + 1].key - k)
      <4> DEFINE x == Due(q, n)
                 y == Due(q, n + 1)
                 z == q[n + 1].key
      <4>1. x + k = d /\ y = x + z /\ y > d /\ x \in Nat /\ z \in Nat /\ k \in Nat
        BY <1>4, <3>4, <3>5
      <4> HIDE DEF x, y, z
      <4>2. z - k \in Nat /\ y = d + (z - k)
        BY <4>1
      <4> QED BY <4>2 DEF x, y, z
    <3> QED BY <3>2, <3>3, <3>6
  <2>4. CASE j > n + 2
    <3>1. j - 1 \in 1 .. Len(q) /\ j - 1 # n + 1 /\ ~ (j < n + 1) /\ j # n + 1
          /\ ~ (j <= n) /\ ~ (j - 1 <= n)
      BY <1>0, <1>2, <1>9, <2>0, <2>4
    <3>2. t[j].key = q[j - 1].key
      BY <1>6, <1>9, <2>0, <3>1
    <3>3. g[j] = Due(q, j - 1) /\ g[j - 1] = Due(q, (j - 1) - 1)
      BY <1>9a, <2>0, <3>1
    <3> QED BY <1>0, <1>1, <3>1, <3>2, <3>3
  <2> QED BY <1>2, <2>0, <2>1, <2>2, <2>3, <2>4
<1>11. g[0] = 0
  BY <1>0, <1>1, <1>2, <1>9, <1>9a
<1>12. \A i \in 0 .. Len(t) : Due(t, i) = g[i]
  <2>1. Len(t) \in Nat
    BY <1>0, <1>9
  <2> QED BY <1>10, <1>11, <2>1, DueIs
<1>13. ASSUME NEW j \in 1 .. Len(t)
       PROVE  \/ t[j].pid = p /\ Due(t, j) = d
              \/ \E m \in 1 .. Len(q) : t[j].pid = q[m].pid /\ Due(t, j) = Due(q, m)
  <2>0. j \in 0 .. Len(t) /\ j \in 1 .. (Len(q) + 1)
    BY <1>0, <1>9
  <2>1. CASE j <= n
    <3>1. j \in 1 .. Len(q) /\ j < n + 1
      BY <1>0, <1>2, <2>1
    <3>2. t[j].pid = q[j].pid
      BY <1>6, <1>9, <2>0, <3>1
    <3>3. Due(t, j) = Due(q, j)
      BY <1>9a, <1>12, <2>0, <2>1
    <3> QED BY <3>1, <3>2, <3>3
  <2>2. CASE j = n + 1
    <3>1. t[j].pid = p
      BY <1>5, <1>9, <2>0, <2>2
    <3>2. Due(t, j) = d
      BY <1>2, <1>9a, <1>12, <2>0, <2>2
    <3> QED BY <3>1, <3>2
  <2>3. CASE j > n + 1
    <3>1. j - 1 \in 1 .. Len(q) /\ ~ (j < n + 1) /\ j # n + 1 /\ ~ (j <= n)
      BY <1>0, <1>2, <1>9, <2>0, <2>3
    <3>2. t[j].pid = q[j - 1].pid
      BY <1>6, <1>9, <2>0, <3>1
    <3>3. Due(t, j) = Due(q, j - 1)
      BY <1>9a, <1>12, <2>0, <3>1
    <3> QED BY <3>1, <3>2, <3>3
  <2> QED BY <1>2, <2>0, <2>1, <2>2, <2>3
<1>14. Delta(t)
  BY <1>8, <1>10 DEF Delta
<1> QED BY <1>8, <1>13, <1>14

\* unsleep takes p out and leaves the others due when they were.
LEMMA UnsleepIs ==
  ASSUME NEW q, Delta(q), NEW p, p \in Entries(q), NEW t, t = unsleep(q, p)
  PROVE  /\ Delta(t) /\ Entries(t) = Entries(q) \ {p}
         /\ \A j \in 1 .. Len(t) :
              \E m \in 1 .. Len(q) : t[j].pid = q[m].pid /\ Due(t, j) = Due(q, m)
<1>0. /\ Len(q) \in Nat /\ q \in Seq(Nodes) /\ IsQueue(q)
      /\ \A j \in 1 .. Len(q) : q[j].key \in Nat /\ q[j] \in Nodes
  BY QueueFacts DEF Delta
<1>1. /\ Due(q, 0) = 0
      /\ \A j \in 1 .. Len(q) : Due(q, j) = Due(q, j - 1) + q[j].key
      /\ \A j \in 0 .. Len(q) : Due(q, j) \in Nat
  BY <1>0, DueSteps, DueGrows
<1> DEFINE i == Index(q, p)
           r == IF i < Len(q) THEN [q EXCEPT ![i + 1].key = @ + q[i].key] ELSE q
<1>2. i \in 1 .. Len(q) /\ q[i].pid = p
  BY <1>0, IndexFacts
<1>3. t = RemoveAt(r, i)
  BY DEF unsleep
<1> HIDE DEF i
<1>6. /\ r \in Seq(Nodes) /\ Len(r) = Len(q) /\ IsQueue(r) /\ Entries(r) = Entries(q)
      /\ \A j \in 1 .. Len(q) : /\ r[j].pid = q[j].pid
                                /\ r[j].key = IF j = i + 1 THEN q[j].key + q[i].key ELSE q[j].key
  <2>1. CASE i < Len(q)
    <3> DEFINE c == q[i + 1].key + q[i].key
    <3>1. i + 1 \in 1 .. Len(q) /\ c \in Int
      BY <1>0, <1>2, <2>1
    <3>2. r = Rekeyed(q, i + 1, c)
      BY <2>1 DEF Rekeyed
    <3> HIDE DEF r, c
    <3>3. /\ r \in Seq(Nodes) /\ Len(r) = Len(q)
          /\ \A j \in 1 .. Len(q) : /\ r[j].pid = q[j].pid
                                    /\ r[j].key = IF j = i + 1 THEN c ELSE q[j].key
          /\ IsQueue(r) /\ Entries(r) = Entries(q)
      BY <1>0, <3>1, <3>2, RekeyEntry
    <3> QED BY <3>3 DEF c
  <2>2. CASE ~ (i < Len(q))
    BY <1>0, <1>2, <2>2
  <2> QED BY <2>1, <2>2
<1> HIDE DEF r
<1>7. Removed(r, i, t)
  BY <1>2, <1>3, <1>6, IsRemoved
<1>8. IsQueue(t) /\ Entries(t) = Entries(q) \ {p}
  BY <1>2, <1>6, <1>7, RemoveQueue
<1>9. /\ Len(t) = Len(q) - 1
      /\ \A j \in 1 .. (Len(q) - 1) : t[j] = IF j < i THEN r[j] ELSE r[j + 1]
  BY <1>6, <1>7 DEF Removed
<1> DEFINE g == [j \in 0 .. Len(t) |-> IF j < i THEN Due(q, j) ELSE Due(q, j + 1)]
<1>10. ASSUME NEW j \in 1 .. Len(t)
       PROVE  t[j].key \in Nat /\ g[j] = g[j - 1] + t[j].key
  <2>0. j \in 0 .. Len(t) /\ j - 1 \in 0 .. Len(t) /\ j \in 1 .. (Len(q) - 1)
        /\ j \in 1 .. Len(q) /\ j + 1 \in 1 .. Len(q)
    BY <1>0, <1>9
  <2>1. CASE j < i
    <3>1. t[j].key = q[j].key
      BY <1>2, <1>6, <1>9, <2>0, <2>1
    <3>2. g[j] = Due(q, j) /\ g[j - 1] = Due(q, j - 1)
      BY <1>2, <2>0, <2>1
    <3> HIDE DEF g
    <3> QED BY <1>0, <1>1, <2>0, <3>1, <3>2
  <2>2. CASE j = i
    <3>1. t[j].key = q[i + 1].key + q[i].key
      BY <1>2, <1>6, <1>9, <2>0, <2>2
    <3>2. g[j] = Due(q, i + 1) /\ g[j - 1] = Due(q, i - 1)
      BY <1>2, <2>0, <2>2
    <3>3. i \in 1 .. Len(q) /\ i + 1 \in 1 .. Len(q) /\ (i + 1) - 1 = i /\ i - 1 \in 0 .. Len(q)
      BY <1>0, <1>2, <2>0, <2>2
    <3>4. Due(q, i + 1) = Due(q, i) + q[i + 1].key /\ Due(q, i) = Due(q, i - 1) + q[i].key
      BY <1>1, <3>3
    <3>5. Due(q, i - 1) \in Nat /\ q[i].key \in Nat /\ q[i + 1].key \in Nat
      BY <1>0, <1>1, <3>3
    <3> HIDE DEF g
    <3> QED BY <3>1, <3>2, <3>4, <3>5
  <2>3. CASE j > i
    <3>1. t[j].key = q[j + 1].key
      BY <1>2, <1>6, <1>9, <2>0, <2>3
    <3>2. g[j] = Due(q, j + 1) /\ g[j - 1] = Due(q, j)
      BY <1>2, <2>0, <2>3
    <3>3. (j + 1) - 1 = j
      BY <2>0
    <3> HIDE DEF g
    <3> QED BY <1>0, <1>1, <2>0, <3>1, <3>2, <3>3
  <2> QED BY <1>2, <2>0, <2>1, <2>2, <2>3
<1>11. g[0] = 0
  BY <1>0, <1>1, <1>2, <1>9
<1>12. \A j \in 0 .. Len(t) : Due(t, j) = g[j]
  <2> HIDE DEF g
  <2>1. Len(t) \in Nat
    BY <1>0, <1>2, <1>9
  <2> QED BY <1>10, <1>11, <2>1, DueIs
<1>13. ASSUME NEW j \in 1 .. Len(t)
       PROVE  \E m \in 1 .. Len(q) : t[j].pid = q[m].pid /\ Due(t, j) = Due(q, m)
  <2>0. j \in 0 .. Len(t) /\ j \in 1 .. (Len(q) - 1) /\ j \in 1 .. Len(q) /\ j + 1 \in 1 .. Len(q)
    BY <1>0, <1>9
  <2>1. CASE j < i
    <3>1. t[j].pid = q[j].pid
      BY <1>6, <1>9, <2>0, <2>1
    <3>2. Due(t, j) = Due(q, j)
      BY <1>12, <2>0, <2>1
    <3> QED BY <2>0, <3>1, <3>2
  <2>2. CASE ~ (j < i)
    <3>1. t[j].pid = q[j + 1].pid
      BY <1>6, <1>9, <2>0, <2>2
    <3>2. Due(t, j) = Due(q, j + 1)
      BY <1>12, <2>0, <2>2
    <3> QED BY <2>0, <3>1, <3>2
  <2> QED BY <2>1, <2>2
<1>14. Delta(t)
  BY <1>8, <1>10 DEF Delta
<1> QED BY <1>8, <1>13, <1>14

\* One tick of the first entry.
Ticked(q) == IF q = <<>> THEN <<>> ELSE [q EXCEPT ![1].key = @ - 1]

\* The list with one tick taken from its first key.
LEMMA TickedIs ==
  ASSUME NEW q, Delta(q), NEW e, e = Ticked(q)
  PROVE  /\ IsQueue(e) /\ Len(e) = Len(q) /\ Entries(e) = Entries(q)
         /\ \A j \in 1 .. Len(q) : /\ e[j].pid = q[j].pid
                                   /\ e[j].key = IF j = 1 THEN q[j].key - 1 ELSE q[j].key
<1>0. /\ Len(q) \in Nat /\ q \in Seq(Nodes) /\ IsQueue(q)
      /\ \A i \in 1 .. Len(q) : q[i].key \in Nat /\ q[i] \in Nodes
  BY QueueFacts DEF Delta
<1>1. CASE q = <<>>
  <2>1. e = q /\ Len(q) = 0
    BY <1>1 DEF Ticked
  <2> QED BY <1>0, <2>1
<1>2. CASE q # <<>>
  <2>1. 1 \in 1 .. Len(q)
    BY <1>0, <1>2, TailRemoved
  <2> DEFINE c == q[1].key - 1
  <2>2. c \in Int
    BY <1>0, <2>1
  <2>3. e = Rekeyed(q, 1, c)
    BY <1>2 DEF Ticked, Rekeyed
  <2> HIDE DEF c
  <2>4. /\ IsQueue(e) /\ Len(e) = Len(q) /\ Entries(e) = Entries(q)
        /\ \A j \in 1 .. Len(q) : /\ e[j].pid = q[j].pid
                                  /\ e[j].key = IF j = 1 THEN c ELSE q[j].key
    BY <1>0, <2>1, <2>2, <2>3, RekeyEntry
  <2> QED BY <2>4 DEF c
<1> QED BY <1>1, <1>2

\* Those that wakeup wakes are the ones with nothing left to wait for.
LEMMA OverdueIs ==
  ASSUME NEW e, IsQueue(e), NEW n, n = Overdue(e)
  PROVE  /\ n \in 0 .. Len(e)
         /\ \A j \in 1 .. n : e[j].key <= 0
         /\ n < Len(e) => e[n + 1].key > 0
<1>0. Len(e) \in Nat /\ \A j \in 1 .. Len(e) : e[j].key \in Int
  BY QueueFacts
<1> DEFINE I == {i \in 1 .. Len(e) : e[i].key > 0}
<1>1. SelectInSeq(e, LAMBDA x : x.key > 0) = IF I # {} THEN Min(I) ELSE 0
  BY DEF SelectInSeq
<1>2. CASE I = {}
  <2>1. n = Len(e)
    BY <1>1, <1>2 DEF Overdue
  <2>2. \A j \in 1 .. Len(e) : ~ (e[j].key > 0)
    BY <1>2
  <2> QED BY <1>0, <2>1, <2>2
<1>3. CASE I # {}
  <2>1. I \subseteq Nat
    OBVIOUS
  <2>2. Min(I) \in I /\ \A y \in I : Min(I) <= y
    BY <1>3, <2>1, MinIsFirst
  <2>3. Min(I) \in 1 .. Len(e) /\ e[Min(I)].key > 0
    BY <2>2
  <2>4. n = Min(I) - 1
    BY <1>0, <1>1, <1>3, <2>3 DEF Overdue
  <2>5. ASSUME NEW j \in 1 .. n
        PROVE  e[j].key <= 0
    <3>1. j \in 1 .. Len(e) /\ ~ (Min(I) <= j)
      BY <1>0, <2>3, <2>4
    <3>2. j \notin I
      BY <2>2, <3>1
    <3>3. ~ (e[j].key > 0)
      BY <3>1, <3>2
    <3> QED BY <1>0, <3>1, <3>3
  <2>6. n + 1 = Min(I) /\ n \in 0 .. Len(e)
    BY <1>0, <2>3, <2>4
  <2> QED BY <2>3, <2>5, <2>6
<1> QED BY <1>2, <1>3

\* What is left of the list after a tick is one tick nearer to its time.
LEMMA TickIs ==
  ASSUME NEW q, Delta(q), NEW e, e = Ticked(q), NEW n, n = Overdue(e),
         NEW t, Suffix(e, n, t)
  PROVE  /\ IsQueue(e) /\ n \in 0 .. Len(e) /\ Entries(e) = Entries(q) /\ Delta(t)
         /\ \A r : r \in Entries(t) <=> r \in Entries(q) /\ \A j \in 1 .. n : e[j].pid # r
         /\ (\A i \in 1 .. Len(q) : Due(q, i) > 0) =>
              \A j \in 1 .. Len(t) :
                \E m \in 1 .. Len(q) : t[j].pid = q[m].pid /\ Due(t, j) = Due(q, m) - 1 /\ Due(t, j) > 0
<1>0. /\ Len(q) \in Nat /\ q \in Seq(Nodes) /\ IsQueue(q)
      /\ \A i \in 1 .. Len(q) : q[i].key \in Nat /\ q[i] \in Nodes
  BY QueueFacts DEF Delta
<1>1. /\ IsQueue(e) /\ Len(e) = Len(q) /\ Entries(e) = Entries(q)
      /\ \A j \in 1 .. Len(q) : /\ e[j].pid = q[j].pid
                                /\ e[j].key = IF j = 1 THEN q[j].key - 1 ELSE q[j].key
  BY TickedIs
<1>2. /\ n \in 0 .. Len(q)
      /\ \A j \in 1 .. n : e[j].key <= 0
      /\ n < Len(q) => e[n + 1].key > 0
  BY <1>1, OverdueIs
<1>4. /\ IsQueue(t)
      /\ \A r : r \in Entries(t) <=> r \in Entries(e) /\ \A j \in 1 .. n : e[j].pid # r
  BY <1>1, <1>2, SuffixQueue
<1>5. /\ Len(t) = Len(q) - n
      /\ \A j \in 1 .. (Len(q) - n) : t[j] = e[n + j]
  BY <1>1 DEF Suffix
<1>6. ASSUME NEW j \in 1 .. Len(t)
      PROVE  /\ n + j \in 1 .. Len(q) /\ t[j].pid = q[n + j].pid
             /\ t[j].key = IF n + j = 1 THEN q[n + j].key - 1 ELSE q[n + j].key
             /\ j = 1 => t[j].key > 0
  <2>1. n + j \in 1 .. Len(q) /\ t[j] = e[n + j]
    BY <1>0, <1>2, <1>5
  <2>2. j = 1 => n < Len(q)
    BY <1>0, <1>2, <2>1
  <2> QED BY <1>1, <1>2, <2>1, <2>2
<1>7. Delta(t)
  <2> SUFFICES ASSUME NEW j \in 1 .. Len(t)
               PROVE  t[j].key \in Nat
    BY <1>4 DEF Delta
  <2>1. CASE j = 1
    <3>1. t[j].key > 0 /\ t[j].key \in Int
      BY <1>4, <1>6, <2>1, QueueFacts
    <3> QED BY <3>1
  <2>2. CASE j # 1
    <3>1. n + j # 1 /\ n + j \in 1 .. Len(q)
      BY <1>2, <1>6, <2>2
    <3> QED BY <1>0, <1>6, <3>1
  <2> QED BY <2>1, <2>2
<1>8. ASSUME \A i \in 1 .. Len(q) : Due(q, i) > 0
      PROVE  \A j \in 1 .. Len(t) :
               \E m \in 1 .. Len(q) : t[j].pid = q[m].pid /\ Due(t, j) = Due(q, m) - 1 /\ Due(t, j) > 0
  <2>1. /\ Due(q, 0) = 0
        /\ \A i \in 1 .. Len(q) : Due(q, i) = Due(q, i - 1) + q[i].key
        /\ \A i \in 0 .. Len(q) : Due(q, i) \in Nat
    BY <1>0, DueSteps, DueGrows
  <2> DEFINE T == {i \in Nat : i + 1 <= n => Due(q, i + 1) = 1}
  <2>2. 0 \in T
    <3> SUFFICES ASSUME 1 <= n PROVE Due(q, 1) = 1
      OBVIOUS
    <3>1. 1 \in 1 .. n /\ 1 \in 1 .. Len(q) /\ 1 - 1 = 0
      BY <1>0, <1>2
    <3>2. q[1].key - 1 <= 0 /\ q[1].key \in Nat
      BY <1>0, <1>1, <1>2, <3>1
    <3>3. Due(q, 1) = Due(q, 0) + q[1].key /\ Due(q, 1) > 0
      BY <1>8, <2>1, <3>1
    <3> QED BY <2>1, <3>2, <3>3
  <2>3. ASSUME NEW i \in Nat, i \in T
        PROVE  i + 1 \in T
    <3> SUFFICES ASSUME (i + 1) + 1 <= n PROVE Due(q, (i + 1) + 1) = 1
      OBVIOUS
    <3> DEFINE m == (i + 1) + 1
    <3>1. m \in 1 .. n /\ m \in 1 .. Len(q) /\ m - 1 = i + 1 /\ m # 1 /\ i + 1 <= n
      BY <1>0, <1>2
    <3>2. Due(q, i + 1) = 1
      BY <2>3, <3>1
    <3> HIDE DEF m
    <3>3. q[m].key <= 0 /\ q[m].key \in Nat
      BY <1>0, <1>1, <1>2, <3>1
    <3>4. Due(q, m) = Due(q, i + 1) + q[m].key
      BY <2>1, <3>1
    <3>5. Due(q, m) = 1
      BY <3>2, <3>3, <3>4
    <3> QED BY <3>5 DEF m
  <2>4. n > 0 => Due(q, n) = 1
    <3> HIDE DEF T
    <3>1. Nat \subseteq T
      BY <2>2, <2>3, Induction
    <3>2. ASSUME n > 0 PROVE Due(q, n) = 1
      <4>1. n - 1 \in Nat /\ (n - 1) + 1 <= n /\ (n - 1) + 1 = n
        BY <1>0, <1>2, <3>2
      <4>2. n - 1 \in T
        BY <3>1, <4>1
      <4>3. Due(q, (n - 1) + 1) = 1
        BY <4>1, <4>2 DEF T
      <4> QED BY <4>1, <4>3
    <3> QED BY <3>2
  <2> HIDE DEF T
  <2> DEFINE g == [j \in 0 .. Len(t) |-> IF j = 0 THEN 0 ELSE Due(q, n + j) - 1]
  <2>5. ASSUME NEW j \in 1 .. Len(t)
        PROVE  g[j] = g[j - 1] + t[j].key
    <3>0. /\ j \in 0 .. Len(t) /\ j - 1 \in 0 .. Len(t) /\ n + j \in 1 .. Len(q)
          /\ (n + j) - 1 = n + (j - 1) /\ j # 0
      BY <1>0, <1>2, <1>5
    <3>1. /\ Due(q, n + j) = Due(q, n + (j - 1)) + q[n + j].key /\ q[n + j].key \in Nat
          /\ Due(q, n + (j - 1)) \in Nat
      <4>1. n + (j - 1) \in 0 .. Len(q)
        BY <1>0, <1>2, <3>0
      <4> QED BY <1>0, <2>1, <3>0, <4>1
    <3>2. g[j] = Due(q, n + j) - 1
      BY <3>0
    <3>3. t[j].key = IF n + j = 1 THEN q[n + j].key - 1 ELSE q[n + j].key
      BY <1>6
    <3>4. CASE j = 1
      <4>1. g[j - 1] = 0 /\ n + (j - 1) = n
        BY <1>2, <3>0, <3>4
      <4>2. CASE n = 0
        <5>1. n + j = 1 /\ Due(q, n + (j - 1)) = 0
          BY <2>1, <3>4, <4>1, <4>2
        <5> HIDE DEF g
        <5> QED BY <3>1, <3>2, <3>3, <4>1, <5>1
      <4>3. CASE n # 0
        <5>1. n + j # 1 /\ Due(q, n + (j - 1)) = 1
          BY <1>2, <2>4, <3>4, <4>1, <4>3
        <5> HIDE DEF g
        <5> QED BY <3>1, <3>2, <3>3, <4>1, <5>1
      <4> QED BY <4>2, <4>3
    <3>5. CASE j # 1
      <4>1. j - 1 # 0 /\ n + j # 1
        BY <1>2, <3>0, <3>5
      <4>2. g[j - 1] = Due(q, n + (j - 1)) - 1
        BY <3>0, <4>1
      <4> HIDE DEF g
      <4> QED BY <3>1, <3>2, <3>3, <4>1, <4>2
    <3> QED BY <3>4, <3>5
  <2>6. g[0] = 0 /\ Len(t) \in Nat
    BY <1>0, <1>2, <1>5
  <2>7. \A j \in 0 .. Len(t) : Due(t, j) = g[j]
    <3> HIDE DEF g
    <3> QED BY <2>5, <2>6, DueIs
  <2>8. \A i \in 0 .. Len(t) : \A j \in 0 .. i : Due(t, j) <= Due(t, i)
    BY <1>7, DueGrows
  <2>8a. \A j \in 0 .. Len(t) : Due(t, j) \in Nat
    BY <1>7, DueGrows
  <2>9. ASSUME NEW j \in 1 .. Len(t)
        PROVE  Due(t, j) > 0
    <3>1. 1 \in 1 .. Len(t) /\ 1 \in 0 .. j /\ j \in 0 .. Len(t) /\ 1 \in 0 .. Len(t)
      BY <2>6
    <3>2. Due(t, 1) = Due(t, 1 - 1) + t[1].key /\ Due(t, 0) = 0 /\ 1 - 1 = 0
      BY <2>6, <3>1, DueSteps
    <3>3. t[1].key > 0 /\ t[1].key \in Nat
      BY <1>6, <1>7, <3>1 DEF Delta
    <3>4. Due(t, 1) <= Due(t, j) /\ Due(t, j) \in Nat
      BY <2>8, <2>8a, <3>1
    <3>5. Due(t, 1) > 0 /\ Due(t, 1) \in Nat
      BY <3>2, <3>3
    <3> QED BY <3>4, <3>5
  <2>10. ASSUME NEW j \in 1 .. Len(t)
         PROVE  \E m \in 1 .. Len(q) : t[j].pid = q[m].pid /\ Due(t, j) = Due(q, m) - 1 /\ Due(t, j) > 0
    <3>1. j \in 0 .. Len(t) /\ j # 0
      BY <2>6
    <3>2. Due(t, j) = Due(q, n + j) - 1
      BY <2>7, <3>1
    <3> QED BY <1>6, <2>9, <3>2
  <2> QED BY <2>10
<1> QED BY <1>1, <1>2, <1>4, <1>7, <1>8

-----------------------------------------------------------------------------
(***************************************************************************)
(* The scheduler, on records of its state.                                 *)
(***************************************************************************)
Runnable == {"READY", "CURR"}

\* A queue in descending order of its keys, which are the priorities of its
\* processes, unless programs change priorities.
Ranked(q) ==
  NewPrios = {} =>
    \A i \in 1 .. Len(q) : /\ q[i].key = prprio[q[i].pid]
                           /\ \A j \in 1 .. i : q[j].key >= q[i].key

\* insert keeps the order of the keys.
LEMMA InsertRanked ==
  ASSUME NEW q, IsQueue(q), Ranked(q), NEW p \in Pids, NEW k, k = prprio[p], k \in Int
  PROVE  Ranked(insert(q, p, k))
<1> SUFFICES ASSUME NewPrios = {}
             PROVE  Ranked(insert(q, p, k))
  BY DEF Ranked
<1>1. PICK i \in 1 .. (Len(q) + 1) :
           /\ insert(q, p, k) = InsertAt(q, i, Node(p, k))
           /\ \A j \in 1 .. Len(q) : j < i => q[j].key >= k
           /\ i <= Len(q) => q[i].key < k
  BY InsertPosition
<1> DEFINE e == Node(p, k)
           t == insert(q, p, k)
<1>2. e \in Nodes /\ e.pid = p /\ e.key = k
  BY NodeFacts
<1>3. q \in Seq(Nodes) /\ Len(q) \in Nat /\ \A j \in 1 .. Len(q) : q[j].key \in Int
  BY QueueFacts
<1>4. Inserted(q, i, e, t)
  BY <1>1, <1>2, <1>3, IsInserted
<1> HIDE DEF e, t
<1>5. /\ Len(t) = Len(q) + 1
      /\ \A j \in 1 .. (Len(q) + 1) : t[j] = IF j < i THEN q[j] ELSE IF j = i THEN e ELSE q[j - 1]
  BY <1>4 DEF Inserted
<1>6. \A j \in 1 .. Len(q) : q[j].key = prprio[q[j].pid]
  BY DEF Ranked
<1>7. \A j, m \in 1 .. Len(q) : m <= j => q[m].key >= q[j].key
  BY <1>3 DEF Ranked
<1>8. \A j \in 1 .. Len(q) : i <= j => q[j].key < k
  BY <1>1, <1>3, <1>7
<1>9. ASSUME NEW j \in 1 .. Len(t)
      PROVE  t[j].key = prprio[t[j].pid]
  <2>1. CASE j = i
    <3>1. t[j] = e
      BY <1>3, <1>5, <2>1
    <3> QED BY <1>2, <3>1
  <2>2. CASE j # i
    <3>1. \E m \in 1 .. Len(q) : t[j] = q[m]
      BY <1>3, <1>5, <2>2
    <3> QED BY <1>6, <3>1
  <2> QED BY <2>1, <2>2
<1>10. ASSUME NEW j \in 1 .. Len(t), NEW m \in 1 .. j
       PROVE  t[m].key >= t[j].key
  <2>1. CASE j < i
    <3>1. /\ j \in 1 .. Len(q) /\ m \in 1 .. Len(q) /\ m <= j
          /\ t[j] = q[j] /\ t[m] = q[m]
      BY <1>1, <1>3, <1>5, <2>1
    <3> QED BY <1>7, <3>1
  <2>2. CASE j = i
    BY <1>1, <1>2, <1>3, <1>5, <2>2
  <2>3. CASE j > i
    <3>1. j - 1 \in 1 .. Len(q) /\ i <= j - 1 /\ t[j] = q[j - 1]
      BY <1>3, <1>5, <2>3
    <3>2. CASE m < i
      <4>1. m \in 1 .. Len(q) /\ m <= j - 1 /\ t[m] = q[m]
        BY <1>3, <1>5, <2>3, <3>2
      <4> QED BY <1>7, <3>1, <4>1
    <3>3. CASE m = i
      BY <1>2, <1>3, <1>5, <1>8, <3>1, <3>3
    <3>4. CASE m > i
      <4>1. m - 1 \in 1 .. Len(q) /\ m - 1 <= j - 1 /\ t[m] = q[m - 1]
        BY <1>3, <1>5, <2>3, <3>4
      <4> QED BY <1>7, <3>1, <4>1
    <3> QED BY <3>2, <3>3, <3>4
  <2> QED BY <1>3, <1>5, <2>1, <2>2, <2>3
<1> QED BY <1>9, <1>10 DEF Ranked, t

\* So does taking an entry off.
LEMMA RemovedRanked ==
  ASSUME NEW q, IsQueue(q), Ranked(q), NEW i \in 1 .. Len(q), NEW t, Removed(q, i, t)
  PROVE  Ranked(t)
<1> SUFFICES ASSUME NewPrios = {}, NEW j \in 1 .. Len(t)
             PROVE  t[j].key = prprio[t[j].pid] /\ \A m \in 1 .. j : t[m].key >= t[j].key
  BY DEF Ranked
<1>1. Len(q) \in Nat
  BY QueueFacts
<1>2. /\ Len(t) = Len(q) - 1
      /\ \A m \in 1 .. (Len(q) - 1) : t[m] = IF m < i THEN q[m] ELSE q[m + 1]
  BY DEF Removed
<1>3. \A x \in 1 .. Len(q) : q[x].key = prprio[q[x].pid] /\ \A y \in 1 .. x : q[y].key >= q[x].key
  BY DEF Ranked
<1> DEFINE from(m) == IF m < i THEN m ELSE m + 1
<1>4. \A m \in 1 .. j : from(m) \in 1 .. from(j) /\ from(m) \in 1 .. Len(q) /\ t[m] = q[from(m)]
  BY <1>1, <1>2
<1>5. j \in 1 .. j
  BY <1>1, <1>2
<1> HIDE DEF from
<1> QED BY <1>3, <1>4, <1>5

\* And getitem.
LEMMA GetitemRanked ==
  ASSUME NEW q, IsQueue(q), Ranked(q), NEW p
  PROVE  Ranked(getitem(q, p))
<1>1. q \in Seq(Nodes)
  BY QueueFacts
<1>2. CASE p \in Entries(q)
  <2>1. Index(q, p) \in 1 .. Len(q) /\ getitem(q, p) = RemoveAt(q, Index(q, p))
    BY <1>2, IndexFacts DEF getitem
  <2>2. Removed(q, Index(q, p), getitem(q, p))
    BY <1>1, <2>1, IsRemoved
  <2> QED BY <2>1, <2>2, RemovedRanked
<1>3. CASE p \notin Entries(q)
  BY <1>3, IndexFacts DEF getitem
<1> QED BY <1>2, <1>3

SchedType == [prstate : [Pids -> States], currpid : Pids, readylist : Seq(Nodes), preempt : Nat]

\* The ready list holds the ready processes, once each and in order; at most
\* the current process is in state CURR; the null process is ready or current.
SchedOK(s) ==
  /\ s \in SchedType /\ s.preempt \in 1 .. QUANTUM
  /\ IsQueue(s.readylist) /\ Ranked(s.readylist)
  /\ Entries(s.readylist) = {p \in Pids : s.prstate[p] = "READY"}
  /\ \A p \in Pids : s.prstate[p] = "CURR" => p = s.currpid
  /\ s.prstate[NULLPROC] \in Runnable

\* The current process is one that runs, and that nobody ready outranks.
Settled(s) ==
  /\ s.prstate[s.currpid] = "CURR"
  /\ NewPrios = {} => \A p \in Pids : s.prstate[p] = "READY" => prprio[p] <= prprio[s.currpid]

\* From s to t processes have only been switched.
Switched(s, t) ==
  \A p \in Pids : t.prstate[p] = s.prstate[p] \/ (s.prstate[p] \in Runnable /\ t.prstate[p] \in Runnable)

\* The fields of a sound scheduler state.
LEMMA SchedFields ==
  ASSUME NEW s, SchedOK(s)
  PROVE  /\ s.prstate \in [Pids -> States] /\ s.currpid \in Pids
         /\ s.readylist \in Seq(Nodes) /\ s.preempt \in 1 .. QUANTUM
         /\ IsQueue(s.readylist) /\ Ranked(s.readylist)
         /\ \A p : p \in Entries(s.readylist) <=> p \in Pids /\ s.prstate[p] = "READY"
         /\ \A p \in Pids : s.prstate[p] = "CURR" => p = s.currpid
         /\ s.prstate[NULLPROC] \in Runnable /\ NULLPROC \in Pids
<1>1. NULLPROC \in Pids
  BY ProcMgrAssumption DEF NULLPROC, Pids
<1>2. s \in SchedType
  BY DEF SchedOK
<1>3. s.prstate \in [Pids -> States] /\ s.currpid \in Pids /\ s.readylist \in Seq(Nodes)
  BY <1>2 DEF SchedType
<1>4. /\ s.preempt \in 1 .. QUANTUM /\ IsQueue(s.readylist) /\ Ranked(s.readylist)
      /\ \A p \in Pids : s.prstate[p] = "CURR" => p = s.currpid
      /\ s.prstate[NULLPROC] \in Runnable
  BY DEF SchedOK
<1>5. \A p : p \in Entries(s.readylist) <=> p \in Pids /\ s.prstate[p] = "READY"
  <2>1. Entries(s.readylist) = {p \in Pids : s.prstate[p] = "READY"}
    BY DEF SchedOK
  <2> DEFINE E == Entries(s.readylist)
  <2>2. E = {p \in Pids : s.prstate[p] = "READY"}
    BY <2>1
  <2> HIDE DEF E
  <2>3. \A p : p \in E <=> p \in Pids /\ s.prstate[p] = "READY"
    BY <2>2, Zenon
  <2> QED BY <2>3 DEF E
<1> QED BY <1>1, <1>3, <1>4, <1>5

\* The queue whose first process resched dispatches, and what it returns then.
Contenders(s) ==
  IF s.prstate[s.currpid] = "CURR" THEN insert(s.readylist, s.currpid, prprio[s.currpid])
                                   ELSE s.readylist
Dispatched(s, queue) ==
  [prstate |-> [s.prstate EXCEPT ![s.currpid] = IF s.prstate[s.currpid] = "CURR" THEN "READY" ELSE @,
                                 ![Head(queue).pid] = "CURR"],
   currpid |-> Head(queue).pid,
   readylist |-> Tail(queue),
   preempt |-> QUANTUM]

LEMMA SwitchTo ==
  ASSUME NEW s, SchedOK(s), prprio \in [Pids -> Int],
         NEW old, old = s.currpid, NEW queue, queue = Contenders(s),
         NEW t, t = Dispatched(s, queue)
  PROVE  SchedOK(t) /\ Settled(t) /\ Switched(s, t)
<1>1. /\ s.prstate \in [Pids -> States] /\ old \in Pids
      /\ IsQueue(s.readylist) /\ Ranked(s.readylist)
      /\ \A p : p \in Entries(s.readylist) <=> p \in Pids /\ s.prstate[p] = "READY"
      /\ \A p \in Pids : s.prstate[p] = "CURR" => p = old
      /\ s.prstate[NULLPROC] \in Runnable /\ NULLPROC \in Pids
  BY SchedFields
<1>2. /\ IsQueue(queue) /\ Ranked(queue)
      /\ \A p : p \in Entries(queue) <=> p \in Pids /\ s.prstate[p] \in Runnable
  <2>1. CASE s.prstate[old] = "CURR"
    <3>1. old \notin Entries(s.readylist) /\ prprio[old] \in Int
      BY <1>1, <2>1
    <3>2. IsQueue(queue) /\ Entries(queue) = Entries(s.readylist) \union {old}
      BY <1>1, <2>1, <3>1, InsertIsQueue DEF Contenders
    <3>3. Ranked(queue)
      BY <1>1, <2>1, <3>1, InsertRanked DEF Contenders
    <3> QED BY <1>1, <2>1, <3>2, <3>3 DEF Runnable
  <2>2. CASE s.prstate[old] # "CURR"
    <3>1. \A p \in Pids : s.prstate[p] \in Runnable <=> s.prstate[p] = "READY"
      BY <1>1, <2>2 DEF Runnable
    <3> QED BY <1>1, <2>2, <3>1 DEF Contenders
  <2> QED BY <2>1, <2>2
<1>3. queue \in Seq(Nodes) /\ queue # <<>>
  <2>1. queue \in Seq(Nodes) /\ \E i \in 1 .. Len(queue) : queue[i].pid = NULLPROC
    BY <1>1, <1>2, QueueFacts
  <2> QED BY <2>1
<1> DEFINE new == Head(queue).pid
<1>4. /\ 1 \in 1 .. Len(queue) /\ new = queue[1].pid
      /\ Removed(queue, 1, Tail(queue))
  BY <1>3, TailRemoved
<1>5. /\ IsQueue(Tail(queue)) /\ Entries(Tail(queue)) = Entries(queue) \ {new}
      /\ new \in Entries(queue)
  BY <1>2, <1>4, RemoveQueue, QueueFacts
<1>5a. Ranked(Tail(queue))
  BY <1>2, <1>4, RemovedRanked
<1>6. new \in Pids /\ s.prstate[new] \in Runnable
  BY <1>2, <1>5
<1>7. /\ t.currpid = new /\ t.readylist = Tail(queue) /\ t.preempt = QUANTUM
      /\ t.prstate = [s.prstate EXCEPT ![old] = IF s.prstate[old] = "CURR" THEN "READY" ELSE @,
                                      ![new] = "CURR"]
  BY DEF Dispatched
<1> HIDE DEF new
<1>8. t.prstate \in [Pids -> States]
  BY <1>1, <1>6, <1>7 DEF States
<1>9. \A p \in Pids : t.prstate[p] = IF p = new THEN "CURR"
                                     ELSE IF p = old /\ s.prstate[old] = "CURR" THEN "READY"
                                     ELSE s.prstate[p]
  BY <1>1, <1>6, <1>7
<1>10. \A p \in Pids : p # new => (t.prstate[p] = "READY" <=> s.prstate[p] \in Runnable)
  BY <1>1, <1>9 DEF Runnable
<1>11. \A p \in Pids : t.prstate[p] = "CURR" => p = new
  BY <1>1, <1>9
<1>12. Entries(t.readylist) = {p \in Pids : t.prstate[p] = "READY"}
  <2>1. ASSUME NEW p
        PROVE  p \in Entries(t.readylist) <=> p \in Pids /\ t.prstate[p] = "READY"
    <3>1. p \in Entries(t.readylist) <=> p \in Pids /\ s.prstate[p] \in Runnable /\ p # new
      BY <1>2, <1>5, <1>7
    <3>2. p = new => t.prstate[p] # "READY"
      BY <1>6, <1>9
    <3> QED BY <1>10, <3>1, <3>2
  <2> QED BY <2>1
<1>13. t.prstate[NULLPROC] \in Runnable
  BY <1>1, <1>6, <1>9, <1>10 DEF Runnable
<1>14. t \in SchedType /\ t.preempt \in 1 .. QUANTUM
  <2>1. Tail(queue) \in Seq(Nodes)
    BY <1>5, QueueFacts
  <2>2. QUANTUM \in Nat /\ QUANTUM \in 1 .. QUANTUM
    BY ProcMgrAssumption
  <2> QED BY <1>6, <1>7, <1>8, <2>1, <2>2 DEF SchedType, Dispatched
<1>15. Switched(s, t)
  BY <1>1, <1>6, <1>9 DEF Switched, Runnable
<1>16. Settled(t)
  <2>1. t.prstate[t.currpid] = "CURR"
    BY <1>6, <1>7, <1>9
  <2>2. ASSUME NewPrios = {}, NEW p \in Pids, t.prstate[p] = "READY"
        PROVE  prprio[p] <= prprio[new]
    <3>1. p # new /\ p \in Entries(queue)
      BY <1>2, <1>9, <1>10, <2>2
    <3>2. PICK i \in 1 .. Len(queue) : queue[i].pid = p
      BY <1>2, <3>1, QueueFacts
    <3>3. 1 \in 1 .. i
      BY <1>3
    <3>4. queue[1].key >= queue[i].key /\ queue[i].key = prprio[p] /\ queue[1].key = prprio[new]
      BY <1>2, <1>4, <2>2, <3>2, <3>3 DEF Ranked
    <3> QED BY <3>4
  <2> QED BY <1>7, <2>1, <2>2 DEF Settled
<1>17. SchedOK(t)
  <2>1. IsQueue(t.readylist) /\ Ranked(t.readylist) /\ t.currpid = new
    BY <1>5, <1>5a, <1>7
  <2> QED BY <1>11, <1>12, <1>13, <1>14, <2>1, Zenon DEF SchedOK
<1> QED BY <1>15, <1>16, <1>17

\* resched leaves a sound state in which the highest priority runs.
LEMMA ReschedStep ==
  ASSUME NEW s, SchedOK(s), prprio \in [Pids -> Int]
  PROVE  SchedOK(resched(s)) /\ Settled(resched(s)) /\ Switched(s, resched(s))
<1> DEFINE old == s.currpid
           t == Dispatched(s, Contenders(s))
<1>1. SchedOK(t) /\ Settled(t) /\ Switched(s, t)
  BY SwitchTo
<1>2. \/ resched(s) = t
      \/ /\ resched(s) = s /\ s.prstate[old] = "CURR"
         /\ prprio[old] > firstkey(s.readylist)
  BY DEF resched, Dispatched, Contenders
<1> HIDE DEF t
<1>3. ASSUME s.prstate[old] = "CURR", prprio[old] > firstkey(s.readylist)
      PROVE  Settled(s)
  <2> SUFFICES ASSUME NewPrios = {}, NEW p \in Pids, s.prstate[p] = "READY"
               PROVE  prprio[p] <= prprio[old]
    BY <1>3 DEF Settled
  <2> DEFINE q == s.readylist
  <2>1. IsQueue(q) /\ Ranked(q) /\ p \in Entries(q) /\ old \in Pids
    BY SchedFields
  <2> HIDE DEF q
  <2>2. PICK i \in 1 .. Len(q) : q[i].pid = p
    BY <2>1, QueueFacts
  <2>3. q \in Seq(Nodes) /\ Len(q) \in Nat /\ q # <<>> /\ \A j \in 1 .. Len(q) : q[j].key \in Int
    BY <2>1, <2>2, QueueFacts
  <2>4. 1 \in 1 .. i /\ 1 \in 1 .. Len(q) /\ firstkey(q) = q[1].key
    BY <2>3, TailRemoved DEF firstkey
  <2>5. q[i].key = prprio[p] /\ q[1].key >= q[i].key
    BY <2>1, <2>2, <2>4 DEF Ranked
  <2> QED BY <1>3, <2>1, <2>3, <2>4, <2>5 DEF q
<1>4. Switched(s, s)
  BY DEF Switched
<1> QED BY <1>1, <1>2, <1>3, <1>4

\* From a to b the processes of P have moved to st; the others have at most
\* been switched.
Moved(a, b, P, st) ==
  \A p \in Pids :
    IF p \in P THEN b[p] = st \/ (st \in Runnable /\ b[p] \in Runnable)
               ELSE b[p] = a[p] \/ (a[p] \in Runnable /\ b[p] \in Runnable)

\* ready puts a process on the ready list; who runs is for resched to decide.
LEMMA MakeReadyStep ==
  ASSUME NEW s, SchedOK(s), prprio \in [Pids -> Int],
         NEW p \in Pids, s.prstate[p] \notin Runnable, s.prstate[p] # "FREE",
         NEW t, t = MakeReady(s, p)
  PROVE  /\ SchedOK(t) /\ t.currpid = s.currpid
         /\ \A r \in Pids : t.prstate[r] = IF r = p THEN "READY" ELSE s.prstate[r]
<1>1. /\ s.prstate \in [Pids -> States] /\ s.currpid \in Pids /\ s.preempt \in 1 .. QUANTUM
      /\ IsQueue(s.readylist) /\ Ranked(s.readylist)
      /\ \A r : r \in Entries(s.readylist) <=> r \in Pids /\ s.prstate[r] = "READY"
      /\ \A r \in Pids : s.prstate[r] = "CURR" => r = s.currpid
      /\ s.prstate[NULLPROC] \in Runnable /\ NULLPROC \in Pids
  BY SchedFields
<1> DEFINE q == insert(s.readylist, p, prprio[p])
<1>2. IsQueue(q) /\ Entries(q) = Entries(s.readylist) \union {p} /\ Ranked(q)
  <2>1. p \notin Entries(s.readylist) /\ prprio[p] \in Int
    BY <1>1 DEF Runnable
  <2> QED BY <1>1, <2>1, InsertIsQueue, InsertRanked
<1>3. /\ t.prstate = [s.prstate EXCEPT ![p] = "READY"] /\ t.readylist = q
      /\ t.currpid = s.currpid /\ t.preempt = s.preempt
      /\ t = [prstate |-> t.prstate, currpid |-> t.currpid, readylist |-> t.readylist,
              preempt |-> t.preempt]
  <2>1. s = [prstate |-> s.prstate, currpid |-> s.currpid, readylist |-> s.readylist,
             preempt |-> s.preempt]
    BY DEF SchedOK, SchedType
  <2> QED BY <2>1 DEF MakeReady, SetState
<1> HIDE DEF q
<1>4. \A r \in Pids : t.prstate[r] = IF r = p THEN "READY" ELSE s.prstate[r]
  BY <1>1, <1>3
<1>5. t \in SchedType
  <2>1. t.prstate \in [Pids -> States]
    BY <1>1, <1>3 DEF States
  <2>2. q \in Seq(Nodes) /\ s.preempt \in Nat
    BY <1>1, <1>2, QueueFacts
  <2> QED BY <1>1, <1>3, <2>1, <2>2 DEF SchedType
<1>6. Entries(t.readylist) = {r \in Pids : t.prstate[r] = "READY"}
  <2>1. \A r : r \in Entries(t.readylist) <=> r \in Pids /\ t.prstate[r] = "READY"
    BY <1>1, <1>2, <1>3, <1>4
  <2> QED BY <2>1
<1>7. /\ \A r \in Pids : t.prstate[r] = "CURR" => r = t.currpid
      /\ t.prstate[NULLPROC] \in Runnable
  BY <1>1, <1>3, <1>4 DEF Runnable
<1> QED BY <1>1, <1>2, <1>3, <1>4, <1>5, <1>6, <1>7 DEF SchedOK

\* The scheduler's state as one process after the other is made ready.
IsAfter(f, s, ps, n) == f = [i \in 0 .. n |-> IF i = 0 THEN s ELSE MakeReady(f[i - 1], ps[i])]

\* Making the processes of a sequence ready, one after the other, is a function.
LEMMA AfterExists ==
  ASSUME NEW s, NEW ps
  PROVE  \A n \in Nat : \E f : IsAfter(f, s, ps, n)
<1> DEFINE T == {n \in Nat : \E f : IsAfter(f, s, ps, n)}
<1>1. 0 \in T
  <2> DEFINE f == [i \in 0 .. 0 |-> s]
  <2>1. IsAfter(f, s, ps, 0)
    <3> SUFFICES f = [i \in 0 .. 0 |-> IF i = 0 THEN s ELSE MakeReady(f[i - 1], ps[i])]
      BY DEF IsAfter
    <3>1. \A i \in 0 .. 0 : i = 0
      OBVIOUS
    <3> QED BY <3>1
  <2> QED BY <2>1
<1>2. ASSUME NEW n \in Nat, n \in T
      PROVE  n + 1 \in T
  <2>1. PICK f : IsAfter(f, s, ps, n)
    BY <1>2
  <2> DEFINE g == [i \in 0 .. (n + 1) |-> IF i = n + 1 THEN MakeReady(f[n], ps[n + 1]) ELSE f[i]]
  <2>2. ASSUME NEW i \in 0 .. (n + 1)
        PROVE  g[i] = IF i = 0 THEN s ELSE MakeReady(g[i - 1], ps[i])
    <3>1. CASE i = n + 1
      <4>1. g[i] = MakeReady(f[n], ps[i])
        BY <3>1
      <4>2. i # 0 /\ n \in 0 .. (n + 1) /\ n # n + 1 /\ i - 1 = n
        BY <3>1
      <4>3. g[n] = f[n]
        BY <4>2
      <4> HIDE DEF g
      <4> QED BY <4>1, <4>2, <4>3
    <3>2. CASE i # n + 1 /\ i # 0
      <4>1. i \in 0 .. n /\ i - 1 \in 0 .. (n + 1) /\ i - 1 # n + 1
        BY <3>2
      <4>2. f[i] = IF i = 0 THEN s ELSE MakeReady(f[i - 1], ps[i])
        BY <2>1, <4>1 DEF IsAfter
      <4> QED BY <3>2, <4>1, <4>2
    <3>3. CASE i = 0
      <4>1. i \in 0 .. n /\ i # n + 1
        BY <3>3
      <4>2. f[i] = s
        BY <2>1, <3>3, <4>1 DEF IsAfter
      <4> QED BY <3>3, <4>1, <4>2
    <3> QED BY <3>1, <3>2, <3>3
  <2>3. IsAfter(g, s, ps, n + 1)
    <3>1. g = [i \in 0 .. (n + 1) |-> g[i]]
      OBVIOUS
    <3> HIDE DEF g
    <3> QED BY <2>2, <3>1 DEF IsAfter
  <2> HIDE DEF g
  <2>4. \E h : IsAfter(h, s, ps, n + 1)
    BY <2>3
  <2> QED BY <2>4
<1> HIDE DEF T
<1>3. Nat \subseteq T
  BY <1>1, <1>2, Induction
<1> QED BY <1>3 DEF T

\* What ReadyAll computes, one process at a time.
AfterAll(after, s, ps) ==
  /\ after[0] = s
  /\ \A i \in 1 .. Len(ps) : after[i] = MakeReady(after[i - 1], ps[i])
  /\ ReadyAll(s, ps) = IF \E i \in DOMAIN ps : s.prstate[ps[i]] # "FREE"
                       THEN resched(after[Len(ps)]) ELSE after[Len(ps)]

\* ReadyAll is the last of its values, and one resched.
LEMMA ReadyAllUnfolds ==
  ASSUME NEW s, NEW ps, Len(ps) \in Nat
  PROVE  \E after : AfterAll(after, s, ps)
<1> DEFINE after == CHOOSE f : IsAfter(f, s, ps, Len(ps))
<1>1. \E f : IsAfter(f, s, ps, Len(ps))
  BY AfterExists
<1>2. IsAfter(after, s, ps, Len(ps))
  BY <1>1
<1>3. ReadyAll(s, ps) = IF \E i \in DOMAIN ps : s.prstate[ps[i]] # "FREE"
                        THEN resched(after[Len(ps)]) ELSE after[Len(ps)]
  BY DEF ReadyAll, IsAfter
<1> HIDE DEF after
<1>4. after[0] = s
  BY <1>2 DEF IsAfter
<1>5. ASSUME NEW i \in 1 .. Len(ps)
      PROVE  after[i] = MakeReady(after[i - 1], ps[i])
  <2>1. i \in 0 .. Len(ps) /\ i # 0
    OBVIOUS
  <2> QED BY <1>2, <2>1 DEF IsAfter
<1>6. AfterAll(after, s, ps)
  BY <1>3, <1>4, <1>5 DEF AfterAll
<1> QED BY <1>6

\* Processes that wait somewhere, once each.
Sleepers(s, ps) ==
  /\ ps \in Seq(Pids)
  /\ \A i, j \in 1 .. Len(ps) : ps[i] = ps[j] => i = j
  /\ \A i \in 1 .. Len(ps) : s.prstate[ps[i]] \notin Runnable /\ s.prstate[ps[i]] # "FREE"

\* Making some sleepers ready keeps the state sound and moves nobody else.
LEMMA ReadyAllStep ==
  ASSUME NEW s, SchedOK(s), Settled(s), prprio \in [Pids -> Int], NEW ps, Sleepers(s, ps)
  PROVE  /\ SchedOK(ReadyAll(s, ps)) /\ Settled(ReadyAll(s, ps))
         /\ Moved(s.prstate, ReadyAll(s, ps).prstate, {ps[i] : i \in 1 .. Len(ps)}, "READY")
<1>1. /\ Len(ps) \in Nat /\ DOMAIN ps = 1 .. Len(ps)
      /\ \A i \in 1 .. Len(ps) : ps[i] \in Pids
  <2>1. ps \in Seq(Pids)
    BY DEF Sleepers
  <2>2. Len(ps) \in Nat /\ DOMAIN ps = 1 .. Len(ps)
    BY <2>1, LenProperties
  <2> QED BY <2>1, <2>2, ElementOfSeq
<1>0. PICK after : AfterAll(after, s, ps)
  BY <1>1, ReadyAllUnfolds
<1>2. /\ after[0] = s
      /\ \A i \in 1 .. Len(ps) : after[i] = MakeReady(after[i - 1], ps[i])
  BY <1>0 DEF AfterAll
<1> DEFINE t == after[Len(ps)]
           P == {ps[i] : i \in 1 .. Len(ps)}
<1>3. ReadyAll(s, ps) = IF \E i \in DOMAIN ps : s.prstate[ps[i]] # "FREE" THEN resched(t) ELSE t
  BY <1>0 DEF AfterAll
<1> DEFINE Good(n) ==
             /\ SchedOK(after[n]) /\ after[n].currpid = s.currpid
             /\ \A p \in Pids : after[n].prstate[p] =
                                  IF \E j \in 1 .. n : ps[j] = p THEN "READY" ELSE s.prstate[p]
           T == {n \in Nat : n <= Len(ps) => Good(n)}
<1>4. after[0] = s
  BY <1>2
<1>5. 0 \in T
  BY <1>4
<1>6. ASSUME NEW n \in Nat, n \in T
      PROVE  n + 1 \in T
  <2> SUFFICES ASSUME n + 1 <= Len(ps)
               PROVE  Good(n + 1)
    OBVIOUS
  <2>1. Good(n) /\ n + 1 \in 1 .. Len(ps) /\ n + 1 \in 0 .. Len(ps) /\ n + 1 # 0 /\ (n + 1) - 1 = n
    BY <1>1, <1>6
  <2> DEFINE r == ps[n + 1]
  <2>2. after[n + 1] = MakeReady(after[n], r)
    BY <1>2, <2>1
  <2>3. r \in Pids /\ s.prstate[r] \notin Runnable /\ s.prstate[r] # "FREE"
    BY <1>1, <2>1 DEF Sleepers
  <2>4. \A j \in 1 .. n : ps[j] # r
    <3> SUFFICES ASSUME NEW j \in 1 .. n, ps[j] = r PROVE FALSE
      OBVIOUS
    <3>1. j \in 1 .. Len(ps) /\ j # n + 1
      BY <1>1, <2>1
    <3> QED BY <2>1, <3>1 DEF Sleepers
  <2>5. after[n].prstate[r] = s.prstate[r]
    BY <2>1, <2>3, <2>4
  <2>6. SchedOK(after[n]) /\ after[n].currpid = s.currpid
    BY <2>1
  <2>7. /\ SchedOK(after[n + 1]) /\ after[n + 1].currpid = s.currpid
        /\ \A p \in Pids : after[n + 1].prstate[p] = IF p = r THEN "READY" ELSE after[n].prstate[p]
    BY <2>2, <2>3, <2>5, <2>6, MakeReadyStep
  <2>8. \A p : (\E j \in 1 .. (n + 1) : ps[j] = p) <=> (p = r \/ \E j \in 1 .. n : ps[j] = p)
    <3>1. \A j \in 1 .. (n + 1) : j = n + 1 \/ j \in 1 .. n
      OBVIOUS
    <3>2. n + 1 \in 1 .. (n + 1) /\ \A j \in 1 .. n : j \in 1 .. (n + 1)
      OBVIOUS
    <3> QED BY <3>1, <3>2
  <2> HIDE DEF r
  <2> QED BY <2>1, <2>7, <2>8
<1> HIDE DEF T
<1>7. Len(ps) \in T
  BY <1>1, <1>5, <1>6, Induction
<1>8. Good(Len(ps))
  BY <1>1, <1>7 DEF T
<1>9. SchedOK(t) /\ t.currpid = s.currpid
      /\ \A p \in Pids : t.prstate[p] = IF p \in P THEN "READY" ELSE s.prstate[p]
  BY <1>8
<1>10. CASE Len(ps) = 0
  <2>1. ReadyAll(s, ps) = s
    BY <1>1, <1>3, <1>4, <1>10
  <2>2. Moved(s.prstate, s.prstate, P, "READY")
    BY <1>10 DEF Moved
  <2> HIDE DEF P
  <2> QED BY <2>1, <2>2 DEF P
<1>11. CASE Len(ps) # 0
  <2>1. 1 \in DOMAIN ps /\ s.prstate[ps[1]] # "FREE"
    BY <1>1, <1>11 DEF Sleepers
  <2>2. ReadyAll(s, ps) = resched(t)
    BY <1>3, <2>1
  <2> HIDE DEF t, P
  <2>3. SchedOK(resched(t)) /\ Settled(resched(t)) /\ Switched(t, resched(t))
    BY <1>9, ReschedStep
  <2>4. Moved(s.prstate, resched(t).prstate, P, "READY")
    <3> SUFFICES ASSUME NEW p \in Pids
                 PROVE  LET b == resched(t).prstate
                        IN  IF p \in P THEN b[p] = "READY" \/ b[p] \in Runnable
                            ELSE b[p] = s.prstate[p] \/ (s.prstate[p] \in Runnable /\ b[p] \in Runnable)
      BY DEF Moved, Runnable
    <3>1. \/ resched(t).prstate[p] = t.prstate[p]
          \/ t.prstate[p] \in Runnable /\ resched(t).prstate[p] \in Runnable
      BY <2>3 DEF Switched
    <3>2. t.prstate[p] = IF p \in P THEN "READY" ELSE s.prstate[p]
      BY <1>9
    <3> QED BY <3>1, <3>2
  <2> QED BY <2>2, <2>3, <2>4 DEF P
<1> QED BY <1>10, <1>11
-----------------------------------------------------------------------------
(***************************************************************************)
(* The invariant.                                                          *)
(***************************************************************************)

\* What kill does not survive is not done: it leaves processes that sleep on
\* the sleep queue; and with a parent to inform it may switch before it has
\* taken its victim off the ready list or a semaphore.
NoUserProcesses == UserKinds \subseteq {FALSE} /\ \A i \in 1 .. Len(Created) : ~ Created[i].user
Orderly ==
  /\ Victims \cap {"SLEEP", "RECTIM"} = {}
  /\ Victims \subseteq {"SUSP", "RECV"} \/ NoUserProcesses

Asleep == {"SLEEP", "RECTIM"}

Types ==
  /\ prprio \in [Pids -> Int] /\ pruser \in [Pids -> BOOLEAN] /\ prparent \in [Pids -> Pids]
  /\ prhasmsg \in [Pids -> BOOLEAN] /\ prsem \in [Pids -> Sems \cup {-1}]
  /\ nextpid \in 1 .. NPROC /\ halted \in BOOLEAN
  /\ pc \in [Pids -> {"user", "receive", "recvtime", "clkhandler", "kill"}]

\* Commit writes the fields of a record of the scheduler's state.
SchedInv == SchedOK(Sched) /\ Settled(Sched)

\* A process is due when the keys up to its entry say; nobody is overdue.
SleepInv ==
  /\ IsQueue(sleepq) /\ \A i \in 1 .. Len(sleepq) : sleepq[i].key \in Nat
  /\ Entries(sleepq) = {p \in Pids : prstate[p] \in Asleep}
  /\ left \in [Pids -> Nat]
  /\ 0 \notin Timeouts => \A i \in 1 .. Len(sleepq) : /\ Due(sleepq, i) = left[sleepq[i].pid]
                                                      /\ left[sleepq[i].pid] > 0

\* A semaphore that is not in use has nobody waiting, and a count that says so.
SemInv ==
  /\ sstate \in [Sems -> {"S_FREE", "S_USED"}] /\ scount \in [Sems -> Int]
  /\ nextsem \in 0 .. NSEM
  /\ squeue \in [Sems -> Seq(Nodes)]
  /\ \A s \in Sems : /\ IsQueue(squeue[s])
                     /\ Entries(squeue[s]) = {p \in Pids : prstate[p] = "WAIT" /\ prsem[p] = s}
                     /\ Len(squeue[s]) = IF scount[s] < 0 THEN - scount[s] ELSE 0
                     /\ sstate[s] = "S_FREE" => scount[s] >= 0
  /\ \A p \in Pids : prstate[p] = "WAIT" => prsem[p] \in Sems

\* What a process that is in receive can be.
MsgInv ==
  \A p \in Pids :
     /\ prstate[p] \in {"RECV", "RECTIM"} => ~ prhasmsg[p]
     /\ pc[p] = "receive" => \/ prstate[p] \in {"READY", "CURR", "SUSP"} /\ prhasmsg[p]
                             \/ prstate[p] \in {"RECV", "FREE"}

\* A kill that was switched away from has nothing left to take off a queue.
KillInv ==
  \/ Victims \subseteq {"SUSP", "RECV"} /\ killing.state \in {"SUSP", "RECV", "FREE"}
  \/ NoUserProcesses /\ \A p \in Pids : ~ pruser[p] /\ pc[p] # "kill"

Inv == Types /\ SchedInv /\ SleepInv /\ SemInv /\ MsgInv /\ KillInv

-----------------------------------------------------------------------------
(***************************************************************************)
(* Steps of the scheduler.                                                 *)
(***************************************************************************)

\* The fields of Sched are the variables.
LEMMA SchedIs ==
  /\ Sched.prstate = prstate /\ Sched.currpid = currpid
  /\ Sched.readylist = readylist /\ Sched.preempt = preempt
BY DEF Sched

\* Moves in a row.
LEMMA MovedThen ==
  ASSUME NEW a, NEW b, NEW c, NEW P, NEW st, Moved(a, b, P, st),
         \A p \in Pids : c[p] = b[p] \/ (b[p] \in Runnable /\ c[p] \in Runnable)
  PROVE  Moved(a, c, P, st)
BY DEF Moved

\* A sound state that is written to the variables is sound there.
LEMMA CommitStep ==
  ASSUME NEW new, Commit(new), SchedOK(new), Settled(new), prprio' = prprio
  PROVE  /\ SchedInv'
         /\ prstate' = new.prstate /\ currpid' = new.currpid
         /\ readylist' = new.readylist /\ preempt' = new.preempt
<1>1. /\ prstate' = new.prstate /\ currpid' = new.currpid
      /\ readylist' = new.readylist /\ preempt' = new.preempt
  BY DEF Commit
<1>2. new = [prstate |-> new.prstate, currpid |-> new.currpid, readylist |-> new.readylist,
             preempt |-> new.preempt]
  BY DEF SchedOK, SchedType
<1>3. Sched' = new
  BY <1>1, <1>2 DEF Sched
<1>4. Ranked(new.readylist)'
  BY DEF SchedOK, Ranked
<1> QED BY <1>1, <1>3 DEF SchedInv, SchedOK, Settled, Ranked

\* A process that is not on the ready list changes to a state it does not run in.
LEMMA ParkStep ==
  ASSUME NEW s, SchedOK(s), NEW p \in Pids, s.prstate[p] # "READY", p # NULLPROC,
         NEW st \in States, st \notin Runnable, NEW t, t = SetState(s, p, st)
  PROVE  /\ SchedOK(t) /\ t.currpid = s.currpid
         /\ \A r \in Pids : t.prstate[r] = IF r = p THEN st ELSE s.prstate[r]
<1>1. /\ s.prstate \in [Pids -> States] /\ s.currpid \in Pids /\ s.preempt \in 1 .. QUANTUM
      /\ IsQueue(s.readylist) /\ Ranked(s.readylist) /\ s.readylist \in Seq(Nodes)
      /\ \A r : r \in Entries(s.readylist) <=> r \in Pids /\ s.prstate[r] = "READY"
      /\ \A r \in Pids : s.prstate[r] = "CURR" => r = s.currpid
      /\ s.prstate[NULLPROC] \in Runnable /\ NULLPROC \in Pids
  BY SchedFields
<1>2. /\ t.prstate = [s.prstate EXCEPT ![p] = st] /\ t.readylist = s.readylist
      /\ t.currpid = s.currpid /\ t.preempt = s.preempt
      /\ t = [prstate |-> t.prstate, currpid |-> t.currpid, readylist |-> t.readylist,
              preempt |-> t.preempt]
  <2>1. s = [prstate |-> s.prstate, currpid |-> s.currpid, readylist |-> s.readylist,
             preempt |-> s.preempt]
    BY DEF SchedOK, SchedType
  <2> QED BY <2>1 DEF SetState
<1>3. \A r \in Pids : t.prstate[r] = IF r = p THEN st ELSE s.prstate[r]
  BY <1>1, <1>2
<1>4. t.prstate \in [Pids -> States] /\ s.preempt \in Nat
  BY <1>1, <1>2
<1>5. t \in SchedType
  BY <1>1, <1>2, <1>4 DEF SchedType
<1>6. Entries(t.readylist) = {r \in Pids : t.prstate[r] = "READY"}
  <2>1. \A r : r \in Entries(t.readylist) <=> r \in Pids /\ t.prstate[r] = "READY"
    BY <1>1, <1>2, <1>3 DEF Runnable
  <2> QED BY <2>1
<1>7. /\ \A r \in Pids : t.prstate[r] = "CURR" => r = t.currpid
      /\ t.prstate[NULLPROC] \in Runnable
  BY <1>1, <1>2, <1>3 DEF Runnable
<1> QED BY <1>1, <1>2, <1>3, <1>5, <1>6, <1>7 DEF SchedOK

\* Nobody is dispatched when one who is not the current process stops.
LEMMA ParkSettled ==
  ASSUME NEW s, SchedOK(s), Settled(s), NEW p \in Pids, p # s.currpid, NEW t, t.currpid = s.currpid,
         NEW st, st \notin Runnable, \A r \in Pids : t.prstate[r] = IF r = p THEN st ELSE s.prstate[r]
  PROVE  Settled(t)
<1>1. s.currpid \in Pids
  BY SchedFields
<1> QED BY <1>1 DEF Settled, Runnable

\* A ready process is taken off the ready list and parked.
Parked(s, p, st) == [SetState(s, p, st) EXCEPT !.readylist = getitem(@, p)]

\* The ready list stays sound, and the current process is the same.
LEMMA ParkReady ==
  ASSUME NEW s, SchedOK(s), NEW p \in Pids, s.prstate[p] = "READY", p # NULLPROC,
         NEW st \in States, st \notin Runnable,
         NEW t, t = Parked(s, p, st)
  PROVE  /\ SchedOK(t) /\ t.currpid = s.currpid
         /\ \A r \in Pids : t.prstate[r] = IF r = p THEN st ELSE s.prstate[r]
<1>1. /\ s.prstate \in [Pids -> States] /\ s.currpid \in Pids /\ s.preempt \in 1 .. QUANTUM
      /\ IsQueue(s.readylist) /\ Ranked(s.readylist)
      /\ \A r : r \in Entries(s.readylist) <=> r \in Pids /\ s.prstate[r] = "READY"
      /\ \A r \in Pids : s.prstate[r] = "CURR" => r = s.currpid
      /\ s.prstate[NULLPROC] \in Runnable /\ NULLPROC \in Pids
  BY SchedFields
<1> DEFINE q == getitem(s.readylist, p)
<1>2. IsQueue(q) /\ Entries(q) = Entries(s.readylist) \ {p} /\ Ranked(q)
  BY <1>1, GetitemQueue, GetitemRanked
<1>3. /\ t.prstate = [s.prstate EXCEPT ![p] = st] /\ t.readylist = q
      /\ t.currpid = s.currpid /\ t.preempt = s.preempt
      /\ t = [prstate |-> t.prstate, currpid |-> t.currpid, readylist |-> t.readylist,
              preempt |-> t.preempt]
  <2>1. s = [prstate |-> s.prstate, currpid |-> s.currpid, readylist |-> s.readylist,
             preempt |-> s.preempt]
    BY DEF SchedOK, SchedType
  <2> QED BY <2>1 DEF SetState, Parked
<1> HIDE DEF q
<1>4. \A r \in Pids : t.prstate[r] = IF r = p THEN st ELSE s.prstate[r]
  BY <1>1, <1>3
<1>5. t.prstate \in [Pids -> States] /\ s.preempt \in Nat /\ q \in Seq(Nodes)
  <2>1. q \in Seq(Nodes)
    BY <1>2, QueueFacts
  <2> QED BY <1>1, <1>3, <2>1
<1>6. t \in SchedType
  BY <1>1, <1>3, <1>5 DEF SchedType
<1>7. Entries(t.readylist) = {r \in Pids : t.prstate[r] = "READY"}
  <2>1. \A r : r \in Entries(t.readylist) <=> r \in Pids /\ t.prstate[r] = "READY"
    BY <1>1, <1>2, <1>3, <1>4 DEF Runnable
  <2> QED BY <2>1
<1>8. /\ \A r \in Pids : t.prstate[r] = "CURR" => r = t.currpid
      /\ t.prstate[NULLPROC] \in Runnable
  BY <1>1, <1>3, <1>4 DEF Runnable
<1> QED BY <1>1, <1>2, <1>3, <1>4, <1>6, <1>7, <1>8 DEF SchedOK

\* The current process stops and another is dispatched (Block, suspend, kill).
LEMMA BlockStep ==
  ASSUME NEW s, SchedOK(s), Settled(s), prprio \in [Pids -> Int],
         NEW p, p = s.currpid, p # NULLPROC, NEW st \in States, st \notin Runnable,
         NEW t, t = resched(SetState(s, p, st))
  PROVE  SchedOK(t) /\ Settled(t) /\ Moved(s.prstate, t.prstate, {p}, st)
<1>1. p \in Pids /\ s.prstate[p] # "READY"
  BY SchedFields DEF Settled
<1> DEFINE u == SetState(s, p, st)
<1>2. /\ SchedOK(u) /\ u.currpid = s.currpid
      /\ \A r \in Pids : u.prstate[r] = IF r = p THEN st ELSE s.prstate[r]
  BY <1>1, ParkStep
<1>3. t = resched(u)
  OBVIOUS
<1> HIDE DEF u
<1>4. SchedOK(t) /\ Settled(t) /\ Switched(u, t)
  BY <1>2, <1>3, ReschedStep
<1>5. Moved(s.prstate, t.prstate, {p}, st)
  BY <1>1, <1>2, <1>4 DEF Moved, Switched
<1> QED BY <1>4, <1>5

\* A process that waits somewhere is made ready (resume, send).
LEMMA ReadyStep ==
  ASSUME NEW s, SchedOK(s), prprio \in [Pids -> Int],
         NEW p \in Pids, s.prstate[p] \notin Runnable, s.prstate[p] # "FREE",
         NEW t, t = resched(MakeReady(s, p))
  PROVE  SchedOK(t) /\ Settled(t) /\ Moved(s.prstate, t.prstate, {p}, "READY")
<1> DEFINE u == MakeReady(s, p)
<1>1. /\ SchedOK(u)
      /\ \A r \in Pids : u.prstate[r] = IF r = p THEN "READY" ELSE s.prstate[r]
  BY MakeReadyStep
<1>2. t = resched(u)
  OBVIOUS
<1> HIDE DEF u
<1>3. SchedOK(t) /\ Settled(t) /\ Switched(u, t)
  BY <1>1, <1>2, ReschedStep
<1>4. Moved(s.prstate, t.prstate, {p}, "READY")
  BY <1>1, <1>3 DEF Moved, Switched, Runnable
<1> QED BY <1>3, <1>4

\* The end of a clock tick.
LEMMA EndTickStep ==
  ASSUME NEW s, SchedOK(s), Settled(s), prprio \in [Pids -> Int], NEW t, t = EndTick(s)
  PROVE  SchedOK(t) /\ Settled(t) /\ Moved(s.prstate, t.prstate, {}, "READY")
<1>1. QUANTUM \in Nat /\ QUANTUM \in 1 .. QUANTUM /\ s.preempt \in 1 .. QUANTUM
  BY ProcMgrAssumption, SchedFields
<1>2. ASSUME NEW n \in 1 .. QUANTUM
      PROVE  LET u == [s EXCEPT !.preempt = n] IN SchedOK(u) /\ Settled(u) /\ u.prstate = s.prstate
  <2> DEFINE u == [s EXCEPT !.preempt = n]
  <2>1. s = [prstate |-> s.prstate, currpid |-> s.currpid, readylist |-> s.readylist,
             preempt |-> s.preempt]
    BY DEF SchedOK, SchedType
  <2>2. /\ u.prstate = s.prstate /\ u.currpid = s.currpid /\ u.readylist = s.readylist
        /\ u.preempt = n /\ n \in Nat
        /\ u = [prstate |-> u.prstate, currpid |-> u.currpid, readylist |-> u.readylist,
                preempt |-> u.preempt]
    BY <1>1, <2>1
  <2> HIDE DEF u
  <2>3. u \in SchedType
    BY <2>2 DEF SchedType, SchedOK
  <2>4. SchedOK(u)
    BY <2>2, <2>3 DEF SchedOK
  <2>5. Settled(u)
    BY <2>2 DEF Settled
  <2> QED BY <2>2, <2>4, <2>5 DEF u
<1>3. CASE s.preempt <= 1
  <2> DEFINE u == [s EXCEPT !.preempt = QUANTUM]
  <2>1. SchedOK(u) /\ Settled(u) /\ u.prstate = s.prstate
    BY <1>1, <1>2
  <2>2. t = resched(u)
    BY <1>3 DEF EndTick
  <2> HIDE DEF u
  <2>3. SchedOK(t) /\ Settled(t) /\ Switched(u, t)
    BY <2>1, <2>2, ReschedStep
  <2> QED BY <2>1, <2>3 DEF Switched, Moved
<1>4. CASE ~ (s.preempt <= 1)
  <2>1. s.preempt - 1 \in 1 .. QUANTUM /\ t = [s EXCEPT !.preempt = s.preempt - 1]
    BY <1>1, <1>4 DEF EndTick
  <2>2. SchedOK(t) /\ Settled(t) /\ t.prstate = s.prstate
    BY <1>2, <2>1
  <2> QED BY <2>2 DEF Moved
<1> QED BY <1>3, <1>4

-----------------------------------------------------------------------------
(***************************************************************************)
(* What a step leaves alone.                                               *)
(***************************************************************************)

\* prstate holds no state but those of States.
LEMMA States1 ==
  ASSUME SchedInv
  PROVE  /\ prstate \in [Pids -> States] /\ currpid \in Pids /\ prstate[currpid] = "CURR"
         /\ \A p \in Pids : prstate[p] = "CURR" => p = currpid
         /\ NULLPROC \in Pids
BY SchedIs, SchedFields DEF SchedInv, Settled

\* No process falls asleep or is woken.
LEMMA SleepFrame ==
  ASSUME SleepInv, sleepq' = sleepq, left' = left,
         \A p \in Pids : prstate'[p] \in Asleep <=> prstate[p] \in Asleep
  PROVE  SleepInv'
<1>1. Entries(sleepq') = {p \in Pids : prstate'[p] \in Asleep}
  BY DEF SleepInv
<1> QED BY <1>1 DEF SleepInv

\* The same for a move of some that neither sleep nor fall asleep.
LEMMA SleepMoved ==
  ASSUME SleepInv, sleepq' = sleepq, left' = left, NEW P, NEW st, st \notin Asleep,
         Moved(prstate, prstate', P, st), \A p \in Pids : p \in P => prstate[p] \notin Asleep
  PROVE  SleepInv'
<1>1. \A p \in Pids : prstate'[p] \in Asleep <=> prstate[p] \in Asleep
  BY DEF Moved, Runnable, Asleep
<1> QED BY <1>1, SleepFrame

\* No process begins or ends to wait for a semaphore.
LEMMA SemFrame ==
  ASSUME SemInv, UNCHANGED sems,
         \A p \in Pids : /\ prstate'[p] = "WAIT" <=> prstate[p] = "WAIT"
                         /\ prstate[p] = "WAIT" => prsem'[p] = prsem[p]
  PROVE  SemInv'
<1>1. sstate' = sstate /\ scount' = scount /\ squeue' = squeue /\ nextsem' = nextsem
  BY DEF sems
<1>2. ASSUME NEW s \in Sems
      PROVE  Entries(squeue'[s]) = {p \in Pids : prstate'[p] = "WAIT" /\ prsem'[p] = s}
  <2>1. Entries(squeue[s]) = {p \in Pids : prstate[p] = "WAIT" /\ prsem[p] = s}
    BY DEF SemInv
  <2> QED BY <1>1, <2>1
<1> QED BY <1>1, <1>2 DEF SemInv

\* The same for a move of some that neither wait nor begin to wait.
LEMMA SemMoved ==
  ASSUME SemInv, UNCHANGED sems, prsem' = prsem, NEW P, NEW st, st # "WAIT",
         Moved(prstate, prstate', P, st), \A p \in Pids : p \in P => prstate[p] # "WAIT"
  PROVE  SemInv'
<1>1. \A p \in Pids : prstate'[p] = "WAIT" <=> prstate[p] = "WAIT"
  BY DEF Moved, Runnable
<1> QED BY <1>1, SemFrame

\* Nothing happens to messages, and nobody begins to wait for one.
LEMMA MsgMoved ==
  ASSUME MsgInv, prhasmsg' = prhasmsg, pc' = pc, NEW P, NEW st, st \notin {"RECV", "RECTIM"},
         Moved(prstate, prstate', P, st),
         \A p \in Pids : p \in P /\ pc[p] = "receive" =>
           st = "FREE" \/ (st \in {"READY", "SUSP"} /\ prstate[p] \in {"READY", "CURR", "SUSP"})
  PROVE  MsgInv'
<1> SUFFICES ASSUME NEW p \in Pids
             PROVE  /\ prstate'[p] \in {"RECV", "RECTIM"} => ~ prhasmsg[p]
                    /\ pc[p] = "receive" => \/ prstate'[p] \in {"READY", "CURR", "SUSP"} /\ prhasmsg[p]
                                            \/ prstate'[p] \in {"RECV", "FREE"}
  BY DEF MsgInv
<1>1. /\ prstate[p] \in {"RECV", "RECTIM"} => ~ prhasmsg[p]
      /\ pc[p] = "receive" => \/ prstate[p] \in {"READY", "CURR", "SUSP"} /\ prhasmsg[p]
                              \/ prstate[p] \in {"RECV", "FREE"}
  BY DEF MsgInv
<1>2. CASE p \in P
  <2>1. prstate'[p] = st \/ (st \in Runnable /\ prstate'[p] \in Runnable)
    BY <1>2 DEF Moved
  <2> QED BY <1>1, <1>2, <2>1 DEF Runnable
<1>3. CASE p \notin P
  <2>1. prstate'[p] = prstate[p] \/ (prstate[p] \in Runnable /\ prstate'[p] \in Runnable)
    BY <1>3 DEF Moved
  <2> QED BY <1>1, <2>1 DEF Runnable
<1> QED BY <1>2, <1>3

\* What the step property DeadStayDead asks of a step.
Buried == \A p \in Pids : prstate[p] = "FREE" => prstate'[p] \in {"FREE", "SUSP"}

\* A move takes nobody out of FREE, unless into SUSP.
LEMMA BuriedMoved ==
  ASSUME NEW P, NEW st, Moved(prstate, prstate', P, st),
         \A p \in Pids : p \in P => prstate[p] # "FREE" \/ st \in {"FREE", "SUSP"}
  PROVE  Buried
BY DEF Buried, Moved, Runnable

Good == Inv' /\ Buried

-----------------------------------------------------------------------------
(***************************************************************************)
(* The system calls of process management.                                 *)
(***************************************************************************)

\* resume.
LEMMA ResumeGood ==
  ASSUME Inv, NEW p \in Pids, resume(p)
  PROVE  Good
<1> DEFINE new == resched(MakeReady(Sched, p))
<1>1. /\ prstate[p] = "SUSP" /\ Commit(new)
      /\ UNCHANGED <<entry, prhasmsg, prsem, nextpid, sleepq, sems, pc, killing, halted, left>>
  BY DEF resume
<1>2. Types /\ SchedInv /\ SleepInv /\ SemInv /\ MsgInv /\ KillInv
  BY DEF Inv
<1>3. SchedOK(new) /\ Settled(new) /\ Moved(prstate, new.prstate, {p}, "READY")
  BY <1>1, <1>2, ReadyStep, SchedIs DEF SchedInv, Types, Runnable
<1> HIDE DEF new
<1>4. SchedInv' /\ Moved(prstate, prstate', {p}, "READY")
  BY <1>1, <1>3, CommitStep DEF entry
<1>5. Types'
  BY <1>1, <1>2 DEF Types, entry
<1>6. SleepInv'
  BY <1>1, <1>2, <1>4, SleepMoved DEF Asleep
<1>7. SemInv'
  BY <1>1, <1>2, <1>4, SemMoved
<1>8. MsgInv'
  BY <1>1, <1>2, <1>4, MsgMoved
<1>9. KillInv'
  BY <1>1, <1>2 DEF KillInv, entry
<1>10. Buried
  BY <1>1, <1>4, BuriedMoved
<1> QED BY <1>4, <1>5, <1>6, <1>7, <1>8, <1>9, <1>10 DEF Good, Inv

\* suspend.
LEMMA SuspendGood ==
  ASSUME Inv, NEW p \in Pids, suspend(p)
  PROVE  Good
<1>1. /\ p # NULLPROC
      /\ \/ prstate[p] = "READY" /\ Commit(SuspendReady(Sched, p))
         \/ prstate[p] = "CURR" /\ Commit(resched(SetState(Sched, p, "SUSP")))
      /\ UNCHANGED <<entry, prhasmsg, prsem, nextpid, sleepq, sems, pc, killing, halted, left>>
  BY DEF suspend
<1>2. Types /\ SchedInv /\ SleepInv /\ SemInv /\ MsgInv /\ KillInv
  BY DEF Inv
<1>3. prprio \in [Pids -> Int] /\ prprio' = prprio /\ "SUSP" \in States /\ "SUSP" \notin Runnable
  BY <1>1, <1>2 DEF Types, entry, States, Runnable
<1>4. SchedInv' /\ Moved(prstate, prstate', {p}, "SUSP")
  <2>1. CASE prstate[p] = "READY" /\ Commit(SuspendReady(Sched, p))
    <3> DEFINE new == SuspendReady(Sched, p)
    <3>0. new = Parked(Sched, p, "SUSP")
      BY DEF SuspendReady, Parked
    <3> HIDE DEF new
    <3>1. /\ SchedOK(new) /\ new.currpid = currpid
          /\ \A r \in Pids : new.prstate[r] = IF r = p THEN "SUSP" ELSE prstate[r]
      <4>1. SchedOK(Sched) /\ Sched.prstate[p] = "READY"
        BY <1>2, <2>1, SchedIs DEF SchedInv
      <4>2. /\ SchedOK(new) /\ new.currpid = Sched.currpid
            /\ \A r \in Pids : new.prstate[r] = IF r = p THEN "SUSP" ELSE Sched.prstate[r]
        BY <1>1, <1>3, <3>0, <4>1, ParkReady
      <4> QED BY <4>2, SchedIs
    <3>2. p # currpid
      BY <1>2, <2>1, States1
    <3>3. Settled(new)
      BY <1>2, <1>3, <3>1, <3>2, ParkSettled, SchedIs DEF SchedInv
    <3>4. Moved(prstate, new.prstate, {p}, "SUSP")
      BY <3>1 DEF Moved
    <3> QED BY <1>3, <2>1, <3>1, <3>3, <3>4, CommitStep DEF new
  <2>2. CASE prstate[p] = "CURR" /\ Commit(resched(SetState(Sched, p, "SUSP")))
    <3> DEFINE new == resched(SetState(Sched, p, "SUSP"))
    <3>1. p = currpid
      BY <1>2, <2>2, States1
    <3>2. SchedOK(new) /\ Settled(new) /\ Moved(prstate, new.prstate, {p}, "SUSP")
      BY <1>1, <1>2, <1>3, <3>1, BlockStep, SchedIs DEF SchedInv
    <3> HIDE DEF new
    <3> QED BY <1>3, <2>2, <3>2, CommitStep DEF new
  <2> QED BY <1>1, <2>1, <2>2
<1>5. Types'
  BY <1>1, <1>2 DEF Types, entry
<1>6. SleepInv'
  BY <1>1, <1>2, <1>4, SleepMoved DEF Asleep
<1>7. SemInv'
  BY <1>1, <1>2, <1>4, SemMoved
<1>8. MsgInv'
  BY <1>1, <1>2, <1>4, MsgMoved
<1>9. KillInv'
  BY <1>1, <1>2 DEF KillInv, entry
<1>10. Buried
  BY <1>1, <1>4, BuriedMoved
<1> QED BY <1>4, <1>5, <1>6, <1>7, <1>8, <1>9, <1>10 DEF Good, Inv

\* A step in which processes are only switched.
LEMMA SwitchGood ==
  ASSUME Inv, NEW new, Commit(new), SchedOK(new), Settled(new),
         Moved(prstate, new.prstate, {}, "READY"),
         UNCHANGED <<entry, prhasmsg, prsem, nextpid, sleepq, sems, halted, left>>,
         pc' \in [Pids -> {"user", "receive", "recvtime", "clkhandler", "kill"}],
         \A p \in Pids : /\ pc'[p] = "receive" => pc[p] = "receive"
                         /\ pc'[p] = "kill" => pc[p] = "kill",
         killing' = killing
  PROVE  Good
<1>2. Types /\ SchedInv /\ SleepInv /\ SemInv /\ MsgInv /\ KillInv
  BY DEF Inv
<1>4. SchedInv' /\ Moved(prstate, prstate', {}, "READY")
  BY <1>2, CommitStep DEF entry
<1>5. Types'
  BY <1>2 DEF Types, entry
<1>6. SleepInv'
  BY <1>2, <1>4, SleepMoved DEF Asleep
<1>7. SemInv'
  BY <1>2, <1>4, SemMoved
<1>8. MsgInv'
  <2> SUFFICES ASSUME NEW p \in Pids
               PROVE  /\ prstate'[p] \in {"RECV", "RECTIM"} => ~ prhasmsg'[p]
                      /\ pc'[p] = "receive" =>
                           \/ prstate'[p] \in {"READY", "CURR", "SUSP"} /\ prhasmsg'[p]
                           \/ prstate'[p] \in {"RECV", "FREE"}
    BY DEF MsgInv
  <2>1. prstate'[p] = prstate[p] \/ (prstate[p] \in Runnable /\ prstate'[p] \in Runnable)
    BY <1>4 DEF Moved
  <2>2. /\ prstate[p] \in {"RECV", "RECTIM"} => ~ prhasmsg[p]
        /\ pc[p] = "receive" => \/ prstate[p] \in {"READY", "CURR", "SUSP"} /\ prhasmsg[p]
                                \/ prstate[p] \in {"RECV", "FREE"}
    BY <1>2 DEF MsgInv
  <2> QED BY <2>1, <2>2 DEF Runnable
<1>9. KillInv'
  BY <1>2 DEF KillInv, entry
<1>10. Buried
  BY <1>4, BuriedMoved
<1> QED BY <1>4, <1>5, <1>6, <1>7, <1>8, <1>9, <1>10 DEF Good, Inv

\* yield.
LEMMA YieldGood ==
  ASSUME Inv, yield
  PROVE  Good
<1> DEFINE new == resched(Sched)
<1>1. /\ Commit(new)
      /\ UNCHANGED <<entry, prhasmsg, prsem, nextpid, sleepq, sems, pc, killing, halted, left>>
  BY DEF yield
<1>2. Types /\ SchedInv
  BY DEF Inv
<1>3. SchedOK(new) /\ Settled(new) /\ Switched(Sched, new)
  BY <1>2, ReschedStep DEF SchedInv, Types
<1> HIDE DEF new
<1>4. Moved(prstate, new.prstate, {}, "READY")
  BY <1>3, SchedIs DEF Switched, Moved
<1> QED BY <1>1, <1>2, <1>3, <1>4, SwitchGood DEF Types

\* The end of a clock interrupt that had switched away.
LEMMA TickReturnGood ==
  ASSUME Inv, TickReturn
  PROVE  Good
<1> DEFINE new == EndTick(Sched)
<1>1. /\ Commit(new) /\ pc' = [pc EXCEPT ![currpid] = "user"]
      /\ UNCHANGED <<entry, prhasmsg, prsem, nextpid, sleepq, sems, killing, halted, left>>
  BY DEF TickReturn
<1>2. Types /\ SchedInv
  BY DEF Inv
<1>3. SchedOK(new) /\ Settled(new) /\ Moved(prstate, new.prstate, {}, "READY")
  BY <1>2, EndTickStep, SchedIs DEF SchedInv, Types
<1> HIDE DEF new
<1>4. pc' \in [Pids -> {"user", "receive", "recvtime", "clkhandler", "kill"}]
  BY <1>1, <1>2 DEF Types
<1>5. \A p \in Pids : /\ pc'[p] = "receive" => pc[p] = "receive"
                      /\ pc'[p] = "kill" => pc[p] = "kill"
  BY <1>1, <1>2 DEF Types
<1> QED BY <1>1, <1>3, <1>4, <1>5, SwitchGood

\* The priorities of a scheduler that is not disturbed.
LEMMA ChprioGood ==
  ASSUME Inv, NEW p \in Pids, NEW prio \in NewPrios, chprio(p, prio)
  PROVE  Good
<1>1. /\ prprio' = [prprio EXCEPT ![p] = prio]
      /\ UNCHANGED <<sched, pruser, prparent, prhasmsg, prsem, nextpid, sleepq, sems, pc,
                     killing, halted, left>>
  BY DEF chprio
<1>2. Types /\ SchedInv /\ SleepInv /\ SemInv /\ MsgInv /\ KillInv
  BY DEF Inv
<1>3. NewPrios # {} /\ prio \in Int
  BY ProcMgrAssumption
<1>4. prstate' = prstate /\ Sched' = Sched
  BY <1>1 DEF sched, Sched
<1>5. SchedInv'
  BY <1>2, <1>3, <1>4 DEF SchedInv, SchedOK, Settled, Ranked
<1>6. Types'
  BY <1>1, <1>2, <1>3 DEF Types
<1>7. Moved(prstate, prstate', {}, "READY")
  BY <1>4 DEF Moved
<1>8. SleepInv'
  BY <1>1, <1>2, <1>7, SleepMoved DEF Asleep
<1>9. SemInv'
  BY <1>1, <1>2, <1>7, SemMoved
<1>10. MsgInv'
  BY <1>1, <1>2, <1>7, MsgMoved
<1>11. KillInv'
  BY <1>1, <1>2 DEF KillInv
<1>12. Buried
  BY <1>7, BuriedMoved
<1> QED BY <1>5, <1>6, <1>8, <1>9, <1>10, <1>11, <1>12 DEF Good, Inv

\* The slots that newpid tries, and the entries that newsem tries.
LEMMA SlotRange ==
  ASSUME NEW n \in Nat \ {0}, NEW m \in Nat, NEW i \in Nat
  PROVE  (m + i) % n \in 0 .. (n - 1)
OBVIOUS

\* create, in a free slot or with none left.
LEMMA CreateGood ==
  ASSUME Inv, NEW prio \in Prios, NEW user \in UserKinds, create(prio, user)
  PROVE  Good
<1> DEFINE p == Slot(Min(FreeSlots))
           Made == /\ FreeSlots # {}
                   /\ nextpid' = p + 1
                   /\ prstate' = [prstate EXCEPT ![p] = "SUSP"]
                   /\ prprio' = [prprio EXCEPT ![p] = prio]
                   /\ pruser' = [pruser EXCEPT ![p] = user]
                   /\ prparent' = [prparent EXCEPT ![p] = currpid]
                   /\ prhasmsg' = [prhasmsg EXCEPT ![p] = FALSE]
                   /\ prsem' = [prsem EXCEPT ![p] = -1]
                   /\ pc' = [pc EXCEPT ![p] = "user"]
<1>1. /\ \/ UNCHANGED <<prstate, entry, prhasmsg, prsem, pc>> /\ nextpid' = Slot(NPROC - 1) + 1
         \/ Made
      /\ UNCHANGED <<currpid, readylist, preempt, sleepq, sems, killing, halted, left>>
  BY DEF create
<1> HIDE DEF p
<1>2. Types /\ SchedInv /\ SleepInv /\ SemInv /\ MsgInv /\ KillInv
  BY DEF Inv
<1>3. /\ \A i \in Nat : Slot(i) \in Pids /\ Slot(i) + 1 \in 1 .. NPROC
      /\ NPROC \in Nat \ {0}
  <2>1. NPROC \in Nat \ {0} /\ nextpid \in Nat
    BY <1>2, ProcMgrAssumption DEF Types
  <2>2. \A i \in Nat : Slot(i) \in 0 .. (NPROC - 1)
    BY <2>1, SlotRange DEF Slot
  <2> QED BY <2>1, <2>2 DEF Pids
<1>4. CASE UNCHANGED <<prstate, entry, prhasmsg, prsem, pc>> /\ nextpid' = Slot(NPROC - 1) + 1
  <2>1. Sched' = Sched /\ prprio' = prprio /\ prstate' = prstate
    BY <1>1, <1>4 DEF Sched, entry
  <2>2. SchedInv'
    BY <1>2, <2>1 DEF SchedInv, SchedOK, Settled, Ranked
  <2>3. Types'
    <3>1. nextpid' \in 1 .. NPROC
      BY <1>3, <1>4
    <3> QED BY <1>1, <1>2, <1>4, <3>1 DEF Types, entry
  <2>4. Moved(prstate, prstate', {}, "READY")
    BY <2>1 DEF Moved
  <2>5. SleepInv'
    BY <1>1, <1>2, <2>4, SleepMoved DEF Asleep
  <2>6. SemInv'
    BY <1>1, <1>2, <1>4, <2>4, SemMoved
  <2>7. MsgInv'
    BY <1>2, <1>4, <2>4, MsgMoved
  <2>8. KillInv'
    BY <1>1, <1>2, <1>4 DEF KillInv, entry
  <2>9. Buried
    BY <2>4, BuriedMoved
  <2> QED BY <2>2, <2>3, <2>5, <2>6, <2>7, <2>8, <2>9 DEF Good, Inv
<1>5. CASE Made
  <2>1. p \in Pids /\ prstate[p] = "FREE" /\ p + 1 \in 1 .. NPROC
    <3>1. FreeSlots \subseteq Nat
      BY ProcMgrAssumption DEF FreeSlots, Pids
    <3>2. Min(FreeSlots) \in FreeSlots
      BY <1>5, <3>1, MinIsFirst
    <3> QED BY <1>3, <3>1, <3>2 DEF FreeSlots, p
  <2>2. /\ nextpid' = p + 1
        /\ prstate' = [prstate EXCEPT ![p] = "SUSP"]
        /\ prprio' = [prprio EXCEPT ![p] = prio]
        /\ pruser' = [pruser EXCEPT ![p] = user]
        /\ prparent' = [prparent EXCEPT ![p] = currpid]
        /\ prhasmsg' = [prhasmsg EXCEPT ![p] = FALSE]
        /\ prsem' = [prsem EXCEPT ![p] = -1]
        /\ pc' = [pc EXCEPT ![p] = "user"]
        /\ currpid' = currpid /\ readylist' = readylist /\ preempt' = preempt
        /\ sleepq' = sleepq /\ UNCHANGED sems /\ killing' = killing /\ halted' = halted /\ left' = left
    BY <1>1, <1>5
  <2>3. prio \in Int /\ user \in BOOLEAN
    BY ProcMgrAssumption
  <2>4. currpid \in Pids /\ prstate \in [Pids -> States] /\ prstate[currpid] = "CURR"
    BY <1>2, States1
  <2>5. Types'
    BY <1>2, <2>1, <2>2, <2>3, <2>4 DEF Types
  <2>6. \A r \in Pids : /\ prstate'[r] = IF r = p THEN "SUSP" ELSE prstate[r]
                        /\ r # p => prprio'[r] = prprio[r]
                        /\ r # p => prsem'[r] = prsem[r] /\ prhasmsg'[r] = prhasmsg[r]
                                    /\ pc'[r] = pc[r] /\ pruser'[r] = pruser[r]
    BY <1>2, <2>1, <2>2, <2>4 DEF Types
  <2>7. SchedInv'
    <3> DEFINE new == SetState(Sched, p, "SUSP")
    <3>0. SchedOK(Sched) /\ Settled(Sched)
      BY <1>2 DEF SchedInv
    <3>1. p # NULLPROC /\ p # currpid
      BY <2>1, <2>4, <3>0, SchedIs, SchedFields DEF Runnable
    <3>2. "SUSP" \in States /\ "SUSP" \notin Runnable /\ Sched.prstate[p] # "READY"
      BY <2>1, SchedIs DEF States, Runnable
    <3>3. /\ SchedOK(new) /\ new.currpid = Sched.currpid
          /\ \A r \in Pids : new.prstate[r] = IF r = p THEN "SUSP" ELSE Sched.prstate[r]
      BY <2>1, <3>0, <3>1, <3>2, ParkStep
    <3>4. Settled(new)
      BY <2>1, <3>0, <3>1, <3>2, <3>3, SchedIs, ParkSettled
    <3>5. Sched' = new /\ new.readylist = readylist
      BY <2>2 DEF Sched, SetState
    <3> HIDE DEF new
    <3>6. IsQueue(new.readylist) /\ new.prstate[p] = "SUSP"
      BY <2>1, <3>3 DEF SchedOK
    <3>7. \A i \in 1 .. Len(new.readylist) :
             /\ new.readylist[i].pid \in Pids
             /\ prprio'[new.readylist[i].pid] = prprio[new.readylist[i].pid]
      <4>1. \A i \in 1 .. Len(new.readylist) :
               new.readylist[i].pid \in Pids /\ new.readylist[i].pid \in Entries(new.readylist)
        BY <3>6, QueueFacts
      <4>2. p \notin Entries(new.readylist)
        BY <2>1, <3>3, <3>6 DEF SchedOK
      <4> QED BY <2>6, <4>1, <4>2
    <3>8. Ranked(readylist)'
      <4>1. Ranked(readylist)
        BY <3>3, <3>5 DEF SchedOK
      <4> QED BY <2>2, <3>5, <3>7, <4>1 DEF Ranked
    <3>9. SchedOK(Sched)'
      <4>1. Sched'.readylist = readylist'
        BY DEF Sched
      <4> QED BY <3>3, <3>5, <3>8, <4>1 DEF SchedOK, Ranked
    <3>10. Settled(Sched)'
      <4>1. \A r \in Pids : new.prstate[r] \in {"READY", "CURR"} => prprio'[r] = prprio[r]
        BY <2>6, <3>6
      <4>2. new.currpid \in Pids
        BY <2>4, <3>3, SchedIs
      <4> QED BY <3>4, <3>5, <4>1, <4>2 DEF Settled
    <3> QED BY <3>9, <3>10 DEF SchedInv
  <2>8. Moved(prstate, prstate', {p}, "SUSP")
    BY <2>6 DEF Moved
  <2>9. SleepInv'
    <3>1. "SUSP" \notin Asleep /\ prstate[p] \notin Asleep
      BY <2>1 DEF Asleep
    <3>2. sleepq' = sleepq /\ left' = left
      BY <2>2
    <3> QED BY <1>2, <2>8, <3>1, <3>2, SleepMoved
  <2>10. SemInv'
    BY <1>2, <2>1, <2>2, <2>6, SemFrame
  <2>11. MsgInv'
    BY <1>2, <2>1, <2>2, <2>6 DEF MsgInv, Types
  <2>12. KillInv'
    <3>1. killing' = killing
      BY <2>2
    <3>2. ASSUME NoUserProcesses, \A r \in Pids : ~ pruser[r] /\ pc[r] # "kill"
          PROVE  \A r \in Pids : ~ pruser'[r] /\ pc'[r] # "kill"
      <4>1. user = FALSE
        BY <3>2 DEF NoUserProcesses
      <4> QED BY <1>2, <2>2, <3>2, <4>1 DEF Types
    <3> QED BY <1>2, <3>1, <3>2 DEF KillInv, NoUserProcesses
  <2>13. Buried
    BY <2>8, BuriedMoved
  <2> QED BY <2>5, <2>7, <2>9, <2>10, <2>11, <2>12, <2>13 DEF Good, Inv
<1> QED BY <1>1, <1>4, <1>5

-----------------------------------------------------------------------------
(***************************************************************************)
(* Messages and time.                                                      *)
(***************************************************************************)

\* Some have left the sleep queue, the others are due when they were.
LEMMA SleepFewer ==
  ASSUME SleepInv, Delta(sleepq'), Entries(sleepq') = {r \in Pids : prstate'[r] \in Asleep},
         left' \in [Pids -> Nat],
         \A j \in 1 .. Len(sleepq') :
           \E m \in 1 .. Len(sleepq) : /\ sleepq'[j].pid = sleepq[m].pid
                                       /\ Due(sleepq, m) = Due(sleepq', j)
                                       /\ left'[sleepq[m].pid] = left[sleepq[m].pid]
  PROVE  SleepInv'
<1>1. 0 \notin Timeouts =>
        \A m \in 1 .. Len(sleepq) : Due(sleepq, m) = left[sleepq[m].pid] /\ left[sleepq[m].pid] > 0
  BY DEF SleepInv
<1>2. ASSUME 0 \notin Timeouts, NEW j \in 1 .. Len(sleepq')
      PROVE  Due(sleepq', j) = left'[sleepq'[j].pid] /\ left'[sleepq'[j].pid] > 0
  <2>1. PICK m \in 1 .. Len(sleepq) : /\ sleepq'[j].pid = sleepq[m].pid
                                      /\ Due(sleepq, m) = Due(sleepq', j)
                                      /\ left'[sleepq[m].pid] = left[sleepq[m].pid]
    OBVIOUS
  <2> QED BY <1>1, <1>2, <2>1
<1>3. IsQueue(sleepq') /\ \A i \in 1 .. Len(sleepq') : sleepq'[i].key \in Nat
  BY DEF Delta
<1>4. Due(sleepq, 0)' = Due(sleepq', 0)
  BY DEF Due
<1> QED BY <1>2, <1>3 DEF SleepInv, IsQueue, Distinct, Entries, Due

\* What send does to the scheduler and the sleep queue.
SentTo(s, p) == IF s.prstate[p] \in {"RECV", "RECTIM"} THEN {p} ELSE {}
Sent(s, p, u) ==
  /\ SchedOK(u.sched) /\ Settled(u.sched)
  /\ Moved(s.prstate, u.sched.prstate, SentTo(s, p), "READY")
  /\ Delta(u.sleepq) /\ Entries(u.sleepq) = {r \in Pids : u.sched.prstate[r] \in Asleep}
  /\ u.left \in [Pids -> Nat]
  /\ \A j \in 1 .. Len(u.sleepq) :
       \E m \in 1 .. Len(sleepq) : /\ u.sleepq[j].pid = sleepq[m].pid
                                   /\ Due(sleepq, m) = Due(u.sleepq, j)
                                   /\ u.left[sleepq[m].pid] = left[sleepq[m].pid]

\* send to a process that may wait for the message.
LEMMA SendIs ==
  ASSUME NEW s, SchedOK(s), Settled(s), prprio \in [Pids -> Int], SleepInv,
         \A r \in Pids : s.prstate[r] \in Asleep <=> prstate[r] \in Asleep,
         NEW p \in Pids, s.prstate[p] # "FREE", NEW u, u = Send(s, p)
  PROVE  Sent(s, p, u)
<1> DEFINE P == IF s.prstate[p] \in {"RECV", "RECTIM"} THEN {p} ELSE {}
<1>1. /\ u.sched = IF s.prstate[p] \in {"RECV", "RECTIM"} THEN resched(MakeReady(s, p)) ELSE s
      /\ u.sleepq = IF s.prstate[p] = "RECTIM" THEN unsleep(sleepq, p) ELSE sleepq
      /\ u.left = [left EXCEPT ![p] = IF s.prstate[p] = "RECTIM" THEN 0 ELSE @]
  BY DEF Send
<1>2. Delta(sleepq) /\ left \in [Pids -> Nat] /\ Entries(sleepq) = {r \in Pids : prstate[r] \in Asleep}
  BY DEF SleepInv, Delta
<1>2a. Entries(sleepq) = {r \in Pids : s.prstate[r] \in Asleep}
  BY <1>2
<1>3. /\ SchedOK(u.sched) /\ Settled(u.sched)
      /\ Moved(s.prstate, u.sched.prstate, P, "READY")
  <2>1. CASE s.prstate[p] \in {"RECV", "RECTIM"}
    <3>1. u.sched = resched(MakeReady(s, p)) /\ P = {p} /\ s.prstate[p] \notin Runnable
      BY <1>1, <2>1 DEF Runnable
    <3> QED BY <3>1, ReadyStep
  <2>2. CASE s.prstate[p] \notin {"RECV", "RECTIM"}
    <3>1. u.sched = s /\ P = {}
      BY <1>1, <2>2
    <3> QED BY <3>1 DEF Moved
  <2> QED BY <2>1, <2>2
<1>4. u.left \in [Pids -> Nat]
  BY <1>1, <1>2
<1>5. CASE s.prstate[p] = "RECTIM"
  <2>1. p \in Entries(sleepq) /\ u.sleepq = unsleep(sleepq, p) /\ P = {p}
    BY <1>1, <1>2a, <1>5 DEF Asleep
  <2>2. /\ Delta(u.sleepq) /\ Entries(u.sleepq) = Entries(sleepq) \ {p}
        /\ \A j \in 1 .. Len(u.sleepq) :
             \E m \in 1 .. Len(sleepq) : u.sleepq[j].pid = sleepq[m].pid /\ Due(u.sleepq, j) = Due(sleepq, m)
    BY <1>2, <2>1, UnsleepIs
  <2>3. Entries(u.sleepq) = {r \in Pids : u.sched.prstate[r] \in Asleep}
    <3>1. \A r \in Pids : u.sched.prstate[r] \in Asleep <=> (r # p /\ s.prstate[r] \in Asleep)
      BY <1>3, <2>1 DEF Moved, Runnable, Asleep
    <3> QED BY <1>2a, <2>2, <3>1
  <2>4. ASSUME NEW j \in 1 .. Len(u.sleepq)
        PROVE  \E m \in 1 .. Len(sleepq) : /\ u.sleepq[j].pid = sleepq[m].pid
                                           /\ Due(sleepq, m) = Due(u.sleepq, j)
                                           /\ u.left[sleepq[m].pid] = left[sleepq[m].pid]
    <3>1. PICK m \in 1 .. Len(sleepq) : u.sleepq[j].pid = sleepq[m].pid /\ Due(u.sleepq, j) = Due(sleepq, m)
      BY <2>2
    <3>2. u.sleepq[j].pid \in Entries(u.sleepq)
      BY <2>2, QueueFacts DEF Delta
    <3>3. sleepq[m].pid # p /\ sleepq[m].pid \in Pids
      BY <1>2, <2>2, <3>1, <3>2
    <3>4. u.left[sleepq[m].pid] = left[sleepq[m].pid]
      BY <1>1, <1>2, <3>3
    <3> QED BY <3>1, <3>4
  <2> QED BY <1>3, <1>4, <2>2, <2>3, <2>4 DEF Sent, SentTo
<1>6. CASE s.prstate[p] # "RECTIM"
  <2>1. u.sleepq = sleepq /\ u.left = left
    BY <1>1, <1>2, <1>6
  <2>2. \A r \in Pids : u.sched.prstate[r] \in Asleep <=> s.prstate[r] \in Asleep
    BY <1>3, <1>6 DEF Moved, Runnable, Asleep
  <2>3. Entries(u.sleepq) = {r \in Pids : u.sched.prstate[r] \in Asleep}
    BY <1>2a, <2>1, <2>2
  <2> QED BY <1>2, <1>3, <1>4, <2>1, <2>3 DEF Sent, SentTo
<1> QED BY <1>5, <1>6

\* send.
LEMMA SendGood ==
  ASSUME Inv, NEW p \in Pids, send(p)
  PROVE  Good
<1> DEFINE u == Send(Sched, p)
           P == IF prstate[p] \in {"RECV", "RECTIM"} THEN {p} ELSE {}
<1>1. /\ prstate[p] # "FREE" /\ Commit(u.sched) /\ sleepq' = u.sleepq /\ left' = u.left
      /\ prhasmsg' = [prhasmsg EXCEPT ![p] = TRUE]
      /\ UNCHANGED <<entry, prsem, nextpid, sems, pc, killing, halted>>
  BY SchedIs DEF send, CanSend
<1>2. Types /\ SchedInv /\ SleepInv /\ SemInv /\ MsgInv /\ KillInv
  BY DEF Inv
<1>3. SchedOK(Sched) /\ Settled(Sched) /\ prprio \in [Pids -> Int] /\ prprio' = prprio
  BY <1>1, <1>2 DEF SchedInv, Types, entry
<1>4. /\ SchedOK(u.sched) /\ Settled(u.sched)
      /\ Moved(prstate, u.sched.prstate, P, "READY")
      /\ Delta(u.sleepq) /\ Entries(u.sleepq) = {r \in Pids : u.sched.prstate[r] \in Asleep}
      /\ u.left \in [Pids -> Nat]
      /\ \A j \in 1 .. Len(u.sleepq) :
           \E m \in 1 .. Len(sleepq) : /\ u.sleepq[j].pid = sleepq[m].pid
                                       /\ Due(sleepq, m) = Due(u.sleepq, j)
                                       /\ u.left[sleepq[m].pid] = left[sleepq[m].pid]
  <2>1. Sched.prstate[p] # "FREE" /\ P = SentTo(Sched, p)
    BY <1>1, SchedIs DEF SentTo
  <2>2. Sent(Sched, p, u)
    BY <1>2, <1>3, <2>1, SendIs, SchedIs
  <2> HIDE DEF u, P
  <2> QED BY <2>1, <2>2, SchedIs DEF Sent
<1> HIDE DEF u
<1>5. SchedInv' /\ prstate' = u.sched.prstate
  BY <1>1, <1>3, <1>4, CommitStep
<1>6. Moved(prstate, prstate', P, "READY")
  BY <1>4, <1>5
<1>7. SleepInv'
  BY <1>1, <1>2, <1>4, <1>5, SleepFewer
<1> HIDE DEF P
<1>8. Types'
  BY <1>1, <1>2 DEF Types, entry
<1>9. \A r \in Pids : r \in P => r = p /\ prstate[r] \in {"RECV", "RECTIM"}
  BY DEF P
<1>10. SemInv'
  BY <1>1, <1>2, <1>6, <1>9, SemMoved
<1>11. MsgInv'
  <2> SUFFICES ASSUME NEW r \in Pids
               PROVE  /\ prstate'[r] \in {"RECV", "RECTIM"} => ~ prhasmsg'[r]
                      /\ pc[r] = "receive" =>
                           \/ prstate'[r] \in {"READY", "CURR", "SUSP"} /\ prhasmsg'[r]
                           \/ prstate'[r] \in {"RECV", "FREE"}
    BY <1>1 DEF MsgInv
  <2>1. /\ prstate[r] \in {"RECV", "RECTIM"} => ~ prhasmsg[r]
        /\ pc[r] = "receive" => \/ prstate[r] \in {"READY", "CURR", "SUSP"} /\ prhasmsg[r]
                                \/ prstate[r] \in {"RECV", "FREE"}
    BY <1>2 DEF MsgInv
  <2>2. prhasmsg'[r] = IF r = p THEN TRUE ELSE prhasmsg[r]
    BY <1>1, <1>2 DEF Types
  <2>3. CASE r \in P
    <3>1. prstate'[r] \in {"READY", "CURR"} /\ r = p
      BY <1>6, <1>9, <2>3 DEF Moved, Runnable
    <3> QED BY <2>2, <3>1
  <2>4. CASE r \notin P
    <3>1. prstate'[r] = prstate[r] \/ (prstate[r] \in {"READY", "CURR"} /\ prstate'[r] \in {"READY", "CURR"})
      BY <1>6, <2>4 DEF Moved, Runnable
    <3>2. r = p => prstate[r] \notin {"RECV", "RECTIM"}
      BY <2>4 DEF P
    <3> QED BY <2>1, <2>2, <3>1, <3>2
  <2> QED BY <2>3, <2>4
<1>12. KillInv'
  BY <1>1, <1>2 DEF KillInv, entry
<1>13. Buried
  BY <1>6, <1>9, BuriedMoved
<1> QED BY <1>5, <1>7, <1>8, <1>10, <1>11, <1>12, <1>13 DEF Good, Inv

\* The current process blocks, and another is dispatched.
LEMMA BlockIs ==
  ASSUME Types, SchedInv, NEW st \in States, st \notin Runnable, NEW then, Block(st, then),
         currpid # NULLPROC, prprio' = prprio
  PROVE  /\ SchedInv' /\ Moved(prstate, prstate', {currpid}, st)
         /\ pc' = [pc EXCEPT ![currpid] = then]
<1> DEFINE new == resched(SetState(Sched, currpid, st))
<1>1. Commit(new) /\ pc' = [pc EXCEPT ![currpid] = then]
  BY DEF Block
<1>2. SchedOK(Sched) /\ Settled(Sched) /\ prprio \in [Pids -> Int]
  BY DEF SchedInv, Types
<1>3. SchedOK(new) /\ Settled(new) /\ Moved(prstate, new.prstate, {currpid}, st)
  BY <1>2, BlockStep, SchedIs
<1> HIDE DEF new
<1>4. SchedInv' /\ prstate' = new.prstate
  BY <1>1, <1>3, CommitStep
<1> QED BY <1>1, <1>3, <1>4

\* The current process takes its message, or finds none.
LEMMA TakeGood ==
  ASSUME Inv, prhasmsg' = [prhasmsg EXCEPT ![currpid] = FALSE],
         UNCHANGED <<sched, entry, prsem, nextpid, sleepq, sems, killing, halted, left>>,
         pc[currpid] # "receive" \/ pc'[currpid] # "receive",
         pc' = pc \/ pc' = [pc EXCEPT ![currpid] = "user"]
  PROVE  Good
<1>1. prstate' = prstate /\ Sched' = Sched /\ prprio' = prprio /\ pruser' = pruser /\ prparent' = prparent
  BY DEF sched, Sched, entry
<1>2. Types /\ SchedInv /\ SleepInv /\ SemInv /\ MsgInv /\ KillInv
  BY DEF Inv
<1>3. SchedInv'
  BY <1>1, <1>2 DEF SchedInv, SchedOK, Settled, Ranked
<1>4. currpid \in Pids /\ prstate[currpid] = "CURR"
  BY <1>2, States1
<1>5. Types'
  BY <1>1, <1>2, <1>4 DEF Types
<1>6. Moved(prstate, prstate', {}, "READY")
  BY <1>1 DEF Moved
<1>7. SleepInv'
  BY <1>2, <1>6, SleepMoved DEF Asleep
<1>8. SemInv'
  BY <1>2, <1>6, SemMoved
<1>9. \A r \in Pids : /\ pc'[r] = pc[r] \/ (r = currpid /\ pc'[r] = "user")
                      /\ prhasmsg'[r] = IF r = currpid THEN FALSE ELSE prhasmsg[r]
  BY <1>2, <1>4 DEF Types
<1>10. MsgInv'
  BY <1>1, <1>2, <1>4, <1>9 DEF MsgInv
<1>11. KillInv'
  BY <1>1, <1>2, <1>9 DEF KillInv
<1>12. Buried
  BY <1>6, BuriedMoved
<1> QED BY <1>3, <1>5, <1>7, <1>8, <1>10, <1>11, <1>12 DEF Good, Inv

\* The current process begins to wait for a message.
LEMMA WaitMessage ==
  ASSUME Inv, NEW st \in {"RECV", "RECTIM"}, NEW then \in {"receive", "recvtime"},
         then = "receive" => st = "RECV", ~ prhasmsg[currpid],
         Moved(prstate, prstate', {currpid}, st), pc' = [pc EXCEPT ![currpid] = then],
         prhasmsg' = prhasmsg
  PROVE  MsgInv'
<1>1. Types /\ SchedInv /\ MsgInv
  BY DEF Inv
<1>2. currpid \in Pids /\ prstate[currpid] = "CURR"
  BY <1>1, States1
<1> SUFFICES ASSUME NEW r \in Pids
             PROVE  /\ prstate'[r] \in {"RECV", "RECTIM"} => ~ prhasmsg[r]
                    /\ pc'[r] = "receive" =>
                         \/ prstate'[r] \in {"READY", "CURR", "SUSP"} /\ prhasmsg[r]
                         \/ prstate'[r] \in {"RECV", "FREE"}
  BY DEF MsgInv
<1>3. /\ prstate[r] \in {"RECV", "RECTIM"} => ~ prhasmsg[r]
      /\ pc[r] = "receive" => \/ prstate[r] \in {"READY", "CURR", "SUSP"} /\ prhasmsg[r]
                              \/ prstate[r] \in {"RECV", "FREE"}
  BY <1>1 DEF MsgInv
<1>4. pc'[r] = IF r = currpid THEN then ELSE pc[r]
  BY <1>1, <1>2 DEF Types
<1>5. CASE r = currpid
  <2>1. prstate'[r] = st
    BY <1>5 DEF Moved, Runnable
  <2> QED BY <1>4, <1>5, <2>1
<1>6. CASE r # currpid
  <2>1. prstate'[r] = prstate[r] \/ (prstate[r] \in {"READY", "CURR"} /\ prstate'[r] \in {"READY", "CURR"})
    BY <1>6 DEF Moved, Runnable
  <2> QED BY <1>3, <1>4, <1>6, <2>1
<1> QED BY <1>5, <1>6

\* receive.
LEMMA ReceiveGood ==
  ASSUME Inv, receive
  PROVE  Good
<1>1. /\ pc[currpid] = "user" /\ currpid # NULLPROC
      /\ \/ /\ prhasmsg' = [prhasmsg EXCEPT ![currpid] = FALSE]
            /\ UNCHANGED <<sched, pc>>
         \/ /\ ~ prhasmsg[currpid] /\ Block("RECV", "receive") /\ UNCHANGED prhasmsg
      /\ UNCHANGED <<entry, prsem, nextpid, sleepq, sems, killing, halted, left>>
  BY DEF receive, Calls, InUser
<1>2. CASE prhasmsg' = [prhasmsg EXCEPT ![currpid] = FALSE] /\ UNCHANGED <<sched, pc>>
  BY <1>1, <1>2, TakeGood
<1>3. CASE ~ prhasmsg[currpid] /\ Block("RECV", "receive") /\ UNCHANGED prhasmsg
  <2>1. Types /\ SchedInv /\ SleepInv /\ SemInv /\ MsgInv /\ KillInv
    BY DEF Inv
  <2>2. "RECV" \in States /\ "RECV" \notin Runnable /\ prprio' = prprio
    BY <1>1 DEF States, Runnable, entry
  <2>3. /\ SchedInv' /\ Moved(prstate, prstate', {currpid}, "RECV")
        /\ pc' = [pc EXCEPT ![currpid] = "receive"]
    BY <1>1, <1>3, <2>1, <2>2, BlockIs
  <2>4. currpid \in Pids /\ prstate[currpid] = "CURR"
    BY <2>1, States1
  <2>5. Types'
    BY <1>1, <1>3, <2>1, <2>3, <2>4 DEF Types, entry
  <2>6. SleepInv'
    BY <1>1, <2>1, <2>3, <2>4, SleepMoved DEF Asleep
  <2>7. SemInv'
    BY <1>1, <2>1, <2>3, <2>4, SemMoved
  <2>8. MsgInv'
    BY <1>3, <2>3, WaitMessage
  <2>9. KillInv'
    BY <1>1, <2>1, <2>3 DEF KillInv, Types, entry
  <2>10. Buried
    BY <2>3, <2>4, BuriedMoved
  <2> QED BY <2>3, <2>5, <2>6, <2>7, <2>8, <2>9, <2>10 DEF Good, Inv
<1> QED BY <1>1, <1>2, <1>3

\* The current process joins the sleep queue.
LEMMA FallAsleep ==
  ASSUME Types, SchedInv, SleepInv, NEW st \in Asleep, Moved(prstate, prstate', {currpid}, st),
         NEW d \in Nat, 0 \notin Timeouts => d > 0,
         sleepq' = insertd(sleepq, currpid, d), left' = [left EXCEPT ![currpid] = d]
  PROVE  SleepInv'
<1>1. currpid \in Pids /\ prstate[currpid] = "CURR"
  BY States1
<1>2. /\ Delta(sleepq) /\ left \in [Pids -> Nat] /\ IsQueue(sleepq)
      /\ Entries(sleepq) = {p \in Pids : prstate[p] \in Asleep}
      /\ 0 \notin Timeouts =>
           \A m \in 1 .. Len(sleepq) : Due(sleepq, m) = left[sleepq[m].pid] /\ left[sleepq[m].pid] > 0
  BY DEF SleepInv, Delta
<1>3. currpid \notin Entries(sleepq)
  BY <1>1, <1>2 DEF Asleep
<1>4. /\ Delta(sleepq') /\ Entries(sleepq') = Entries(sleepq) \union {currpid}
      /\ \A j \in 1 .. Len(sleepq') :
           \/ sleepq'[j].pid = currpid /\ Due(sleepq', j) = d
           \/ \E m \in 1 .. Len(sleepq) : sleepq'[j].pid = sleepq[m].pid /\ Due(sleepq', j) = Due(sleepq, m)
  BY <1>1, <1>2, <1>3, InsertdIs
<1>5. \A p \in Pids : prstate'[p] \in Asleep <=> (p = currpid \/ prstate[p] \in Asleep)
  BY <1>1 DEF Moved, Asleep, Runnable
<1>6. Entries(sleepq') = {p \in Pids : prstate'[p] \in Asleep}
  BY <1>1, <1>2, <1>4, <1>5
<1>7. left' \in [Pids -> Nat] /\ \A p \in Pids : left'[p] = IF p = currpid THEN d ELSE left[p]
  BY <1>1, <1>2
<1>8. ASSUME 0 \notin Timeouts, NEW j \in 1 .. Len(sleepq')
      PROVE  Due(sleepq', j) = left'[sleepq'[j].pid] /\ left'[sleepq'[j].pid] > 0
  <2>1. CASE sleepq'[j].pid = currpid /\ Due(sleepq', j) = d
    BY <1>1, <1>7, <1>8, <2>1
  <2>2. CASE \E m \in 1 .. Len(sleepq) : sleepq'[j].pid = sleepq[m].pid /\ Due(sleepq', j) = Due(sleepq, m)
    <3>1. PICK m \in 1 .. Len(sleepq) : sleepq'[j].pid = sleepq[m].pid /\ Due(sleepq', j) = Due(sleepq, m)
      BY <2>2
    <3>2. sleepq[m].pid \in Entries(sleepq) /\ sleepq[m].pid \in Pids
      BY <1>2, QueueFacts
    <3>3. sleepq[m].pid # currpid
      BY <1>3, <3>2
    <3> QED BY <1>2, <1>7, <1>8, <3>1, <3>2, <3>3
  <2> QED BY <1>4, <2>1, <2>2
<1>9. IsQueue(sleepq') /\ \A i \in 1 .. Len(sleepq') : sleepq'[i].key \in Nat
  BY <1>4 DEF Delta
<1> QED BY <1>6, <1>7, <1>8, <1>9 DEF SleepInv, IsQueue, Distinct, Entries, Due

\* recvtime.
LEMMA RecvtimeGood ==
  ASSUME Inv, NEW maxwait \in Timeouts, recvtime(maxwait)
  PROVE  Good
<1>1. /\ pc[currpid] = "user" /\ currpid # NULLPROC
      /\ \/ /\ prhasmsg' = [prhasmsg EXCEPT ![currpid] = FALSE]
            /\ UNCHANGED <<sched, pc, sleepq, left>>
         \/ /\ ~ prhasmsg[currpid] /\ Block("RECTIM", "recvtime") /\ UNCHANGED prhasmsg
            /\ sleepq' = insertd(sleepq, currpid, maxwait)
            /\ left' = [left EXCEPT ![currpid] = maxwait]
      /\ UNCHANGED <<entry, prsem, nextpid, sems, killing, halted>>
  BY DEF recvtime, Calls, InUser
<1>2. CASE prhasmsg' = [prhasmsg EXCEPT ![currpid] = FALSE] /\ UNCHANGED <<sched, pc, sleepq, left>>
  BY <1>1, <1>2, TakeGood
<1>3. CASE /\ ~ prhasmsg[currpid] /\ Block("RECTIM", "recvtime") /\ UNCHANGED prhasmsg
           /\ sleepq' = insertd(sleepq, currpid, maxwait)
           /\ left' = [left EXCEPT ![currpid] = maxwait]
  <2>1. Types /\ SchedInv /\ SleepInv /\ SemInv /\ MsgInv /\ KillInv
    BY DEF Inv
  <2>2. "RECTIM" \in States /\ "RECTIM" \notin Runnable /\ prprio' = prprio
    BY <1>1 DEF States, Runnable, entry
  <2>3. /\ SchedInv' /\ Moved(prstate, prstate', {currpid}, "RECTIM")
        /\ pc' = [pc EXCEPT ![currpid] = "recvtime"]
    BY <1>1, <1>3, <2>1, <2>2, BlockIs
  <2>4. currpid \in Pids /\ prstate[currpid] = "CURR"
    BY <2>1, States1
  <2>5. Types'
    BY <1>1, <1>3, <2>1, <2>3, <2>4 DEF Types, entry
  <2>6. SleepInv'
    <3>1. maxwait \in Nat /\ (0 \notin Timeouts => maxwait > 0)
      BY ProcMgrAssumption
    <3> QED BY <1>3, <2>1, <2>3, <3>1, FallAsleep DEF Asleep
  <2>7. SemInv'
    BY <1>1, <2>1, <2>3, <2>4, SemMoved
  <2>8. MsgInv'
    BY <1>3, <2>3, WaitMessage
  <2>9. KillInv'
    BY <1>1, <2>1, <2>3 DEF KillInv, Types, entry
  <2>10. Buried
    BY <2>3, <2>4, BuriedMoved
  <2> QED BY <2>3, <2>5, <2>6, <2>7, <2>8, <2>9, <2>10 DEF Good, Inv
<1> QED BY <1>1, <1>2, <1>3

\* sleepms.
LEMMA SleepmsGood ==
  ASSUME Inv, NEW delay \in Delays, sleepms(delay)
  PROVE  Good
<1>1. /\ pc[currpid] = "user" /\ currpid # NULLPROC /\ Block("SLEEP", "user")
      /\ sleepq' = insertd(sleepq, currpid, delay)
      /\ left' = [left EXCEPT ![currpid] = delay]
      /\ UNCHANGED <<entry, prhasmsg, prsem, nextpid, sems, killing, halted>>
  BY DEF sleepms, Calls, InUser
<1>2. Types /\ SchedInv /\ SleepInv /\ SemInv /\ MsgInv /\ KillInv
  BY DEF Inv
<1>3. "SLEEP" \in States /\ "SLEEP" \notin Runnable /\ prprio' = prprio
  BY <1>1 DEF States, Runnable, entry
<1>4. SchedInv' /\ Moved(prstate, prstate', {currpid}, "SLEEP") /\ pc' = [pc EXCEPT ![currpid] = "user"]
  BY <1>1, <1>2, <1>3, BlockIs
<1>5. currpid \in Pids /\ prstate[currpid] = "CURR"
  BY <1>2, States1
<1>5a. pc' = pc
  BY <1>1, <1>2, <1>4, <1>5 DEF Types
<1>6. Types'
  BY <1>1, <1>2, <1>5a DEF Types, entry
<1>7. SleepInv'
  <2>1. delay \in Nat /\ delay > 0
    BY ProcMgrAssumption
  <2> QED BY <1>1, <1>2, <1>4, <2>1, FallAsleep DEF Asleep
<1>8. SemInv'
  BY <1>1, <1>2, <1>4, <1>5, SemMoved
<1>9. MsgInv'
  BY <1>1, <1>2, <1>4, <1>5a, MsgMoved
<1>10. KillInv'
  BY <1>1, <1>2, <1>5a DEF KillInv, entry
<1>11. Buried
  BY <1>4, <1>5, BuriedMoved
<1> QED BY <1>4, <1>6, <1>7, <1>8, <1>9, <1>10, <1>11 DEF Good, Inv

\* The end of receive or recvtime.
LEMMA ReceiveReturnGood ==
  ASSUME Inv, ReceiveReturn
  PROVE  Good
<1>1. Types /\ SchedInv
  BY DEF Inv
<1>2. currpid \in Pids
  BY <1>1, States1
<1>3. pc'[currpid] # "receive"
  BY <1>1, <1>2 DEF ReceiveReturn, Types
<1> QED BY <1>3, TakeGood DEF ReceiveReturn

\* recvclr.
LEMMA RecvclrGood ==
  ASSUME Inv, recvclr
  PROVE  Good
BY TakeGood DEF recvclr, Calls, InUser

\* What is left of the sleep queue after a tick, when the due have moved on.
LEMMA TickSleep ==
  ASSUME SleepInv, NEW e, e = Ticked(sleepq), NEW n, n = Overdue(e), Suffix(e, n, sleepq'),
         NEW P, P = {e[i].pid : i \in 1 .. n}, Moved(prstate, prstate', P, "READY"),
         left' = [p \in Pids |-> IF On(sleepq, p) /\ left[p] > 0 THEN left[p] - 1 ELSE left[p]]
  PROVE  SleepInv'
<1>1. /\ Delta(sleepq) /\ left \in [Pids -> Nat] /\ IsQueue(sleepq)
      /\ Entries(sleepq) = {p \in Pids : prstate[p] \in Asleep}
      /\ 0 \notin Timeouts =>
           \A m \in 1 .. Len(sleepq) : Due(sleepq, m) = left[sleepq[m].pid] /\ left[sleepq[m].pid] > 0
  BY DEF SleepInv, Delta
<1>2. /\ Delta(sleepq')
      /\ \A r : r \in Entries(sleepq') <=> r \in Entries(sleepq) /\ \A j \in 1 .. n : e[j].pid # r
      /\ (\A i \in 1 .. Len(sleepq) : Due(sleepq, i) > 0) =>
           \A j \in 1 .. Len(sleepq') :
             \E m \in 1 .. Len(sleepq) : /\ sleepq'[j].pid = sleepq[m].pid
                                         /\ Due(sleepq', j) = Due(sleepq, m) - 1 /\ Due(sleepq', j) > 0
  BY <1>1, TickIs
<1>3. \A r : r \in P <=> \E j \in 1 .. n : e[j].pid = r
  OBVIOUS
<1>4. \A r \in Pids : prstate'[r] \in Asleep <=> (prstate[r] \in Asleep /\ r \notin P)
  BY DEF Moved, Asleep, Runnable
<1>5. \A r : r \in Entries(sleepq') <=> r \in {p \in Pids : prstate'[p] \in Asleep}
  BY <1>1, <1>2, <1>3, <1>4
<1>6. Entries(sleepq') = {p \in Pids : prstate'[p] \in Asleep}
  BY <1>5
<1>7. \A m \in 1 .. Len(sleepq) : sleepq[m].pid \in Pids /\ On(sleepq, sleepq[m].pid)
  BY <1>1, IndexFacts, QueueFacts
<1>8. left' \in [Pids -> Nat]
  BY <1>1
<1>9. ASSUME 0 \notin Timeouts, NEW j \in 1 .. Len(sleepq')
      PROVE  Due(sleepq', j) = left'[sleepq'[j].pid] /\ left'[sleepq'[j].pid] > 0
  <2>1. \A i \in 1 .. Len(sleepq) : Due(sleepq, i) > 0
    BY <1>1, <1>9
  <2>2. PICK m \in 1 .. Len(sleepq) : /\ sleepq'[j].pid = sleepq[m].pid
                                      /\ Due(sleepq', j) = Due(sleepq, m) - 1 /\ Due(sleepq', j) > 0
    BY <1>2, <2>1
  <2>3. left'[sleepq[m].pid] = left[sleepq[m].pid] - 1
    BY <1>1, <1>7, <1>9
  <2> QED BY <1>1, <1>9, <2>2, <2>3
<1>10. IsQueue(sleepq') /\ \A i \in 1 .. Len(sleepq') : sleepq'[i].key \in Nat
  BY <1>2 DEF Delta
<1> QED BY <1>6, <1>8, <1>9, <1>10 DEF SleepInv, IsQueue, Distinct, Entries, Due

\* A clock interrupt.
LEMMA ClkhandlerGood ==
  ASSUME Inv, clkhandler
  PROVE  Good
<1> DEFINE e == Ticked(sleepq)
           n == Overdue(e)
           ps == [i \in 1 .. n |-> e[i].pid]
           woken == ReadyAll(Sched, ps)
           P == {e[i].pid : i \in 1 .. n}
<1>1. /\ pc[currpid] = "user" /\ sleepq' = SubSeq(e, n + 1, Len(e))
      /\ \/ woken.currpid = currpid /\ Commit(EndTick(woken)) /\ UNCHANGED pc
         \/ Commit(woken) /\ pc' = [pc EXCEPT ![currpid] = "clkhandler"]
      /\ left' = [p \in Pids |-> IF On(sleepq, p) /\ left[p] > 0 THEN left[p] - 1 ELSE left[p]]
      /\ UNCHANGED <<entry, prhasmsg, prsem, nextpid, sems, killing, halted>>
  BY DEF clkhandler, InUser, Ticked
<1>2. Types /\ SchedInv /\ SleepInv /\ SemInv /\ MsgInv /\ KillInv
  BY DEF Inv
<1>3. /\ Delta(sleepq) /\ Entries(sleepq) = {p \in Pids : prstate[p] \in Asleep}
  BY <1>2 DEF SleepInv, Delta
<1>4. IsQueue(e) /\ Len(e) = Len(sleepq) /\ Entries(e) = Entries(sleepq)
  BY <1>3, TickedIs
<1>5. n \in 0 .. Len(e) /\ Len(e) \in Nat
  BY <1>4, OverdueIs, QueueFacts
<1> HIDE DEF e
<1>6. Suffix(e, n, sleepq')
  BY <1>1, <1>4, <1>5, SuffixTaken
<1> HIDE DEF n
<1>7. \A i \in 1 .. n : i \in 1 .. Len(e) /\ e[i].pid \in Pids /\ prstate[e[i].pid] \in Asleep
  <2>1. \A i \in 1 .. n : i \in 1 .. Len(e)
    BY <1>5
  <2>2. \A i \in 1 .. Len(e) : e[i].pid \in Entries(e)
    BY <1>4, QueueFacts
  <2> QED BY <1>3, <1>4, <2>1, <2>2
<1>8. /\ ps \in Seq(Pids) /\ Len(ps) = n
      /\ \A i \in 1 .. n : ps[i] = e[i].pid
  BY <1>5, <1>7
<1>9. Sleepers(Sched, ps) /\ {ps[i] : i \in 1 .. Len(ps)} = P
  <2>1. \A i, j \in 1 .. n : ps[i] = ps[j] => i = j
    BY <1>4, <1>7, <1>8, QueueFacts
  <2>2. \A i \in 1 .. n : prstate[ps[i]] \notin Runnable /\ prstate[ps[i]] # "FREE"
    BY <1>7, <1>8 DEF Asleep, Runnable
  <2>3. {ps[i] : i \in 1 .. n} = P
    BY <1>8
  <2> HIDE DEF ps
  <2> QED BY <1>8, <2>1, <2>2, <2>3, SchedIs DEF Sleepers
<1> HIDE DEF ps, P
<1>10. SchedOK(Sched) /\ Settled(Sched) /\ prprio \in [Pids -> Int] /\ prprio' = prprio
  BY <1>1, <1>2 DEF SchedInv, Types, entry
<1>11. SchedOK(woken) /\ Settled(woken) /\ Moved(prstate, woken.prstate, P, "READY")
  BY <1>9, <1>10, ReadyAllStep, SchedIs
<1> HIDE DEF woken
<1>12. SchedInv' /\ Moved(prstate, prstate', P, "READY")
  <2>1. CASE Commit(woken)
    BY <1>10, <1>11, <2>1, CommitStep
  <2>2. CASE Commit(EndTick(woken))
    <3> DEFINE new == EndTick(woken)
    <3>1. SchedOK(new) /\ Settled(new) /\ Moved(woken.prstate, new.prstate, {}, "READY")
      BY <1>10, <1>11, EndTickStep
    <3> HIDE DEF new
    <3>2. Moved(prstate, new.prstate, P, "READY")
      <4>1. \A p \in Pids : \/ new.prstate[p] = woken.prstate[p]
                            \/ woken.prstate[p] \in Runnable /\ new.prstate[p] \in Runnable
        BY <3>1 DEF Moved
      <4> QED BY <1>11, <4>1, MovedThen
    <3>3. SchedInv' /\ prstate' = new.prstate
      BY <1>10, <2>2, <3>1, CommitStep DEF new
    <3> QED BY <3>2, <3>3
  <2> QED BY <1>1, <2>1, <2>2
<1>13. SleepInv'
  <2>1. P = {e[i].pid : i \in 1 .. n}
    BY DEF P
  <2> QED BY <1>1, <1>2, <1>6, <1>12, <2>1, TickSleep DEF e, n
<1>14. \A r \in Pids : r \in P => prstate[r] \in Asleep
  BY <1>7 DEF P
<1>15. currpid \in Pids /\ prstate[currpid] = "CURR"
  BY <1>2, States1
<1>16. pc' = pc \/ pc' = [pc EXCEPT ![currpid] = "clkhandler"]
  BY <1>1
<1>17. Types'
  BY <1>1, <1>2, <1>16 DEF Types, entry
<1>18. SemInv'
  BY <1>1, <1>2, <1>12, <1>14, SemMoved DEF Asleep
<1>19. MsgInv'
  <2> SUFFICES ASSUME NEW r \in Pids
               PROVE  /\ prstate'[r] \in {"RECV", "RECTIM"} => ~ prhasmsg[r]
                      /\ pc'[r] = "receive" =>
                           \/ prstate'[r] \in {"READY", "CURR", "SUSP"} /\ prhasmsg[r]
                           \/ prstate'[r] \in {"RECV", "FREE"}
    BY <1>1 DEF MsgInv
  <2>1. /\ prstate[r] \in {"RECV", "RECTIM"} => ~ prhasmsg[r]
        /\ pc[r] = "receive" => \/ prstate[r] \in {"READY", "CURR", "SUSP"} /\ prhasmsg[r]
                                \/ prstate[r] \in {"RECV", "FREE"}
    BY <1>2 DEF MsgInv
  <2>2. pc'[r] = "receive" => pc[r] = "receive"
    BY <1>2, <1>15, <1>16 DEF Types
  <2>3. CASE r \in P
    <3>1. prstate'[r] \in {"READY", "CURR"} /\ prstate[r] \in {"SLEEP", "RECTIM"}
      BY <1>12, <1>14, <2>3 DEF Moved, Runnable, Asleep
    <3> QED BY <2>1, <2>2, <3>1
  <2>4. CASE r \notin P
    <3>1. prstate'[r] = prstate[r] \/ (prstate[r] \in {"READY", "CURR"} /\ prstate'[r] \in {"READY", "CURR"})
      BY <1>12, <2>4 DEF Moved, Runnable
    <3> QED BY <2>1, <2>2, <3>1
  <2> QED BY <2>3, <2>4
<1>20. KillInv'
  <2>1. \A r \in Pids : pc'[r] = "kill" => pc[r] = "kill"
    BY <1>2, <1>15, <1>16 DEF Types
  <2> QED BY <1>1, <1>2, <2>1 DEF KillInv, entry
<1>21. Buried
  BY <1>12, <1>14, BuriedMoved DEF Asleep
<1> QED BY <1>12, <1>13, <1>17, <1>18, <1>19, <1>20, <1>21 DEF Good, Inv

-----------------------------------------------------------------------------
(***************************************************************************)
(* Semaphores.                                                             *)
(***************************************************************************)

\* semcreate.
LEMMA SemcreateGood ==
  ASSUME Inv, NEW count \in Counts, semcreate(count)
  PROVE  Good
<1> DEFINE s == SemSlot(Min(FreeSems))
<1>1. /\ FreeSems # {}
      /\ sstate' = [sstate EXCEPT ![s] = "S_USED"]
      /\ scount' = [scount EXCEPT ![s] = count]
      /\ nextsem' = (s + 1) % NSEM
      /\ UNCHANGED <<sched, entry, prhasmsg, prsem, nextpid, sleepq, squeue, pc, killing, halted, left>>
  BY DEF semcreate
<1>2. Types /\ SchedInv /\ SleepInv /\ SemInv /\ MsgInv /\ KillInv
  BY DEF Inv
<1>3. NSEM \in Nat \ {0} /\ FreeSems \subseteq Nat /\ nextsem \in Nat
  <2>1. NSEM \in Nat /\ FreeSems \subseteq 0 .. (NSEM - 1)
    BY ProcMgrAssumption DEF FreeSems, Sems
  <2>2. nextsem \in 0 .. NSEM
    BY <1>2 DEF SemInv
  <2>3. PICK i : i \in FreeSems
    BY <1>1
  <2>4. i \in 0 .. (NSEM - 1)
    BY <2>1, <2>3
  <2> HIDE DEF s
  <2> QED BY <2>1, <2>2, <2>4
<1>4. s \in Sems /\ sstate[s] = "S_FREE"
  <2>1. Min(FreeSems) \in FreeSems
    BY <1>1, <1>3, MinIsFirst
  <2>2. Min(FreeSems) \in Nat
    BY <1>3, <2>1
  <2>3. s \in 0 .. (NSEM - 1)
    BY <1>3, <2>2, SlotRange DEF SemSlot
  <2> QED BY <2>1, <2>3 DEF FreeSems, Sems
<1> HIDE DEF s
<1>5. count \in Nat
  BY ProcMgrAssumption
<1>6. nextsem' \in 0 .. NSEM
  <2>1. s \in Nat
    BY <1>3, <1>4 DEF Sems
  <2>2. (s + 1) % NSEM \in 0 .. (NSEM - 1)
    BY <1>3, <2>1, SlotRange
  <2> QED BY <1>1, <1>3, <2>2
<1>7. prstate' = prstate /\ Sched' = Sched /\ prprio' = prprio
  BY <1>1 DEF sched, Sched, entry
<1>8. SchedInv'
  BY <1>2, <1>7 DEF SchedInv, SchedOK, Settled, Ranked
<1>9. Moved(prstate, prstate', {}, "READY")
  BY <1>7 DEF Moved
<1>10. SemInv'
  <2>1. /\ sstate \in [Sems -> {"S_FREE", "S_USED"}] /\ scount \in [Sems -> Int]
        /\ squeue \in [Sems -> Seq(Nodes)]
        /\ \A m \in Sems :
             /\ IsQueue(squeue[m])
             /\ Entries(squeue[m]) = {p \in Pids : prstate[p] = "WAIT" /\ prsem[p] = m}
             /\ Len(squeue[m]) = IF scount[m] < 0 THEN - scount[m] ELSE 0
             /\ sstate[m] = "S_FREE" => scount[m] >= 0
        /\ \A p \in Pids : prstate[p] = "WAIT" => prsem[p] \in Sems
    BY <1>2 DEF SemInv
  <2>2. squeue' = squeue /\ prsem' = prsem
    BY <1>1
  <2>3. sstate' \in [Sems -> {"S_FREE", "S_USED"}] /\ scount' \in [Sems -> Int]
    BY <1>1, <1>4, <1>5, <2>1
  <2>4. \A m \in Sems : /\ sstate'[m] = IF m = s THEN "S_USED" ELSE sstate[m]
                        /\ scount'[m] = IF m = s THEN count ELSE scount[m]
    BY <1>1, <1>4, <2>1
  <2>5. \A m \in Sems : /\ Len(squeue[m]) = IF scount'[m] < 0 THEN - scount'[m] ELSE 0
                        /\ sstate'[m] = "S_FREE" => scount'[m] >= 0
    BY <1>4, <1>5, <2>1, <2>4
  <2>6. \A m \in Sems : Entries(squeue'[m]) = {p \in Pids : prstate'[p] = "WAIT" /\ prsem'[p] = m}
    BY <1>7, <2>1, <2>2
  <2> QED BY <1>6, <1>7, <2>1, <2>2, <2>3, <2>5, <2>6 DEF SemInv
<1>11. Types'
  BY <1>1, <1>2 DEF Types, entry
<1>12. SleepInv'
  BY <1>1, <1>2, <1>9, SleepMoved DEF Asleep
<1>13. MsgInv'
  BY <1>1, <1>2, <1>9, MsgMoved
<1>14. KillInv'
  BY <1>1, <1>2 DEF KillInv, entry
<1>15. Buried
  BY <1>9, BuriedMoved
<1> QED BY <1>8, <1>10, <1>11, <1>12, <1>13, <1>14, <1>15 DEF Good, Inv

\* wait.
LEMMA WaitGood ==
  ASSUME Inv, NEW s \in Sems, wait(s)
  PROVE  Good
<1>1. /\ pc[currpid] = "user" /\ currpid # NULLPROC /\ sstate[s] = "S_USED"
      /\ scount' = [scount EXCEPT ![s] = @ - 1]
      /\ \/ scount[s] > 0 /\ UNCHANGED <<sched, prsem, squeue, pc>>
         \/ /\ scount[s] <= 0
            /\ prsem' = [prsem EXCEPT ![currpid] = s]
            /\ squeue' = [squeue EXCEPT ![s] = Append(@, Node(currpid, 0))]
            /\ Block("WAIT", "user")
      /\ UNCHANGED <<entry, prhasmsg, nextpid, sleepq, sstate, nextsem, killing, halted, left>>
  BY DEF wait, Calls, InUser
<1>2. Types /\ SchedInv /\ SleepInv /\ SemInv /\ MsgInv /\ KillInv
  BY DEF Inv
<1>3. /\ sstate \in [Sems -> {"S_FREE", "S_USED"}] /\ scount \in [Sems -> Int]
      /\ squeue \in [Sems -> Seq(Nodes)] /\ nextsem \in 0 .. NSEM
      /\ \A m \in Sems :
           /\ IsQueue(squeue[m])
           /\ Entries(squeue[m]) = {p \in Pids : prstate[p] = "WAIT" /\ prsem[p] = m}
           /\ Len(squeue[m]) = IF scount[m] < 0 THEN - scount[m] ELSE 0
           /\ sstate[m] = "S_FREE" => scount[m] >= 0
      /\ \A p \in Pids : prstate[p] = "WAIT" => prsem[p] \in Sems
  BY <1>2 DEF SemInv
<1>4. /\ scount' \in [Sems -> Int]
      /\ \A m \in Sems : scount'[m] = IF m = s THEN scount[m] - 1 ELSE scount[m]
  BY <1>1, <1>3
<1>5. CASE scount[s] > 0 /\ UNCHANGED <<sched, prsem, squeue, pc>>
  <2>1. prstate' = prstate /\ Sched' = Sched /\ prprio' = prprio /\ squeue' = squeue /\ prsem' = prsem
    BY <1>1, <1>5 DEF sched, Sched, entry
  <2>2. SchedInv'
    BY <1>2, <2>1 DEF SchedInv, SchedOK, Settled, Ranked
  <2>3. Moved(prstate, prstate', {}, "READY")
    BY <2>1 DEF Moved
  <2>4. \A m \in Sems : /\ Len(squeue[m]) = IF scount'[m] < 0 THEN - scount'[m] ELSE 0
                        /\ sstate[m] = "S_FREE" => scount'[m] >= 0
    BY <1>1, <1>3, <1>4, <1>5
  <2>5. \A m \in Sems : Entries(squeue'[m]) = {p \in Pids : prstate'[p] = "WAIT" /\ prsem'[p] = m}
    BY <1>3, <2>1
  <2>6. SemInv'
    BY <1>1, <1>3, <1>4, <2>1, <2>4, <2>5 DEF SemInv
  <2>7. Types'
    BY <1>1, <1>2, <1>5 DEF Types, entry
  <2>8. SleepInv'
    BY <1>1, <1>2, <2>3, SleepMoved DEF Asleep
  <2>9. MsgInv'
    BY <1>1, <1>2, <1>5, <2>3, MsgMoved
  <2>10. KillInv'
    BY <1>1, <1>2, <1>5 DEF KillInv, entry
  <2>11. Buried
    BY <2>3, BuriedMoved
  <2> QED BY <2>2, <2>6, <2>7, <2>8, <2>9, <2>10, <2>11 DEF Good, Inv
<1>6. CASE /\ scount[s] <= 0
           /\ prsem' = [prsem EXCEPT ![currpid] = s]
           /\ squeue' = [squeue EXCEPT ![s] = Append(@, Node(currpid, 0))]
           /\ Block("WAIT", "user")
  <2>1. "WAIT" \in States /\ "WAIT" \notin Runnable /\ prprio' = prprio
    BY <1>1 DEF States, Runnable, entry
  <2>2. SchedInv' /\ Moved(prstate, prstate', {currpid}, "WAIT") /\ pc' = [pc EXCEPT ![currpid] = "user"]
    BY <1>1, <1>2, <1>6, <2>1, BlockIs
  <2>3. currpid \in Pids /\ prstate[currpid] = "CURR"
    BY <1>2, States1
  <2>4. pc' = pc
    BY <1>1, <1>2, <2>2, <2>3 DEF Types
  <2>5. \A p \in Pids : /\ prsem'[p] = IF p = currpid THEN s ELSE prsem[p]
                        /\ prstate'[p] = "WAIT" <=> (p = currpid \/ prstate[p] = "WAIT")
    BY <1>2, <1>6, <2>2, <2>3 DEF Types, Moved, Runnable
  <2>6. Types'
    <3>1. prsem' \in [Pids -> Sems \cup {-1}]
      BY <1>2, <1>6, <2>3 DEF Types
    <3> QED BY <1>1, <1>2, <2>4, <3>1 DEF Types, entry
  <2> DEFINE q == Append(squeue[s], Node(currpid, 0))
  <2>7. /\ IsQueue(q) /\ Entries(q) = Entries(squeue[s]) \union {currpid} /\ Len(q) = Len(squeue[s]) + 1
        /\ q \in Seq(Nodes)
    <3>1. currpid \notin Entries(squeue[s]) /\ IsQueue(squeue[s])
      BY <1>3, <2>3
    <3>2. IsQueue(q) /\ Entries(q) = Entries(squeue[s]) \union {currpid} /\ Len(q) = Len(squeue[s]) + 1
      BY <2>3, <3>1, AppendQueue
    <3> QED BY <3>2, QueueFacts
  <2> HIDE DEF q
  <2>8. squeue' = [squeue EXCEPT ![s] = q]
    BY <1>6 DEF q
  <2>9. squeue' \in [Sems -> Seq(Nodes)] /\ \A m \in Sems : squeue'[m] = IF m = s THEN q ELSE squeue[m]
    BY <1>3, <2>7, <2>8
  <2>10. ASSUME NEW m \in Sems
         PROVE  /\ IsQueue(squeue'[m])
                /\ Entries(squeue'[m]) = {p \in Pids : prstate'[p] = "WAIT" /\ prsem'[p] = m}
                /\ Len(squeue'[m]) = IF scount'[m] < 0 THEN - scount'[m] ELSE 0
                /\ sstate[m] = "S_FREE" => scount'[m] >= 0
    <3>1. CASE m = s
      <4>1. Entries(q) = {p \in Pids : prstate'[p] = "WAIT" /\ prsem'[p] = s}
        <5>1. Entries(squeue[s]) = {p \in Pids : prstate[p] = "WAIT" /\ prsem[p] = s}
              /\ Entries(q) = Entries(squeue[s]) \union {currpid}
          BY <1>3, <2>7
        <5> QED BY <2>3, <2>5, <5>1
      <4>2. Len(q) = IF scount'[s] < 0 THEN - scount'[s] ELSE 0
        <5>1. /\ Len(squeue[s]) = IF scount[s] < 0 THEN - scount[s] ELSE 0
              /\ Len(q) = Len(squeue[s]) + 1 /\ scount[s] \in Int
          BY <1>3, <2>7
        <5>2. scount'[s] = scount[s] - 1 /\ scount[s] <= 0
          BY <1>4, <1>6
        <5> QED BY <5>1, <5>2
      <4> QED BY <1>1, <2>7, <2>9, <3>1, <4>1, <4>2
    <3>2. CASE m # s
      <4>1. {p \in Pids : prstate'[p] = "WAIT" /\ prsem'[p] = m}
              = {p \in Pids : prstate[p] = "WAIT" /\ prsem[p] = m}
        BY <2>3, <2>5, <3>2
      <4> QED BY <1>3, <1>4, <2>9, <3>2, <4>1
    <3> QED BY <3>1, <3>2
  <2>11. \A p \in Pids : prstate'[p] = "WAIT" => prsem'[p] \in Sems
    BY <1>3, <2>5
  <2>12. SemInv'
    BY <1>1, <1>3, <1>4, <2>9, <2>10, <2>11 DEF SemInv
  <2>13. SleepInv'
    BY <1>1, <1>2, <2>2, <2>3, SleepMoved DEF Asleep
  <2>14. MsgInv'
    BY <1>1, <1>2, <2>2, <2>3, <2>4, MsgMoved
  <2>15. KillInv'
    BY <1>1, <1>2, <2>4 DEF KillInv, entry
  <2>16. Buried
    BY <2>2, <2>3, BuriedMoved
  <2> QED BY <2>2, <2>6, <2>12, <2>13, <2>14, <2>15, <2>16 DEF Good, Inv
<1> QED BY <1>1, <1>5, <1>6

\* Some that wait for s are released in order, and the count says how many are left.
LEMMA ReleaseGood ==
  ASSUME Inv, NEW s \in Sems, NEW n \in 0 .. Len(squeue[s]),
         NEW out, out = [i \in 1 .. n |-> squeue[s][i].pid],
         NEW t, Suffix(squeue[s], n, t), squeue' = [squeue EXCEPT ![s] = t],
         NEW c \in Int, scount' = [scount EXCEPT ![s] = c],
         Len(squeue[s]) - n = IF c < 0 THEN - c ELSE 0,
         NEW st \in {"S_FREE", "S_USED"}, sstate' = [sstate EXCEPT ![s] = st], st = "S_FREE" => c >= 0,
         Commit(ReadyAll(Sched, out)),
         UNCHANGED <<entry, prhasmsg, prsem, nextpid, sleepq, nextsem, pc, killing, halted, left>>
  PROVE  Good
<1> DEFINE q == squeue[s]
           P == {q[i].pid : i \in 1 .. n}
           new == ReadyAll(Sched, out)
<1>1. Types /\ SchedInv /\ SleepInv /\ SemInv /\ MsgInv /\ KillInv
  BY DEF Inv
<1>2. /\ sstate \in [Sems -> {"S_FREE", "S_USED"}] /\ scount \in [Sems -> Int]
      /\ squeue \in [Sems -> Seq(Nodes)] /\ nextsem \in 0 .. NSEM
      /\ \A m \in Sems :
           /\ IsQueue(squeue[m])
           /\ Entries(squeue[m]) = {p \in Pids : prstate[p] = "WAIT" /\ prsem[p] = m}
           /\ Len(squeue[m]) = IF scount[m] < 0 THEN - scount[m] ELSE 0
           /\ sstate[m] = "S_FREE" => scount[m] >= 0
      /\ \A p \in Pids : prstate[p] = "WAIT" => prsem[p] \in Sems
  BY <1>1 DEF SemInv
<1>3. /\ IsQueue(q) /\ Len(q) \in Nat
      /\ Entries(q) = {p \in Pids : prstate[p] = "WAIT" /\ prsem[p] = s}
  BY <1>2, QueueFacts
<1>4. n \in Nat /\ n \in 0 .. Len(q)
  BY <1>3
<1>5. Suffix(q, n, t) /\ out = [i \in 1 .. n |-> q[i].pid] /\ Len(q) - n = IF c < 0 THEN - c ELSE 0
  OBVIOUS
<1> HIDE DEF q
<1>6. \A i \in 1 .. n : i \in 1 .. Len(q) /\ q[i].pid \in Pids /\ prstate[q[i].pid] = "WAIT"
                        /\ prsem[q[i].pid] = s
  <2>1. \A i \in 1 .. n : i \in 1 .. Len(q)
    BY <1>3, <1>4
  <2>2. \A i \in 1 .. Len(q) : q[i].pid \in Entries(q)
    BY <1>3, QueueFacts
  <2> QED BY <1>3, <2>1, <2>2
<1>7. /\ out \in Seq(Pids) /\ Len(out) = n
      /\ \A i \in 1 .. n : out[i] = q[i].pid
  BY <1>4, <1>5, <1>6
<1>8. Sleepers(Sched, out) /\ {out[i] : i \in 1 .. Len(out)} = P
  <2>1. \A i, j \in 1 .. n : out[i] = out[j] => i = j
    BY <1>3, <1>6, <1>7, QueueFacts
  <2>2. \A i \in 1 .. n : prstate[out[i]] \notin Runnable /\ prstate[out[i]] # "FREE"
    BY <1>6, <1>7 DEF Runnable
  <2>3. {out[i] : i \in 1 .. n} = P
    BY <1>7
  <2> HIDE DEF P
  <2>4. Sched.prstate = prstate
    BY SchedIs
  <2>5. Sleepers(Sched, out)
    BY <1>7, <2>1, <2>2, <2>4 DEF Sleepers
  <2> QED BY <1>7, <2>3, <2>5
<1> HIDE DEF P
<1>9. SchedOK(Sched) /\ Settled(Sched) /\ prprio \in [Pids -> Int] /\ prprio' = prprio
  BY <1>1 DEF SchedInv, Types, entry
<1>10. SchedOK(new) /\ Settled(new) /\ Moved(prstate, new.prstate, P, "READY")
  BY <1>8, <1>9, ReadyAllStep, SchedIs
<1> HIDE DEF new
<1>11. SchedInv' /\ Moved(prstate, prstate', P, "READY")
  <2>1. Commit(new)
    BY DEF new
  <2> QED BY <1>9, <1>10, <2>1, CommitStep
<1>12. \A r : r \in P <=> \E j \in 1 .. n : q[j].pid = r
  BY DEF P
<1>13. \A r : r \in P => r \in Pids /\ prstate[r] = "WAIT" /\ prsem[r] = s
  BY <1>6, <1>12
<1>14. IsQueue(t) /\ Len(t) = Len(q) - n /\ \A r : r \in Entries(t) <=> r \in Entries(q) /\ r \notin P
  <2>1. /\ IsQueue(t)
        /\ \A r : r \in Entries(t) <=> r \in Entries(q) /\ \A j \in 1 .. n : q[j].pid # r
    BY <1>3, <1>4, <1>5, SuffixQueue
  <2>2. Len(t) = Len(q) - n
    BY <1>5 DEF Suffix
  <2> QED BY <1>12, <2>1, <2>2
<1>15. \A r \in Pids : prstate'[r] = "WAIT" <=> (prstate[r] = "WAIT" /\ r \notin P)
  BY <1>11, <1>13 DEF Moved, Runnable
<1>16. SemInv'
  <2>1. /\ sstate' \in [Sems -> {"S_FREE", "S_USED"}] /\ scount' \in [Sems -> Int]
        /\ squeue' \in [Sems -> Seq(Nodes)]
        /\ \A m \in Sems : /\ sstate'[m] = IF m = s THEN st ELSE sstate[m]
                           /\ scount'[m] = IF m = s THEN c ELSE scount[m]
                           /\ squeue'[m] = IF m = s THEN t ELSE squeue[m]
    <3>1. t \in Seq(Nodes)
      BY <1>14, QueueFacts
    <3> QED BY <1>2, <3>1
  <2>2. ASSUME NEW m \in Sems
        PROVE  /\ IsQueue(squeue'[m])
               /\ Entries(squeue'[m]) = {p \in Pids : prstate'[p] = "WAIT" /\ prsem'[p] = m}
               /\ Len(squeue'[m]) = IF scount'[m] < 0 THEN - scount'[m] ELSE 0
               /\ sstate'[m] = "S_FREE" => scount'[m] >= 0
    <3>1. CASE m = s
      <4>1. Entries(t) = {p \in Pids : prstate'[p] = "WAIT" /\ prsem[p] = s}
        BY <1>3, <1>14, <1>15
      <4>2. Len(t) = IF c < 0 THEN - c ELSE 0
        BY <1>5, <1>14
      <4> QED BY <1>14, <2>1, <3>1, <4>1, <4>2
    <3>2. CASE m # s
      <4>1. {p \in Pids : prstate'[p] = "WAIT" /\ prsem[p] = m}
              = {p \in Pids : prstate[p] = "WAIT" /\ prsem[p] = m}
        BY <1>13, <1>15, <3>2
      <4> QED BY <1>2, <2>1, <3>2, <4>1
    <3> QED BY <3>1, <3>2
  <2>3. \A p \in Pids : prstate'[p] = "WAIT" => prsem'[p] \in Sems
    BY <1>2, <1>15
  <2> QED BY <1>2, <2>1, <2>2, <2>3 DEF SemInv
<1>17. Types'
  BY <1>1 DEF Types, entry
<1>18. SleepInv'
  BY <1>1, <1>11, <1>13, SleepMoved DEF Asleep
<1>19. MsgInv'
  <2>1. \A r \in Pids : r \in P => pc[r] # "receive"
    BY <1>1, <1>13 DEF MsgInv
  <2> QED BY <1>1, <1>11, <2>1, MsgMoved
<1>20. KillInv'
  BY <1>1 DEF KillInv, entry
<1>21. Buried
  BY <1>11, <1>13, BuriedMoved
<1> QED BY <1>11, <1>16, <1>17, <1>18, <1>19, <1>20, <1>21 DEF Good, Inv

\* Min of two integers.
LEMMA MinTwo ==
  ASSUME NEW a \in Int, NEW b \in Int
  PROVE  Min({a, b}) = IF a <= b THEN a ELSE b
<1>1. \E x \in {a, b} : \A y \in {a, b} : x <= y
  OBVIOUS
<1> DEFINE m == Min({a, b})
<1>2. m \in {a, b} /\ \A y \in {a, b} : m <= y
  BY <1>1 DEF Min
<1> HIDE DEF m
<1>3. m = IF a <= b THEN a ELSE b
  BY <1>2
<1> QED BY <1>3 DEF m

\* The first n that wait for s, and those that go on waiting.
LEMMA WaitingIs ==
  ASSUME NEW s, IsQueue(squeue[s]), NEW n \in Int,
         NEW k, k = IF n < 0 THEN 0 ELSE IF n <= Len(squeue[s]) THEN n ELSE Len(squeue[s])
  PROVE  /\ k \in 0 .. Len(squeue[s])
         /\ Waiting(s, n) = [i \in 1 .. k |-> squeue[s][i].pid]
         /\ Suffix(squeue[s], k, Without(squeue[s], Waiting(s, n)))
<1> DEFINE q == squeue[s]
           f == [i \in 1 .. k |-> q[i].pid]
<1>1. Len(q) \in Nat /\ IsQueue(q) /\ \A i \in 1 .. Len(q) : q[i].pid \in Pids
  BY QueueFacts
<1>2. k \in 0 .. Len(q)
  BY <1>1
<1>3. Min({n, Len(q)}) = IF n <= Len(q) THEN n ELSE Len(q)
  BY <1>1, MinTwo
<1>4. 1 .. Min({n, Len(q)}) = 1 .. k
  BY <1>1, <1>3
<1>5. Waiting(s, n) = f
  BY <1>4 DEF Waiting
<1>6. f \in Seq(Pids) /\ Len(f) = k
  <2>1. \A i \in 1 .. k : q[i].pid \in Pids
    BY <1>1, <1>2
  <2>2. k \in Nat
    BY <1>1, <1>2
  <2> HIDE DEF q
  <2> QED BY <2>1, <2>2
<1> HIDE DEF f
<1>7. Without(q, f) = SubSeq(q, k + 1, Len(q))
  BY <1>6 DEF Without
<1>8. Suffix(q, k, Without(q, f))
  BY <1>1, <1>2, <1>7, SuffixTaken
<1> QED BY <1>2, <1>5, <1>8 DEF f

\* What an invariant state says of a semaphore.
LEMMA SemFacts ==
  ASSUME SemInv, NEW s \in Sems
  PROVE  /\ scount[s] \in Int /\ sstate[s] \in {"S_FREE", "S_USED"} /\ IsQueue(squeue[s])
         /\ Len(squeue[s]) = IF scount[s] < 0 THEN - scount[s] ELSE 0
         /\ sstate = [sstate EXCEPT ![s] = sstate[s]]
         /\ Len(squeue[s]) \in Nat
<1>1. IsQueue(squeue[s])
  BY DEF SemInv
<1>2. Len(squeue[s]) \in Nat
  BY <1>1, QueueFacts
<1> QED BY <1>1, <1>2 DEF SemInv

\* signal and signaln.
LEMMA SignalGood ==
  ASSUME Inv, NEW s \in Sems, NEW n \in Signals, signaln(s, n)
  PROVE  Good
<1> DEFINE r == Released(s, n)
           out == Waiting(s, r)
           t == Without(squeue[s], out)
           c == scount[s] + n
<1>1. /\ sstate[s] = "S_USED" /\ scount' = [scount EXCEPT ![s] = c]
      /\ squeue' = [squeue EXCEPT ![s] = t]
      /\ Commit(ReadyAll(Sched, out))
      /\ UNCHANGED <<entry, prhasmsg, prsem, nextpid, sleepq, sstate, nextsem, pc, killing,
                     halted, left>>
  BY DEF signaln
<1>2. /\ scount[s] \in Int /\ sstate[s] \in {"S_FREE", "S_USED"} /\ IsQueue(squeue[s])
      /\ Len(squeue[s]) = IF scount[s] < 0 THEN - scount[s] ELSE 0
      /\ sstate = [sstate EXCEPT ![s] = sstate[s]]
  BY SemFacts DEF Inv
<1>3. n \in Nat
  BY ProcMgrAssumption
<1>4. r = IF scount[s] >= 0 THEN 0 ELSE IF n <= - scount[s] THEN n ELSE - scount[s]
  BY <1>2, <1>3, MinTwo DEF Released
<1>5. /\ r \in Nat /\ r <= Len(squeue[s]) /\ c \in Int
      /\ Len(squeue[s]) - r = IF c < 0 THEN - c ELSE 0
  BY <1>2, <1>3, <1>4
<1> HIDE DEF r, c
<1>6. /\ r \in 0 .. Len(squeue[s])
      /\ out = [i \in 1 .. r |-> squeue[s][i].pid]
      /\ Suffix(squeue[s], r, t)
  <2>1. r = IF r < 0 THEN 0 ELSE IF r <= Len(squeue[s]) THEN r ELSE Len(squeue[s])
    BY <1>5
  <2>2. /\ Waiting(s, r) = [i \in 1 .. r |-> squeue[s][i].pid]
        /\ Suffix(squeue[s], r, Without(squeue[s], Waiting(s, r)))
    <3>1. r \in Int /\ IsQueue(squeue[s])
      BY <1>2, <1>5
    <3> HIDE DEF out, t
    <3> QED BY <2>1, <3>1, WaitingIs
  <2> QED BY <1>5, <2>2
<1> HIDE DEF out, t
<1>7. sstate' = [sstate EXCEPT ![s] = "S_USED"]
  BY <1>1, <1>2
<1> QED BY <1>1, <1>5, <1>6, <1>7, ReleaseGood

\* semdelete.
LEMMA SemdeleteGood ==
  ASSUME Inv, NEW s \in Sems, semdelete(s)
  PROVE  Good
<1> DEFINE k == Len(squeue[s])
           out == Waiting(s, - scount[s])
           t == Without(squeue[s], out)
           c == (IF scount[s] < 0 THEN 0 ELSE scount[s]) + 1
<1>1. /\ sstate' = [sstate EXCEPT ![s] = "S_FREE"]
      /\ scount' = [scount EXCEPT ![s] = c]
      /\ squeue' = [squeue EXCEPT ![s] = t]
      /\ Commit(ReadyAll(Sched, out))
      /\ UNCHANGED <<entry, prhasmsg, prsem, nextpid, sleepq, nextsem, pc, killing, halted, left>>
  BY DEF semdelete
<1>2. /\ scount[s] \in Int /\ IsQueue(squeue[s]) /\ k \in Nat
      /\ k = IF scount[s] < 0 THEN - scount[s] ELSE 0
  BY SemFacts DEF Inv
<1>3. /\ c \in Int /\ c >= 0 /\ - scount[s] \in Int
      /\ k = IF - scount[s] < 0 THEN 0 ELSE IF - scount[s] <= k THEN - scount[s] ELSE k
      /\ k - k = IF c < 0 THEN - c ELSE 0
  BY <1>2
<1>4. /\ k \in 0 .. Len(squeue[s])
      /\ out = [i \in 1 .. k |-> squeue[s][i].pid]
      /\ Suffix(squeue[s], k, t)
  BY <1>2, <1>3, WaitingIs
<1> HIDE DEF out, t, c
<1> QED BY <1>1, <1>3, <1>4, ReleaseGood

\* semreset.
LEMMA SemresetGood ==
  ASSUME Inv, NEW s \in Sems, NEW count \in Counts, semreset(s, count)
  PROVE  Good
<1> DEFINE k == Len(squeue[s])
           out == Waiting(s, k)
<1>1. /\ sstate[s] = "S_USED" /\ scount' = [scount EXCEPT ![s] = count]
      /\ squeue' = [squeue EXCEPT ![s] = <<>>]
      /\ Commit(ReadyAll(Sched, out))
      /\ UNCHANGED <<entry, prhasmsg, prsem, nextpid, sleepq, sstate, nextsem, pc, killing,
                     halted, left>>
  BY DEF semreset
<1>2. /\ IsQueue(squeue[s]) /\ k \in Nat /\ sstate = [sstate EXCEPT ![s] = sstate[s]]
  BY SemFacts DEF Inv
<1>3. count \in Int /\ count >= 0 /\ k - k = IF count < 0 THEN - count ELSE 0
  BY <1>2, ProcMgrAssumption
<1>4. /\ k \in 0 .. Len(squeue[s])
      /\ out = [i \in 1 .. k |-> squeue[s][i].pid]
  <2>1. k = IF k < 0 THEN 0 ELSE IF k <= k THEN k ELSE k
    OBVIOUS
  <2> QED BY <1>2, <2>1, WaitingIs
<1> HIDE DEF out
<1>5. Suffix(squeue[s], k, <<>>)
  <2>1. \A j \in 1 .. (k - k) : <<>>[j] = squeue[s][k + j]
    BY <1>2
  <2> QED BY <1>2, <2>1 DEF Suffix
<1>6. sstate' = [sstate EXCEPT ![s] = "S_USED"]
  BY <1>1, <1>2
<1> QED BY <1>1, <1>3, <1>4, <1>5, <1>6, ReleaseGood

-----------------------------------------------------------------------------
(***************************************************************************)
(* kill.                                                                   *)
(***************************************************************************)

\* The end of kill for a process that was on no queue.
LEMMA FinishIdle ==
  ASSUME NEW s, NEW q, NEW k, k.state \in {"SUSP", "RECV", "FREE"}, FinishKill(s, q, k)
  PROVE  Commit(s) /\ sleepq' = q /\ UNCHANGED sems
<1>1. /\ Unlink(s, q, k).sched = s /\ Unlink(s, q, k).sleepq = q
      /\ Unlink(s, q, k).scount = scount /\ Unlink(s, q, k).squeue = squeue
  BY DEF Unlink
<1> QED BY <1>1 DEF FinishKill, sems

\* The end of a kill that was switched away from.
LEMMA KillReturnGood ==
  ASSUME Inv, KillReturn
  PROVE  Good
<1>1. /\ pc[currpid] = "kill" /\ FinishKill(Sched, sleepq, killing)
      /\ pc' = [pc EXCEPT ![currpid] = "user"]
      /\ UNCHANGED <<entry, prhasmsg, prsem, nextpid, killing, halted, left>>
  BY DEF KillReturn
<1>2. Types /\ SchedInv /\ KillInv
  BY DEF Inv
<1>3. currpid \in Pids
  BY <1>2, States1
<1>4. killing.state \in {"SUSP", "RECV", "FREE"}
  BY <1>1, <1>2, <1>3 DEF KillInv
<1>5. Commit(Sched) /\ sleepq' = sleepq /\ UNCHANGED sems
  BY <1>1, <1>4, FinishIdle
<1>6. SchedOK(Sched) /\ Settled(Sched) /\ Moved(prstate, Sched.prstate, {}, "READY")
  BY <1>2, SchedIs DEF SchedInv, Moved
<1>7. /\ pc' \in [Pids -> {"user", "receive", "recvtime", "clkhandler", "kill"}]
      /\ \A p \in Pids : /\ pc'[p] = "receive" => pc[p] = "receive"
                         /\ pc'[p] = "kill" => pc[p] = "kill"
  BY <1>1, <1>2, <1>3 DEF Types
<1> QED BY <1>1, <1>5, <1>6, <1>7, SwitchGood

\* The last kill stops the system and does nothing else.
LEMMA HaltGood ==
  ASSUME Inv, halted' = TRUE,
         UNCHANGED <<sched, prhasmsg, sleepq, left, sems, pc, killing, entry, prsem, nextpid>>
  PROVE  Good
<1>1. prstate' = prstate /\ Sched' = Sched /\ prprio' = prprio
  BY DEF sched, Sched, entry
<1>2. Types /\ SchedInv /\ SleepInv /\ SemInv /\ MsgInv /\ KillInv
  BY DEF Inv
<1>3. SchedInv'
  BY <1>1, <1>2 DEF SchedInv, SchedOK, Settled, Ranked
<1>4. Moved(prstate, prstate', {}, "READY")
  BY <1>1 DEF Moved
<1>5. Types'
  BY <1>2 DEF Types, entry
<1>6. SleepInv'
  BY <1>2, <1>4, SleepMoved DEF Asleep
<1>7. SemInv'
  BY <1>2, <1>4, SemMoved
<1>8. MsgInv'
  BY <1>2, <1>4, MsgMoved
<1>9. KillInv'
  BY <1>2 DEF KillInv, entry
<1>10. Buried
  BY <1>4, BuriedMoved
<1> QED BY <1>3, <1>5, <1>6, <1>7, <1>8, <1>9, <1>10 DEF Good, Inv

\* The victim is suspended or receives; its parent may have to be told.
LEMMA KillIdle ==
  ASSUME Inv, NEW p \in Pids, p # NULLPROC, prstate[p] \in {"SUSP", "RECV"},
         NEW freed, freed = SetState(Sched, p, "FREE"), NEW informs \in BOOLEAN,
         NEW w \in Pids, informs => CanSend(w, freed),
         NEW after, after = IF informs THEN Send(freed, w)
                            ELSE [sched |-> freed, sleepq |-> sleepq, left |-> left],
         Commit(after.sched), sleepq' = after.sleepq, left' = [after.left EXCEPT ![p] = 0],
         prhasmsg' = IF informs THEN [prhasmsg EXCEPT ![w] = TRUE] ELSE prhasmsg,
         killing'.state \in {"SUSP", "RECV", "FREE"}, Victims \subseteq {"SUSP", "RECV"},
         pc' = pc \/ pc' = [pc EXCEPT ![currpid] = "kill"],
         UNCHANGED <<entry, prsem, nextpid, sems, halted>>
  PROVE  Good
<1>1. Types /\ SchedInv /\ SleepInv /\ SemInv /\ MsgInv /\ KillInv
  BY DEF Inv
<1>2. SchedOK(Sched) /\ Settled(Sched) /\ prprio \in [Pids -> Int] /\ prprio' = prprio
  BY <1>1 DEF SchedInv, Types, entry
<1>3. currpid \in Pids /\ prstate[currpid] = "CURR" /\ p # currpid
  BY <1>1, States1
<1>4. /\ SchedOK(freed) /\ freed.currpid = currpid /\ Settled(freed)
      /\ \A r \in Pids : freed.prstate[r] = IF r = p THEN "FREE" ELSE prstate[r]
  <2>1. "FREE" \in States /\ "FREE" \notin Runnable /\ Sched.prstate[p] # "READY"
    BY SchedIs DEF States, Runnable
  <2>2. /\ SchedOK(freed) /\ freed.currpid = Sched.currpid
        /\ \A r \in Pids : freed.prstate[r] = IF r = p THEN "FREE" ELSE Sched.prstate[r]
    BY <1>2, <2>1, ParkStep
  <2>3. Settled(freed)
    BY <1>2, <1>3, <2>1, <2>2, SchedIs, ParkSettled
  <2> QED BY <2>2, <2>3, SchedIs
<1>5. \A r \in Pids : freed.prstate[r] \in Asleep <=> prstate[r] \in Asleep
  BY <1>4 DEF Asleep
<1>6. /\ Delta(sleepq) /\ left \in [Pids -> Nat]
      /\ Entries(sleepq) = {r \in Pids : prstate[r] \in Asleep}
      /\ Entries(sleepq) = {r \in Pids : freed.prstate[r] \in Asleep}
  BY <1>1, <1>5 DEF SleepInv, Delta
<1> DEFINE P == IF informs THEN SentTo(freed, w) ELSE {}
           Kept == /\ SchedOK(after.sched) /\ Settled(after.sched)
                   /\ Moved(freed.prstate, after.sched.prstate, P, "READY")
                   /\ Delta(after.sleepq)
                   /\ Entries(after.sleepq) = {r \in Pids : after.sched.prstate[r] \in Asleep}
                   /\ after.left \in [Pids -> Nat]
                   /\ \A j \in 1 .. Len(after.sleepq) :
                        \E m \in 1 .. Len(sleepq) : /\ after.sleepq[j].pid = sleepq[m].pid
                                                    /\ Due(sleepq, m) = Due(after.sleepq, j)
                                                    /\ after.left[sleepq[m].pid] = left[sleepq[m].pid]
<1>7. Kept
  <2>1. CASE informs
    <3>1. freed.prstate[w] # "FREE" /\ after = Send(freed, w) /\ P = SentTo(freed, w)
      BY <2>1 DEF CanSend
    <3>2. Sent(freed, w, after)
      BY <1>1, <1>2, <1>4, <1>5, <3>1, SendIs
    <3> HIDE DEF P
    <3> QED BY <3>1, <3>2 DEF Sent
  <2>2. CASE ~ informs
    <3>1. /\ after.sched = freed /\ after.sleepq = sleepq /\ after.left = left /\ P = {}
      BY <2>2
    <3>2. Moved(freed.prstate, freed.prstate, {}, "READY")
      BY DEF Moved
    <3> HIDE DEF P
    <3> QED BY <1>4, <1>6, <3>1, <3>2
  <2> QED BY <2>1, <2>2
<1>8. \A r \in Pids : r \in P => /\ informs /\ r = w /\ r # p
                                 /\ prstate[r] \in {"RECV", "RECTIM"}
  BY <1>4 DEF SentTo
<1>9. informs => w # p /\ (w \notin P => prstate[w] \notin {"RECV", "RECTIM"})
  BY <1>4 DEF CanSend, SentTo
<1> HIDE DEF P
<1>10. SchedInv' /\ prstate' = after.sched.prstate
  BY <1>2, <1>7, CommitStep
<1>11. \A r \in Pids :
          IF r = p THEN prstate'[r] = "FREE"
          ELSE IF r \in P THEN prstate'[r] \in {"READY", "CURR"}
          ELSE prstate'[r] = prstate[r] \/ (prstate[r] \in {"READY", "CURR"} /\ prstate'[r] \in {"READY", "CURR"})
  <2> SUFFICES ASSUME NEW r \in Pids
               PROVE  IF r = p THEN prstate'[r] = "FREE"
                      ELSE IF r \in P THEN prstate'[r] \in {"READY", "CURR"}
                      ELSE prstate'[r] = prstate[r] \/ (prstate[r] \in {"READY", "CURR"} /\ prstate'[r] \in {"READY", "CURR"})
    OBVIOUS
  <2>1. IF r \in P THEN prstate'[r] \in {"READY", "CURR"}
        ELSE prstate'[r] = freed.prstate[r] \/ (freed.prstate[r] \in {"READY", "CURR"} /\ prstate'[r] \in {"READY", "CURR"})
    BY <1>7, <1>10 DEF Moved, Runnable
  <2>2. freed.prstate[r] = IF r = p THEN "FREE" ELSE prstate[r]
    BY <1>4
  <2> QED BY <1>8, <2>1, <2>2
<1>12. SleepInv'
  <2>1. \A m \in 1 .. Len(sleepq) : sleepq[m].pid \in Pids /\ prstate[sleepq[m].pid] \in Asleep
    <3>1. \A m \in 1 .. Len(sleepq) : sleepq[m].pid \in Entries(sleepq)
      BY <1>6, QueueFacts DEF Delta
    <3> QED BY <1>6, <3>1
  <2>2. \A m \in 1 .. Len(sleepq) : left'[sleepq[m].pid] = after.left[sleepq[m].pid]
    BY <1>7, <2>1 DEF Asleep
  <2>3. left' \in [Pids -> Nat]
    BY <1>7
  <2>4. ASSUME NEW j \in 1 .. Len(sleepq')
        PROVE  \E m \in 1 .. Len(sleepq) : /\ sleepq'[j].pid = sleepq[m].pid
                                           /\ Due(sleepq, m) = Due(sleepq', j)
                                           /\ left'[sleepq[m].pid] = left[sleepq[m].pid]
    BY <1>7, <2>2
  <2> QED BY <1>1, <1>7, <1>10, <2>3, <2>4, SleepFewer
<1>13. Types'
  <2>1. /\ prhasmsg' \in [Pids -> BOOLEAN]
        /\ pc' \in [Pids -> {"user", "receive", "recvtime", "clkhandler", "kill"}]
    BY <1>1 DEF Types
  <2> QED BY <1>1, <2>1 DEF Types, entry
<1>14. SemInv'
  <2>1. \A r \in Pids : prstate'[r] = "WAIT" <=> prstate[r] = "WAIT"
    BY <1>8, <1>11
  <2> QED BY <1>1, <2>1, SemFrame
<1>15. MsgInv'
  <2> SUFFICES ASSUME NEW r \in Pids
               PROVE  /\ prstate'[r] \in {"RECV", "RECTIM"} => ~ prhasmsg'[r]
                      /\ pc'[r] = "receive" =>
                           \/ prstate'[r] \in {"READY", "CURR", "SUSP"} /\ prhasmsg'[r]
                           \/ prstate'[r] \in {"RECV", "FREE"}
    BY DEF MsgInv
  <2>1. /\ prstate[r] \in {"RECV", "RECTIM"} => ~ prhasmsg[r]
        /\ pc[r] = "receive" => \/ prstate[r] \in {"READY", "CURR", "SUSP"} /\ prhasmsg[r]
                                \/ prstate[r] \in {"RECV", "FREE"}
    BY <1>1 DEF MsgInv
  <2>2. pc'[r] = "receive" => pc[r] = "receive"
    BY <1>1, <1>3 DEF Types
  <2>3. prhasmsg'[r] = IF informs /\ r = w THEN TRUE ELSE prhasmsg[r]
    BY <1>1 DEF Types
  <2> QED BY <1>8, <1>9, <1>11, <2>1, <2>2, <2>3
<1>16. KillInv'
  BY DEF KillInv
<1>17. Buried
  BY <1>8, <1>11 DEF Buried
<1> QED BY <1>10, <1>12, <1>13, <1>14, <1>15, <1>16, <1>17 DEF Good, Inv

\* A process is on no queue but that of its state.
LEMMA GetitemAbsent ==
  ASSUME NEW q, IsQueue(q), NEW p, p \notin Entries(q)
  PROVE  getitem(q, p) = q
BY IndexFacts DEF getitem

\* A process that is on a queue is taken off once.
LEMMA GetitemPresent ==
  ASSUME NEW q, IsQueue(q), NEW p \in Entries(q)
  PROVE  Len(getitem(q, p)) = Len(q) - 1
<1>1. q \in Seq(Nodes)
  BY QueueFacts
<1>2. Index(q, p) \in 1 .. Len(q) /\ getitem(q, p) = RemoveAt(q, Index(q, p))
  BY IndexFacts DEF getitem
<1> QED BY <1>1, <1>2, IsRemoved DEF Removed

\* The semaphores without a process that waited for m.
LEMMA UnlinkedSems ==
  ASSUME Inv, NEW p \in Pids, Moved(prstate, prstate', {p}, "FREE"),
         prstate[p] = "WAIT" => scount' = [scount EXCEPT ![prsem[p]] = @ + 1],
         prstate[p] # "WAIT" => scount' = scount,
         squeue' = squeue \/ squeue' = [m \in Sems |-> getitem(squeue[m], p)],
         prstate[p] = "WAIT" => squeue' = [m \in Sems |-> getitem(squeue[m], p)],
         UNCHANGED <<prsem, sstate, nextsem>>
  PROVE  SemInv'
<1>1. /\ sstate \in [Sems -> {"S_FREE", "S_USED"}] /\ scount \in [Sems -> Int]
      /\ squeue \in [Sems -> Seq(Nodes)] /\ nextsem \in 0 .. NSEM
      /\ \A m \in Sems :
           /\ IsQueue(squeue[m])
           /\ Entries(squeue[m]) = {r \in Pids : prstate[r] = "WAIT" /\ prsem[r] = m}
           /\ Len(squeue[m]) = IF scount[m] < 0 THEN - scount[m] ELSE 0
           /\ sstate[m] = "S_FREE" => scount[m] >= 0
      /\ \A r \in Pids : prstate[r] = "WAIT" => prsem[r] \in Sems
  BY DEF Inv, SemInv
<1>2. \A r \in Pids : prstate'[r] = "WAIT" <=> prstate[r] = "WAIT" /\ r # p
  BY DEF Moved, Runnable
<1>3. scount' \in [Sems -> Int]
  BY <1>1
<1>4. ASSUME NEW m \in Sems
      PROVE  /\ IsQueue(squeue'[m])
             /\ Entries(squeue'[m]) = {r \in Pids : prstate'[r] = "WAIT" /\ prsem'[r] = m}
             /\ Len(squeue'[m]) = IF scount'[m] < 0 THEN - scount'[m] ELSE 0
             /\ sstate'[m] = "S_FREE" => scount'[m] >= 0
  <2> DEFINE q == squeue[m]
  <2>1. IsQueue(q) /\ Entries(q) = {r \in Pids : prstate[r] = "WAIT" /\ prsem[r] = m} /\ Len(q) \in Nat
    BY <1>1, QueueFacts
  <2>2. CASE p \in Entries(q)
    <3>1. prstate[p] = "WAIT" /\ prsem[p] = m
      BY <2>1, <2>2
    <3>2. squeue'[m] = getitem(q, p) /\ scount'[m] = scount[m] + 1
      BY <1>1, <3>1
    <3>3. IsQueue(getitem(q, p)) /\ Entries(getitem(q, p)) = Entries(q) \ {p}
      BY <2>1, GetitemQueue
    <3>4. Len(getitem(q, p)) = Len(q) - 1
      BY <2>1, <2>2, GetitemPresent
    <3>5. Entries(squeue'[m]) = {r \in Pids : prstate'[r] = "WAIT" /\ prsem'[r] = m}
      BY <1>2, <2>1, <3>2, <3>3
    <3>6. Len(q) > 0
      <4>1. \E i \in 1 .. Len(q) : q[i].pid = p
        BY <2>1, <2>2, QueueFacts
      <4> QED BY <2>1, <4>1
    <3>7. /\ scount[m] \in Int /\ Len(q) = IF scount[m] < 0 THEN - scount[m] ELSE 0
          /\ sstate'[m] = "S_FREE" => scount[m] >= 0
      BY <1>1
    <3> HIDE DEF q
    <3>8. Len(squeue'[m]) = IF scount'[m] < 0 THEN - scount'[m] ELSE 0
      BY <3>2, <3>4, <3>6, <3>7
    <3> QED BY <3>2, <3>3, <3>5, <3>7, <3>8
  <2>3. CASE p \notin Entries(q)
    <3>1. getitem(q, p) = q
      BY <2>1, <2>3, GetitemAbsent
    <3>2. squeue'[m] = q
      BY <3>1
    <3>3. prstate[p] = "WAIT" => prsem[p] # m
      BY <2>1, <2>3
    <3>4. scount'[m] = scount[m]
      BY <1>1, <3>3
    <3>5. Entries(q) = {r \in Pids : prstate'[r] = "WAIT" /\ prsem'[r] = m}
      BY <1>2, <2>1, <3>3
    <3> QED BY <1>1, <2>1, <3>2, <3>4, <3>5
  <2> QED BY <2>2, <2>3
<1>5. squeue' \in [Sems -> Seq(Nodes)]
  <2>1. \A m \in Sems : squeue'[m] \in Seq(Nodes)
    BY <1>4, QueueFacts
  <2> QED BY <1>1, <2>1
<1>6. \A r \in Pids : prstate'[r] = "WAIT" => prsem'[r] \in Sems
  BY <1>1, <1>2
<1> QED BY <1>1, <1>3, <1>4, <1>5, <1>6 DEF SemInv

\* Nobody is to be told: kill does not switch before it has taken its victim
\* off the ready list, or off the queue of the semaphore that it waits for.
LEMMA KillPlain ==
  ASSUME Inv, NEW p \in Pids, p # NULLPROC, prstate[p] \notin {"FREE", "SLEEP", "RECTIM"},
         NoUserProcesses, \A r \in Pids : ~ pruser[r] /\ pc[r] # "kill",
         NEW freed, freed = SetState(Sched, p, "FREE"),
         NEW k, k.pid = p, k.state = prstate[p], k.sem = prsem[p],
         FinishKill(freed, sleepq, k), left' = [left EXCEPT ![p] = 0],
         UNCHANGED <<entry, prhasmsg, prsem, nextpid, pc, halted>>
  PROVE  Good
<1> DEFINE u == Unlink(freed, sleepq, k)
           new == u.sched
<1>1. Types /\ SchedInv /\ SleepInv /\ SemInv /\ MsgInv /\ KillInv
  BY DEF Inv
<1>2. /\ SchedOK(Sched) /\ Settled(Sched) /\ prprio \in [Pids -> Int] /\ prprio' = prprio
      /\ "FREE" \in States /\ "FREE" \notin Runnable
  BY <1>1 DEF SchedInv, Types, entry, States, Runnable
<1>3. /\ Commit(new) /\ sleepq' = u.sleepq /\ scount' = u.scount /\ squeue' = u.squeue
      /\ UNCHANGED <<sstate, nextsem>>
  BY DEF FinishKill
<1>4. freed.prstate[p] = "FREE"
  <2>1. p \in DOMAIN Sched.prstate
    BY <1>1, States1, SchedIs
  <2> QED BY <2>1 DEF SetState, Sched
<1>5. u.sleepq = sleepq
  BY <1>4 DEF Unlink
<1>6. SchedOK(new) /\ Settled(new) /\ Moved(prstate, new.prstate, {p}, "FREE")
  <2>1. CASE prstate[p] = "CURR"
    <3>1. p = Sched.currpid
      BY <1>1, <2>1, States1, SchedIs
    <3>2. new = resched(SetState(Sched, p, "FREE"))
      BY <2>1 DEF Unlink
    <3> HIDE DEF new
    <3> QED BY <1>2, <3>1, <3>2, BlockStep, SchedIs
  <2>2. CASE prstate[p] = "READY"
    <3>1. new = Parked(Sched, p, "FREE")
      BY <2>2 DEF Unlink, Parked
    <3> HIDE DEF new
    <3>2. p # Sched.currpid /\ Sched.prstate[p] = "READY"
      BY <1>1, <2>2, States1, SchedIs
    <3>3. /\ SchedOK(new) /\ new.currpid = Sched.currpid
          /\ \A r \in Pids : new.prstate[r] = IF r = p THEN "FREE" ELSE Sched.prstate[r]
      BY <1>2, <3>1, <3>2, ParkReady
    <3>4. Settled(new)
      BY <1>2, <3>2, <3>3, ParkSettled
    <3> QED BY <3>3, <3>4, SchedIs DEF Moved
  <2>3. CASE prstate[p] \notin Runnable
    <3>1. p # Sched.currpid /\ Sched.prstate[p] # "READY"
      BY <1>1, <2>3, States1, SchedIs DEF Runnable
    <3>2. /\ SchedOK(freed) /\ freed.currpid = Sched.currpid
          /\ \A r \in Pids : freed.prstate[r] = IF r = p THEN "FREE" ELSE Sched.prstate[r]
      BY <1>2, <3>1, ParkStep
    <3>3. Settled(freed)
      BY <1>2, <3>1, <3>2, ParkSettled
    <3>4. new = freed
      <4>1. CASE prstate[p] = "WAIT"
        <5>1. new = [freed EXCEPT !.readylist = getitem(@, p)]
          BY <4>1 DEF Unlink
        <5>2. freed.readylist = readylist
          BY SchedIs DEF SetState, Sched
        <5>3. IsQueue(readylist) /\ p \notin Entries(readylist)
          BY <1>2, <3>1, SchedFields, SchedIs
        <5>4. getitem(freed.readylist, p) = freed.readylist
          BY <5>2, <5>3, GetitemAbsent
        <5>5. freed = [prstate |-> freed.prstate, currpid |-> freed.currpid,
                       readylist |-> freed.readylist, preempt |-> freed.preempt]
          BY <3>2 DEF SchedOK, SchedType
        <5> HIDE DEF new
        <5> QED BY <5>1, <5>4, <5>5
      <4>2. CASE prstate[p] # "WAIT"
        BY <2>3, <4>2 DEF Unlink, Runnable
      <4> QED BY <4>1, <4>2
    <3> HIDE DEF new
    <3>5. Moved(prstate, new.prstate, {p}, "FREE")
      BY <3>2, <3>4, SchedIs DEF Moved
    <3> QED BY <3>2, <3>3, <3>4, <3>5
  <2> QED BY <2>1, <2>2, <2>3 DEF Runnable
<1>7. /\ prstate[p] = "WAIT" => scount' = [scount EXCEPT ![prsem[p]] = @ + 1]
      /\ prstate[p] # "WAIT" => scount' = scount
      /\ squeue' = squeue \/ squeue' = [m \in Sems |-> getitem(squeue[m], p)]
      /\ prstate[p] = "WAIT" => squeue' = [m \in Sems |-> getitem(squeue[m], p)]
  BY <1>3 DEF Unlink
<1> HIDE DEF new, u
<1>8. SchedInv' /\ Moved(prstate, prstate', {p}, "FREE")
  BY <1>2, <1>3, <1>6, CommitStep
<1>9. SemInv'
  BY <1>3, <1>7, <1>8, UnlinkedSems DEF Asleep
<1>10. SleepInv'
  <2>1. \A r \in Pids : prstate'[r] \in Asleep <=> prstate[r] \in Asleep
    BY <1>8 DEF Moved, Runnable, Asleep
  <2>2. /\ Delta(sleepq) /\ Entries(sleepq) = {r \in Pids : prstate[r] \in Asleep}
        /\ left \in [Pids -> Nat]
    BY <1>1 DEF SleepInv, Delta
  <2>3. /\ sleepq' = sleepq /\ left' \in [Pids -> Nat]
        /\ Entries(sleepq') = {r \in Pids : prstate'[r] \in Asleep}
    BY <1>3, <1>5, <2>1, <2>2
  <2>4. \A m \in 1 .. Len(sleepq) : sleepq[m].pid \in Pids /\ sleepq[m].pid # p
    <3>1. \A m \in 1 .. Len(sleepq) : sleepq[m].pid \in Entries(sleepq)
      BY <2>2, QueueFacts DEF Delta
    <3> QED BY <2>2, <3>1 DEF Asleep
  <2>5. \A m \in 1 .. Len(sleepq) : left'[sleepq[m].pid] = left[sleepq[m].pid]
    BY <2>2, <2>4
  <2> QED BY <1>1, <2>2, <2>3, <2>5, SleepFewer
<1>11. Types'
  BY <1>1 DEF Types, entry
<1>12. MsgInv'
  BY <1>1, <1>8, MsgMoved
<1>13. KillInv'
  BY DEF KillInv, entry
<1>14. Buried
  BY <1>8, BuriedMoved
<1> QED BY <1>8, <1>9, <1>10, <1>11, <1>12, <1>13, <1>14 DEF Good, Inv

\* kill: the last one, one with a parent to tell, or one without.
LEMMA KillGood ==
  ASSUME Inv, Orderly, NEW p \in Pids, kill(p)
  PROVE  Good
<1> DEFINE k == [pid |-> p, state |-> prstate[p], sem |-> prsem[p]]
           w == prparent[p]
           freed == SetState(Sched, p, "FREE")
           informs == pruser[p] /\ CanSend(w, freed)
           after == IF informs THEN Send(freed, w)
                    ELSE [sched |-> freed, sleepq |-> sleepq, left |-> left]
           live == Cardinality({r \in Pids : prstate[r] # "FREE"})
<1>1. /\ p # NULLPROC /\ prstate[p] \in Victims \ {"FREE"}
      /\ \/ /\ live <= 2
            /\ halted' = TRUE
            /\ UNCHANGED <<sched, prhasmsg, sleepq, left, sems, pc, killing>>
         \/ /\ live > 2
            /\ killing' = k
            /\ prhasmsg' = IF informs THEN [prhasmsg EXCEPT ![w] = TRUE] ELSE prhasmsg
            /\ left' = [after.left EXCEPT ![p] = 0]
            /\ \/ /\ after.sched.currpid = currpid
                  /\ FinishKill(after.sched, after.sleepq, k)
                  /\ UNCHANGED pc
               \/ /\ after.sched.currpid # currpid
                  /\ Commit(after.sched)
                  /\ sleepq' = after.sleepq
                  /\ pc' = [pc EXCEPT ![currpid] = "kill"]
                  /\ UNCHANGED sems
            /\ UNCHANGED halted
      /\ UNCHANGED <<entry, prsem, nextpid>>
  BY DEF kill
<1>2. Types /\ SchedInv /\ KillInv
  BY DEF Inv
<1>3. w \in Pids /\ pruser[p] \in BOOLEAN
  BY <1>2 DEF Types
<1>4. informs \in BOOLEAN
  OBVIOUS
<1>5. k.pid = p /\ k.state = prstate[p] /\ k.sem = prsem[p]
  OBVIOUS
<1>6. informs => CanSend(w, freed) /\ pruser[p]
  OBVIOUS
<1> HIDE DEF k, freed, live
<1>7. CASE live <= 2
  <2>1. live \in Nat
    <3>1. IsFiniteSet(0 .. (NPROC - 1))
      BY ProcMgrAssumption, FS_Interval
    <3>2. IsFiniteSet({r \in Pids : prstate[r] # "FREE"})
      BY <3>1, FS_Subset DEF Pids
    <3> QED BY <3>2, FS_CardinalityType DEF live
  <2>2. ~ (live > 2)
    BY <1>7, <2>1
  <2> QED BY <1>1, <2>2, HaltGood
<1>8. CASE /\ live > 2
           /\ killing' = k
           /\ prhasmsg' = IF informs THEN [prhasmsg EXCEPT ![w] = TRUE] ELSE prhasmsg
           /\ left' = [after.left EXCEPT ![p] = 0]
           /\ \/ /\ after.sched.currpid = currpid
                 /\ FinishKill(after.sched, after.sleepq, k)
                 /\ UNCHANGED pc
              \/ /\ after.sched.currpid # currpid
                 /\ Commit(after.sched)
                 /\ sleepq' = after.sleepq
                 /\ pc' = [pc EXCEPT ![currpid] = "kill"]
                 /\ UNCHANGED sems
           /\ UNCHANGED halted
  <2>1. CASE Victims \subseteq {"SUSP", "RECV"}
    <3>1. prstate[p] \in {"SUSP", "RECV"} /\ killing'.state \in {"SUSP", "RECV", "FREE"}
          /\ k.state \in {"SUSP", "RECV", "FREE"}
      BY <1>1, <1>5, <1>8, <2>1
    <3>2. /\ Commit(after.sched) /\ sleepq' = after.sleepq /\ UNCHANGED sems
          /\ pc' = pc \/ pc' = [pc EXCEPT ![currpid] = "kill"]
      BY <1>8, <3>1, FinishIdle
    <3> HIDE DEF informs
    <3>3. after = IF informs THEN Send(freed, w)
                  ELSE [sched |-> freed, sleepq |-> sleepq, left |-> left]
      OBVIOUS
    <3>4. informs => CanSend(w, freed)
      BY <1>6 DEF informs
    <3>5. freed = SetState(Sched, p, "FREE") /\ informs \in BOOLEAN
      BY <1>4 DEF freed, informs
    <3> HIDE DEF after, w
    <3> QED BY <1>1, <1>3, <1>8, <2>1, <3>1, <3>2, <3>3, <3>4, <3>5, KillIdle
  <2>2. CASE ~ (Victims \subseteq {"SUSP", "RECV"})
    <3>1. NoUserProcesses /\ \A r \in Pids : ~ pruser[r] /\ pc[r] # "kill"
      BY <1>2, <2>2 DEF KillInv
    <3>2. after = [sched |-> freed, sleepq |-> sleepq, left |-> left] /\ prhasmsg' = prhasmsg
      BY <1>6, <1>8, <3>1
    <3>3. after.sched = freed /\ after.sleepq = sleepq /\ after.left = left
      BY <3>2
    <3>4. freed.currpid = currpid
      BY DEF freed, SetState, Sched
    <3>5. prstate[p] \notin {"FREE", "SLEEP", "RECTIM"}
      BY <1>1 DEF Orderly
    <3>6. /\ FinishKill(freed, sleepq, k) /\ left' = [left EXCEPT ![p] = 0] /\ UNCHANGED pc
      BY <1>8, <3>3, <3>4
    <3>7. freed = SetState(Sched, p, "FREE")
      BY DEF freed
    <3> HIDE DEF after, w, informs
    <3> QED BY <1>1, <1>5, <1>8, <3>1, <3>2, <3>5, <3>6, <3>7, KillPlain
  <2> QED BY <2>1, <2>2
<1> QED BY <1>1, <1>7, <1>8

-----------------------------------------------------------------------------
(***************************************************************************)
(* Every behaviour.                                                        *)
(***************************************************************************)

\* The initial states satisfy the invariant.
LEMMA InitInv ==
  ASSUME Init, Orderly
  PROVE  Inv
<1> DEFINE n == Len(Created)
<1>1. /\ n \in Nat /\ n < NPROC - 1 /\ NPROC \in Nat /\ NPROC > 1 /\ NSEM \in Nat
      /\ QUANTUM \in Nat \ {0} /\ INITPRIO \in Nat \ {0}
      /\ \A i \in 1 .. n : Created[i].prio \in Nat \ {0} /\ Created[i].user \in BOOLEAN
  <2>1. Created \in Seq([prio : Nat \ {0}, user : BOOLEAN])
    BY ProcMgrAssumption
  <2>2. n \in Nat /\ \A i \in 1 .. n : Created[i] \in [prio : Nat \ {0}, user : BOOLEAN]
    BY <2>1, LenProperties, ElementOfSeq
  <2> QED BY <2>2, ProcMgrAssumption
<1> HIDE DEF n
<1>2. \A p \in Pids : p \in Int /\ p >= 0 /\ p <= NPROC - 1
  BY <1>1 DEF Pids
<1>3. /\ 0 \in Pids /\ 1 \in Pids /\ \A p \in 2 .. n + 1 : p - 1 \in 1 .. n
  BY <1>1 DEF Pids
<1>4. \A p \in Pids : prstate[p] = IF p = 0 THEN "READY" ELSE IF p = 1 THEN "CURR"
                                   ELSE IF p \in 2 .. n + 1 THEN "SUSP" ELSE "FREE"
  <2>1. prstate = [p \in Pids |-> CASE p = 0 -> "READY"
                                     [] p = 1 -> "CURR"
                                     [] p \in 2 .. n + 1 -> "SUSP"
                                     [] OTHER -> "FREE"]
    BY DEF Init, NULLPROC, n
  <2> SUFFICES ASSUME NEW p \in Pids
               PROVE  prstate[p] = IF p = 0 THEN "READY" ELSE IF p = 1 THEN "CURR"
                                   ELSE IF p \in 2 .. n + 1 THEN "SUSP" ELSE "FREE"
    OBVIOUS
  <2>2. prstate[p] = CASE p = 0 -> "READY"
                       [] p = 1 -> "CURR"
                       [] p \in 2 .. n + 1 -> "SUSP"
                       [] OTHER -> "FREE"
    BY <2>1
  <2>3. ~ (0 \in 2 .. n + 1) /\ ~ (1 \in 2 .. n + 1)
    BY <1>1
  <2> QED BY <2>2, <2>3
<1>5. /\ prstate \in [Pids -> States]
      /\ prprio \in [Pids -> Int] /\ prprio[0] = 0 /\ prprio[1] = INITPRIO
  <2>1. \A p \in Pids : prstate[p] \in States
    BY <1>4 DEF States
  <2>2. prstate \in [Pids -> States]
    BY <2>1 DEF Init
  <2>3. /\ prprio \in [Pids -> Int] /\ prprio[0] = 0 /\ prprio[1] = INITPRIO
    BY <1>1, <1>3 DEF Init, NULLPROC, n
  <2> QED BY <2>2, <2>3
<1>6. Types
  <2>1. pruser \in [Pids -> BOOLEAN]
    BY <1>1, <1>3 DEF Init, n
  <2>2. prparent \in [Pids -> Pids] /\ nextpid \in 1 .. NPROC
    BY <1>1, <1>3 DEF Init, NULLPROC, n
  <2> QED BY <1>5, <2>1, <2>2 DEF Types, Init
<1> DEFINE q == <<Node(NULLPROC, 0)>>
<1>7. IsQueue(q) /\ Entries(q) = {0} /\ q[1].key = 0 /\ q[1].pid = 0 /\ Len(q) = 1
  <2>1. Node(NULLPROC, 0) \in Nodes /\ Node(NULLPROC, 0).pid = 0 /\ Node(NULLPROC, 0).key = 0
    BY <1>3, NodeFacts DEF NULLPROC
  <2>2. q \in Seq(Nodes) /\ Len(q) = 1 /\ q[1] = Node(NULLPROC, 0)
    BY <2>1
  <2> HIDE DEF q
  <2>3. IsQueue(q)
    BY <2>2 DEF IsQueue, Distinct
  <2>4. \A p : p \in Entries(q) <=> \E i \in 1 .. Len(q) : q[i].pid = p
    BY <2>3, QueueFacts
  <2>5. Entries(q) = {0}
    BY <2>1, <2>2, <2>4
  <2> QED BY <2>1, <2>2, <2>3, <2>5
<1>8. readylist = q /\ currpid = 1 /\ preempt = QUANTUM
  BY DEF Init
<1> HIDE DEF q
<1>9. SchedInv
  <2>1. Ranked(q)
    <3>1. \A i \in 1 .. Len(q) : i = 1
      BY <1>7
    <3> QED BY <1>5, <1>7, <3>1 DEF Ranked
  <2>2. Entries(q) = {p \in Pids : prstate[p] = "READY"}
    BY <1>3, <1>4, <1>7
  <2>3. Sched \in SchedType
    <3>1. q \in Seq(Nodes) /\ QUANTUM \in Nat
      BY <1>1, <1>7, QueueFacts
    <3> QED BY <1>3, <1>5, <1>8, <3>1 DEF Sched, SchedType
  <2>4. SchedOK(Sched)
    BY <1>1, <1>3, <1>4, <1>7, <1>8, <2>1, <2>2, <2>3, SchedIs DEF SchedOK, Runnable, NULLPROC
  <2>5. Settled(Sched)
    <3>1. \A p \in Pids : prstate[p] = "READY" => p = 0
      BY <1>4
    <3> QED BY <1>1, <1>3, <1>4, <1>5, <1>8, <3>1, SchedIs DEF Settled
  <2> QED BY <2>4, <2>5 DEF SchedInv
<1>10. IsQueue(<<>>) /\ Entries(<<>>) = {} /\ Len(<<>>) = 0
  <2>1. IsQueue(<<>>) /\ Len(<<>>) = 0
    BY DEF IsQueue, Distinct
  <2>2. \A p : p \in Entries(<<>>) <=> \E i \in 1 .. Len(<<>>) : <<>>[i].pid = p
    BY <2>1, QueueFacts
  <2> QED BY <2>1, <2>2
<1>11. SleepInv
  <2>1. {p \in Pids : prstate[p] \in Asleep} = {}
    BY <1>4 DEF Asleep
  <2>2. sleepq = <<>> /\ left \in [Pids -> Nat]
    BY DEF Init
  <2> QED BY <1>10, <2>1, <2>2 DEF SleepInv
<1>12. SemInv
  <2>1. /\ sstate = [s \in Sems |-> "S_FREE"] /\ scount = [s \in Sems |-> 0]
        /\ squeue = [s \in Sems |-> <<>>] /\ nextsem = 0
    BY DEF Init
  <2>2. \A p \in Pids : prstate[p] # "WAIT"
    BY <1>4
  <2>3. nextsem \in 0 .. NSEM /\ squeue \in [Sems -> Seq(Nodes)]
    BY <1>1, <2>1
  <2> QED BY <1>10, <2>1, <2>2, <2>3 DEF SemInv
<1>13. MsgInv
  <2>1. pc = [p \in Pids |-> "user"]
    BY DEF Init
  <2> QED BY <1>4, <2>1 DEF MsgInv
<1>14. KillInv
  <2>1. pc = [p \in Pids |-> "user"] /\ killing.state = "FREE"
    BY DEF Init
  <2>2. ASSUME NoUserProcesses
        PROVE  \A p \in Pids : ~ pruser[p]
    BY <1>3, <2>2 DEF NoUserProcesses, Init, n
  <2> QED BY <2>1, <2>2 DEF KillInv, Orderly
<1> QED BY <1>6, <1>9, <1>11, <1>12, <1>13, <1>14 DEF Inv

\* Every step keeps it.
LEMMA StepGood ==
  ASSUME Inv, Orderly, [Next]_vars
  PROVE  Good
<1>1. CASE UNCHANGED vars
  <2>1. Commit(Sched) /\ UNCHANGED <<entry, prhasmsg, prsem, nextpid, sleepq, sems, halted, left>>
    BY <1>1 DEF vars, sched, Commit, Sched
  <2>2. pc' = pc /\ killing' = killing
    BY <1>1 DEF vars
  <2>3. /\ SchedOK(Sched) /\ Settled(Sched) /\ Moved(prstate, Sched.prstate, {}, "READY")
        /\ pc \in [Pids -> {"user", "receive", "recvtime", "clkhandler", "kill"}]
    BY SchedIs DEF Inv, SchedInv, Types, Moved
  <2> QED BY <2>1, <2>2, <2>3, SwitchGood
<1>2. ASSUME NEW prio \in Prios, NEW user \in UserKinds, create(prio, user)
      PROVE  Good
  BY <1>2, CreateGood
<1>3. ASSUME NEW p \in Pids, resume(p) \/ suspend(p) \/ kill(p) \/ send(p)
      PROVE  Good
  BY <1>3, ResumeGood, SuspendGood, KillGood, SendGood
<1>4. ASSUME NEW p \in Pids, NEW prio \in NewPrios, chprio(p, prio)
      PROVE  Good
  BY <1>4, ChprioGood
<1>5. CASE yield \/ receive \/ recvclr \/ clkhandler
  BY <1>5, YieldGood, ReceiveGood, RecvclrGood, ClkhandlerGood
<1>6. ASSUME NEW d \in Timeouts, recvtime(d)
      PROVE  Good
  BY <1>6, RecvtimeGood
<1>7. ASSUME NEW d \in Delays, sleepms(d)
      PROVE  Good
  BY <1>7, SleepmsGood
<1>8. ASSUME NEW c \in Counts, semcreate(c)
      PROVE  Good
  BY <1>8, SemcreateGood
<1>9. ASSUME NEW s \in Sems, wait(s) \/ semdelete(s)
      PROVE  Good
  BY <1>9, WaitGood, SemdeleteGood
<1>10. ASSUME NEW s \in Sems, NEW n \in Signals, signaln(s, n)
       PROVE  Good
  BY <1>10, SignalGood
<1>11. ASSUME NEW s \in Sems, NEW c \in Counts, semreset(s, c)
       PROVE  Good
  BY <1>11, SemresetGood
<1>12. CASE Return
  BY <1>12, ReceiveReturnGood, TickReturnGood, KillReturnGood DEF Return
<1>13. CASE Halted
  BY <1>1, <1>13 DEF Halted
<1>14. CASE Call
  BY <1>2, <1>3, <1>4, <1>5, <1>6, <1>7, <1>8, <1>9, <1>10, <1>11, <1>14 DEF Call
<1> QED BY <1>1, <1>5, <1>12, <1>13, <1>14 DEF Next

\* The invariant: what the queues, the counts, the messages and the kill in
\* progress are while processes switch in the middle of system calls (resched).
THEOREM ProcsInductive ==
  ASSUME Orderly
  PROVE  Spec => []Inv
<1>1. Init => Inv
  BY InitInv
<1>2. Inv /\ [Next]_vars => Inv'
  BY StepGood DEF Good
<1> QED BY <1>1, <1>2, PTL DEF Spec

\* The variables stay within the tables of the code, and preempt and nextpid
\* within their bounds (create, clkhandler).
THEOREM ProcsTyped ==
  ASSUME Orderly
  PROVE  Spec => []TypeOK
<1>1. Inv => TypeOK
  <2> SUFFICES ASSUME Inv
               PROVE  TypeOK
    OBVIOUS
  <2>1. Types /\ SchedInv /\ SleepInv /\ SemInv
    BY DEF Inv
  <2>2. /\ prstate \in [Pids -> States] /\ currpid \in Pids /\ preempt \in 1 .. QUANTUM
        /\ IsQueue(readylist)
    BY <2>1, SchedFields, SchedIs DEF SchedInv
  <2>3. Entries(readylist) \subseteq Pids
    BY <2>2, QueueFacts
  <2>4. \A i \in DOMAIN sleepq : sleepq[i].pid \in Pids /\ sleepq[i].key \in Nat
    BY <2>1, QueueFacts DEF SleepInv
  <2>5. \A s \in Sems : Entries(squeue[s]) \subseteq Pids
    BY <2>1, QueueFacts DEF SemInv
  <2> QED BY <2>1, <2>2, <2>3, <2>4, <2>5 DEF TypeOK, Types, SemInv
<1> QED BY <1>1, ProcsInductive, PTL

\* Every queue holds the processes whose state says so, once each, and a
\* semaphore's count is right, through kills, resets and deletions (ready,
\* insert, getitem, signaln, semdelete, kill).
THEOREM QueuesAgree ==
  ASSUME Orderly
  PROVE  Spec => []QueuesSound
<1>1. Inv => QueuesSound
  <2> SUFFICES ASSUME Inv
               PROVE  QueuesConsistent /\ SemCount
    BY DEF QueuesSound
  <2>1. SchedInv /\ SleepInv /\ SemInv
    BY DEF Inv
  <2>2. /\ IsQueue(readylist) /\ Entries(readylist) = {p \in Pids : prstate[p] = "READY"}
        /\ {p \in Pids : prstate[p] = "CURR"} \subseteq {currpid}
    BY <2>1, SchedIs DEF SchedInv, SchedOK
  <2>3. IsQueue(sleepq) /\ Entries(sleepq) = {p \in Pids : prstate[p] \in {"SLEEP", "RECTIM"}}
    BY <2>1 DEF SleepInv, Asleep
  <2>4. \A s \in Sems : /\ IsQueue(squeue[s])
                        /\ Entries(squeue[s]) = {p \in Pids : prstate[p] = "WAIT" /\ prsem[p] = s}
    BY <2>1 DEF SemInv
  <2>5. NoRepeats(readylist) /\ NoRepeats(sleepq) /\ \A s \in Sems : NoRepeats(squeue[s])
    BY <2>2, <2>3, <2>4, QueueNoRepeats
  <2>6. SemCount
    BY <2>1 DEF SemInv, SemCount
  <2> QED BY <2>2, <2>3, <2>4, <2>5, <2>6 DEF QueuesConsistent
<1> QED BY <1>1, ProcsInductive, PTL

\* Unless programs change priorities (chprio leaves the ready list as it is),
\* no ready process has a higher priority than the one that runs (resched).
THEOREM HighestPriorityRuns ==
  ASSUME Orderly, NewPrios = {}
  PROVE  Spec => []HighestRuns
<1>1. Inv => HighestRuns
  BY SchedIs DEF Inv, SchedInv, Settled, HighestRuns
<1> QED BY <1>1, ProcsInductive, PTL

\* The scheduler keeps within its tables and runs the ready process of the highest
\* priority (ready, insert, resched), when nobody calls chprio.
THEOREM Scheduling ==
  ASSUME Orderly, NewPrios = {}
  PROVE  Spec => []SchedulerSound
<1>1. TypeOK /\ HighestRuns => SchedulerSound
  BY DEF SchedulerSound
<1> QED BY <1>1, ProcsTyped, HighestPriorityRuns, PTL

\* Nobody waits for a message that has come, and a receive that has stopped
\* waiting finds one, whatever timeouts, suspensions and kills come between
\* (send, receive, recvtime).
THEOREM NoMessageLost ==
  ASSUME Orderly
  PROVE  Spec => []MessagesFound
<1>1. Inv => MessagesFound
  BY DEF Inv, MsgInv, MessagesFound, NoLostWakeup, ReceiveFinds
<1> QED BY <1>1, ProcsInductive, PTL

\* The keys of the delta list add up to the ticks that are left, whatever is
\* inserted, cancelled and woken in whatever order, unless a timeout of zero is
\* inserted (insertd, unsleep, clkhandler).
THEOREM DelaysExact ==
  ASSUME Orderly, 0 \notin Timeouts
  PROVE  Spec => []SleepExact
<1>1. Inv => SleepExact
  <2>1. ASSUME Inv PROVE DOMAIN sleepq = 1 .. Len(sleepq)
    BY <2>1, QueueFacts DEF Inv, SleepInv
  <2> QED BY <2>1 DEF Inv, SleepInv, SleepExact
<1> QED BY <1>1, ProcsInductive, PTL

\* Only create takes the slot of a killed process out of PR_FREE (kill, ready).
THEOREM TheDeadStayDead ==
  ASSUME Orderly
  PROVE  Spec => DeadStayDead
<1>1. Inv /\ [Next]_vars => [\A p \in Pids : prstate[p] = "FREE" => prstate'[p] \in {"FREE", "SUSP"}]_vars
  BY StepGood DEF Good, Buried
<1> QED BY <1>1, ProcsInductive, PTL DEF Spec, DeadStayDead

=============================================================================
