------------------------------ MODULE ProcMgr -------------------------------
(***************************************************************************)
(* Process management: create, resume, suspend, kill, yield, chprio; the   *)
(* ready list and resched; sleep, timed receive and the clock interrupt;   *)
(* messages; semaphores.                                                   *)
(*                                                                         *)
(* A system call runs with interrupts disabled, so it is one step up to    *)
(* the resched in it that switches to another process.  pc records what    *)
(* the process left behind still has to do when it is switched to again.   *)
(* The queues of queuetab are sequences of process IDs with their keys.    *)
(* Deferred rescheduling begins and ends within one step.                  *)
(***************************************************************************)
EXTENDS Integers, SequencesExt

CONSTANTS
  NPROC,       \* entries of proctab
  NSEM,        \* entries of semtab
  QUANTUM,     \* clock ticks of a time slice
  INITPRIO,    \* priority of the first process
  Created,     \* the processes it has created so far: their prio and user
  Syscalls,    \* bound: the system calls that programs make
  Prios,       \* bound: the priorities processes are created with
  NewPrios,    \* bound: the newprio arguments of chprio
  Delays,      \* bound: the delay arguments of sleepms
  Timeouts,    \* bound: the maxwait arguments of recvtime
  Counts,      \* bound: the count arguments of semcreate and semreset
  Signals,     \* bound: the count arguments of signaln
  MaxCount,    \* bound: largest semaphore count
  UserKinds,   \* subset of BOOLEAN: whether create, vcreate or both are used
  Victims      \* bound: the states of the processes that programs kill

ASSUME ProcMgrAssumption ==
  /\ NPROC \in Nat /\ NPROC > 1 /\ NSEM \in Nat /\ QUANTUM \in Nat \ {0}
  /\ INITPRIO \in Nat \ {0} /\ Len(Created) < NPROC - 1
  /\ Created \in Seq([prio : Nat \ {0}, user : BOOLEAN])
  /\ Prios \subseteq Nat \ {0} /\ NewPrios \subseteq Int
  /\ Delays \subseteq Nat \ {0} /\ Timeouts \subseteq Nat
  /\ Counts \subseteq Nat /\ Signals \subseteq Nat /\ MaxCount \in Nat
  /\ UserKinds \subseteq BOOLEAN

VARIABLES
  prstate, prprio, pruser, prparent, prhasmsg, prsem,   \* proctab
  nextpid,
  currpid, readylist, preempt,
  sleepq,
  sstate, scount, squeue, nextsem,                      \* semtab
  pc,          \* what a process that was switched away from does next
  killing,     \* _pid, _prstate and _prsem of kill.c
  halted,      \* xdone was called
  left         \* ghost: clock ticks until a sleeping process is due

sched == <<prstate, currpid, readylist, preempt>>
entry == <<prprio, pruser, prparent>>
sems == <<sstate, scount, squeue, nextsem>>
vars == <<sched, entry, prhasmsg, prsem, nextpid, sleepq, sems, pc, killing, halted, left>>

Pids == 0 .. (NPROC - 1)
NULLPROC == 0
Sems == 0 .. (NSEM - 1)
States == {"FREE", "CURR", "READY", "RECV", "SLEEP", "SUSP", "WAIT", "RECTIM"}

\* Entries of a queue: the process and its key.
Node(p, k) == [pid |-> p, key |-> k]
Index(q, p) == SelectInSeq(q, LAMBDA n : n.pid = p)
On(q, p) == Index(q, p) # 0

\* The first process is running and has created some others; the null process
\* is ready.
Init ==
  /\ prstate = [p \in Pids |-> CASE p = NULLPROC -> "READY"
                                  [] p = 1 -> "CURR"
                                  [] p \in 2 .. Len(Created) + 1 -> "SUSP"
                                  [] OTHER -> "FREE"]
  /\ prprio = [p \in Pids |-> CASE p = 1 -> INITPRIO
                                 [] p \in 2 .. Len(Created) + 1 -> Created[p - 1].prio
                                 [] OTHER -> 0]
  /\ pruser = [p \in Pids |-> p \in 2 .. Len(Created) + 1 /\ Created[p - 1].user]
  /\ prparent = [p \in Pids |-> IF p \in 2 .. Len(Created) + 1 THEN 1 ELSE NULLPROC]
  /\ prhasmsg = [p \in Pids |-> FALSE]
  /\ prsem = [p \in Pids |-> -1]
  /\ nextpid = Len(Created) + 2
  /\ currpid = 1
  /\ readylist = <<Node(NULLPROC, 0)>>
  /\ preempt = QUANTUM
  /\ sleepq = <<>>
  /\ sstate = [s \in Sems |-> "S_FREE"]
  /\ scount = [s \in Sems |-> 0]
  /\ squeue = [s \in Sems |-> <<>>]
  /\ nextsem = 0
  /\ pc = [p \in Pids |-> "user"]
  /\ killing = [pid |-> NULLPROC, state |-> "FREE", sem |-> -1]
  /\ halted = FALSE
  /\ left = [p \in Pids |-> 0]

-----------------------------------------------------------------------------
(***************************************************************************)
(* Queues.                                                                 *)
(***************************************************************************)

\* insert: in descending key order, after the entries with the same key.
InsertFirst(q, p, k) ==
  LET i == SelectInSeq(q, LAMBDA n : n.key <= k)
  IN  InsertAt(q, IF i = 0 THEN Len(q) + 1 ELSE i, Node(p, k))
InsertAtTail(q, p, k) == Append(q, Node(p, k))
insert(q, p, k) ==
  LET i == SelectInSeq(q, LAMBDA n : n.key < k)
  IN  InsertAt(q, IF i = 0 THEN Len(q) + 1 ELSE i, Node(p, k))

getitem(q, p) == IF On(q, p) THEN RemoveAt(q, Index(q, p)) ELSE q

\* The sum of the first i keys of a delta list: the ticks until entry i is due.
Due(q, i) ==
  LET sum[j \in 0 .. Len(q)] == IF j = 0 THEN 0 ELSE sum[j - 1] + q[j].key
  IN  sum[i]

\* insertd: into the delta list; the key of the entry that follows shrinks.
InsertdKeepNext(q, p, d) ==
  LET n == Cardinality({i \in DOMAIN q : Due(q, i) <= d})
  IN  InsertAt(q, n + 1, Node(p, d - Due(q, n)))
insertd(q, p, d) ==
  LET n == Cardinality({i \in DOMAIN q : Due(q, i) <= d})
      k == d - Due(q, n)
      r == IF n < Len(q) THEN [q EXCEPT ![n + 1].key = @ - k] ELSE q
  IN  InsertAt(r, n + 1, Node(p, k))

\* unsleep: the key of the entry that follows grows.
UnsleepDropsRest(q, p) == SubSeq(q, 1, Index(q, p) - 1)
unsleep(q, p) ==
  LET i == Index(q, p)
      r == IF i < Len(q) THEN [q EXCEPT ![i + 1].key = @ + q[i].key] ELSE q
  IN  RemoveAt(r, i)

-----------------------------------------------------------------------------
(***************************************************************************)
(* Scheduling, on a record of the scheduler's state.                       *)
(***************************************************************************)
Sched == [prstate |-> prstate, currpid |-> currpid, readylist |-> readylist, preempt |-> preempt]

Commit(new) ==
  \E s \in {new} :
     /\ prstate' = s.prstate
     /\ currpid' = s.currpid
     /\ readylist' = s.readylist
     /\ preempt' = s.preempt

SetState(s, p, st) == [s EXCEPT !.prstate[p] = st]

\* firstkey: the key of the tail node when the queue is empty.
MINKEY == - 2147483647 - 1
firstkey(q) == IF q = <<>> THEN MINKEY ELSE Head(q).key

\* resched: a current process stays when it has a higher priority than every
\* ready one; otherwise the first of the ready list is dispatched.
resched(s) ==
  LET old == s.currpid
      eligible == s.prstate[old] = "CURR"
      queue == IF eligible THEN insert(s.readylist, old, prprio[old]) ELSE s.readylist
      new == Head(queue).pid
  IN  IF eligible /\ prprio[old] > firstkey(s.readylist)
      THEN s
      ELSE [prstate |-> [s.prstate EXCEPT ![old] = IF eligible THEN "READY" ELSE @, ![new] = "CURR"],
            currpid |-> new,
            readylist |-> Tail(queue),
            preempt |-> QUANTUM]

\* ready, without the resched it ends with; a free process is left alone.
MakeReady(s, p) ==
  IF s.prstate[p] = "FREE"
  THEN s
  ELSE [SetState(s, p, "READY") EXCEPT !.readylist = insert(@, p, prprio[p])]

\* ready for each process of a sequence, while rescheduling is deferred.
ReadyAll(s, ps) ==
  LET after[i \in 0 .. Len(ps)] == IF i = 0 THEN s ELSE MakeReady(after[i - 1], ps[i])
      t == after[Len(ps)]
  IN  IF \E i \in DOMAIN ps : s.prstate[ps[i]] # "FREE" THEN resched(t) ELSE t

\* The current process executes its own code, with interrupts enabled.
InUser == ~ halted /\ pc[currpid] = "user"
Calls == InUser /\ currpid # NULLPROC

\* The current process blocks in state st; then is what it does when it is
\* switched to again.
Block(st, then) ==
  /\ Commit(resched(SetState(Sched, currpid, st)))
  /\ pc' = [pc EXCEPT ![currpid] = then]

-----------------------------------------------------------------------------
(***************************************************************************)
(* Processes.                                                              *)
(***************************************************************************)

\* newpid: the slots are tried in turn, starting at nextpid.
Slot(i) == (nextpid + i) % NPROC
FreeSlots == {i \in Pids : prstate[Slot(i)] = "FREE"}

create(prio, user) ==
  /\ Calls
  /\ \/ /\ FreeSlots = {}
        /\ nextpid' = Slot(NPROC - 1) + 1
        /\ UNCHANGED <<prstate, entry, prhasmsg, prsem, pc>>
     \/ /\ FreeSlots # {}
        /\ LET p == Slot(Min(FreeSlots))
           IN  /\ nextpid' = p + 1
               /\ prstate' = [prstate EXCEPT ![p] = "SUSP"]
               /\ prprio' = [prprio EXCEPT ![p] = prio]
               /\ pruser' = [pruser EXCEPT ![p] = user]
               /\ prparent' = [prparent EXCEPT ![p] = currpid]
               /\ prhasmsg' = [prhasmsg EXCEPT ![p] = FALSE]
               /\ prsem' = [prsem EXCEPT ![p] = -1]
               /\ pc' = [pc EXCEPT ![p] = "user"]
  /\ UNCHANGED <<currpid, readylist, preempt, sleepq, sems, killing, halted, left>>

ResumeBlocked(p) ==
  /\ Calls /\ prstate[p] \in {"SUSP", "RECV"}
  /\ Commit(resched(MakeReady(Sched, p)))
  /\ UNCHANGED <<entry, prhasmsg, prsem, nextpid, sleepq, sems, pc, killing, halted, left>>
resume(p) ==
  /\ Calls /\ prstate[p] = "SUSP"
  /\ Commit(resched(MakeReady(Sched, p)))
  /\ UNCHANGED <<entry, prhasmsg, prsem, nextpid, sleepq, sems, pc, killing, halted, left>>

SuspendReady(s, p) == [SetState(s, p, "SUSP") EXCEPT !.readylist = getitem(@, p)]

suspend(p) ==
  /\ Calls /\ p # NULLPROC
  /\ \/ prstate[p] = "READY" /\ Commit(SuspendReady(Sched, p))
     \/ prstate[p] = "CURR" /\ Commit(resched(SetState(Sched, p, "SUSP")))
  /\ UNCHANGED <<entry, prhasmsg, prsem, nextpid, sleepq, sems, pc, killing, halted, left>>

yield ==
  /\ Calls
  /\ Commit(resched(Sched))
  /\ UNCHANGED <<entry, prhasmsg, prsem, nextpid, sleepq, sems, pc, killing, halted, left>>

chprio(p, prio) ==
  /\ Calls /\ prstate[p] # "FREE"
  /\ prprio' = [prprio EXCEPT ![p] = prio]
  /\ UNCHANGED <<sched, pruser, prparent, prhasmsg, prsem, nextpid, sleepq, sems, pc,
                 killing, halted, left>>

-----------------------------------------------------------------------------
(***************************************************************************)
(* Messages and time.                                                      *)
(***************************************************************************)

\* send, up to its restore: what it does to the scheduler and the sleep queue.
CanSend(p, s) == s.prstate[p] # "FREE" /\ ~ prhasmsg[p]
SendWakesNoTimer(s, p) ==
  [sched |-> IF s.prstate[p] = "RECV" THEN resched(MakeReady(s, p)) ELSE s,
   sleepq |-> sleepq,
   left |-> left]
Send(s, p) ==
  [sched |-> IF s.prstate[p] \in {"RECV", "RECTIM"} THEN resched(MakeReady(s, p)) ELSE s,
   sleepq |-> IF s.prstate[p] = "RECTIM" THEN unsleep(sleepq, p) ELSE sleepq,
   left |-> [left EXCEPT ![p] = IF s.prstate[p] = "RECTIM" THEN 0 ELSE @]]

send(p) ==
  /\ Calls /\ CanSend(p, Sched)
  /\ Commit(Send(Sched, p).sched)
  /\ sleepq' = Send(Sched, p).sleepq
  /\ left' = Send(Sched, p).left
  /\ prhasmsg' = [prhasmsg EXCEPT ![p] = TRUE]
  /\ UNCHANGED <<entry, prsem, nextpid, sems, pc, killing, halted>>

\* receive takes a waiting message, or blocks until one arrives.
receive ==
  /\ Calls
  /\ \/ /\ prhasmsg[currpid]
        /\ prhasmsg' = [prhasmsg EXCEPT ![currpid] = FALSE]
        /\ UNCHANGED <<sched, pc>>
     \/ /\ ~ prhasmsg[currpid]
        /\ Block("RECV", "receive")
        /\ UNCHANGED prhasmsg
  /\ UNCHANGED <<entry, prsem, nextpid, sleepq, sems, killing, halted, left>>

recvtime(maxwait) ==
  /\ Calls
  /\ \/ /\ prhasmsg[currpid]
        /\ prhasmsg' = [prhasmsg EXCEPT ![currpid] = FALSE]
        /\ UNCHANGED <<sched, pc, sleepq, left>>
     \/ /\ ~ prhasmsg[currpid]
        /\ sleepq' = insertd(sleepq, currpid, maxwait)
        /\ left' = [left EXCEPT ![currpid] = maxwait]
        /\ Block("RECTIM", "recvtime")
        /\ UNCHANGED prhasmsg
  /\ UNCHANGED <<entry, prsem, nextpid, sems, killing, halted>>

\* The end of receive or recvtime, after the process was blocked in it: it
\* takes the message; only recvtime may find none.
ReceiveReturn ==
  /\ ~ halted /\ pc[currpid] \in {"receive", "recvtime"}
  /\ prhasmsg' = [prhasmsg EXCEPT ![currpid] = FALSE]
  /\ pc' = [pc EXCEPT ![currpid] = "user"]
  /\ UNCHANGED <<sched, entry, prsem, nextpid, sleepq, sems, killing, halted, left>>

recvclr ==
  /\ Calls /\ prhasmsg[currpid]
  /\ prhasmsg' = [prhasmsg EXCEPT ![currpid] = FALSE]
  /\ UNCHANGED <<sched, entry, prsem, nextpid, sleepq, sems, pc, killing, halted, left>>

\* sleepms with a positive delay (a delay of 0 is a yield).
sleepms(delay) ==
  /\ Calls
  /\ sleepq' = insertd(sleepq, currpid, delay)
  /\ left' = [left EXCEPT ![currpid] = delay]
  /\ Block("SLEEP", "user")
  /\ UNCHANGED <<entry, prhasmsg, prsem, nextpid, sems, killing, halted>>

\* The second half of clkhandler: the time slice.
EndTickLate(s) == IF s.preempt < 1 THEN resched([s EXCEPT !.preempt = QUANTUM])
                  ELSE [s EXCEPT !.preempt = @ - 1]
EndTick(s) == IF s.preempt <= 1 THEN resched([s EXCEPT !.preempt = QUANTUM])
              ELSE [s EXCEPT !.preempt = @ - 1]

\* wakeup: how many processes at the front of the sleep queue are due.
Overdue(q) ==
  LET n == SelectInSeq(q, LAMBDA e : e.key > 0)
  IN  IF n = 0 THEN Len(q) ELSE n - 1

\* clkhandler: count down the first sleeping process and wake those that are
\* due.  When that switches to another process, the time slice is dealt with
\* after the switch back.
clkhandler ==
  /\ InUser
  /\ \E q \in {IF sleepq = <<>> THEN <<>> ELSE [sleepq EXCEPT ![1].key = @ - 1]} :
     \E woken \in {ReadyAll(Sched, [i \in 1 .. Overdue(q) |-> q[i].pid])} :
        /\ sleepq' = SubSeq(q, Overdue(q) + 1, Len(q))
        /\ \/ /\ woken.currpid = currpid
              /\ Commit(EndTick(woken))
              /\ UNCHANGED pc
           \/ /\ woken.currpid # currpid
              /\ Commit(woken)
              /\ pc' = [pc EXCEPT ![currpid] = "clkhandler"]
  /\ left' = [p \in Pids |-> IF On(sleepq, p) /\ left[p] > 0 THEN left[p] - 1 ELSE left[p]]
  /\ UNCHANGED <<entry, prhasmsg, prsem, nextpid, sems, killing, halted>>

TickReturn ==
  /\ ~ halted /\ pc[currpid] = "clkhandler"
  /\ Commit(EndTick(Sched))
  /\ pc' = [pc EXCEPT ![currpid] = "user"]
  /\ UNCHANGED <<entry, prhasmsg, prsem, nextpid, sleepq, sems, killing, halted, left>>

-----------------------------------------------------------------------------
(***************************************************************************)
(* Semaphores.                                                             *)
(***************************************************************************)

\* newsem: the entries are tried in turn, starting at nextsem.
SemSlot(i) == (nextsem + i) % NSEM
FreeSems == {i \in Sems : sstate[SemSlot(i)] = "S_FREE"}

semcreate(count) ==
  /\ Calls /\ FreeSems # {}
  /\ LET s == SemSlot(Min(FreeSems))
     IN  /\ sstate' = [sstate EXCEPT ![s] = "S_USED"]
         /\ scount' = [scount EXCEPT ![s] = count]
         /\ nextsem' = (s + 1) % NSEM
  /\ UNCHANGED <<sched, entry, prhasmsg, prsem, nextpid, sleepq, squeue, pc, killing, halted, left>>

wait(s) ==
  /\ Calls /\ sstate[s] = "S_USED"
  /\ scount' = [scount EXCEPT ![s] = @ - 1]
  /\ \/ scount[s] > 0 /\ UNCHANGED <<sched, prsem, squeue, pc>>
     \/ /\ scount[s] <= 0
        /\ prsem' = [prsem EXCEPT ![currpid] = s]
        /\ squeue' = [squeue EXCEPT ![s] = Append(@, Node(currpid, 0))]
        /\ Block("WAIT", "user")
  /\ UNCHANGED <<entry, prhasmsg, nextpid, sleepq, sstate, nextsem, killing, halted, left>>

\* The first n processes that wait for s.
Waiting(s, n) == [i \in 1 .. Min({n, Len(squeue[s])}) |-> squeue[s][i].pid]
Without(q, ps) == SubSeq(q, Len(ps) + 1, Len(q))

\* How many processes a signal by n releases: one for each increment that
\* finds the count negative.
ReleasedPreIncrement(s, n) == IF scount[s] >= -1 THEN 0 ELSE Min({n, - scount[s] - 1})
Released(s, n) == IF scount[s] >= 0 THEN 0 ELSE Min({n, - scount[s]})

\* signal (n = 1) and signaln.
signaln(s, n) ==
  LET out == Waiting(s, Released(s, n))
  IN  /\ Calls /\ sstate[s] = "S_USED" /\ scount[s] + n <= MaxCount
      /\ scount' = [scount EXCEPT ![s] = @ + n]
      /\ squeue' = [squeue EXCEPT ![s] = Without(@, out)]
      /\ Commit(ReadyAll(Sched, out))
      /\ UNCHANGED <<entry, prhasmsg, prsem, nextpid, sleepq, sstate, nextsem, pc, killing,
                     halted, left>>

\* semdelete increments the count until it has found it not negative.
semdelete(s) ==
  LET out == Waiting(s, - scount[s])
  IN  /\ Calls /\ sstate[s] = "S_USED"
      /\ sstate' = [sstate EXCEPT ![s] = "S_FREE"]
      /\ scount' = [scount EXCEPT ![s] = (IF @ < 0 THEN 0 ELSE @) + 1]
      /\ squeue' = [squeue EXCEPT ![s] = Without(@, out)]
      /\ Commit(ReadyAll(Sched, out))
      /\ UNCHANGED <<entry, prhasmsg, prsem, nextpid, sleepq, nextsem, pc, killing, halted, left>>

semreset(s, count) ==
  LET out == Waiting(s, Len(squeue[s]))
  IN  /\ Calls /\ sstate[s] = "S_USED"
      /\ scount' = [scount EXCEPT ![s] = count]
      /\ squeue' = [squeue EXCEPT ![s] = <<>>]
      /\ Commit(ReadyAll(Sched, out))
      /\ UNCHANGED <<entry, prhasmsg, prsem, nextpid, sleepq, sstate, nextsem, pc, killing,
                     halted, left>>

-----------------------------------------------------------------------------
(***************************************************************************)
(* kill.                                                                   *)
(***************************************************************************)

\* The end of kill, from its switch statement on, for the process k.pid that
\* was in state k.state, waiting for k.sem.  unsleep and getitem look at the
\* process k.pid as it is now.
UnlinkNothing(s, q, k) == [sched |-> s, sleepq |-> q, scount |-> scount, squeue |-> squeue]
Unlink(s, q, k) ==
  [sched |-> IF k.state \in {"READY", "WAIT"} THEN [s EXCEPT !.readylist = getitem(@, k.pid)]
             ELSE IF k.state = "CURR" THEN resched(s) ELSE s,
   sleepq |-> IF /\ k.state \in {"CURR", "SLEEP", "RECTIM"}
                 /\ s.prstate[k.pid] \in {"SLEEP", "RECTIM"}
              THEN unsleep(q, k.pid) ELSE q,
   scount |-> IF k.state = "WAIT" THEN [scount EXCEPT ![k.sem] = @ + 1] ELSE scount,
   squeue |-> IF k.state \in {"READY", "WAIT"}
              THEN [m \in Sems |-> getitem(squeue[m], k.pid)] ELSE squeue]

FinishKill(s, q, k) ==
  LET u == Unlink(s, q, k)
  IN  /\ Commit(u.sched)
      /\ sleepq' = u.sleepq
      /\ scount' = u.scount
      /\ squeue' = u.squeue
      /\ UNCHANGED <<sstate, nextsem>>

\* The parent of a user process is sent its ID before p is taken off its
\* queue, and send may switch to the parent.
kill(p) ==
  LET k == [pid |-> p, state |-> prstate[p], sem |-> prsem[p]]
      freed == SetState(Sched, p, "FREE")
      informs == pruser[p] /\ CanSend(prparent[p], freed)
      after == IF informs THEN Send(freed, prparent[p])
               ELSE [sched |-> freed, sleepq |-> sleepq, left |-> left]
      live == Cardinality({r \in Pids : prstate[r] # "FREE"})
  IN  /\ Calls /\ p # NULLPROC /\ prstate[p] \in Victims \ {"FREE"}
      /\ \/ /\ live <= 2
            /\ halted' = TRUE
            /\ UNCHANGED <<sched, prhasmsg, sleepq, left, sems, pc, killing>>
         \/ /\ live > 2
            /\ killing' = k
            /\ prhasmsg' = IF informs THEN [prhasmsg EXCEPT ![prparent[p]] = TRUE] ELSE prhasmsg
            /\ left' = [after.left EXCEPT ![p] = 0]
            /\ \/ /\ after.sched.currpid = currpid
                  /\ FinishKill(after.sched, after.sleepq, k)
                  /\ UNCHANGED pc
               \/ /\ after.sched.currpid # currpid
                  /\ Commit(after.sched)
                  /\ sleepq' = after.sleepq
                  /\ pc' = [pc EXCEPT ![currpid] = "kill"]
                  /\ UNCHANGED sems
            /\ UNCHANGED halted
      /\ UNCHANGED <<entry, prsem, nextpid>>

KillReturn ==
  /\ ~ halted /\ pc[currpid] = "kill"
  /\ FinishKill(Sched, sleepq, killing)
  /\ pc' = [pc EXCEPT ![currpid] = "user"]
  /\ UNCHANGED <<entry, prhasmsg, prsem, nextpid, killing, halted, left>>

Halted == halted /\ UNCHANGED vars

-----------------------------------------------------------------------------
Return == ReceiveReturn \/ TickReturn \/ KillReturn

Call ==
  \/ "create" \in Syscalls /\ \E prio \in Prios, user \in UserKinds : create(prio, user)
  \/ "resume" \in Syscalls /\ \E p \in Pids : resume(p)
  \/ "suspend" \in Syscalls /\ \E p \in Pids : suspend(p)
  \/ "kill" \in Syscalls /\ \E p \in Pids : kill(p)
  \/ "chprio" \in Syscalls /\ \E p \in Pids \ {NULLPROC}, prio \in NewPrios : chprio(p, prio)
  \/ "yield" \in Syscalls /\ yield
  \/ "send" \in Syscalls /\ \E p \in Pids : send(p)
  \/ "receive" \in Syscalls /\ receive
  \/ "recvtime" \in Syscalls /\ \E d \in Timeouts : recvtime(d)
  \/ "recvclr" \in Syscalls /\ recvclr
  \/ "sleepms" \in Syscalls /\ \E d \in Delays : sleepms(d)
  \/ "semcreate" \in Syscalls /\ \E c \in Counts : semcreate(c)
  \/ "wait" \in Syscalls /\ \E s \in Sems : wait(s)
  \/ "signal" \in Syscalls /\ \E s \in Sems, n \in Signals : signaln(s, n)
  \/ "semdelete" \in Syscalls /\ \E s \in Sems : semdelete(s)
  \/ "semreset" \in Syscalls /\ \E s \in Sems, c \in Counts : semreset(s, c)

Next == Call \/ Return \/ clkhandler \/ Halted

\* The clock keeps interrupting: if interrupts are enabled again and again, so
\* are they taken.  (For QUANTUM > 1 this is strong fairness of clkhandler,
\* which then always changes preempt or the sleep queue.)  A process in the
\* middle of a system call goes on.
Fairness == ([]<>InUser => []<><<clkhandler>>_vars) /\ WF_vars(Return)

Spec == Init /\ [][Next]_vars /\ Fairness

-----------------------------------------------------------------------------
(***************************************************************************)
(* Properties.                                                             *)
(***************************************************************************)
Entries(q) == {q[i].pid : i \in DOMAIN q}
NoRepeats(q) == Cardinality(Entries(q)) = Len(q)

\* The variables stay within the tables of the code, and keys of the sleep
\* queue, which clkhandler counts down, never go below zero between ticks.
TypeOK ==
  /\ prstate \in [Pids -> States]
  /\ prprio \in [Pids -> Int] /\ pruser \in [Pids -> BOOLEAN] /\ prparent \in [Pids -> Pids]
  /\ prhasmsg \in [Pids -> BOOLEAN] /\ prsem \in [Pids -> Sems \cup {-1}]
  /\ nextpid \in 1 .. NPROC /\ currpid \in Pids /\ preempt \in 1 .. QUANTUM
  /\ Entries(readylist) \subseteq Pids
  /\ \A i \in DOMAIN sleepq : sleepq[i].pid \in Pids /\ sleepq[i].key \in Nat
  /\ sstate \in [Sems -> {"S_FREE", "S_USED"}]
  /\ scount \in [Sems -> Int] /\ nextsem \in 0 .. NSEM
  /\ \A s \in Sems : Entries(squeue[s]) \subseteq Pids
  /\ pc \in [Pids -> {"user", "receive", "recvtime", "clkhandler", "kill"}]
  /\ halted \in BOOLEAN

\* prstate and the queues tell the same story: a process is on the ready list,
\* the sleep queue or the queue of its semaphore exactly when its state says
\* so, once, and on no other queue; one process runs.  queuetab has one entry
\* per process, so a process on two queues corrupts both.
QueuesConsistent ==
  /\ {p \in Pids : prstate[p] = "CURR"} \subseteq {currpid}
  /\ Entries(readylist) = {p \in Pids : prstate[p] = "READY"}
  /\ Entries(sleepq) = {p \in Pids : prstate[p] \in {"SLEEP", "RECTIM"}}
  /\ \A s \in Sems : Entries(squeue[s]) = {p \in Pids : prstate[p] = "WAIT" /\ prsem[p] = s}
  /\ NoRepeats(readylist) /\ NoRepeats(sleepq) /\ \A s \in Sems : NoRepeats(squeue[s])

\* No ready process has a higher priority than the one that runs: resched.c,
\* "Reschedule processor to highest priority eligible process".
HighestRuns == \A p \in Pids : prstate[p] = "READY" => prprio[p] <= prprio[currpid]

\* The scheduler's variables stay within their bounds, and the ready process of the
\* highest priority runs (ready, insert, resched).
SchedulerSound == TypeOK /\ HighestRuns

\* A negative count is the number of processes that wait, through signals,
\* resets, deletions and the killing of processes that wait.
SemCount == \A s \in Sems : Len(squeue[s]) = IF scount[s] < 0 THEN - scount[s] ELSE 0

\* Every queue, with the state or the count that speaks of it (kill, signaln,
\* semreset, wakeup, resched).
QueuesSound == QueuesConsistent /\ SemCount

\* A process is never blocked for a message that has arrived: neither a send
\* that races a timeout nor one before receive is lost.
NoLostWakeup == \A p \in Pids : prstate[p] \in {"RECV", "RECTIM"} => ~ prhasmsg[p]

\* A process whose receive has stopped waiting finds a message when it goes
\* on, even if it was suspended and resumed in between.
ReceiveFinds ==
  \A p \in Pids : pc[p] = "receive" /\ prstate[p] \in {"READY", "CURR", "SUSP"} => prhasmsg[p]

\* Nobody is left waiting though a message came (send, receive, recvtime).
MessagesFound == NoLostWakeup /\ ReceiveFinds

\* The delta list is right: the keys up to a process's entry add up to the
\* ticks it still has to sleep, whatever others insert, cancel or wake.
SleepExact == \A i \in DOMAIN sleepq : Due(sleepq, i) = left[sleepq[i].pid]

\* A process that was killed does not run again: its slot leaves PR_FREE only
\* through create.
DeadStayDead ==
  [][\A p \in Pids : prstate[p] = "FREE" => prstate'[p] \in {"FREE", "SUSP"}]_vars

\* A process that sleeps wakes up, unless the system halts: sleep.c, "Delay
\* the calling process n milliseconds".
Wakes == \A p \in Pids : prstate[p] = "SLEEP" ~> (prstate[p] # "SLEEP" \/ halted)

\* Time slices: a ready process gets the processor, unless one of a higher
\* priority does, whatever system calls others make and whenever ticks fall.
TimeSharing ==
  \A p \in Pids : prstate[p] = "READY" ~>
    (prstate[p] # "READY" \/ prprio[currpid] > prprio[p] \/ halted)

=============================================================================
