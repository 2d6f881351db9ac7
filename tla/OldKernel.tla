----------------------------- MODULE OldKernel ------------------------------
(***************************************************************************)
(* The kernel of the earlier Xinu: processes on the linked lists of        *)
(* queuetab, rescheduling that interrupt handlers defer, messages, sleep,  *)
(* semaphores, stacks and buffer pools taken from one memory.              *)
(*                                                                         *)
(* A system call runs with interrupts disabled: it is one step up to the   *)
(* resched that switches to another process, and pc says what is left to   *)
(* do when the process is switched to again.  Memory is a set of units; a  *)
(* stack and a buffer take one unit.  The free list is the set of free     *)
(* units, its blocks the runs of consecutive ones.                         *)
(***************************************************************************)
EXTENDS Integers, SequencesExt

CONSTANTS
  NPROC,       \* entries of proctab
  NSEM,        \* entries of semtab
  NBPOOLS,     \* entries of buftab
  QUANTUM,     \* clock ticks of a time slice
  INITPRIO,    \* priority of the first process
  Units,       \* number of units of memory
  Syscalls,    \* bound: the system calls that programs make
  Prios,       \* bound: the priority arguments of create and chprio
  Delays,      \* bound: the arguments of sleepms and recvtime
  Counts,      \* bound: the count arguments of semcreate, semreset and signaln
  PoolSizes,   \* bound: the numbufs arguments of mkbufpool
  MaxCount     \* bound: largest semaphore count

VARIABLES
  sys,         \* the tables that system calls compute on: proctab, queuetab, semtab, currpid,
               \* preempt, Defer, prcount, and free: the units on the free list
  nextpid, nextsem,
  buftab,      \* the pools: bpsem and the list of free buffers
  pc,          \* what a process that was switched away from does next
  held,        \* the buffers that a process has
  halted       \* xdone was called

vars == <<sys, nextpid, nextsem, buftab, pc, held, halted>>

Q == INSTANCE Queues WITH queuetab <- sys.queuetab, nextqid <- NPROC + 2 * NSEM + 4, Keys <- {}

SYSERR == -1
Pids == 0 .. NPROC - 1
Sems == 0 .. NSEM - 1
NULLPROC == 0
squeue(m) == NPROC + 2 * m
readylist == NPROC + 2 * NSEM
sleepq == NPROC + 2 * NSEM + 2

User == <<"user", 0>>
State(s, p) == s.proctab[p].prstate
SetState(s, p, st) == [s EXCEPT !.proctab[p].prstate = st]

-----------------------------------------------------------------------------
(***************************************************************************)
(* Memory.                                                                 *)
(***************************************************************************)
Fits(free, n) == {a \in free : a .. a + n - 1 \subseteq free}

\* getmem: the start of the first block that is large enough; getstk: the end
\* of the last one.
getmem(free, n) == IF Fits(free, n) = {} THEN SYSERR ELSE Min(Fits(free, n))
getstk(free, n) == IF Fits(free, n) = {} THEN SYSERR ELSE Max(Fits(free, n))

\* freestk: freemem refuses a unit that is on the free list.
freestk(s, a) == [s EXCEPT !.free = @ \cup {a}]

-----------------------------------------------------------------------------
(***************************************************************************)
(* Scheduling.                                                             *)
(***************************************************************************)
PutOn(s, p) == [SetState(s, p, "READY") EXCEPT
                  !.queuetab = Q!insert(@, p, readylist, s.proctab[p].prprio)]

\* The first process of the ready list becomes the current one.
Dispatch(s) ==
  LET new == Q!firstid(s.queuetab, readylist)
  IN  [SetState(s, new, "CURR") EXCEPT !.queuetab = Q!dequeue(@, readylist),
                                       !.currpid = new, !.preempt = QUANTUM]

ReschedAlways(s) == IF State(s, s.currpid) = "CURR" THEN Dispatch(PutOn(s, s.currpid)) ELSE Dispatch(s)
resched(s) ==
  CASE s.Defer.ndefers > 0 -> [s EXCEPT !.Defer.attempt = TRUE]
    [] /\ s.Defer.ndefers = 0 /\ State(s, s.currpid) = "CURR"
       /\ s.proctab[s.currpid].prprio > Q!firstkey(s.queuetab, readylist) -> s
    [] OTHER -> ReschedAlways(s)

\* sched_cntl(DEFER_START) and sched_cntl(DEFER_STOP).
DeferStart(s) == [s EXCEPT !.Defer.ndefers = @ + 1, !.Defer.attempt = IF s.Defer.ndefers = 0 THEN FALSE ELSE @]
DeferStopForgets(s) == IF s.Defer.ndefers <= 0 THEN s ELSE [s EXCEPT !.Defer.ndefers = @ - 1]
DeferStop(s) ==
  LET t == [s EXCEPT !.Defer.ndefers = @ - 1]
  IN  IF s.Defer.ndefers <= 0 THEN s
      ELSE IF t.Defer.ndefers = 0 /\ t.Defer.attempt THEN resched(t) ELSE t

\* ready with RESCHED_NO.
MakeReady(s, p) == IF State(s, p) = "FREE" THEN s ELSE PutOn(s, p)
ReadyNow(s, p) == IF State(s, p) = "FREE" THEN s ELSE resched(PutOn(s, p))

InUser == ~ halted /\ pc[sys.currpid] = User
Calls(f) == f \in Syscalls /\ InUser /\ sys.currpid # NULLPROC
Curr == sys.currpid

\* A step that ends in state s of the tables: the current process goes on when
\* s still has it, and has to do `then' when it was switched away from.
Ends(s, then) ==
  /\ sys' = s
  /\ pc' = IF s.currpid = Curr THEN pc ELSE [pc EXCEPT ![Curr] = then]
Block(s, st, then) == \E t \in {resched(SetState(s, Curr, st))} : Ends(t, then)
Rest == UNCHANGED <<nextpid, nextsem, buftab, held, halted>>

-----------------------------------------------------------------------------
(***************************************************************************)
(* Processes.                                                              *)
(***************************************************************************)

\* sysinit and nulluser: the null process and main exist, main is running.
NoQueues == FoldLeft(LAMBDA t, i : Q!MakeQueue(t, NPROC + 2 * i), Q!Cleared, [i \in 1 .. NSEM + 2 |-> i - 1])
Entry(st, prio, stk) ==
  [prstate |-> st, prprio |-> prio, prstkbase |-> stk, prsem |-> -1, prparent |-> NULLPROC, prhasmsg |-> FALSE]
Init ==
  /\ sys = [proctab |-> [p \in Pids |-> CASE p = NULLPROC -> Entry("READY", 0, Units - 1)
                                          [] p = 1 -> Entry("CURR", INITPRIO, Units - 2)
                                          [] OTHER -> Entry("FREE", 0, SYSERR)],
            queuetab |-> Q!insert(NoQueues, NULLPROC, readylist, 0),
            semtab |-> [m \in Sems |-> [sstate |-> "S_FREE", scount |-> 0]],
            currpid |-> 1, preempt |-> QUANTUM, Defer |-> [ndefers |-> 0, attempt |-> FALSE],
            prcount |-> 2, free |-> 0 .. Units - 3]
  /\ nextpid = 2 /\ nextsem = 0 /\ buftab = <<>>
  /\ pc = [p \in Pids |-> User] /\ held = [p \in Pids |-> {}] /\ halted = FALSE

\* newpid: the slots are tried in turn, starting at nextpid.
Slot(i) == (nextpid + i) % NPROC
FreeSlots == {i \in Pids : State(sys, Slot(i)) = "FREE"}
newpid == IF FreeSlots = {} THEN SYSERR ELSE Slot(Min(FreeSlots))

\* create takes a stack and then a slot; when there is no slot, or the
\* priority is refused, the stack stays taken.
CreatedUncounted(s, p, stk, prio) ==
  [s EXCEPT !.free = @ \ {stk}, !.proctab[p] = [Entry("SUSP", prio, stk) EXCEPT !.prparent = s.currpid]]
CreatedTakesNoStack(s, p, stk, prio) ==
  [s EXCEPT !.prcount = @ + 1,
            !.proctab[p] = [Entry("SUSP", prio, stk) EXCEPT !.prparent = s.currpid]]
Created(s, p, stk, prio) ==
  [s EXCEPT !.free = @ \ {stk}, !.prcount = @ + 1,
            !.proctab[p] = [Entry("SUSP", prio, stk) EXCEPT !.prparent = s.currpid]]
create(prio) ==
  LET stk == getstk(sys.free, 1)
  IN  /\ Calls("create") /\ stk # SYSERR
      /\ \/ /\ newpid = SYSERR \/ prio < 1
            /\ sys' = [sys EXCEPT !.free = @ \ {stk}]
            /\ UNCHANGED <<pc, held>>
         \/ /\ newpid # SYSERR /\ prio >= 1
            /\ sys' = Created(sys, newpid, stk, prio)
            /\ pc' = [pc EXCEPT ![newpid] = User]
            /\ held' = [held EXCEPT ![newpid] = {}]
      /\ nextpid' = IF newpid = SYSERR THEN Slot(NPROC - 1) + 1 ELSE newpid + 1
      /\ UNCHANGED <<nextsem, buftab, halted>>

resume(p) ==
  /\ Calls("resume") /\ State(sys, p) = "SUSP"
  /\ Ends(ReadyNow(sys, p), User)
  /\ Rest

suspend(p) ==
  /\ Calls("suspend") /\ p # NULLPROC
  /\ \/ /\ State(sys, p) = "READY"
        /\ Ends([SetState(sys, p, "SUSP") EXCEPT !.queuetab = Q!getitem(@, p)], User)
     \/ /\ State(sys, p) = "CURR"
        /\ Block(sys, "SUSP", User)
  /\ Rest

yield ==
  /\ Calls("yield")
  /\ Ends(resched(sys), User)
  /\ Rest

chprio(p, newprio) ==
  /\ Calls("chprio") /\ State(sys, p) # "FREE"
  /\ Ends([sys EXCEPT !.proctab[p].prprio = newprio], User)
  /\ Rest

\* unsleep: the delay of the process that follows grows.
unsleep(s, p) ==
  LET next == s.queuetab[p].qnext
      later == IF next < NPROC THEN [s.queuetab EXCEPT ![next].qkey = @ + s.queuetab[p].qkey] ELSE s.queuetab
  IN  IF State(s, p) \in {"SLEEP", "RECTIM"} THEN [s EXCEPT !.queuetab = Q!getitem(later, p)] ELSE s

\* send, with the resched of a receiver that waits.
Sent(s, p) ==
  LET t == [s EXCEPT !.proctab[p].prhasmsg = TRUE]
  IN  CASE State(s, p) = "FREE" \/ s.proctab[p].prhasmsg -> s
        [] State(s, p) = "RECV" -> ReadyNow(t, p)
        [] State(s, p) = "RECTIM" -> ReadyNow(unsleep(t, p), p)
        [] OTHER -> t

\* The rest of kill, after the parent was sent the ID: the descriptors, the
\* stack, and what the state of p calls for by now.
LeftLinked(s, p) == s
UnlinkedKeepsCount(s, p) ==
  CASE State(s, p) \in {"SLEEP", "RECTIM"} -> unsleep(s, p)
    [] State(s, p) \in {"WAIT", "READY"} -> [s EXCEPT !.queuetab = Q!getitem(@, p)]
    [] OTHER -> s
Unlinked(s, p) ==
  LET t == [s EXCEPT !.queuetab = Q!getitem(@, p)]
  IN  CASE State(s, p) \in {"SLEEP", "RECTIM"} -> unsleep(s, p)
        [] State(s, p) = "WAIT" -> [t EXCEPT !.semtab[s.proctab[p].prsem].scount = @ + 1]
        [] State(s, p) = "READY" -> t
        [] OTHER -> s
Killed(s, p) ==
  LET t == SetState(Unlinked(freestk(s, s.proctab[p].prstkbase), p), p, "FREE")
  IN  IF State(s, p) = "CURR" THEN resched(t) ELSE t

\* The kills that wait for the processor.  bound: programs kill neither the
\* process that such a kill is about nor the one that called it.
Killers == {p \in Pids : pc[p][1] = "kill" /\ State(sys, p) # "FREE"}
InKill == Killers \cup {pc[p][2] : p \in Killers}

kill(p) ==
  /\ Calls("kill") /\ p # NULLPROC /\ State(sys, p) # "FREE"
  /\ p \notin InKill
  /\ \/ /\ sys.prcount - 1 <= 1
        /\ halted' = TRUE
        /\ sys' = [sys EXCEPT !.prcount = @ - 1]
        /\ UNCHANGED <<pc, held>>
     \/ /\ sys.prcount - 1 > 1
        /\ \E s \in {Sent([sys EXCEPT !.prcount = @ - 1], sys.proctab[p].prparent)} :
              \/ /\ s.currpid = Curr
                 /\ Ends(Killed(s, p), User)
                 /\ held' = [held EXCEPT ![p] = {}]
              \/ /\ s.currpid # Curr
                 /\ Ends(s, <<"kill", p>>)
                 /\ UNCHANGED held
        /\ UNCHANGED halted
  /\ UNCHANGED <<nextpid, nextsem, buftab>>

KillReturn ==
  /\ ~ halted /\ pc[Curr][1] = "kill"
  /\ LET p == pc[Curr][2]
     IN  /\ sys' = Killed(sys, p)
         /\ pc' = [pc EXCEPT ![Curr] = User]
         /\ held' = [held EXCEPT ![p] = {}]
  /\ UNCHANGED <<nextpid, nextsem, buftab, halted>>

-----------------------------------------------------------------------------
(***************************************************************************)
(* Messages and time.                                                      *)
(***************************************************************************)
send(p) ==
  /\ Calls("send")
  /\ Ends(Sent(sys, p), User)
  /\ Rest

Taken(s) == [s EXCEPT !.proctab[s.currpid].prhasmsg = FALSE]
receive ==
  /\ Calls("receive")
  /\ \/ sys.proctab[Curr].prhasmsg /\ Ends(Taken(sys), User)
     \/ ~ sys.proctab[Curr].prhasmsg /\ Block(sys, "RECV", <<"receive", 0>>)
  /\ Rest

SleepFor(s, n) == [s EXCEPT !.queuetab = Q!insertd(@, s.currpid, sleepq, n)]
recvtime(n) ==
  /\ Calls("recvtime")
  /\ \/ sys.proctab[Curr].prhasmsg /\ Ends(Taken(sys), User)
     \/ ~ sys.proctab[Curr].prhasmsg /\ Block(SleepFor(sys, n), "RECTIM", <<"recvtime", 0>>)
  /\ Rest

\* The end of receive and recvtime after the process was blocked; only
\* recvtime may find no message.
ReceiveReturn ==
  /\ ~ halted /\ pc[Curr][1] \in {"receive", "recvtime"}
  /\ sys' = Taken(sys)
  /\ pc' = [pc EXCEPT ![Curr] = User]
  /\ Rest

recvclr ==
  /\ Calls("recvclr")
  /\ Ends(Taken(sys), User)
  /\ Rest

\* sleepms with a positive delay; with none it is yield.
sleepms(n) ==
  /\ Calls("sleepms")
  /\ \/ n = 0 /\ Ends(resched(sys), User)
     \/ n > 0 /\ Block(SleepFor(sys, n), "SLEEP", User)
  /\ Rest

\* wakeup: the processes whose time has come, then one resched.
DueNow(t) ==
  LET l == Q!List(t, sleepq)
      n == SelectInSeq(l, LAMBDA e : e.key > 0)
  IN  IF n = 0 THEN l ELSE SubSeq(l, 1, n - 1)
wakeup(s) ==
  resched(FoldLeft(LAMBDA u, e : MakeReady([u EXCEPT !.queuetab = Q!dequeue(@, sleepq)], e.pid),
                   s, DueNow(s.queuetab)))

EndTick(s) == IF s.preempt <= 1 THEN resched([s EXCEPT !.preempt = QUANTUM]) ELSE [s EXCEPT !.preempt = @ - 1]

\* clkhandler counts down the first sleeper, wakes those that are due, and
\* then sees to the time slice.
clkhandler ==
  /\ InUser /\ "clkhandler" \in Syscalls
  /\ LET t == IF Q!isempty(sys.queuetab, sleepq) THEN sys
              ELSE [sys EXCEPT !.queuetab[Q!firstid(sys.queuetab, sleepq)].qkey = @ - 1]
     IN  \E w \in {IF Q!nonempty(t.queuetab, sleepq) /\ Q!firstkey(t.queuetab, sleepq) <= 0
                   THEN wakeup(t) ELSE t} :
            \/ w.currpid = Curr /\ Ends(EndTick(w), User)
            \/ w.currpid # Curr /\ Ends(w, <<"clkhandler", 0>>)
  /\ Rest

TickReturn ==
  /\ ~ halted /\ pc[Curr][1] = "clkhandler"
  /\ \E s \in {EndTick(sys)} : sys' = s
  /\ pc' = [pc EXCEPT ![Curr] = User]
  /\ Rest

-----------------------------------------------------------------------------
(***************************************************************************)
(* Semaphores.                                                             *)
(***************************************************************************)
isbadsem(s, m) == m \notin Sems \/ s.semtab[m].sstate = "S_FREE"

\* bound: programs do not know the semaphores of the buffer pools.
Known(m) == \A i \in DOMAIN buftab : buftab[i].bpsem # m

\* newsem: the entries are tried in turn, starting at nextsem.
SemSlot(i) == (nextsem + i) % NSEM
FreeSems == {i \in Sems : sys.semtab[SemSlot(i)].sstate = "S_FREE"}
NewSem(s, m, count) == [s EXCEPT !.semtab[m] = [sstate |-> "S_USED", scount |-> count]]

semcreate(count) ==
  /\ Calls("semcreate") /\ count >= 0 /\ FreeSems # {}
  /\ \E m \in {SemSlot(Min(FreeSems))} :
        Ends(NewSem(sys, m, count), User) /\ nextsem' = (m + 1) % NSEM
  /\ UNCHANGED <<nextpid, buftab, held, halted>>

\* wait: the process blocks, or goes on at once.
Waits(m, then) ==
  LET s == [sys EXCEPT !.semtab[m].scount = @ - 1]
  IN  \/ sys.semtab[m].scount > 0 /\ Ends(s, User)
      \/ /\ sys.semtab[m].scount <= 0
         /\ Block([s EXCEPT !.proctab[Curr].prsem = m, !.queuetab = Q!enqueue(@, Curr, squeue(m))],
                  "WAIT", then)
wait(m) ==
  /\ Calls("wait") /\ ~ isbadsem(sys, m) /\ Known(m)
  /\ Waits(m, User)
  /\ Rest

\* One process that waits for m becomes ready.
Released(s, m) ==
  LET p == Q!firstid(s.queuetab, squeue(m))
  IN  IF Q!isempty(s.queuetab, squeue(m)) THEN s
      ELSE MakeReady([s EXCEPT !.queuetab = Q!dequeue(@, squeue(m))], p)
Counted(s, m) ==
  LET t == [s EXCEPT !.semtab[m].scount = @ + 1]
  IN  IF s.semtab[m].scount < 0 THEN Released(t, m) ELSE t
Signalled(s, m) ==
  IF isbadsem(s, m) THEN s ELSE IF s.semtab[m].scount < 0 THEN resched(Counted(s, m)) ELSE Counted(s, m)

Room(m, n) == ~ isbadsem(sys, m) /\ Known(m) /\ sys.semtab[m].scount + n <= MaxCount
signal(m) ==
  /\ Calls("signal") /\ Room(m, 1)
  /\ Ends(Signalled(sys, m), User)
  /\ Rest
signaln(m, n) ==
  /\ Calls("signaln") /\ n >= 0 /\ Room(m, n)
  /\ \E s \in {FoldLeft(LAMBDA t, i : Counted(t, m), sys, [i \in 1 .. n |-> i])} : Ends(resched(s), User)
  /\ Rest

\* All that wait for m, one after the other.
AllReleased(s, m) == FoldLeft(LAMBDA t, p : Released(t, m), s, Q!Contents(s.queuetab, squeue(m)))

\* semdelete counts up past zero, releasing a process for each count below it.
semdelete(m) ==
  /\ Calls("semdelete") /\ ~ isbadsem(sys, m) /\ Known(m)
  /\ \E s \in {AllReleased([sys EXCEPT !.semtab[m].sstate = "S_FREE"], m)} :
        Ends(resched([s EXCEPT !.semtab[m].scount = (IF @ < 0 THEN 0 ELSE @) + 1]), User)
  /\ Rest
semreset(m, count) ==
  /\ Calls("semreset") /\ count >= 0 /\ ~ isbadsem(sys, m) /\ Known(m)
  /\ \E s \in {AllReleased(sys, m)} : Ends(resched([s EXCEPT !.semtab[m].scount = count]), User)
  /\ Rest

\* An interrupt handler (of the terminal or the Ethernet) signals what waits
\* for input and for output; it defers rescheduling until it is done.
handler(m1, m2) ==
  /\ InUser /\ "handler" \in Syscalls /\ Room(m1, 2) /\ Room(m2, 2)
  /\ \E s \in {Signalled(Signalled(DeferStart(sys), m1), m2)} : \E t \in {DeferStop(s)} : Ends(t, User)
  /\ Rest

-----------------------------------------------------------------------------
(***************************************************************************)
(* Buffer pools.                                                           *)
(***************************************************************************)

\* mkbufpool takes the memory, then a semaphore; when there is no semaphore the
\* memory stays taken.
mkbufpool(numbufs) ==
  LET buf == getmem(sys.free, numbufs)
      taken == [sys EXCEPT !.free = @ \ (buf .. buf + numbufs - 1)]
  IN  /\ Calls("mkbufpool") /\ Len(buftab) < NBPOOLS /\ buf # SYSERR
      /\ \/ /\ FreeSems = {}
            /\ Ends(taken, User)
            /\ UNCHANGED <<nextsem, buftab>>
         \/ /\ FreeSems # {}
            /\ \E m \in {SemSlot(Min(FreeSems))} :
                  /\ Ends(NewSem(taken, m, numbufs), User)
                  /\ nextsem' = (m + 1) % NSEM
                  /\ buftab' = Append(buftab, [bpsem |-> m, bpnext |-> [i \in 1 .. numbufs |-> buf + i - 1]])
      /\ UNCHANGED <<nextpid, held, halted>>

\* The rest of getbuf after its wait: the first buffer is unlinked and gets
\* the number of its pool.
Unlink(i) ==
  /\ buftab' = [buftab EXCEPT ![i].bpnext = Tail(@)]
  /\ held' = [held EXCEPT ![Curr] = @ \cup {[pool |-> i, buf |-> Head(buftab[i].bpnext)]}]
TakesBuffer(i) ==
  \/ /\ sys.semtab[buftab[i].bpsem].scount > 0
     /\ Unlink(i)
  \/ /\ sys.semtab[buftab[i].bpsem].scount <= 0
     /\ UNCHANGED <<buftab, held>>
getbuf(i) ==
  /\ Calls("getbuf")
  /\ TakesBuffer(i) /\ Waits(buftab[i].bpsem, <<"getbuf", i>>)
  /\ UNCHANGED <<nextpid, nextsem, halted>>
GetbufReturn ==
  /\ ~ halted /\ pc[Curr][1] = "getbuf"
  /\ Unlink(pc[Curr][2])
  /\ pc' = [pc EXCEPT ![Curr] = User]
  /\ UNCHANGED <<sys, nextpid, nextsem, halted>>

\* nbgetbuf: only when getbuf will not block.
nbgetbuf(i) ==
  /\ Calls("nbgetbuf") /\ sys.semtab[buftab[i].bpsem].scount > 0
  /\ TakesBuffer(i) /\ Waits(buftab[i].bpsem, User)
  /\ UNCHANGED <<nextpid, nextsem, halted>>

FreedWithoutLink(l, b) == <<b>>
Freed(l, b) == <<b>> \o l
freebuf(h) ==
  /\ Calls("freebuf")
  /\ buftab' = [buftab EXCEPT ![h.pool].bpnext = Freed(@, h.buf)]
  /\ held' = [held EXCEPT ![Curr] = @ \ {h}]
  /\ Ends(Signalled(sys, buftab[h.pool].bpsem), User)
  /\ UNCHANGED <<nextpid, nextsem, halted>>

\* The null process loops when it is the only one that can run.
NullLoop == InUser /\ Curr = NULLPROC /\ UNCHANGED vars
Halted == halted /\ UNCHANGED vars

Next ==
  \/ \E prio \in Prios : create(prio) \/ (\E p \in Pids : chprio(p, prio))
  \/ \E p \in Pids : resume(p) \/ suspend(p) \/ kill(p) \/ send(p)
  \/ \E n \in Delays : sleepms(n) \/ recvtime(n)
  \/ yield \/ receive \/ recvclr \/ ReceiveReturn \/ KillReturn
  \/ clkhandler \/ TickReturn
  \/ \E n \in Counts : semcreate(n) \/ (\E m \in Sems : signaln(m, n) \/ semreset(m, n))
  \/ \E m \in Sems : wait(m) \/ signal(m) \/ semdelete(m) \/ (\E m2 \in Sems : handler(m, m2))
  \/ \E n \in PoolSizes : mkbufpool(n)
  \/ \E i \in DOMAIN buftab : getbuf(i) \/ nbgetbuf(i)
  \/ GetbufReturn
  \/ \E h \in held[Curr] : freebuf(h)
  \/ NullLoop \/ Halted

Spec == Init /\ [][Next]_vars

-----------------------------------------------------------------------------
(***************************************************************************)
(* Properties.                                                             *)
(***************************************************************************)
Live == {p \in Pids : State(sys, p) # "FREE"}

\* The queues can be walked in both directions, and hold the processes that
\* their states say: whatever is unlinked by kill, suspend, unsleep, wakeup
\* and the semaphores.
QueuesHoldWhom(q) ==
  {p \in Pids : \/ q = readylist /\ State(sys, p) = "READY"
                \/ q = sleepq /\ State(sys, p) \in {"SLEEP", "RECTIM"}
                \/ q \notin {readylist, sleepq} /\ State(sys, p) = "WAIT" /\ squeue(sys.proctab[p].prsem) = q}
ListsIntact ==
  \A q \in {squeue(m) : m \in Sems} \cup {readylist, sleepq} :
     Q!Whole(sys.queuetab, q) /\ ToSet(Q!Contents(sys.queuetab, q)) = QueuesHoldWhom(q)

\* Nothing runs below the priority of a ready process, deferred rescheduling
\* included (programs that use chprio aside).
HighestRunsOld ==
  \/ halted \/ "chprio" \in Syscalls
  \/ /\ State(sys, Curr) = "CURR" /\ sys.Defer.ndefers = 0
     /\ \A p \in Pids : State(sys, p) = "READY" => sys.proctab[p].prprio <= sys.proctab[Curr].prprio

\* Stacks, pools and the free list share no memory (create, kill, mkbufpool).
PoolUnits(i) == ToSet(buftab[i].bpnext) \cup {h.buf : h \in {g \in UNION Range(held) : g.pool = i}}
MemoryDisjoint ==
  LET stk(p) == sys.proctab[p].prstkbase
  IN  /\ \A p \in Live : stk(p) \notin sys.free /\ (\A r \in Live \ {p} : stk(r) # stk(p))
      /\ \A i \in DOMAIN buftab :
            /\ PoolUnits(i) \cap (sys.free \cup {stk(p) : p \in Live}) = {}
            /\ \A j \in DOMAIN buftab \ {i} : PoolUnits(i) \cap PoolUnits(j) = {}

\* prcount is the number of processes less those that a kill under way has
\* counted already, so that the system stops with its last process and no
\* sooner.
ProcessesCounted == halted \/ sys.prcount = Cardinality(Live) - Cardinality(Killers)

\* A count below zero is the number of processes that wait (wait, signal,
\* signaln, semdelete, semreset, kill).
WaitersCounted ==
  \A m \in Sems :
     /\ Len(Q!Contents(sys.queuetab, squeue(m))) = (IF sys.semtab[m].scount < 0 THEN - sys.semtab[m].scount ELSE 0)
     /\ sys.semtab[m].sstate = "S_FREE" => sys.semtab[m].scount >= 0

\* The count of a pool never promises a buffer that is not there: getbuf,
\* back from its wait, finds one.
Promised(i) ==
  LET c == sys.semtab[buftab[i].bpsem].scount
      back == {p \in Live : pc[p] = <<"getbuf", i>> /\ State(sys, p) \in {"CURR", "READY", "SUSP"}}
  IN  (IF c > 0 THEN c ELSE 0) + Cardinality(back)
BuffersPromised == \A i \in DOMAIN buftab : Promised(i) <= Len(buftab[i].bpnext)
=============================================================================
