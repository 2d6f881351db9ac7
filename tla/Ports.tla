------------------------------- MODULE Ports --------------------------------
(***************************************************************************)
(* Ports: bounded queues of one-word messages between processes, with two  *)
(* semaphores each.  A call runs with interrupts disabled, so it is one    *)
(* step up to a wait that blocks or a semreset or semdelete that releases  *)
(* somebody and may switch to another process; at then says where the      *)
(* process goes on.  The message nodes of a port are a sequence and those  *)
(* that are free a number.                                                 *)
(***************************************************************************)
EXTENDS Integers, Sequences, FiniteSetsExt, Semaphore

CONSTANTS
  Procs,
  NPORTS,
  MAXMSGS,   \* the message nodes that ptinit makes
  Counts,    \* bound: the count arguments of ptcreate
  Msgs,      \* bound: messages
  MaxSeq     \* bound: largest ptseq

VARIABLES
  ptstate, ptseq, ptmaxcnt, ptssem, ptrsem,   \* porttab
  ptmsgs,      \* the list pthead ... pttail: messages, with the ptseq they were sent under
  ptfree,      \* nodes on the free list
  ptnextid,
  at,          \* where a process is: in its own code or inside a call
  panicked     \* ptsend found no free node

porttab == <<ptstate, ptseq, ptmaxcnt, ptssem, ptrsem, ptmsgs>>
vars == <<porttab, ptfree, ptnextid, at, panicked>>

Ids == 0 .. (NPORTS - 1)
User == [pc |-> "user"]

Init ==
  /\ ptstate = [i \in Ids |-> "FREE"]
  /\ ptseq = [i \in Ids |-> 0]
  /\ ptmaxcnt = [i \in Ids |-> 0]
  /\ ptssem = [i \in Ids |-> semcreate(0)]
  /\ ptrsem = [i \in Ids |-> semcreate(0)]
  /\ ptmsgs = [i \in Ids |-> <<>>]
  /\ ptfree = MAXMSGS
  /\ ptnextid = 0
  /\ at = [p \in Procs |-> User]
  /\ panicked = FALSE

\* p executes its own code and may make a call; p goes on inside one.
Calls(p) == ~ panicked /\ at[p].pc = "user"
Resumes(p, pc) ==
  /\ ~ panicked /\ at[p].pc = pc
  /\ ~ Waits(ptssem[at[p].port], p) /\ ~ Waits(ptrsem[at[p].port], p)
Goto(p, where) == at' = [at EXCEPT ![p] = where]

-----------------------------------------------------------------------------
\* ptcreate: the entries are tried in turn, starting at ptnextid.
Slot(k) == (ptnextid + k) % NPORTS
FreeSlots == {k \in Ids : ptstate[Slot(k)] = "FREE"}

ptcreate(p, count) ==
  /\ Calls(p) /\ FreeSlots # {}
  /\ LET i == Slot(Min(FreeSlots))
     IN  /\ ptseq[i] < MaxSeq
         /\ ptnextid' = (i + 1) % NPORTS
         /\ ptstate' = [ptstate EXCEPT ![i] = "ALLOC"]
         /\ ptssem' = [ptssem EXCEPT ![i] = semcreate(count)]
         /\ ptrsem' = [ptrsem EXCEPT ![i] = semcreate(0)]
         /\ ptmsgs' = [ptmsgs EXCEPT ![i] = <<>>]
         /\ ptseq' = [ptseq EXCEPT ![i] = @ + 1]
         /\ ptmaxcnt' = [ptmaxcnt EXCEPT ![i] = count]
  /\ UNCHANGED <<ptfree, at, panicked>>

-----------------------------------------------------------------------------
\* After its wait a call goes on only if the port is still the one it was.
SendValidNoSeq(i, seq) == ptstate[i] = "ALLOC"
SendValid(i, seq) == ptstate[i] = "ALLOC" /\ ptseq[i] = seq
ReceiveValid(i, seq) == ptstate[i] = "ALLOC" /\ ptseq[i] = seq

\* The rest of ptsend, with the sender semaphore as it is after the wait; seq is
\* the ptseq the sender found when it was called.
Deliver(p, i, m, seq, ssem) ==
  /\ ptssem' = [ptssem EXCEPT ![i] = ssem]
  /\ \/ /\ ptfree = 0
        /\ panicked' = TRUE
        /\ UNCHANGED <<ptmsgs, ptfree, ptrsem>>
     \/ /\ ptfree > 0
        /\ ptfree' = ptfree - 1
        /\ ptmsgs' = [ptmsgs EXCEPT ![i] = Append(@, [msg |-> m, seq |-> seq])]
        /\ ptrsem' = [ptrsem EXCEPT ![i] = signal(@)]
        /\ UNCHANGED panicked
  /\ Goto(p, User)
  /\ UNCHANGED <<ptstate, ptseq, ptmaxcnt, ptnextid>>

ptsend(p, i, m) ==
  /\ Calls(p) /\ ptstate[i] = "ALLOC"
  /\ \/ ~ Blocks(ptssem[i]) /\ Deliver(p, i, m, ptseq[i], wait(ptssem[i], p))
     \/ /\ Blocks(ptssem[i])
        /\ ptssem' = [ptssem EXCEPT ![i] = wait(@, p)]
        /\ Goto(p, [pc |-> "ptsend", port |-> i, seq |-> ptseq[i], msg |-> m])
        /\ UNCHANGED <<ptstate, ptseq, ptmaxcnt, ptrsem, ptmsgs, ptfree, ptnextid, panicked>>

\* The rest of ptrecv.
Take(p, i, rsem) ==
  /\ ptmsgs' = [ptmsgs EXCEPT ![i] = Tail(@)]
  /\ ptfree' = ptfree + 1
  /\ ptrsem' = [ptrsem EXCEPT ![i] = rsem]
  /\ ptssem' = [ptssem EXCEPT ![i] = signal(@)]
  /\ Goto(p, User)
  /\ UNCHANGED <<ptstate, ptseq, ptmaxcnt, ptnextid, panicked>>

ptrecv(p, i) ==
  /\ Calls(p) /\ ptstate[i] = "ALLOC"
  /\ \/ ~ Blocks(ptrsem[i]) /\ Take(p, i, wait(ptrsem[i], p))
     \/ /\ Blocks(ptrsem[i])
        /\ ptrsem' = [ptrsem EXCEPT ![i] = wait(@, p)]
        /\ Goto(p, [pc |-> "ptrecv", port |-> i, seq |-> ptseq[i]])
        /\ UNCHANGED <<ptstate, ptseq, ptmaxcnt, ptssem, ptmsgs, ptfree, ptnextid, panicked>>

\* A call that had to wait and finds another port, or none.
GiveUp(p) ==
  /\ Goto(p, User)
  /\ UNCHANGED <<porttab, ptfree, ptnextid, panicked>>

SendReturn(p) ==
  /\ Resumes(p, "ptsend")
  /\ \/ ~ SendValid(at[p].port, at[p].seq) /\ GiveUp(p)
     \/ /\ SendValid(at[p].port, at[p].seq)
        /\ Deliver(p, at[p].port, at[p].msg, at[p].seq, ptssem[at[p].port])

ReceiveReturn(p) ==
  /\ Resumes(p, "ptrecv")
  /\ \/ ~ ReceiveValid(at[p].port, at[p].seq) /\ GiveUp(p)
     \/ ReceiveValid(at[p].port, at[p].seq) /\ Take(p, at[p].port, ptrsem[at[p].port])

-----------------------------------------------------------------------------
\* _ptclear, in the order of the code: the port is in limbo, the messages are
\* freed, the senders are released, then the receivers, then it is done.
\* After each release another process may run.
ClearedKeepsNodes(i) == ptfree
Cleared(i) == ptfree + Len(ptmsgs[i])

\* The count of the sender semaphore afterwards (a deleted one has no meaning).
SenderCountLeft(i, new) == ptmaxcnt[i] - Len(ptmsgs[i])
SenderCount(i, new) == IF new = "ALLOC" THEN ptmaxcnt[i] ELSE 0

\* The last assignment of _ptclear, and of ptdelete.
StaysInLimbo(i, new) == ptnextid' = i /\ UNCHANGED ptstate
FinishClear(i, new) ==
  /\ ptstate' = [ptstate EXCEPT ![i] = new]
  /\ ptnextid' = IF new = "FREE" THEN i ELSE ptnextid

_ptclear(p, i, new) ==
  LET senders == ptssem[i].queue # <<>>
      receivers == ptrsem[i].queue # <<>>
  IN  /\ Calls(p) /\ ptstate[i] = "ALLOC" /\ ptseq[i] < MaxSeq
      /\ ptseq' = [ptseq EXCEPT ![i] = @ + 1]
      /\ ptfree' = Cleared(i)
      /\ ptmsgs' = [ptmsgs EXCEPT ![i] = <<>>]
      /\ ptssem' = [ptssem EXCEPT ![i] = semreset(@, SenderCount(i, new))]
      /\ \/ /\ senders
            /\ ptstate' = [ptstate EXCEPT ![i] = "LIMBO"]
            /\ Goto(p, [pc |-> "_ptclear", port |-> i, new |-> new])
            /\ UNCHANGED <<ptrsem, ptnextid>>
         \/ /\ ~ senders
            /\ ptrsem' = [ptrsem EXCEPT ![i] = semreset(@, 0)]
            /\ \/ /\ receivers
                  /\ ptstate' = [ptstate EXCEPT ![i] = "LIMBO"]
                  /\ Goto(p, [pc |-> "_ptclear_end", port |-> i, new |-> new])
                  /\ UNCHANGED ptnextid
               \/ ~ receivers /\ FinishClear(i, new) /\ UNCHANGED at
      /\ UNCHANGED <<ptmaxcnt, panicked>>

\* After the switch: the receivers are released.
ClearReceivers(p) ==
  LET i == at[p].port
      receivers == ptrsem[i].queue # <<>>
  IN  /\ Resumes(p, "_ptclear")
      /\ ptrsem' = [ptrsem EXCEPT ![i] = semreset(@, 0)]
      /\ \/ /\ receivers
            /\ Goto(p, [at[p] EXCEPT !.pc = "_ptclear_end"])
            /\ UNCHANGED <<ptstate, ptnextid>>
         \/ ~ receivers /\ FinishClear(i, at[p].new) /\ Goto(p, User)
      /\ UNCHANGED <<ptseq, ptmaxcnt, ptssem, ptmsgs, ptfree, panicked>>

ClearReturn(p) ==
  /\ Resumes(p, "_ptclear_end")
  /\ FinishClear(at[p].port, at[p].new)
  /\ Goto(p, User)
  /\ UNCHANGED <<ptseq, ptmaxcnt, ptssem, ptrsem, ptmsgs, ptfree, panicked>>

ptreset(p, i) == _ptclear(p, i, "ALLOC")
ptdelete(p, i) == _ptclear(p, i, "FREE")

\* ptcount: the messages of a port and those of senders that wait, or minus the
\* number of receivers that wait.
ptcountReceivers(i) == ptrsem[i].count
ptcount(i) ==
  IF ptrsem[i].count >= 0 /\ ptssem[i].count < 0
  THEN ptrsem[i].count - ptssem[i].count ELSE ptrsem[i].count

Continue(p) == SendReturn(p) \/ ReceiveReturn(p) \/ ClearReceivers(p) \/ ClearReturn(p)
Stopped == panicked /\ UNCHANGED vars
\* Programs need not make another call, and may wait for each other for ever.
Idle ==
  /\ \A p \in Procs : Calls(p) \/ \E i \in Ids : Waits(ptssem[i], p) \/ Waits(ptrsem[i], p)
  /\ UNCHANGED vars

Next ==
  \/ \E p \in Procs :
       \/ \E c \in Counts : ptcreate(p, c)
       \/ \E i \in Ids, m \in Msgs : ptsend(p, i, m)
       \/ \E i \in Ids : ptrecv(p, i) \/ ptreset(p, i) \/ ptdelete(p, i)
       \/ Continue(p)
  \/ Stopped \/ Idle

\* Processes of equal priority share the processor, so one that can go on
\* inside a call does.
Fairness == \A p \in Procs : WF_vars(Continue(p))
Spec == Init /\ [][Next]_vars /\ Fairness

-----------------------------------------------------------------------------
(***************************************************************************)
(* Properties.                                                             *)
(***************************************************************************)

\* Processes that a signal has released and that have not run yet.
Released(pc, i) ==
  {p \in Procs : at[p].pc = pc /\ at[p].port = i /\ at[p].seq = ptseq[i]
                 /\ ~ Waits(ptssem[i], p) /\ ~ Waits(ptrsem[i], p)}

\* The two semaphores of a port account for its messages, for the processes
\* that wait and for those released by a signal that have not run yet, whatever
\* resets fall in between; so no receiver that goes on finds an empty list.
SemaphoresAgree ==
  \A i \in Ids : (ptstate[i] = "ALLOC" /\ ~ panicked) =>
    /\ ptssem[i].count = ptmaxcnt[i] - Len(ptmsgs[i]) - Len(ptssem[i].queue)
                           - Cardinality(Released("ptsend", i))
    /\ ptrsem[i].count = Len(ptmsgs[i]) - Len(ptrsem[i].queue)
                           - Cardinality(Released("ptrecv", i))
    /\ Cardinality(Released("ptrecv", i)) <= Len(ptmsgs[i])

\* ptreset "leaving the port ready for further use": a message sent before a
\* reset or a deletion is never received after it, not even one whose sender
\* was blocked at the time.
NoStaleMessage ==
  \A i \in Ids : ptstate[i] = "ALLOC" => \A k \in DOMAIN ptmsgs[i] : ptmsgs[i][k].seq = ptseq[i]

\* No message node is lost or freed twice, through sends, receives, resets and
\* deletions.
Nodes == UNION {{i} \X DOMAIN ptmsgs[i] : i \in Ids}
NodesConserved == Cardinality(Nodes) + ptfree = MAXMSGS

\* What the comment of ptcount says: a non-negative count K means that the
\* port contains K messages, including those of blocked senders; a count of -K
\* that it is empty and K processes wait to receive.  (Messages that a released
\* process is about to take or to add are counted as taken or added.)
CountMeans ==
  \A i \in Ids : (ptstate[i] = "ALLOC" /\ ~ panicked) =>
    LET n == Len(ptmsgs[i]) + Len(ptssem[i].queue) - Cardinality(Released("ptrecv", i))
    IN  IF ptrsem[i].queue = <<>> THEN ptcount(i) = n ELSE ptcount(i) = - Len(ptrsem[i].queue)

\* A port does not stay in limbo, however the processes it releases run.
LimboEnds == \A i \in Ids : ptstate[i] = "LIMBO" ~> (ptstate[i] # "LIMBO" \/ panicked)

=============================================================================
