----------------------------- MODULE Semaphore ------------------------------
(***************************************************************************)
(* Counting semaphores as the drivers and services use them: operators on  *)
(* a record of the count and the queue of processes that wait.  ProcMgr    *)
(* models the calls themselves, with the scheduler.                        *)
(***************************************************************************)
EXTENDS Integers, Sequences

semcreate(count) == [count |-> count, queue |-> <<>>]

\* wait decrements the count and blocks the caller when it was not positive.
Blocks(s) == s.count <= 0
wait(s, p) == [count |-> s.count - 1, queue |-> IF Blocks(s) THEN Append(s.queue, p) ELSE s.queue]

\* signal increments the count and releases the first process that waits.
signal(s) == [count |-> s.count + 1, queue |-> IF s.count < 0 THEN Tail(s.queue) ELSE s.queue]

\* signaln: n times signal.
signaln(s, n) ==
  LET out == IF s.count >= 0 THEN 0 ELSE IF n < - s.count THEN n ELSE - s.count
  IN  [count |-> s.count + n, queue |-> SubSeq(s.queue, out + 1, Len(s.queue))]

\* semreset releases everybody that waits.
semreset(s, count) == semcreate(count)

Waits(s, p) == \E i \in DOMAIN s.queue : s.queue[i] = p

-----------------------------------------------------------------------------
(* What every semaphore of the system keeps: its queue holds each process  *)
(* once, and nobody while the count is not negative.                       *)
SemaphoreOf(S) ==
  {s \in [count : Int, queue : Seq(S)] :
     /\ \A j, k \in DOMAIN s.queue : s.queue[j] = s.queue[k] => j = k
     /\ IF s.count < 0 THEN Len(s.queue) = - s.count ELSE s.queue = <<>>}

\* The processes in the queue of s.
Waiting(s) == {s.queue[k] : k \in DOMAIN s.queue}

=============================================================================
