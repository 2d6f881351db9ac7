-------------------------------- MODULE Mark --------------------------------
(***************************************************************************)
(* Initialisation marks.  mark runs with interrupts enabled: whether the   *)
(* location is marked and whether the table is full are tested before the  *)
(* mutex is obtained, and not again under it.                              *)
(***************************************************************************)
EXTENDS Integers, Sequences, FiniteSets, Semaphore

CONSTANTS
  Procs,
  Locs,        \* locations that programs mark
  MAXMARK,
  Garbage      \* values a location may hold before it is marked

VARIABLES
  val,         \* the contents of each location
  marks, nmarks, mkmutex,
  at           \* [pc, loc] of each process inside mark

vars == <<val, marks, nmarks, mkmutex, at>>

User == [pc |-> "user"]
Goto(p, pc, l) == at' = [at EXCEPT ![p] = [pc |-> pc, loc |-> l]]

\* markinit, with whatever the locations hold.
Init ==
  /\ val \in [Locs -> Garbage]
  /\ marks = <<>>
  /\ nmarks = 0
  /\ mkmutex = semcreate(1)
  /\ at = [p \in Procs |-> User]

\* marks[k] is entry k + 1 of the sequence.
notmarked(l) == ~ (val[l] >= 0 /\ val[l] < nmarks /\ val[l] < Len(marks) /\ marks[val[l] + 1] = l)

NotFullOffByOne == nmarks <= MAXMARK
NotFull == nmarks < MAXMARK

\* The two tests: the call returns, or goes on to the mutex.
Tests(p, l) ==
  /\ at[p].pc = "user"
  /\ notmarked(l)
  /\ NotFull
  /\ Goto(p, "tested", l)
  /\ UNCHANGED <<val, marks, nmarks, mkmutex>>

WaitMutex(p) ==
  /\ at[p].pc = "tested"
  /\ mkmutex' = wait(mkmutex, p)
  /\ Goto(p, "mutex", at[p].loc)
  /\ UNCHANGED <<val, marks, nmarks>>

InsideNoMutex(p, pc) == at[p].pc = pc
Inside(p, pc) == at[p].pc = pc /\ ~ Waits(mkmutex, p)

\* (*loc) = nmarks++, then the table entry.
TakeIndex(p) ==
  /\ Inside(p, "mutex")
  /\ val' = [val EXCEPT ![at[p].loc] = nmarks]
  /\ nmarks' = nmarks + 1
  /\ Goto(p, "entry", at[p].loc)
  /\ UNCHANGED <<marks, mkmutex>>

SetEntry(p) ==
  /\ Inside(p, "entry")
  /\ marks' = Append(marks, at[p].loc)
  /\ mkmutex' = signal(mkmutex)
  /\ at' = [at EXCEPT ![p] = User]
  /\ UNCHANGED <<val, nmarks>>

Next ==
  \/ \E p \in Procs : \/ \E l \in Locs : Tests(p, l)
                      \/ WaitMutex(p) \/ TakeIndex(p) \/ SetEntry(p)
  \/ (\A p \in Procs : at[p].pc = "user") /\ UNCHANGED vars

-----------------------------------------------------------------------------
\* A location that mark was called for is marked whenever no process is between
\* the two assignments, even if two calls for it, or for two locations, overlap.
StaysMarked ==
  [][(\A p \in Procs : at'[p].pc # "entry") =>
       \A l \in Locs : ((\E k \in DOMAIN marks : marks[k] = l) => ~ notmarked(l)')]_vars

\* The table is full at MAXMARK, tested without the mutex: as many entries as
\* there are other processes may be stored past its end, and no more.
OverrunBounded == nmarks <= MAXMARK + Cardinality(Procs) - 1

=============================================================================
