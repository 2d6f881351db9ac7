------------------------------ MODULE MC_Procs ------------------------------
(***************************************************************************)
(* Processes, twice: with messages, sleeping, timeouts and time slices     *)
(* ("timers"), for which the configuration gives the constants, and with   *)
(* semaphores, creation and kill ("semaphores").                           *)
(***************************************************************************)
EXTENDS ProcMgr

VARIABLE part

\* The processes that exist at first, and the system calls that programs make.
System(n) == [prio |-> n, user |-> FALSE]
User(n) == [prio |-> n, user |-> TRUE]
OneLow == <<System(1)>>
EqualAndHigh == <<User(2), User(3)>>

Messages == {"resume", "suspend", "yield", "kill", "send", "receive", "recvtime", "recvclr", "sleepms"}
Semaphores == {"create", "resume", "kill", "chprio", "semcreate", "wait", "signal", "semdelete",
               "semreset"}
Deaths == {"create", "resume", "suspend", "kill", "receive", "sleepms"}

K == INSTANCE ProcMgr WITH QUANTUM <- 1, Created <- OneLow, Syscalls <- Semaphores, Prios <- {2},
       NewPrios <- {2}, Delays <- {}, Timeouts <- {}, Counts <- {1}, Signals <- {1, 2}, MaxCount <- 1,
       Victims <- {"CURR", "READY", "SUSP", "WAIT"}

allvars == <<part, vars>>

Starts ==
  \/ part = "timers" /\ Init
  \/ part = "semaphores" /\ K!Init

Steps ==
  /\ UNCHANGED part
  /\ \/ part = "timers" /\ Next
     \/ part = "semaphores" /\ K!Next

\* The fairness of ProcMgr.
FairProcs ==
  /\ []<>(part = "timers" /\ InUser) => []<><<clkhandler>>_vars
  /\ WF_vars(part = "timers" /\ Return)

ProcsSpec == Starts /\ [][Steps]_allvars /\ FairProcs

\* The instance of the configuration alone.
OnePartSpec == part = "timers" /\ Init /\ [][Steps]_allvars

\* The properties of the module, about the parts they are meant for.
SleepersWake == part = "timers" => Wakes
ReadyGetTheirTurn == part = "timers" => TimeSharing

\* Every sleeper wakes and every ready process gets its turn (clkhandler, wakeup).
EverybodyGoesOn == SleepersWake /\ ReadyGetTheirTurn

=============================================================================
