----------------------------- MODULE MC_Kernel ------------------------------
(***************************************************************************)
(* The kernel's services and drivers, one at a time: part says which of    *)
(* them the behaviour is about, and the state of the others does not       *)
(* change.  The terminal is checked twice: "input", with one reader, line  *)
(* editing and mode changes, and an echo queue of length one, which is     *)
(* always empty; and "output", with two writers, flow control and echo.    *)
(***************************************************************************)
EXTENDS FreeList, FiniteSets

CONSTANTS
  Procs,
  NPORTS, MAXMSGS, Counts, Msgs, MaxSeq,        \* of the ports
  NBPOOLS, Numbufs,                             \* of the buffer pools
  Locs, MAXMARK,                                \* of the marks
  rxRingSize, txRingSize, E1000_RING_BOUNDARY,  \* of the Ethernet driver
  Writer1, Writer2                              \* processes that use the terminal or the network

\* ptcreate and mkbufpool refuse other arguments; e1000e.h has rings that are
\* multiples of the boundary.
ASSUME KernelAssumption ==
  /\ IsFiniteSet(Procs) /\ Procs # {} /\ Writer1 # Writer2
  /\ NPORTS \in Nat \ {0} /\ MAXMSGS \in Nat /\ MaxSeq \in Nat /\ Counts \subseteq Nat
  /\ NBPOOLS \in Nat /\ Numbufs \subseteq Nat \ {0} /\ \E n \in Numbufs : \A m \in Numbufs : m <= n
  /\ MAXMARK \in Nat
  /\ rxRingSize \in Nat \ {0} /\ txRingSize \in Nat \ {0}
  /\ E1000_RING_BOUNDARY \in 1 .. rxRingSize /\ rxRingSize % E1000_RING_BOUNDARY = 0

VARIABLES
  part,
  ptstate, ptseq, ptmaxcnt, ptssem, ptrsem, ptmsgs, ptfree, ptnextid, ptat, panicked,
  nbpools, bpnext, bpsem, word, bpheld, bpat,
  val, marks, nmarks, mkmutex, mkat,
  tyimode, tyiecho, tyibuff, tyihead, tyitail, tyisem, tyicursor,
  tyobuff, tyohead, tyotail, tyosem, tyoheld, echo, etbei, thre, fifo,
  ttyat, running, pend, line, opend, fault,
  state, rx, rxHead, rxTail, isem, tx, txHead, txTail, osem,
  RDH, RDT, TDH, TDT, ICR, cause, ethat

P == INSTANCE Ports WITH at <- ptat
B == INSTANCE BufPool WITH held <- bpheld, at <- bpat
M == INSTANCE Mark WITH Garbage <- -1 .. 1, at <- mkat
TI == INSTANCE Tty WITH
        Procs <- {Writer1}, TY_IBUFLEN <- 3, TY_OBUFLEN <- 2, TY_EBUFLEN <- 1, UART_FIFO_SIZE <- 1,
        Keys <- {"a", "\r", "^H", "^U", "^D"}, Counts <- {0, 4}, Writes <- {},
        Modes <- {"RAW"}, Echoes <- {FALSE}, at <- ttyat
TO == INSTANCE Tty WITH
        Procs <- {Writer1, Writer2}, TY_IBUFLEN <- 3, TY_OBUFLEN <- 2, TY_EBUFLEN <- 3, UART_FIFO_SIZE <- 2,
        Keys <- {"a", "^S", "^Q"}, Counts <- {}, Writes <- {<<"x">>, <<"y", "\n">>},
        Modes <- {"CBREAK"}, Echoes <- {}, at <- ttyat
E == INSTANCE Eth WITH Procs <- {Writer1, Writer2}, at <- ethat

pvars == <<ptstate, ptseq, ptmaxcnt, ptssem, ptrsem, ptmsgs, ptfree, ptnextid, ptat, panicked>>
bvars == <<nbpools, bpnext, bpsem, word, bpheld, bpat>>
mvars == <<val, marks, nmarks, mkmutex, mkat>>
ttyvars == <<tyimode, tyiecho, tyibuff, tyihead, tyitail, tyisem, tyicursor, tyobuff, tyohead, tyotail,
             tyosem, tyoheld, echo, etbei, thre, fifo, ttyat, running, pend, line, opend, fault>>
ethvars == <<state, rx, rxHead, rxTail, isem, tx, txHead, txTail, osem, RDH, RDT, TDH, TDT, ICR, cause, ethat>>
kernelvars == <<part, vars, pvars, bvars, mvars, ttyvars, ethvars>>

\* The initial contents of the marked locations matter to their part only.
KernelInit ==
  /\ part \in {"memory", "ports", "bufpool", "mark", "input", "output", "ethernet"}
  /\ Init /\ P!Init /\ B!Init /\ M!Init /\ E!Init
  /\ part # "mark" => \A l \in Locs : val[l] = -1
  /\ IF part = "input" THEN TI!Init ELSE TO!Init

KernelNext ==
  /\ UNCHANGED part
  /\ \/ part = "memory" /\ Next /\ UNCHANGED <<pvars, bvars, mvars, ttyvars, ethvars>>
     \/ part = "ports" /\ P!Next /\ UNCHANGED <<vars, bvars, mvars, ttyvars, ethvars>>
     \/ part = "bufpool" /\ B!Next /\ UNCHANGED <<vars, pvars, mvars, ttyvars, ethvars>>
     \/ part = "mark" /\ M!Next /\ UNCHANGED <<vars, pvars, bvars, ttyvars, ethvars>>
     \/ part = "input" /\ TI!Next /\ UNCHANGED <<vars, pvars, bvars, mvars, ethvars>>
     \/ part = "output" /\ TO!Next /\ UNCHANGED <<vars, pvars, bvars, mvars, ethvars>>
     \/ part = "ethernet" /\ E!Next /\ UNCHANGED <<vars, pvars, bvars, mvars, ttyvars>>

\* A process that is ready runs, interrupts are delivered, the UART sends.
Fairness ==
  /\ \A p \in Procs : WF_pvars(part = "ports" /\ P!Continue(p))
  /\ WF_ttyvars(part = "output" /\ TO!ttyhandle_out)
  /\ WF_ttyvars(part = "output" /\ TO!UartSends)
  /\ \A p \in {Writer1, Writer2} : WF_ttyvars(part = "output" /\ TO!UpperHalf(p))
  /\ WF_ethvars(E!HandlerStarts) /\ WF_ethvars(E!ethhandler)

KernelSpec == KernelInit /\ [][KernelNext]_kernelvars /\ Fairness

\* The properties of the modules, each about its part.
SemaphoresAgree == part = "ports" => P!SemaphoresAgree
NoStaleMessage == part = "ports" => P!NoStaleMessage
NodesConserved == part = "ports" => P!NodesConserved
CountMeans == part = "ports" => P!CountMeans
CountsBuffers == part = "bufpool" => B!CountsBuffers
OnePlace == part = "bufpool" => B!OnePlace
NoneLost == B!NoneLost
StaysMarked == M!StaysMarked
OverrunBounded == part = "mark" => M!OverrunBounded
TtyInputInOrder == (part = "input" => TI!InputInOrder) /\ (part = "output" => TO!InputInOrder)
TtyInputCounted == (part = "input" => TI!InputCounted) /\ (part = "output" => TO!InputCounted)
TtyOutputInOrder == part = "output" => TO!OutputInOrder
TtyFaultCauses ==
  [][IF part = "input" THEN TI!FaultCause ELSE TO!FaultCause]_kernelvars
NoOverwrite == part = "ethernet" => E!NoOverwrite
EthInputCounted == part = "ethernet" => E!InputCounted
EthOutputCounted == part = "ethernet" => E!OutputCounted
IdleOnlyWhenFull == part = "ethernet" => E!IdleOnlyWhenFull
LimboEnds == P!LimboEnds
TtyOutputGoesOn == part = "output" => TO!OutputGoesOn
PacketNoticed == E!PacketNoticed

\* What a run checks of each service, and of what every step does (pt*.c, *buf*.c,
\* device/tty, device/eth, mark.c); FreeListSound is FreeList's own.
PortsAndPoolsSound == SemaphoresAgree /\ NoStaleMessage /\ NodesConserved /\ CountMeans /\ CountsBuffers /\ OnePlace
TerminalSound == TtyInputInOrder /\ TtyInputCounted /\ TtyOutputInOrder
RingsSound == NoOverwrite /\ EthInputCounted /\ EthOutputCounted /\ IdleOnlyWhenFull
ServicesGoOn == NoneLost /\ StaysMarked /\ TtyFaultCauses /\ LimboEnds /\ TtyOutputGoesOn /\ PacketNoticed

=============================================================================
