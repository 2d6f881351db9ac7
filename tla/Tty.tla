-------------------------------- MODULE Tty ---------------------------------
(***************************************************************************)
(* The terminal driver: the upper half (ttyread, ttygetc, ttywrite,        *)
(* ttyputc, ttycontrol), which runs with interrupts disabled up to a wait  *)
(* that blocks, and the interrupt handlers, which edit the input line,     *)
(* echo, and move output to the UART.  running is the process that is      *)
(* inside the upper half and has the processor; while there is one, no     *)
(* interrupt is taken.                                                     *)
(*                                                                         *)
(* pend, line and opend say what the buffers are for: the input that is    *)
(* available, the line being edited and the output not yet sent.  fault    *)
(* records the situations in which the driver has no room for what it      *)
(* stores or sends more than there is; a behaviour ends there.             *)
(***************************************************************************)
EXTENDS Integers, Sequences, SequencesExt, FiniteSets, Semaphore

CONSTANTS
  Procs,
  TY_IBUFLEN, TY_OBUFLEN, TY_EBUFLEN, UART_FIFO_SIZE,
  Keys,        \* characters that arrive from the line
  Counts,      \* bound: count arguments of ttyread
  Writes,      \* bound: strings that ttywrite is called with
  Modes,       \* modes that ttycontrol sets
  Echoes       \* the values it gives to tyiecho

VARIABLES
  tyimode, tyiecho,
  tyibuff, tyihead, tyitail, tyisem, tyicursor,
  tyobuff, tyohead, tyotail, tyosem, tyoheld,
  echo,              \* characters on the echo queue: tyetail - tyehead, modulo its length
  etbei, thre, fifo, \* UART: output interrupt enabled, pending, characters in the FIFO
  at, running,
  pend, line, opend, fault

input == <<tyibuff, tyihead, tyitail, tyisem, tyicursor, pend, line>>
output == <<tyobuff, tyohead, tyotail, tyosem, opend>>
uart == <<etbei, thre, fifo>>
modes == <<tyimode, tyiecho>>
vars == <<modes, input, output, tyoheld, echo, uart, at, running, fault>>

NEWLINE == "\n"
RETURN == "\r"
EOFCH == "^D"
KILLCH == "^U"
BACKSP == "^H"
STOPCH == "^S"
STRTCH == "^Q"
Control == {EOFCH, KILLCH, BACKSP, STOPCH, STRTCH}

NOBODY == "nobody"
User == [pc |-> "user"]

ttyinit ==
  /\ tyimode = "COOKED" /\ tyiecho = TRUE
  /\ tyibuff = [i \in 0 .. (TY_IBUFLEN - 1) |-> " "] /\ tyihead = 0 /\ tyitail = 0
  /\ tyisem = semcreate(0) /\ tyicursor = 0
  /\ tyobuff = [i \in 0 .. (TY_OBUFLEN - 1) |-> " "] /\ tyohead = 0 /\ tyotail = 0
  /\ tyosem = semcreate(TY_OBUFLEN) /\ tyoheld = FALSE
  /\ echo = 0
  /\ etbei = TRUE /\ thre = TRUE /\ fifo = 0
  /\ at = [p \in Procs |-> User] /\ running = NOBODY
  /\ pend = <<>> /\ line = <<>> /\ opend = <<>> /\ fault = {}

Init == ttyinit

\* ttykickout: the UART interrupts once its FIFO is empty.
ttykickout == etbei' = TRUE /\ thre' = (thre \/ fifo = 0) /\ UNCHANGED fifo

-----------------------------------------------------------------------------
(***************************************************************************)
(* Input interrupts: ttyhandle_in for one character.                       *)
(***************************************************************************)
\* eputc n times; each kicks the output.
eputc(n) ==
  /\ echo' = (echo + n) % TY_EBUFLEN
  /\ IF n > 0 THEN ttykickout ELSE UNCHANGED uart

\* echoch: CR-LF for the end of a line, ^X for a control character.
echoch(ch) == IF ch \in {NEWLINE, RETURN} \cup Control THEN 2 ELSE 1
Echo(ch) == eputc(IF tyiecho THEN echoch(ch) ELSE 0)

\* erase1: backspace, blank, backspace, twice for a control character.
erase1(ch) == IF ~ tyiecho THEN 0 ELSE IF ch \in Control THEN 6 ELSE 3

avail == IF tyisem.count < 0 THEN 0 ELSE tyisem.count

\* *tyitail++ = ch.  The EOF character is stored without the test for the end
\* of the buffer, so the tail may be past it when the next one arrives.
WrapTail(i) == IF i >= TY_IBUFLEN THEN 0 ELSE i
Full == Len(pend) + Len(line) = TY_IBUFLEN
Room == ~ Full /\ tyitail < TY_IBUFLEN
Store(ch, tail) ==
  /\ tyibuff' = [tyibuff EXCEPT ![tyitail] = ch]
  /\ tyitail' = tail

\* What the store would destroy.
StoreFault ==
  /\ ~ Room
  /\ fault' = {IF Full THEN "overrun" ELSE "past the end"}
  /\ UNCHANGED <<modes, input, output, tyoheld, echo, uart, at, running>>

\* A character that readers may have at once (raw and cbreak modes).
RoomForCharOffByOne == avail <= TY_IBUFLEN
RoomForChar == avail < TY_IBUFLEN
Available(ch) ==
  /\ Room
  /\ Store(ch, WrapTail(tyitail + 1))
  /\ tyisem' = signal(tyisem)
  /\ pend' = Append(pend, ch)
  /\ UNCHANGED <<tyihead, tyicursor, line, fault>>

Raw(ch) ==
  /\ tyimode = "RAW"
  /\ \/ RoomForChar /\ Available(ch) /\ UNCHANGED <<modes, output, tyoheld, echo, uart, at, running>>
     \/ RoomForChar /\ StoreFault
     \/ ~ RoomForChar /\ UNCHANGED vars

\* ^Q and ^S, unless the mode is raw.
Flow(ch) ==
  /\ tyimode # "RAW"
  /\ \/ ch = STRTCH /\ tyoheld' = FALSE /\ ttykickout
     \/ ch = STOPCH /\ tyoheld' = TRUE /\ UNCHANGED uart
  /\ UNCHANGED <<modes, input, output, echo, at, running, fault>>

\* Any other character lets output go on.
Edits(ch, mode) ==
  tyimode = mode /\ ch \notin {STRTCH, STOPCH} /\ tyoheld' = FALSE /\ UNCHANGED <<modes, output, at, running>>

Cbreak(ch) ==
  \/ /\ Edits(ch, "CBREAK")
     /\ \/ RoomForChar /\ Available(ch) /\ Echo(ch)
        \/ ~ RoomForChar /\ eputc(1) /\ UNCHANGED <<input, fault>>
  \/ tyimode = "CBREAK" /\ ch \notin {STRTCH, STOPCH} /\ RoomForChar /\ StoreFault

KillLine ==
  /\ LET i == tyitail - tyicursor IN tyitail' = IF i < 0 THEN i + TY_IBUFLEN ELSE i
  /\ tyicursor' = 0
  /\ line' = <<>>
  /\ eputc(2)
  /\ UNCHANGED <<tyibuff, tyihead, tyisem, pend, fault>>

EraseTailNoWrap == IF tyitail = 0 THEN 0 ELSE tyitail - 1
EraseTail == IF tyitail = 0 THEN TY_IBUFLEN - 1 ELSE tyitail - 1
Erase ==
  \/ tyicursor = 0 /\ UNCHANGED <<input, echo, uart, fault>>
  \/ /\ tyicursor > 0
     /\ tyicursor' = tyicursor - 1
     /\ tyitail' = EraseTail
     /\ line' = SubSeq(line, 1, Len(line) - 1)
     /\ eputc(erase1(tyibuff[EraseTail]))
     /\ UNCHANGED <<tyibuff, tyihead, tyisem, pend, fault>>

\* The whole line becomes available.
LineLengthOpen == tyicursor
LineLength == tyicursor + 1
EndOfLine(ch) ==
  /\ Room
  /\ Echo(ch)
  /\ Store(ch, WrapTail(tyitail + 1))
  /\ tyisem' = signaln(tyisem, LineLength)
  /\ tyicursor' = 0
  /\ pend' = pend \o Append(line, ch)
  /\ line' = <<>>
  /\ UNCHANGED <<tyihead, fault>>

\* Room for a character must leave room for the end of the line.
LineFull == avail + tyicursor >= TY_IBUFLEN - 1

\* The EOF character counts at the beginning of a line only.
EndOfFile ==
  /\ Echo(EOFCH)
  /\ \/ tyicursor # 0 /\ UNCHANGED <<input, fault>>
     \/ /\ tyicursor = 0 /\ Room
        /\ Store(EOFCH, tyitail + 1)
        /\ tyisem' = signal(tyisem)
        /\ pend' = Append(pend, EOFCH)
        /\ UNCHANGED <<tyihead, tyicursor, line, fault>>

Insert(ch) ==
  /\ Room
  /\ Echo(ch)
  /\ tyicursor' = tyicursor + 1
  /\ Store(ch, WrapTail(tyitail + 1))
  /\ line' = Append(line, ch)
  /\ UNCHANGED <<tyihead, tyisem, pend, fault>>

Cooked(ch) ==
  \/ /\ Edits(ch, "COOKED")
     /\ \/ ch = KILLCH /\ KillLine
        \/ ch = BACKSP /\ Erase
        \/ ch = NEWLINE /\ EndOfLine(ch)
        \/ /\ ch \notin {KILLCH, BACKSP, NEWLINE}
           /\ \/ LineFull /\ eputc(1) /\ UNCHANGED <<input, fault>>
              \/ ~ LineFull /\ ch = EOFCH /\ EndOfFile
              \/ ~ LineFull /\ ch # EOFCH /\ Insert(ch)
  \/ /\ tyimode = "COOKED" /\ ch \notin {STRTCH, STOPCH, KILLCH, BACKSP}
     /\ ch # NEWLINE => ~ LineFull /\ (ch = EOFCH => tyicursor = 0)
     /\ StoreFault

\* No process is inside the upper half, so interrupts are enabled.
Enabled == running = NOBODY /\ fault = {}

ttyhandle_in(key) ==
  LET ch == IF key = RETURN /\ tyimode # "RAW" THEN NEWLINE ELSE key
  IN  Enabled /\ (Raw(ch) \/ Flow(ch) \/ Cbreak(ch) \/ Cooked(ch))

-----------------------------------------------------------------------------
(***************************************************************************)
(* Output interrupts.                                                      *)
(***************************************************************************)
Smaller(a, b) == IF a < b THEN a ELSE b

\* The echo queue first, then the output buffer, as the semaphore counts it.
EchoSent == Smaller(UART_FIFO_SIZE, echo)
OutputSent == Smaller(UART_FIFO_SIZE - EchoSent, TY_OBUFLEN - tyosem.count)

OcharsWithEcho == EchoSent + OutputSent
Ochars == OutputSent

NothingEchoed == echo = 0
NothingToSend == echo = 0 /\ tyosem.count >= TY_OBUFLEN

ttyhandle_out ==
  /\ Enabled /\ thre
  /\ \/ /\ tyoheld
        /\ thre' = FALSE
        /\ UNCHANGED <<output, echo, etbei, fifo, fault>>
     \/ /\ ~ tyoheld /\ NothingToSend
        /\ etbei' = FALSE /\ thre' = FALSE
        /\ UNCHANGED <<output, echo, fifo, fault>>
     \/ /\ ~ tyoheld /\ ~ NothingToSend
        /\ echo' = echo - EchoSent
        /\ fifo' = EchoSent + OutputSent /\ thre' = FALSE
        /\ tyohead' = (tyohead + OutputSent) % TY_OBUFLEN
        /\ tyosem' = signaln(tyosem, Ochars)
        /\ \/ OutputSent > Len(opend) /\ fault' = {"overdrained"} /\ opend' = <<>>
           \/ /\ OutputSent <= Len(opend) /\ UNCHANGED fault
              /\ opend' = SubSeq(opend, OutputSent + 1, Len(opend))
        /\ UNCHANGED <<tyobuff, tyotail, etbei>>
  /\ UNCHANGED <<modes, input, tyoheld, at, running>>

\* External: the UART sends what is in its FIFO and asks for more.
UartSends ==
  /\ fault = {} /\ fifo > 0
  /\ fifo' = 0 /\ thre' = etbei
  /\ UNCHANGED <<modes, input, output, tyoheld, echo, etbei, at, running, fault>>

-----------------------------------------------------------------------------
(***************************************************************************)
(* The upper half.                                                         *)
(***************************************************************************)
Goto(p, where) == at' = [at EXCEPT ![p] = where]
Returns(p) == Goto(p, User) /\ running' = NOBODY

\* ttyread: in cooked mode a line, else count characters or those available.
ttyread(p, count) ==
  LET n == IF tyimode # "COOKED" /\ count = 0 THEN tyisem.count ELSE count
  IN  /\ Enabled /\ at[p].pc = "user"
      /\ tyimode = "COOKED" \/ n > 0
      /\ Goto(p, [pc |-> "getc", left |-> n, cooked |-> tyimode = "COOKED"])
      /\ running' = p
      /\ UNCHANGED <<modes, input, output, tyoheld, echo, uart, fault>>

\* The part of ttygetc after its wait, and what ttyread does with the character.
Extract(p, sem) ==
  LET ch == tyibuff[tyihead]
      eof == tyimode = "COOKED" /\ ch = EOFCH
      last == at[p].left <= 1 \/ (at[p].cooked /\ (ch \in {NEWLINE, RETURN} \/ eof))
  IN  /\ tyihead' = (tyihead + 1) % TY_IBUFLEN
      /\ tyisem' = sem
      /\ pend' = Tail(pend)
      /\ \/ last /\ Returns(p)
         \/ ~ last /\ Goto(p, [at[p] EXCEPT !.left = @ - 1, !.pc = "getc"]) /\ running' = p
      /\ UNCHANGED <<modes, tyibuff, tyitail, tyicursor, line, output, tyoheld, echo, uart, fault>>

\* A process gives the processor up in a wait, and gets it back some time after
\* the signal.
Sleeps(p, where) == Goto(p, where) /\ running' = NOBODY
Resumes(p, pc, sem) == Enabled /\ at[p].pc = pc /\ ~ Waits(sem, p)

ttygetc(p) ==
  /\ running = p /\ at[p].pc = "getc"
  /\ \/ ~ Blocks(tyisem) /\ Extract(p, wait(tyisem, p))
     \/ /\ Blocks(tyisem)
        /\ tyisem' = wait(tyisem, p)
        /\ Sleeps(p, [at[p] EXCEPT !.pc = "input"])
        /\ UNCHANGED <<modes, tyibuff, tyihead, tyitail, tyicursor, pend, line, output, tyoheld, echo, uart, fault>>

GetcReturn(p) == Resumes(p, "input", tyisem) /\ Extract(p, tyisem)

\* ttywrite, with CR before each newline (ttyputc).
Crlf(s) == FoldLeft(LAMBDA done, ch : done \o (IF ch = NEWLINE THEN <<RETURN, ch>> ELSE <<ch>>), <<>>, s)

ttywrite(p, s) ==
  /\ Enabled /\ at[p].pc = "user" /\ s # <<>>
  /\ Goto(p, [pc |-> "putc", rest |-> Crlf(s)])
  /\ running' = p
  /\ UNCHANGED <<modes, input, output, tyoheld, echo, uart, fault>>

\* The part of ttyputc after its wait.
Put(p, sem) ==
  /\ tyobuff' = [tyobuff EXCEPT ![tyotail] = Head(at[p].rest)]
  /\ tyotail' = (tyotail + 1) % TY_OBUFLEN
  /\ tyosem' = sem
  /\ opend' = Append(opend, Head(at[p].rest))
  /\ ttykickout
  /\ \/ Len(at[p].rest) = 1 /\ Returns(p)
     \/ Len(at[p].rest) > 1 /\ Goto(p, [pc |-> "putc", rest |-> Tail(at[p].rest)]) /\ running' = p
  /\ UNCHANGED <<modes, input, tyohead, tyoheld, echo, fault>>

ttyputc(p) ==
  /\ running = p /\ at[p].pc = "putc"
  /\ \/ ~ Blocks(tyosem) /\ Put(p, wait(tyosem, p))
     \/ /\ Blocks(tyosem)
        /\ tyosem' = wait(tyosem, p)
        /\ Sleeps(p, [at[p] EXCEPT !.pc = "space"])
        /\ UNCHANGED <<modes, input, tyobuff, tyohead, tyotail, opend, tyoheld, echo, uart, fault>>

PutcReturn(p) == Resumes(p, "space", tyosem) /\ Put(p, tyosem)

\* ttycontrol: modes and echo.  A mode set in the middle of a line leaves
\* characters behind that are not available.
SetMode(mode) ==
  /\ Enabled /\ tyimode # mode
  /\ tyimode' = mode
  /\ fault' = IF tyicursor = 0 THEN {} ELSE {"mode in the middle of a line"}
  /\ UNCHANGED <<tyiecho, input, output, tyoheld, echo, uart, at, running>>

SetEcho(b) ==
  /\ Enabled /\ tyiecho # b
  /\ tyiecho' = b
  /\ UNCHANGED <<tyimode, input, output, tyoheld, echo, uart, at, running, fault>>

\* TC_NEXTC waits for a character, looks at one and signals again.
Lookahead(p) ==
  /\ Enabled /\ at[p].pc = "user" /\ Blocks(tyisem)
  /\ tyisem' = wait(tyisem, p)
  /\ Goto(p, [pc |-> "nextc"])
  /\ UNCHANGED <<modes, tyibuff, tyihead, tyitail, tyicursor, pend, line, output, tyoheld, echo, uart, running, fault>>

LookaheadReturn(p) ==
  /\ Resumes(p, "nextc", tyisem)
  /\ tyisem' = signal(tyisem)
  /\ Goto(p, User)
  /\ UNCHANGED <<modes, tyibuff, tyihead, tyitail, tyicursor, pend, line, output, tyoheld, echo, uart, running, fault>>

Faulted == fault # {} /\ UNCHANGED vars

UpperHalf(p) ==
  ttygetc(p) \/ GetcReturn(p) \/ ttyputc(p) \/ PutcReturn(p) \/ LookaheadReturn(p)

Next ==
  \/ \E key \in Keys : ttyhandle_in(key)
  \/ ttyhandle_out \/ UartSends
  \/ \E p \in Procs : \/ \E c \in Counts : ttyread(p, c)
                      \/ \E s \in Writes : ttywrite(p, s)
                      \/ (Counts # {} /\ Lookahead(p)) \/ UpperHalf(p)
  \/ \E mode \in Modes : SetMode(mode)
  \/ \E b \in Echoes : SetEcho(b)
  \/ Faulted

Fairness == WF_vars(ttyhandle_out) /\ WF_vars(UartSends) /\ \A p \in Procs : WF_vars(UpperHalf(p))

-----------------------------------------------------------------------------
Ready(pc, sem) == {p \in Procs : at[p].pc \in pc /\ ~ Waits(sem, p)}

\* The input buffer holds the available characters and then the line being
\* edited, through erasing, line kill, end of file and the wrap of both ends;
\* so a read returns the characters in the order in which they became available.
InputInOrder ==
  fault = {} =>
    LET in == pend \o line
    IN  /\ tyicursor = Len(line)
        /\ \A k \in DOMAIN in : tyibuff[(tyihead + k - 1) % TY_IBUFLEN] = in[k]
        /\ tyitail % TY_IBUFLEN = (tyihead + Len(in)) % TY_IBUFLEN

\* The input semaphore counts the available characters that no released reader
\* is about to take.
InputCounted ==
  fault = {} =>
    tyisem.count = Len(pend) - Len(tyisem.queue) - Cardinality(Ready({"input", "nextc"}, tyisem))

\* The output buffer holds what was written and not sent, in order, however
\* writers that block and are released interleave.
OutputInOrder ==
  fault = {} =>
    /\ \A k \in DOMAIN opend : tyobuff[(tyohead + k - 1) % TY_OBUFLEN] = opend[k]
    /\ tyotail = (tyohead + Len(opend)) % TY_OBUFLEN
    /\ tyosem.count = TY_OBUFLEN - Len(opend) - Len(tyosem.queue) - Cardinality(Ready({"space"}, tyosem))

\* The only ways into a fault: the handler sends characters that were sent
\* before only if a released writer has not run yet; input is overrun only if a
\* released reader has not run yet or by an end of line when the buffer is
\* full, and goes past the end of the buffer only after an EOF character.
FaultCause ==
  /\ fault' = {"overdrained"} => Ready({"space"}, tyosem) # {}
  /\ fault' = {"overrun"} => \/ Ready({"input", "nextc"}, tyisem) # {}
                             \/ tyimode = "COOKED" /\ avail + tyicursor = TY_IBUFLEN
  /\ fault' = {"past the end"} => tyibuff[TY_IBUFLEN - 1] = EOFCH
FaultCauses == [][FaultCause]_vars

\* Output that is not held does not stop: the handler turns the interrupt off
\* only when there is nothing to send, and what comes later turns it on again.
OutputGoesOn == (opend # <<>> /\ ~ tyoheld) ~> (fifo > 0 \/ tyoheld \/ fault # {})

=============================================================================
