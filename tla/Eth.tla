-------------------------------- MODULE Eth ---------------------------------
(***************************************************************************)
(* The Ethernet driver and the rings it shares with the NIC (an Intel      *)
(* 82545EM, external).  A descriptor is done (its DD status bit is set by  *)
(* the NIC) or not; packets are in ring order, so that is all the driver   *)
(* looks at.  The NIC runs at any time; ethhandler reads and clears the    *)
(* interrupt cause first and looks at the rings then; no process runs in   *)
(* between.                                                                *)
(***************************************************************************)
EXTENDS Integers, Sequences, FiniteSets, Semaphore

CONSTANTS
  Procs,
  rxRingSize, txRingSize,
  E1000_RING_BOUNDARY

VARIABLES
  state,              \* of the interface: "DOWN", "PHY", "LINK", "UP" or "ERROR"
  rx, rxHead, rxTail, isem,
  tx, txHead, txTail, osem,
  RDH, RDT, TDH, TDT, \* NIC registers
  ICR,                \* NIC: interrupt causes
  cause,              \* what ethhandler read from ICR; {} outside the handler
  at                  \* "user", or inside "ethread" or "ethwrite" and waiting or released

driver == <<rx, rxHead, rxTail, isem, tx, txHead, txTail, osem>>
regs == <<RDH, RDT, TDH, TDT, ICR>>
vars == <<state, driver, regs, cause, at>>

Rx == 0 .. (rxRingSize - 1)
Tx == 0 .. (txRingSize - 1)

-----------------------------------------------------------------------------
(***************************************************************************)
(* ethinit and _82545EMInit.                                               *)
(***************************************************************************)
\* _82545EM_configure_rx leaves the NIC the first part of the receive ring.
configure_rx == RDH = 0 /\ RDT = rxRingSize - E1000_RING_BOUNDARY
configure_tx == TDH = 0 /\ TDT = 0

Init ==
  /\ state = "DOWN"
  /\ rx = [i \in Rx |-> FALSE] /\ rxHead = 0 /\ rxTail = 0 /\ isem = semcreate(0)
  /\ tx = [i \in Tx |-> FALSE] /\ txHead = 0 /\ txTail = 0 /\ osem = semcreate(txRingSize)
  /\ configure_rx /\ configure_tx
  /\ ICR = {} /\ cause = {}
  /\ at = [p \in Procs |-> "user"]

\* The steps of the initialisation: a PHY register that does not answer in time
\* ends it, and a link that does not come up delays it.
NextState(from, to) == state = from /\ state' = to /\ UNCHANGED <<driver, regs, cause, at>>
reset_hw == NextState("DOWN", "PHY")
init_hw == NextState("PHY", "LINK") \/ NextState("PHY", "ERROR")
AwaitLink == NextState("LINK", "UP") \/ NextState("LINK", "LINK") \/ NextState("LINK", "ERROR")
NoDevice == NextState("DOWN", "ERROR") \/ NextState("ERROR", "ERROR")

-----------------------------------------------------------------------------
(***************************************************************************)
(* External: the NIC.  It owns the receive descriptors from RDH up to RDT  *)
(* and the transmit descriptors from TDH up to TDT.                        *)
(***************************************************************************)
NicReceives ==
  /\ state = "UP" /\ RDH # RDT
  /\ rx' = [rx EXCEPT ![RDH] = TRUE]
  /\ RDH' = (RDH + 1) % rxRingSize
  /\ ICR' = ICR \cup {"RXT0"}
  /\ UNCHANGED <<state, rxHead, rxTail, isem, tx, txHead, txTail, osem, RDT, TDH, TDT, cause, at>>

NicSends ==
  /\ state = "UP" /\ TDH # TDT
  /\ tx' = [tx EXCEPT ![TDH] = TRUE]
  /\ TDH' = (TDH + 1) % txRingSize
  /\ ICR' = ICR \cup {"TXDW"}
  /\ UNCHANGED <<state, rx, rxHead, rxTail, isem, txHead, txTail, osem, RDH, RDT, TDT, cause, at>>

-----------------------------------------------------------------------------
(***************************************************************************)
(* The interrupt handler.                                                  *)
(***************************************************************************)
\* How many descriptors from i on, at most the whole ring, are done.
Done(ring, size, i) ==
  CHOOSE n \in 0 .. size :
    /\ \A k \in 0 .. (n - 1) : ring[(i + k) % size]
    /\ n = size \/ ~ ring[(i + n) % size]

HandlerStarts ==
  /\ cause = {} /\ ICR # {}
  /\ cause' = ICR
  /\ ICR' = {}
  /\ UNCHANGED <<state, driver, RDH, RDT, TDH, TDT, at>>

rxPackets ==
  LET n == Done(rx, rxRingSize, rxTail)
  IN  IF "RXT0" \in cause
      THEN rxTail' = (rxTail + n) % rxRingSize /\ isem' = signaln(isem, n)
      ELSE UNCHANGED <<rxTail, isem>>

txKeepsDone(i, n) == tx[i]
txClear(i, n) == tx[i] /\ (i - txHead) % txRingSize >= n

txPackets ==
  LET n == Done(tx, txRingSize, txHead)
  IN  IF "TXDW" \in cause
      THEN /\ tx' = [i \in Tx |-> txClear(i, n)]
           /\ txHead' = (txHead + n) % txRingSize
           /\ osem' = signaln(osem, n)
      ELSE UNCHANGED <<tx, txHead, osem>>

\* Causes that came up since stay pending when the handler ends.
NonePending == {}
StillPending == ICR

\* ethhandler after the cause is known, to its end.
ethhandler ==
  /\ cause # {}
  /\ rxPackets /\ txPackets
  /\ cause' = {}
  /\ ICR' = StillPending
  /\ UNCHANGED <<state, rx, rxHead, txTail, RDH, RDT, TDH, TDT, at>>

-----------------------------------------------------------------------------
(***************************************************************************)
(* The upper half.                                                         *)
(***************************************************************************)
Runs(p, where) == state = "UP" /\ cause = {} /\ at[p] = where

\* After a multiple of the boundary the NIC is given a part of the ring back.
GiveBackEach == TRUE
GiveBack == rxHead % E1000_RING_BOUNDARY = 0

StatusKept(i) == rx[i]
StatusCleared(i) == FALSE

TakePacket(p, sem) ==
  /\ rx' = [rx EXCEPT ![rxHead] = StatusCleared(rxHead)]
  /\ RDT' = IF GiveBack THEN (RDT + E1000_RING_BOUNDARY) % rxRingSize ELSE RDT
  /\ rxHead' = (rxHead + 1) % rxRingSize
  /\ isem' = sem
  /\ at' = [at EXCEPT ![p] = "user"]
  /\ UNCHANGED <<state, rxTail, tx, txHead, txTail, osem, RDH, TDH, TDT, ICR, cause>>

ethread(p) ==
  /\ Runs(p, "user")
  /\ \/ ~ Blocks(isem) /\ TakePacket(p, wait(isem, p))
     \/ /\ Blocks(isem)
        /\ isem' = wait(isem, p)
        /\ at' = [at EXCEPT ![p] = "ethread"]
        /\ UNCHANGED <<state, rx, rxHead, rxTail, tx, txHead, txTail, osem, regs, cause>>

ReadReturn(p) == Runs(p, "ethread") /\ ~ Waits(isem, p) /\ TakePacket(p, isem)

NoDoorbell == TDT
NextTDT == (TDT + 1) % txRingSize

QueuePacket(p, sem) ==
  /\ tx' = [tx EXCEPT ![txTail] = FALSE]
  /\ TDT' = NextTDT
  /\ txTail' = (txTail + 1) % txRingSize
  /\ osem' = sem
  /\ at' = [at EXCEPT ![p] = "user"]
  /\ UNCHANGED <<state, rx, rxHead, rxTail, isem, txHead, RDH, RDT, TDH, ICR, cause>>

ethwrite(p) ==
  /\ Runs(p, "user")
  /\ \/ ~ Blocks(osem) /\ QueuePacket(p, wait(osem, p))
     \/ /\ Blocks(osem)
        /\ osem' = wait(osem, p)
        /\ at' = [at EXCEPT ![p] = "ethwrite"]
        /\ UNCHANGED <<state, rx, rxHead, rxTail, isem, tx, txHead, txTail, regs, cause>>

WriteReturn(p) == Runs(p, "ethwrite") /\ ~ Waits(osem, p) /\ QueuePacket(p, osem)

\* Everybody may wait: for packets that do not come, or for a NIC that is idle.
AllWait == (\A p \in Procs : Waits(isem, p) \/ Waits(osem, p)) /\ UNCHANGED vars

Next ==
  \/ reset_hw \/ init_hw \/ AwaitLink \/ NoDevice
  \/ NicReceives \/ NicSends \/ HandlerStarts \/ ethhandler
  \/ \E p \in Procs : ethread(p) \/ ReadReturn(p) \/ ethwrite(p) \/ WriteReturn(p)
  \/ AllWait

-----------------------------------------------------------------------------
Ready(where, sem) == {p \in Procs : at[p] = where /\ ~ Waits(sem, p)}
Counted == (rxTail - rxHead) % rxRingSize
InUse == txRingSize - osem.count - Len(osem.queue) - Cardinality(Ready("ethwrite", osem))

\* The NIC never stores into a descriptor that ethread has not read: the parts
\* of the ring that ethread gives back in advance are free by the time that the
\* NIC reaches them.
NoOverwrite == \A k \in Rx : ((k - RDH) % rxRingSize < (RDT - RDH) % rxRingSize) => ~ rx[k]

\* The input semaphore counts the packets that the handler has seen and no
\* released process is about to read, and each of them is there: ethread never
\* finds a descriptor that is not done ("packet error").
InputCounted ==
  /\ isem.count = Counted - Len(isem.queue) - Cardinality(Ready("ethread", isem))
  /\ \A k \in 0 .. (Counted - 1) : rx[(rxHead + k) % rxRingSize]

\* The output semaphore counts the descriptors that no packet and no released
\* writer uses, so a writer never overwrites a packet that waits to be sent.
OutputCounted == InUse \in 0 .. txRingSize /\ (txHead + InUse) % txRingSize = txTail

\* The NIC stops while packets wait in the ring only if they fill it (TDT = TDH
\* then means an empty ring to the NIC): the driver uses one descriptor too many.
IdleOnlyWhenFull == (TDH = TDT /\ InUse > 0 /\ \A k \in Tx : ~ tx[k]) => InUse = txRingSize

\* Every packet that arrives is noticed, whenever the interrupt comes, because
\* the handler clears the cause before it looks at the ring.
PacketNoticed == rx[rxTail] ~> ~ rx[rxTail]

=============================================================================
