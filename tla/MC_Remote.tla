----------------------------- MODULE MC_Remote ------------------------------
(***************************************************************************)
(* The clients of servers on the network, one part at a time: the remote   *)
(* disk ("rds"), remote files ("rfs"), a download with TFTP ("tftp") and   *)
(* obtaining an address ("dhcp").                                          *)
(***************************************************************************)
EXTENDS Integers, Sequences, FiniteSets

CONSTANTS
  Procs, Values, NONE,
  DiskBlocks, RD_BUFFS, RD_RETRIES, DiskCalls,             \* the remote disk
  RF_RETRIES, MaxPos, FileCap, FileCalls,                  \* remote files
  Sizes, Capacity, TFTP_MAXRETRIES, Ports, ServerRepeats,  \* downloads
  Servers, DHCP_RETRY, DHCP_READS, InCap                   \* addresses

ASSUME RemoteNumbers ==
  /\ Sizes \subseteq Nat \ {0} /\ DHCP_RETRY \in Nat /\ NONE \notin Servers
  /\ RD_BUFFS \in Nat /\ IsFiniteSet(Procs) /\ Procs # {} /\ MaxPos \in Int

VARIABLES
  part,
  rdstate, free, req, cache, buf, avail, reqsem, at, prmsg, com, rdseq, msgblk,
  net, replies, store, last, calls, overtaken, misplaced,
  unsent, fault,
  fdev, fmutex, fat, fcom, fseq, fnet, freplies, fstore, facked, fmaybe, fcalls, fmixed,
  tpc, expected, tries, remport, tout, got, nblocks, transfer, toserver, toclient,
  dpc, di, dj, snd, slot, inbox, heard, lease, ipucast

R == INSTANCE Rds WITH MaxCalls <- DiskCalls
F == INSTANCE Rfs WITH NetCap <- FileCap, MaxCalls <- FileCalls, dev <- fdev, mutex <- fmutex,
       at <- fat, com <- fcom, rfseq <- fseq, net <- fnet, replies <- freplies, store <- fstore,
       acked <- facked, maybe <- fmaybe, calls <- fcalls, mixed <- fmixed
T == INSTANCE Tftp WITH NetCap <- 3, pc <- tpc, out <- tout
D == INSTANCE Dhcp WITH pc <- dpc, i <- di, j <- dj

rdsvars == <<rdstate, free, req, cache, buf, avail, reqsem, at, prmsg, com, rdseq, msgblk,
             net, replies, store, last, calls, overtaken, misplaced, unsent, fault>>
rfsvars == <<fdev, fmutex, fat, fcom, fseq, fnet, freplies, fstore, facked, fmaybe, fcalls, fmixed>>
tftpvars == <<tpc, expected, tries, remport, tout, got, nblocks, transfer, toserver, toclient>>
dhcpvars == <<dpc, di, dj, snd, slot, inbox, heard, lease, ipucast>>
vars == <<part, rdsvars, rfsvars, tftpvars, dhcpvars>>

Init ==
  /\ part \in {"rds", "rfs", "tftp", "dhcp"}
  /\ R!Init /\ F!Init /\ T!Init /\ D!Init
  /\ part # "rds" => msgblk = CHOOSE k \in DiskBlocks : TRUE
  /\ part # "rfs" => ~ fdev.open
  /\ part # "tftp" => nblocks = CHOOSE n \in Sizes : TRUE

Next ==
  /\ UNCHANGED part
  /\ \/ part = "rds" /\ R!Next /\ UNCHANGED <<rfsvars, tftpvars, dhcpvars>>
     \/ part = "rfs" /\ F!Next /\ UNCHANGED <<rdsvars, tftpvars, dhcpvars>>
     \/ part = "tftp" /\ T!Next /\ UNCHANGED <<rdsvars, rfsvars, dhcpvars>>
     \/ part = "dhcp" /\ D!Next /\ UNCHANGED <<rdsvars, rfsvars, tftpvars>>

\* A process that can go on does, and the clock runs.
Fairness ==
  /\ WF_rdsvars(part = "rds" /\ R!Rdsproc)
  /\ \A p \in Procs : WF_rdsvars(part = "rds" /\ R!GoesOn(p))
  /\ \A p \in Procs : WF_rfsvars(part = "rfs" /\ F!Step(p))
  /\ WF_tftpvars(part = "tftp" /\ T!Client)
  /\ WF_dhcpvars(part = "dhcp" /\ D!Client)

Spec == Init /\ [][Next]_vars /\ Fairness

\* The properties of the modules, each about its part.
BufferOnOneList == R!BufferOnOneList
SemaphoresCount == R!SemaphoresCount
WritesKept == R!WritesKept
FileAsAcknowledged == F!FileAsAcknowledged
FilePrefix == T!FilePrefix
AddressBound == D!AddressBound

(* Every call to a server returns, with success or an error: requests and  *)
(* retries of the disk and of files, a download and getlocalip, however    *)
(* packets are lost, repeated and late (rdscomm, rfscomm, tftp_send1 and   *)
(* getlocalip count their tries, and no path keeps the mutex).             *)
Busy(p) ==
  CASE part = "rds" -> R!Busy(p)
    [] part = "rfs" -> F!Busy(p)
    [] part = "tftp" -> ~ T!Ended
    [] part = "dhcp" -> ~ D!Ended
Returned(p) == IF part = "rds" THEN R!Returned(p) ELSE ~ Busy(p)
CallsEnd == \A p \in Procs : Busy(p) ~> Returned(p)

\* The lists and semaphores of the remote disk agree, and what it or the server
\* of files was told is kept (rdsprocess, rdswrite, rfscomm).
DisksSound == BufferOnOneList /\ SemaphoresCount /\ WritesKept /\ FileAsAcknowledged

=============================================================================
