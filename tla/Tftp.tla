-------------------------------- MODULE Tftp --------------------------------
(***************************************************************************)
(* Downloading a file with TFTP, net/tftp.c: tftpget_mb asks for the file  *)
(* and then acknowledges each block; tftp_send1 sends one message and      *)
(* drops what arrives until it is the block expected next.  Each read      *)
(* request that reaches the server starts a transfer on a port of its own, *)
(* and the client answers to the port of the last packet, expected or not. *)
(* The server (external) repeats a block a few times and then gives up.    *)
(***************************************************************************)
EXTENDS Integers, Sequences

CONSTANTS Sizes,                      \* sizes of a file in blocks, the last one short
          Capacity,                   \* blocks that fit in the caller's buffers
          TFTP_MAXRETRIES,
          Ports,                      \* the ports of the server's transfers
          ServerRepeats,              \* times the server repeats a block
          NetCap                      \* bound: packets on their way

VARIABLES pc, expected, tries, remport, out, got,  \* the client
          nblocks, transfer,                       \* the server's file and transfers
          toserver, toclient                       \* the network
vars == <<pc, expected, tries, remport, out, got, nblocks, transfer, toserver, toclient>>

TFTP_PORT == 0
NoTransfer == [blk |-> 0, repeats |-> 0]

Init ==
  /\ pc = "send" /\ expected = 1 /\ tries = 0 /\ remport = TFTP_PORT
  /\ out = "RRQ" /\ got = <<>>
  /\ nblocks \in Sizes /\ transfer = [t \in Ports |-> NoTransfer]
  /\ toserver = <<>> /\ toclient = <<>>

(* The network loses packets, also when too many are on their way.         *)
Carry(net, m) == {net} \cup (IF Len(toserver) + Len(toclient) < NetCap THEN {Append(net, m)} ELSE {})

-----------------------------------------------------------------------------
(* tftp_send1: send, then receive until a timeout, an error or the block.  *)

Send ==
  /\ pc = "send" /\ tries < TFTP_MAXRETRIES
  /\ pc' = "recv"
  /\ toserver' \in Carry(toserver, [port |-> remport, op |-> out, blk |-> expected - 1])
  /\ UNCHANGED <<expected, tries, remport, out, got, nblocks, transfer, toclient>>

SameTry == tries
NextTry == tries + 1

Timeout ==
  /\ pc = "recv" /\ toclient = <<>>
  /\ pc' = "send" /\ tries' = NextTry
  /\ UNCHANGED <<expected, remport, out, got, nblocks, transfer, toserver, toclient>>

GivesUp ==
  /\ pc = "send" /\ tries = TFTP_MAXRETRIES
  /\ pc' = "error"
  /\ UNCHANGED <<expected, tries, remport, out, got, nblocks, transfer, toserver, toclient>>

AnyBlock(m) == m.op = "DATA"
IsExpected(m) == m.op = "DATA" /\ m.blk = expected

(* tftpget_mb stores a block, acknowledges it and goes on, or is done with *)
(* the short block (after a last acknowledgement) or a full buffer.        *)
Stored(m) ==
  \/ /\ Len(got) = Capacity /\ pc' = "done"
     /\ UNCHANGED <<got, expected, tries, out, toserver>>
  \/ /\ Len(got) < Capacity /\ got' = Append(got, m.blk) /\ out' = "ACK"
     /\ \/ /\ m.blk < nblocks /\ pc' = "send" /\ expected' = expected + 1 /\ tries' = 0
           /\ UNCHANGED toserver
        \/ /\ m.blk = nblocks /\ pc' = "done"
           /\ toserver' \in Carry(toserver, [port |-> m.port, op |-> "ACK", blk |-> expected])
           /\ UNCHANGED <<expected, tries>>

Receive ==
  /\ pc = "recv" /\ toclient # <<>>
  /\ toclient' = Tail(toclient)
  /\ LET m == Head(toclient) IN
     /\ remport' = m.port
     /\ \/ /\ m.op = "ERROR" /\ pc' = "error"
           /\ UNCHANGED <<expected, tries, out, got, toserver>>
        \/ IsExpected(m) /\ Stored(m)
        \/ m.op = "DATA" /\ ~ IsExpected(m) /\ UNCHANGED <<pc, expected, tries, out, got, toserver>>
  /\ UNCHANGED <<nblocks, transfer>>

-----------------------------------------------------------------------------
(* The server.                                                             *)

Data(t, blk) == [port |-> t, op |-> "DATA", blk |-> blk]

Serves ==
  /\ toserver # <<>>
  /\ LET m == Head(toserver) IN
     \/ /\ m.op = "RRQ" /\ m.port = TFTP_PORT
        /\ \E t \in Ports :
             /\ transfer[t] = NoTransfer
             /\ transfer' = [transfer EXCEPT ![t].blk = 1]
             /\ toclient' = Append(toclient, Data(t, 1))
     \/ /\ m.op = "ACK" /\ m.port # TFTP_PORT /\ transfer[m.port].blk = m.blk /\ m.blk < nblocks
        /\ transfer' = [transfer EXCEPT ![m.port] = [blk |-> m.blk + 1, repeats |-> 0]]
        /\ toclient' = Append(toclient, Data(m.port, m.blk + 1))
     \/ /\ m.port # TFTP_PORT /\ transfer[m.port].repeats = ServerRepeats
        /\ transfer' = transfer
        /\ toclient' = Append(toclient, [port |-> m.port, op |-> "ERROR", blk |-> 0])
     \/ UNCHANGED <<transfer, toclient>>
  /\ toserver' = Tail(toserver)
  /\ UNCHANGED <<pc, expected, tries, remport, out, got, nblocks>>

Repeats ==
  /\ \E t \in Ports :
       /\ transfer[t] # NoTransfer /\ transfer[t].repeats < ServerRepeats
       /\ transfer' = [transfer EXCEPT ![t].repeats = @ + 1]
       /\ toclient' \in Carry(toclient, Data(t, transfer[t].blk))
  /\ UNCHANGED <<pc, expected, tries, remport, out, got, nblocks, toserver>>

Ended == pc \in {"done", "error"}
Done == Ended /\ UNCHANGED vars

Client == Send \/ Timeout \/ GivesUp \/ Receive
Next == Client \/ Serves \/ Repeats \/ Done

Fairness == WF_vars(Client)
Spec == Init /\ [][Next]_vars /\ Fairness

-----------------------------------------------------------------------------
(* What has been stored is the beginning of the file, each block once and  *)
(* in order, though blocks are repeated and come from two transfers; a     *)
(* download that reports success has the whole file or a full buffer.      *)
FilePrefix ==
  /\ \A k \in DOMAIN got : got[k] = k
  /\ pc = "done" => Len(got) \in {nblocks, Capacity}

(* A download ends: every packet that is not expected is dropped and every *)
(* silence counts as a try.  (A server that repeated its block for ever,   *)
(* faster than the client's timeout, would keep it waiting.)               *)
DownloadEnds == <>Ended

-----------------------------------------------------------------------------
(* Why what is stored is the beginning of the file: while the client is    *)
(* sending or receiving, it holds one block less than the number it        *)
(* expects next.  No block beyond the last one is ever on its way, so the  *)
(* two cases of a block in Stored, before the last and the last, are all.  *)

Requests == [port : Ports \cup {TFTP_PORT}, op : {"RRQ", "ACK"}, blk : Int]
Packets == [port : Ports, op : {"DATA", "ERROR"}, blk : Nat]
TypeOK ==
  /\ pc \in {"send", "recv", "done", "error"}
  /\ expected \in Nat /\ remport \in Ports \cup {TFTP_PORT} /\ out \in {"RRQ", "ACK"}
  /\ got \in Seq(Nat) /\ nblocks \in Nat \ {0}
  /\ transfer \in [Ports -> [blk : Nat, repeats : Nat]]
  /\ toserver \in Seq(Requests) /\ toclient \in Seq(Packets)

OneLess == pc \in {"send", "recv"} => Len(got) = expected - 1
WithinFile ==
  /\ \A k \in 1 .. Len(toclient) : toclient[k].blk <= nblocks
  /\ \A t \in Ports : transfer[t].blk <= nblocks
Inv == TypeOK /\ OneLess /\ WithinFile /\ FilePrefix

=============================================================================
