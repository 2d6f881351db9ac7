---------------------------- MODULE RemoteProofs ----------------------------
(***************************************************************************)
(* Proofs about the clients of servers, for processes, blocks, files,      *)
(* buffers, servers and retries of any number, whatever the network loses, *)
(* repeats and delays: what a download has stored is the beginning of the  *)
(* file, the address in use is one that its server has bound, the lists    *)
(* and semaphores of the remote disk agree and no write of a block is      *)
(* lost, and a remote file is what was acknowledged.                       *)
(***************************************************************************)
EXTENDS MC_Remote, Semaphore, FiniteSetTheorems, SequenceTheorems, WellFoundedInduction, TLAPS

-----------------------------------------------------------------------------
(* Downloads.                                                              *)

LEMMA TftpCarries ==
  ASSUME NEW S, NEW sent \in Seq(S), NEW m \in S, NEW after \in T!Carry(sent, m)
  PROVE  after \in Seq(S) /\ (after = sent \/ after = Append(sent, m))
BY DEF T!Carry

\* A packet of data that is within the file may join those on their way.
LEMMA TftpJoins ==
  ASSUME T!TypeOK, T!WithinFile, NEW p \in T!Packets, p.blk <= nblocks, toclient' = Append(toclient, p)
  PROVE  /\ toclient' \in Seq(T!Packets)
         /\ \A k \in 1 .. Len(toclient') : toclient'[k].blk <= nblocks
<1>1. toclient' \in Seq(T!Packets) /\ Len(toclient') = Len(toclient) + 1 /\ Len(toclient) \in Nat
  BY DEF T!TypeOK
<1>2. \A k \in 1 .. Len(toclient) : toclient'[k] = toclient[k]
  BY DEF T!TypeOK
<1>3. toclient'[Len(toclient) + 1] = p
  BY DEF T!TypeOK
<1> QED
  BY <1>1, <1>2, <1>3 DEF T!WithinFile

\* A block that was expected takes the next place.
LEMMA TftpGrows ==
  ASSUME T!TypeOK, T!FilePrefix, NEW b \in Nat, Len(got) = b - 1, got' = Append(got, b)
  PROVE  got' \in Seq(Nat) /\ Len(got') = b /\ \A k \in DOMAIN got' : got'[k] = k
<1>1. got' \in Seq(Nat) /\ Len(got') = b /\ DOMAIN got' = 1 .. b
  BY DEF T!TypeOK
<1>2. \A k \in 1 .. b - 1 : got'[k] = got[k]
  BY DEF T!TypeOK
<1>3. got'[b] = b
  BY <1>1 DEF T!TypeOK
<1>4. \A k \in 1 .. b - 1 : got[k] = k
  BY DEF T!TypeOK, T!FilePrefix
<1> QED
  BY <1>1, <1>2, <1>3, <1>4

LEMMA TftpReceiveKeeps ==
  ASSUME T!Inv, T!Receive
  PROVE  T!Inv'
<1> DEFINE m == Head(toclient)
<1>1. m \in T!Packets /\ toclient' \in Seq(T!Packets)
  BY DEF T!Inv, T!TypeOK, T!Receive
<1>2. UNCHANGED <<nblocks, transfer>> /\ remport' = m.port /\ tpc = "recv"
  BY DEF T!Receive
<1>3. T!WithinFile'
  <2>1. Len(toclient') = Len(toclient) - 1 /\ Len(toclient) \in Nat
    BY DEF T!Inv, T!TypeOK, T!Receive
  <2>2. \A k \in 1 .. Len(toclient') : toclient'[k] = toclient[k + 1]
    BY DEF T!Inv, T!TypeOK, T!Receive
  <2> QED
    BY <1>2, <2>1, <2>2 DEF T!Inv, T!WithinFile
<1>4. m.port \in Ports /\ m.blk \in Nat
  BY <1>1 DEF T!Packets
<1>5. T!TypeOK /\ T!FilePrefix /\ Len(got) = expected - 1
  BY <1>2 DEF T!Inv, T!OneLess
<1>6. \/ tpc' = "error" /\ UNCHANGED <<expected, tries, tout, got, toserver>>
      \/ T!IsExpected(m) /\ T!Stored(m)
      \/ UNCHANGED <<tpc, expected, tries, tout, got, toserver>>
  BY DEF T!Receive
<1> HIDE DEF m
<1>7. CASE UNCHANGED <<expected, tries, tout, got, toserver>> /\ (tpc' = "error" \/ tpc' = tpc)
  BY <1>1, <1>2, <1>3, <1>4, <1>5, <1>7 DEF T!Inv, T!TypeOK, T!OneLess, T!FilePrefix
<1>8. CASE T!IsExpected(m) /\ T!Stored(m)
  <2>1. m.blk = expected
    BY <1>8 DEF T!IsExpected
  <2>2. CASE Len(got) = Capacity /\ tpc' = "done" /\ UNCHANGED <<got, expected, tries, tout, toserver>>
    BY <1>1, <1>2, <1>3, <1>4, <1>5, <2>2 DEF T!Inv, T!TypeOK, T!OneLess, T!FilePrefix
  <2>3. CASE got' = Append(got, m.blk) /\ tout' = "ACK"
             /\ m.blk < nblocks /\ tpc' = "send" /\ expected' = expected + 1 /\ UNCHANGED toserver
    <3>1. got' \in Seq(Nat) /\ Len(got') = expected /\ \A k \in DOMAIN got' : got'[k] = k
      BY <1>4, <1>5, <2>1, <2>3, TftpGrows
    <3> QED
      BY <1>1, <1>2, <1>3, <1>4, <1>5, <2>3, <3>1 DEF T!Inv, T!TypeOK, T!OneLess, T!FilePrefix
  <2>4. CASE got' = Append(got, m.blk) /\ tout' = "ACK" /\ m.blk = nblocks /\ tpc' = "done"
             /\ toserver' \in T!Carry(toserver, [port |-> m.port, op |-> "ACK", blk |-> expected])
             /\ UNCHANGED <<expected, tries>>
    <3>1. got' \in Seq(Nat) /\ Len(got') = expected /\ \A k \in DOMAIN got' : got'[k] = k
      BY <1>4, <1>5, <2>1, <2>4, TftpGrows
    <3>2. toserver' \in Seq(T!Requests)
      <4>1. [port |-> m.port, op |-> "ACK", blk |-> expected] \in T!Requests
        BY <1>4, <1>5 DEF T!Requests, T!TypeOK
      <4> QED
        BY <1>5, <2>4, <4>1, TftpCarries DEF T!TypeOK
    <3> QED
      BY <1>1, <1>2, <1>3, <1>4, <1>5, <2>1, <2>4, <3>1, <3>2 DEF T!Inv, T!TypeOK, T!OneLess, T!FilePrefix
  <2> QED
    BY <1>8, <2>2, <2>3, <2>4 DEF T!Stored
<1> QED
  BY <1>6, <1>7, <1>8

LEMMA TftpServesKeeps ==
  ASSUME T!Inv, T!Serves
  PROVE  T!Inv'
<1> DEFINE m == Head(toserver)
<1>1. m \in T!Requests /\ toserver' \in Seq(T!Requests)
  BY DEF T!Inv, T!TypeOK, T!Serves
<1>2. UNCHANGED <<tpc, expected, tries, remport, tout, got, nblocks>>
  BY DEF T!Serves
<1>3. m.port \in Ports \cup {T!TFTP_PORT} /\ T!TypeOK /\ T!WithinFile
  BY <1>1 DEF T!Requests, T!Inv
<1>4. \/ \E t \in Ports : /\ transfer' = [transfer EXCEPT ![t].blk = 1]
                          /\ toclient' = Append(toclient, T!Data(t, 1))
      \/ /\ m.port # T!TFTP_PORT /\ transfer[m.port].blk = m.blk /\ m.blk < nblocks
         /\ transfer' = [transfer EXCEPT ![m.port] = [blk |-> m.blk + 1, repeats |-> 0]]
         /\ toclient' = Append(toclient, T!Data(m.port, m.blk + 1))
      \/ /\ m.port # T!TFTP_PORT
         /\ transfer' = transfer
         /\ toclient' = Append(toclient, [port |-> m.port, op |-> "ERROR", blk |-> 0])
      \/ UNCHANGED <<transfer, toclient>>
  BY DEF T!Serves
<1> HIDE DEF m
<1>5. /\ toclient' \in Seq(T!Packets) /\ transfer' \in [Ports -> [blk : Nat, repeats : Nat]]
      /\ T!WithinFile'
  <2>1. ASSUME NEW t \in Ports, transfer' = [transfer EXCEPT ![t].blk = 1],
               toclient' = Append(toclient, T!Data(t, 1))
        PROVE  /\ toclient' \in Seq(T!Packets) /\ transfer' \in [Ports -> [blk : Nat, repeats : Nat]]
               /\ T!WithinFile'
    <3>1. T!Data(t, 1) \in T!Packets /\ T!Data(t, 1).blk <= nblocks
      BY <1>3 DEF T!Data, T!Packets, T!TypeOK
    <3>2. /\ toclient' \in Seq(T!Packets)
          /\ \A k \in 1 .. Len(toclient') : toclient'[k].blk <= nblocks
      BY <1>3, <2>1, <3>1, TftpJoins
    <3>3. /\ transfer' \in [Ports -> [blk : Nat, repeats : Nat]]
          /\ \A u \in Ports : transfer'[u].blk <= nblocks
      <4>1. transfer' \in [Ports -> [blk : Nat, repeats : Nat]]
        BY <1>3, <2>1 DEF T!TypeOK
      <4>2. transfer'[t].blk = 1 /\ \A u \in Ports \ {t} : transfer'[u] = transfer[u]
        BY <1>3, <2>1 DEF T!TypeOK
      <4>3. 1 <= nblocks
        BY <1>3 DEF T!TypeOK
      <4> QED
        BY <1>3, <4>1, <4>2, <4>3 DEF T!WithinFile
    <3> QED
      BY <1>2, <3>2, <3>3 DEF T!WithinFile
  <2>2. CASE /\ m.port # T!TFTP_PORT /\ transfer[m.port].blk = m.blk /\ m.blk < nblocks
             /\ transfer' = [transfer EXCEPT ![m.port] = [blk |-> m.blk + 1, repeats |-> 0]]
             /\ toclient' = Append(toclient, T!Data(m.port, m.blk + 1))
    <3>1. m.port \in Ports
      BY <1>3, <2>2
    <3>2. m.blk \in Nat
      BY <1>3, <2>2, <3>1 DEF T!TypeOK
    <3>3. T!Data(m.port, m.blk + 1) \in T!Packets /\ T!Data(m.port, m.blk + 1).blk <= nblocks
      BY <1>3, <2>2, <3>1, <3>2 DEF T!Data, T!Packets, T!TypeOK
    <3>4. /\ toclient' \in Seq(T!Packets)
          /\ \A k \in 1 .. Len(toclient') : toclient'[k].blk <= nblocks
      BY <1>3, <2>2, <3>3, TftpJoins
    <3>5. transfer' \in [Ports -> [blk : Nat, repeats : Nat]]
      BY <1>3, <2>2, <3>1, <3>2 DEF T!TypeOK
    <3>6. transfer'[m.port].blk = m.blk + 1 /\ \A u \in Ports \ {m.port} : transfer'[u] = transfer[u]
      BY <1>3, <2>2, <3>1 DEF T!TypeOK
    <3>7. m.blk + 1 <= nblocks
      BY <1>3, <2>2, <3>2 DEF T!TypeOK
    <3>8. \A u \in Ports : transfer'[u].blk <= nblocks
      BY <1>3, <3>6, <3>7 DEF T!WithinFile
    <3> QED
      BY <1>2, <3>4, <3>5, <3>8 DEF T!WithinFile
  <2>3. CASE /\ m.port # T!TFTP_PORT
             /\ transfer' = transfer
             /\ toclient' = Append(toclient, [port |-> m.port, op |-> "ERROR", blk |-> 0])
    <3> DEFINE e == [port |-> m.port, op |-> "ERROR", blk |-> 0]
    <3>1. e \in T!Packets /\ e.blk <= nblocks
      BY <1>3, <2>3 DEF T!Packets, T!TypeOK
    <3>2. /\ toclient' \in Seq(T!Packets)
          /\ \A k \in 1 .. Len(toclient') : toclient'[k].blk <= nblocks
      BY <1>3, <2>3, <3>1, TftpJoins
    <3> QED
      BY <1>2, <1>3, <2>3, <3>2 DEF T!TypeOK, T!WithinFile
  <2>4. CASE UNCHANGED <<transfer, toclient>>
    BY <1>2, <1>3, <2>4 DEF T!TypeOK, T!WithinFile
  <2> QED
    BY <1>4, <2>1, <2>2, <2>3, <2>4
<1> QED
  BY <1>1, <1>2, <1>5 DEF T!Inv, T!TypeOK, T!OneLess, T!FilePrefix

LEMMA TftpRepeatsKeeps ==
  ASSUME T!Inv, T!Repeats
  PROVE  T!Inv'
<1>1. PICK t \in Ports : /\ transfer' = [transfer EXCEPT ![t].repeats = @ + 1]
                         /\ toclient' \in T!Carry(toclient, T!Data(t, transfer[t].blk))
  BY DEF T!Repeats
<1>2. UNCHANGED <<tpc, expected, tries, remport, tout, got, nblocks, toserver>> /\ T!TypeOK /\ T!WithinFile
  BY DEF T!Repeats, T!Inv
<1> DEFINE d == T!Data(t, transfer[t].blk)
<1>3. d \in T!Packets /\ d.blk <= nblocks
  BY <1>2 DEF T!Data, T!Packets, T!TypeOK, T!WithinFile
<1>4. toclient' = toclient \/ toclient' = Append(toclient, d)
  BY <1>1, <1>2, <1>3, TftpCarries DEF T!TypeOK
<1>5. toclient' \in Seq(T!Packets) /\ \A k \in 1 .. Len(toclient') : toclient'[k].blk <= nblocks
  <2> HIDE DEF d
  <2>1. CASE toclient' = toclient
    BY <1>2, <2>1 DEF T!TypeOK, T!WithinFile
  <2>2. CASE toclient' = Append(toclient, d)
    BY <1>2, <1>3, <2>2, TftpJoins
  <2> QED
    BY <1>4, <2>1, <2>2
<1>6. /\ transfer' \in [Ports -> [blk : Nat, repeats : Nat]]
      /\ \A u \in Ports : transfer'[u].blk = transfer[u].blk
  BY <1>1, <1>2 DEF T!TypeOK
<1> QED
  BY <1>2, <1>5, <1>6 DEF T!Inv, T!TypeOK, T!OneLess, T!WithinFile, T!FilePrefix

LEMMA TftpKeeps ==
  ASSUME T!Inv, [T!Next]_(T!vars)
  PROVE  T!Inv'
<1>1. CASE T!Send
  <2>1. [port |-> remport, op |-> tout, blk |-> expected - 1] \in T!Requests
    BY DEF T!Inv, T!TypeOK, T!Requests
  <2>2. toserver' \in Seq(T!Requests)
    BY <1>1, <2>1, TftpCarries DEF T!Send, T!Inv, T!TypeOK
  <2> QED
    BY <1>1, <2>2 DEF T!Send, T!Inv, T!TypeOK, T!OneLess, T!WithinFile, T!FilePrefix
<1>2. CASE T!Timeout \/ T!GivesUp
  BY <1>2 DEF T!Timeout, T!GivesUp, T!Inv, T!TypeOK, T!OneLess, T!WithinFile, T!FilePrefix
<1>3. CASE T!Receive
  BY <1>3, TftpReceiveKeeps
<1>4. CASE T!Serves
  BY <1>4, TftpServesKeeps
<1>5. CASE T!Repeats
  BY <1>5, TftpRepeatsKeeps
<1>6. CASE UNCHANGED T!vars
  BY <1>6 DEF T!vars, T!Inv, T!TypeOK, T!OneLess, T!WithinFile, T!FilePrefix
<1> QED
  BY <1>1, <1>2, <1>3, <1>4, <1>5, <1>6 DEF T!Next, T!Client, T!Done

\* However packets are lost, repeated and late, and however many transfers the
\* requests of tftp_send1 start, tftpget_mb stores each block once and in order,
\* and reports success only with the whole file or full buffers.
THEOREM PrefixAlways == Spec => []FilePrefix
<1>1. Init => T!Inv
  BY RemoteNumbers DEF Init, T!Init, T!Inv, T!TypeOK, T!OneLess, T!WithinFile, T!FilePrefix, T!NoTransfer
<1>2. T!Inv /\ [Next]_vars => T!Inv'
  <2> SUFFICES ASSUME T!Inv, [Next]_vars PROVE T!Inv'
    OBVIOUS
  <2>1. [T!Next]_(T!vars)
    BY DEF Next, vars, tftpvars, T!vars
  <2> QED BY <2>1, TftpKeeps
<1>3. T!Inv => FilePrefix
  BY DEF T!Inv, FilePrefix
<1> QED BY <1>1, <1>2, <1>3, PTL DEF Spec

-----------------------------------------------------------------------------
(* Addresses.                                                              *)

LEMMA DhcpBroadcasts ==
  ASSUME D!TypeOK, NEW m \in Servers \cup {NONE}, D!Broadcast(m)
  PROVE  heard' \in [Servers -> [to : Servers \cup {NONE}, on : BOOLEAN]]
BY DEF D!TypeOK, D!Broadcast

LEMMA DhcpNextReads ==
  ASSUME D!TypeOK, dpc = "recv", D!TriesLeft, D!NextRead
  PROVE  /\ dpc' \in {"send", "recv"} /\ di' \in Nat /\ dj' \in Nat
         /\ dpc' = "recv" => di' < DHCP_RETRY
BY DEF D!TypeOK, D!TriesLeft, D!NextRead

\* What is said joins the end of the queue, or is lost.
LEMMA DhcpHeard ==
  ASSUME D!TypeOK, NEW s \in Servers, NEW type \in {"offer", "ack", "nak"}, NEW id \in BOOLEAN,
         D!Says(s, type, id)
  PROVE  /\ inbox' \in Seq(D!Messages)
         /\ \A k \in 1 .. Len(inbox') :
              \/ k \in 1 .. Len(inbox) /\ inbox'[k] = inbox[k]
              \/ inbox'[k].type = type /\ inbox'[k].from = s
<1> DEFINE m == [type |-> type, from |-> s, id |-> id]
<1>1. m \in D!Messages
  BY DEF D!Messages
<1>2. CASE inbox' = inbox
  BY <1>2 DEF D!TypeOK
<1>3. CASE inbox' = Append(inbox, m)
  <2>1. inbox' \in Seq(D!Messages) /\ Len(inbox') = Len(inbox) + 1 /\ Len(inbox) \in Nat
    BY <1>1, <1>3 DEF D!TypeOK
  <2>2. \A k \in 1 .. Len(inbox) : inbox'[k] = inbox[k]
    BY <1>1, <1>3 DEF D!TypeOK
  <2>3. inbox'[Len(inbox) + 1] = m
    BY <1>1, <1>3 DEF D!TypeOK
  <2>4. m.type = type /\ m.from = s
    OBVIOUS
  <2> HIDE DEF m
  <2> QED
    BY <2>1, <2>2, <2>3, <2>4
<1> QED
  BY <1>2, <1>3 DEF D!Says

\* A lease that is bound stays bound, whatever the server hears later.
LEMMA DhcpBoundStays ==
  ASSUME D!TypeOK, NEW s \in Servers, D!Server(s)
  PROVE  /\ lease' \in [Servers -> {"none", "offered", "bound"}]
         /\ \A t \in Servers : lease[t] = "bound" => lease'[t] = "bound"
BY DEF D!TypeOK, D!Server

LEMMA DhcpServerKeeps ==
  ASSUME D!Inv, NEW s \in Servers, D!Server(s)
  PROVE  D!Inv'
<1>1. D!TypeOK /\ lease' \in [Servers -> {"none", "offered", "bound"}]
  BY DhcpBoundStays DEF D!Inv
<1>2. \A t \in Servers : lease[t] = "bound" => lease'[t] = "bound"
  BY DhcpBoundStays DEF D!Inv
<1>3. UNCHANGED <<dpc, di, dj, snd, slot, ipucast>>
  BY DEF D!Server
<1>4. heard' \in [Servers -> [to : Servers \cup {NONE}, on : BOOLEAN]]
  BY <1>1 DEF D!TypeOK, D!Server, D!Nothing
<1>5. inbox' \in Seq(D!Messages) /\ D!AcksAreBound'
  <2>1. D!AcksAreBound /\ \A k \in 1 .. Len(inbox) : inbox[k] \in D!Messages
    BY <1>1 DEF D!Inv, D!TypeOK
  <2>2. CASE inbox' = inbox
    BY <1>1, <1>2, <2>1, <2>2 DEF D!AcksAreBound, D!TypeOK, D!Messages
  <2>3. ASSUME NEW type \in {"offer", "ack", "nak"}, NEW id \in BOOLEAN, D!Says(s, type, id),
               type = "ack" => lease'[s] = "bound"
        PROVE  inbox' \in Seq(D!Messages) /\ D!AcksAreBound'
    <3>1. inbox' \in Seq(D!Messages)
      BY <1>1, <2>3, DhcpHeard
    <3>2. ASSUME NEW k \in 1 .. Len(inbox'), inbox'[k].type = "ack"
          PROVE  lease'[inbox'[k].from] = "bound"
      <4>1. \/ k \in 1 .. Len(inbox) /\ inbox'[k] = inbox[k]
            \/ inbox'[k].type = type /\ inbox'[k].from = s
        BY <1>1, <2>3, DhcpHeard
      <4> QED
        BY <1>2, <2>1, <2>3, <3>2, <4>1 DEF D!AcksAreBound, D!Messages
    <3> QED
      BY <3>1, <3>2 DEF D!AcksAreBound
  <2>4. \/ inbox' = inbox
        \/ \E id \in BOOLEAN : D!Says(s, "offer", id)
        \/ lease' = [lease EXCEPT ![s] = "bound"] /\ D!Says(s, "ack", TRUE)
        \/ D!Says(s, "nak", TRUE)
    BY DEF D!Server
  <2>5. CASE \E id \in BOOLEAN : D!Says(s, "offer", id)
    BY <2>3, <2>5
  <2>6. CASE lease' = [lease EXCEPT ![s] = "bound"] /\ D!Says(s, "ack", TRUE)
    <3>1. lease'[s] = "bound"
      BY <1>1, <2>6 DEF D!TypeOK
    <3> QED
      BY <2>3, <2>6, <3>1
  <2>7. CASE D!Says(s, "nak", TRUE)
    BY <2>3, <2>7
  <2> QED
    BY <2>2, <2>4, <2>5, <2>6, <2>7
<1>6. D!AddressBound'
  BY <1>1, <1>2, <1>3 DEF D!Inv, D!AddressBound, D!TypeOK
<1> QED
  BY <1>1, <1>3, <1>4, <1>5, <1>6 DEF D!Inv, D!TypeOK, D!TriesLeft

\* Reading a packet: the acknowledgement it may be is of a bound lease.
LEMMA DhcpReceiveKeeps ==
  ASSUME D!Inv, D!Receive, NONE \notin Servers
  PROVE  D!Inv'
<1> DEFINE m == Head(inbox)
<1>1. m \in D!Messages /\ inbox' \in Seq(D!Messages) /\ lease' = lease
  BY DEF D!Inv, D!TypeOK, D!Receive
<1>2. m.type = "ack" => lease[m.from] = "bound"
  <2>1. m = inbox[1] /\ 1 \in 1 .. Len(inbox)
    BY DEF D!Inv, D!TypeOK, D!Receive
  <2> QED
    BY <2>1 DEF D!Inv, D!AcksAreBound
<1>3. D!AcksAreBound'
  <2>1. Len(inbox') = Len(inbox) - 1 /\ Len(inbox) \in Nat
    BY DEF D!Inv, D!TypeOK, D!Receive
  <2>2. \A k \in 1 .. Len(inbox') : inbox'[k] = inbox[k + 1]
    BY DEF D!Inv, D!TypeOK, D!Receive
  <2> QED
    BY <1>1, <2>1, <2>2 DEF D!Inv, D!AcksAreBound
<1>4. D!TypeOK /\ dpc = "recv" /\ D!TriesLeft
  BY DEF D!Inv, D!Receive
<1>5. m.type \in {"offer", "ack", "nak"} /\ m.from \in Servers
  BY <1>1 DEF D!Messages
<1>6. D!Offer(m) \/ D!Answer(m)
  BY DEF D!Receive
<1> HIDE DEF m
<1>7. /\ D!TypeOK' /\ D!TriesLeft'
  <2>1. CASE D!Offer(m)
    <3>1. CASE m.id /\ snd' = m.from /\ D!Broadcast(m.from) /\ D!NextRead
      <4>1. heard' \in [Servers -> [to : Servers \cup {NONE}, on : BOOLEAN]]
        BY <1>4, <1>5, <3>1, DhcpBroadcasts
      <4>2. dpc' \in {"send", "recv"} /\ di' \in Nat /\ dj' \in Nat /\ D!TriesLeft'
        BY <1>4, <3>1, DhcpNextReads DEF D!TriesLeft
      <4> QED
        BY <1>1, <1>4, <1>5, <2>1, <3>1, <4>1, <4>2 DEF D!Offer, D!TypeOK
    <3>2. CASE ~ m.id /\ dpc' = "failed" /\ UNCHANGED <<di, dj, snd, heard>>
      BY <1>1, <1>4, <2>1, <3>2 DEF D!Offer, D!TypeOK, D!TriesLeft
    <3> QED
      BY <2>1, <3>1, <3>2 DEF D!Offer
  <2>2. CASE D!Answer(m)
    <3>1. CASE ~ D!IsAck(m) /\ D!NextRead /\ UNCHANGED <<ipucast, slot>>
      <4>1. dpc' \in {"send", "recv"} /\ di' \in Nat /\ dj' \in Nat /\ D!TriesLeft'
        BY <1>4, <3>1, DhcpNextReads DEF D!TriesLeft
      <4> QED
        BY <1>1, <1>4, <2>2, <3>1, <4>1 DEF D!Answer, D!TypeOK
    <3>2. CASE D!IsAck(m) /\ ipucast' = m.from /\ slot' = FALSE /\ dpc' = "done" /\ UNCHANGED <<di, dj>>
      BY <1>1, <1>4, <1>5, <2>2, <3>2 DEF D!Answer, D!TypeOK, D!TriesLeft
    <3> QED
      BY <2>2, <3>1, <3>2 DEF D!Answer
  <2> QED
    BY <1>6, <2>1, <2>2
<1>8. D!AddressBound'
  <2>1. CASE dpc' = "done"
    <3>1. D!IsAck(m) /\ ipucast' = m.from /\ slot' = FALSE
      BY <1>4, <1>6, <2>1 DEF D!Offer, D!Answer, D!NextRead
    <3> QED
      BY <1>1, <1>2, <1>5, <2>1, <3>1 DEF D!AddressBound, D!IsAck
  <2>2. CASE dpc' # "done"
    <3>1. ipucast' = ipucast /\ (dpc' = "failed" => di' = di)
      BY <1>4, <1>6, <2>2 DEF D!Offer, D!Answer, D!NextRead
    <3> QED
      BY <1>1, <1>4, <2>2, <3>1 DEF D!Inv, D!AddressBound, D!TypeOK, D!TriesLeft
  <2> QED
    BY <2>1, <2>2
<1> QED
  BY <1>3, <1>7, <1>8 DEF D!Inv

LEMMA DhcpKeeps ==
  ASSUME D!Inv, [D!Next]_(D!vars), DHCP_RETRY \in Nat, NONE \notin Servers
  PROVE  D!Inv'
<1>1. CASE D!Send
  <2>1. heard' \in [Servers -> [to : Servers \cup {NONE}, on : BOOLEAN]]
    BY <1>1, DhcpBroadcasts DEF D!Inv, D!TypeOK, D!Send
  <2> QED
    BY <1>1, <2>1 DEF D!Send, D!Inv, D!TypeOK, D!TriesLeft, D!AcksAreBound, D!AddressBound
<1>2. CASE D!GivesUp
  BY <1>2 DEF D!GivesUp, D!Inv, D!TypeOK, D!TriesLeft, D!AcksAreBound, D!AddressBound
<1>3. CASE D!Timeout
  BY <1>3 DEF D!Timeout, D!NextRead, D!Inv, D!TypeOK, D!TriesLeft, D!AcksAreBound, D!AddressBound
<1>4. CASE D!Receive
  BY <1>4, DhcpReceiveKeeps
<1>5. CASE \E s \in Servers : D!Server(s)
  BY <1>5, DhcpServerKeeps
<1>6. CASE UNCHANGED D!vars
  BY <1>6 DEF D!vars, D!Inv, D!TypeOK, D!TriesLeft, D!AcksAreBound, D!AddressBound
<1> QED
  BY <1>1, <1>2, <1>3, <1>4, <1>5, <1>6 DEF D!Next, D!Client

\* Whatever the servers say and however late it arrives, the address getlocalip
\* takes is one that its server has bound, and its UDP slot is released on
\* success and after the last try.
THEOREM AddressAlwaysBound == Spec => []AddressBound
<1>1. Init => D!Inv
  BY DEF Init, D!Init, D!Inv, D!TypeOK, D!TriesLeft, D!AcksAreBound, D!AddressBound, D!Nothing, D!Discover,
         D!Messages
<1>2. D!Inv /\ [Next]_vars => D!Inv'
  <2> SUFFICES ASSUME D!Inv, [Next]_vars PROVE D!Inv'
    OBVIOUS
  <2>1. [D!Next]_(D!vars)
    BY DEF Next, vars, dhcpvars, D!vars
  <2> QED BY <2>1, RemoteNumbers, DhcpKeeps
<1>3. D!Inv => AddressBound
  BY DEF D!Inv, AddressBound
<1> QED BY <1>1, <1>2, <1>3, PTL DEF Spec

-----------------------------------------------------------------------------
(* Semaphores.                                                             *)
\* Who waits (Waits) is who is in the queue.
LEMMA WaitsIff == \A s, p : Waits(s, p) <=> p \in Waiting(s)
BY DEF Waits, Waiting

\* semcreate: a count and nobody who waits.
LEMMA Created ==
  ASSUME NEW S, NEW n \in Nat
  PROVE  semcreate(n) \in SemaphoreOf(S) /\ Waiting(semcreate(n)) = {}
BY DEF semcreate, SemaphoreOf, Waiting

\* wait counts down, and queues the caller if the count was not positive.
LEMMA Waited ==
  ASSUME NEW S, NEW s \in SemaphoreOf(S), NEW p \in S, p \notin Waiting(s)
  PROVE  /\ wait(s, p) \in SemaphoreOf(S)
         /\ wait(s, p).count = s.count - 1
         /\ Blocks(s) => /\ Waiting(wait(s, p)) = Waiting(s) \cup {p}
                         /\ Len(wait(s, p).queue) = Len(s.queue) + 1
         /\ ~ Blocks(s) => wait(s, p).queue = s.queue /\ s.queue = <<>>
<1>1. /\ s.count \in Int /\ s.queue \in Seq(S)
      /\ \A j, k \in 1 .. Len(s.queue) : s.queue[j] = s.queue[k] => j = k
      /\ IF s.count < 0 THEN Len(s.queue) = - s.count ELSE s.queue = <<>>
  BY DEF SemaphoreOf
<1>2. wait(s, p).count = s.count - 1 /\ wait(s, p) \in [count : Int, queue : Seq(S)]
  BY <1>1 DEF wait
<1>3. CASE Blocks(s)
  <2> DEFINE q == Append(s.queue, p)
  <2>1. wait(s, p).queue = q /\ s.count - 1 < 0
    BY <1>1, <1>3 DEF wait, Blocks
  <2>2. /\ q \in Seq(S) /\ Len(q) = Len(s.queue) + 1 /\ DOMAIN q = 1 .. (Len(s.queue) + 1)
        /\ \A k \in 1 .. Len(s.queue) : q[k] = s.queue[k]
        /\ q[Len(s.queue) + 1] = p
    BY <1>1
  <2>3. \A k \in 1 .. Len(s.queue) : s.queue[k] # p
    BY <1>1 DEF Waiting
  <2> HIDE DEF q
  <2>4. \A j, k \in DOMAIN q : q[j] = q[k] => j = k
    BY <1>1, <2>2, <2>3, SMTT(30)
  <2>5. {q[k] : k \in DOMAIN q} = {s.queue[k] : k \in DOMAIN s.queue} \cup {p}
    <3>1. DOMAIN s.queue = 1 .. Len(s.queue) /\ Len(s.queue) \in Nat
      BY <1>1
    <3>2. \A k \in DOMAIN q : k \in DOMAIN s.queue \/ k = Len(s.queue) + 1
      BY <2>2, <3>1
    <3>3. Len(s.queue) + 1 \in DOMAIN q /\ \A k \in DOMAIN s.queue : k \in DOMAIN q
      BY <2>2, <3>1
    <3> QED BY <2>2, <3>1, <3>2, <3>3
  <2>6. Len(q) = - (s.count - 1)
    BY <1>1, <1>3, <2>2 DEF Blocks
  <2>7. wait(s, p) \in SemaphoreOf(S)
    BY <1>2, <2>1, <2>4, <2>6 DEF SemaphoreOf
  <2> QED BY <1>2, <1>3, <2>1, <2>2, <2>5, <2>7, SMTT(30) DEF Waiting
<1>4. CASE ~ Blocks(s)
  BY <1>1, <1>2, <1>4 DEF wait, Blocks, SemaphoreOf, Waiting
<1> QED BY <1>3, <1>4

\* signal counts up, and releases the first of those that wait.
LEMMA Signalled ==
  ASSUME NEW S, NEW s \in SemaphoreOf(S)
  PROVE  /\ signal(s) \in SemaphoreOf(S)
         /\ signal(s).count = s.count + 1
         /\ s.count < 0 => \E p \in S : /\ p \in Waiting(s) /\ Waiting(signal(s)) = Waiting(s) \ {p}
                                        /\ Len(signal(s).queue) = Len(s.queue) - 1
         /\ s.count >= 0 => signal(s).queue = s.queue /\ s.queue = <<>>
<1>1. /\ s.count \in Int /\ s.queue \in Seq(S)
      /\ \A j, k \in 1 .. Len(s.queue) : s.queue[j] = s.queue[k] => j = k
      /\ IF s.count < 0 THEN Len(s.queue) = - s.count ELSE s.queue = <<>>
  BY DEF SemaphoreOf
<1>2. CASE s.count < 0
  <2> DEFINE q == Tail(s.queue)
  <2>1. signal(s) = [count |-> s.count + 1, queue |-> q]
    BY <1>2 DEF signal
  <2>2. /\ q \in Seq(S) /\ Len(q) = Len(s.queue) - 1 /\ DOMAIN q = 1 .. (Len(s.queue) - 1)
        /\ \A k \in 1 .. (Len(s.queue) - 1) : q[k] = s.queue[k + 1]
        /\ Len(s.queue) \in Nat \ {0} /\ s.queue[1] \in S
    BY <1>1, <1>2
  <2> HIDE DEF q
  <2>3. \A j, k \in DOMAIN q : q[j] = q[k] => j = k
    BY <1>1, <2>2
  <2>4. {q[k] : k \in DOMAIN q} = {s.queue[k] : k \in DOMAIN s.queue} \ {s.queue[1]}
    <3>1. \A k \in 2 .. Len(s.queue) : k - 1 \in DOMAIN q /\ q[k - 1] = s.queue[k]
      BY <1>1, <2>2
    <3>2. \A k \in DOMAIN q : k + 1 \in 1 .. Len(s.queue) /\ q[k] = s.queue[k + 1] /\ q[k] # s.queue[1]
      BY <1>1, <2>2
    <3>3. \A k \in 1 .. Len(s.queue) : k = 1 \/ k \in 2 .. Len(s.queue)
      BY <2>2
    <3>4. DOMAIN s.queue = 1 .. Len(s.queue)
      BY <1>1
    <3> QED BY <3>1, <3>2, <3>3, <3>4
  <2>5. s.queue[1] \in Waiting(s) /\ Waiting(signal(s)) = Waiting(s) \ {s.queue[1]}
    <3>1. 1 \in DOMAIN s.queue
      BY <1>1, <2>2
    <3> QED BY <2>1, <2>4, <3>1 DEF Waiting
  <2>6. IF s.count + 1 < 0 THEN Len(q) = - (s.count + 1) ELSE q = <<>>
    BY <1>1, <1>2, <2>2
  <2>7. signal(s) \in SemaphoreOf(S)
    <3>1. /\ signal(s).count = s.count + 1 /\ signal(s).queue = q
          /\ signal(s) \in [count : Int, queue : Seq(S)]
      BY <1>1, <2>1, <2>2
    <3> QED BY <2>3, <2>6, <3>1 DEF SemaphoreOf
  <2> QED BY <1>1, <1>2, <2>1, <2>2, <2>5, <2>7, SMTT(30)
<1>3. CASE s.count >= 0
  BY <1>1, <1>3 DEF signal, SemaphoreOf, Waiting
<1> QED BY <1>1, <1>2, <1>3

-----------------------------------------------------------------------------
(* The remote disk.                                                        *)
\* The operators of Semaphore, and those that count, through the instance of Rds.
LEMMA RdsSemaphores ==
  /\ \A s, p : (R!Waits(s, p) <=> Waits(s, p)) /\ R!wait(s, p) = wait(s, p)
  /\ \A s : /\ R!signal(s) = signal(s) /\ (R!Blocks(s) <=> Blocks(s))
            /\ R!Waiting(s) = Waiting(s)
  /\ \A n : R!semcreate(n) = semcreate(n)
  /\ \A S : R!SemaphoreOf(S) = SemaphoreOf(S)
BY DEF R!Waits, Waits, R!Waiting, Waiting, R!wait, wait, R!signal, signal, R!Blocks, Blocks,
       R!semcreate, semcreate, R!SemaphoreOf, SemaphoreOf

LEMMA RdsCounts == \A X : R!Cardinality(X) = Cardinality(X)
BY DEF R!Cardinality, Cardinality, R!IsFiniteSet, IsFiniteSet

LEMMA RdsWaitsIff == \A s, p : R!Waits(s, p) <=> p \in R!Waiting(s)
BY WaitsIff, RdsSemaphores

LEMMA RdsCreated ==
  ASSUME NEW S, NEW n \in Nat
  PROVE  R!semcreate(n) \in R!SemaphoreOf(S) /\ R!Waiting(R!semcreate(n)) = {}
BY Created, RdsSemaphores

LEMMA RdsWaited ==
  ASSUME NEW S, NEW s \in R!SemaphoreOf(S), NEW p \in S, p \notin R!Waiting(s)
  PROVE  /\ R!wait(s, p) \in R!SemaphoreOf(S)
         /\ R!wait(s, p).count = s.count - 1
         /\ R!Blocks(s) => /\ R!Waiting(R!wait(s, p)) = R!Waiting(s) \cup {p}
                           /\ Len(R!wait(s, p).queue) = Len(s.queue) + 1
         /\ ~ R!Blocks(s) => R!wait(s, p).queue = s.queue /\ s.queue = <<>>
BY Waited, RdsSemaphores

LEMMA RdsSignalled ==
  ASSUME NEW S, NEW s \in R!SemaphoreOf(S)
  PROVE  /\ R!signal(s) \in R!SemaphoreOf(S)
         /\ R!signal(s).count = s.count + 1
         /\ s.count < 0 => \E p \in S : /\ p \in R!Waiting(s) /\ R!Waiting(R!signal(s)) = R!Waiting(s) \ {p}
                                        /\ Len(R!signal(s).queue) = Len(s.queue) - 1
         /\ s.count >= 0 => R!signal(s).queue = s.queue /\ s.queue = <<>>
BY Signalled, RdsSemaphores

(* Lists.                                                                  *)
LEMMA RdsTailOnce ==
  ASSUME NEW S, NEW s \in Seq(S), R!Once(s), s # <<>>
  PROVE  /\ Tail(s) \in Seq(S) /\ R!Once(Tail(s)) /\ Head(s) \in S
         /\ Len(s) \in Nat /\ Len(Tail(s)) \in Nat /\ Len(s) = Len(Tail(s)) + 1
         /\ R!On(s) = R!On(Tail(s)) \cup {Head(s)} /\ Head(s) \notin R!On(Tail(s))
<1> DEFINE t == Tail(s)
           n == Len(t)
<1>1. /\ t \in Seq(S) /\ n \in Nat /\ Len(s) = n + 1 /\ Head(s) = s[1] /\ s[1] \in S
      /\ \A k \in 1 .. n : t[k] = s[k + 1]
  OBVIOUS
<1>2. DOMAIN t = 1 .. n /\ DOMAIN s = 1 .. Len(s)
  BY <1>1
<1> HIDE DEF t, n
<1>3. /\ \A k \in 1 .. n : k + 1 \in DOMAIN s /\ k + 1 # 1
      /\ \A j, k \in 1 .. n : j + 1 = k + 1 => j = k
      /\ 1 \in DOMAIN s
      /\ \A k \in DOMAIN s : k = 1 \/ (k - 1 \in 1 .. n /\ k = (k - 1) + 1)
  BY <1>1, <1>2
<1>4. R!Once(t)
  <2>1. \A j, k \in 1 .. n : s[j + 1] = s[k + 1] => j + 1 = k + 1
    BY <1>3 DEF R!Once
  <2>2. ASSUME NEW j \in 1 .. n, NEW k \in 1 .. n, t[j] = t[k] PROVE j = k
    <3>1. s[j + 1] = s[k + 1]
      BY <1>1, <2>2
    <3> QED
      BY <1>3, <2>1, <3>1, Zenon
  <2> QED
    BY <1>2, <2>2 DEF R!Once
<1>5. s[1] \notin R!On(t)
  <2>1. \A k \in 1 .. n : s[k + 1] # s[1]
    BY <1>3 DEF R!Once
  <2> QED
    BY <1>1, <1>2, <2>1 DEF R!On
<1>6. R!On(s) = R!On(t) \cup {s[1]}
  <2>1. \A x \in R!On(s) : x = s[1] \/ x \in R!On(t)
    <3> SUFFICES ASSUME NEW k \in DOMAIN s PROVE s[k] = s[1] \/ s[k] \in R!On(t)
      BY DEF R!On
    <3>1. CASE k = 1
      BY <3>1
    <3>2. CASE k - 1 \in 1 .. n /\ k = (k - 1) + 1
      <4>1. t[k - 1] = s[k]
        BY <1>1, <3>2
      <4> QED
        BY <1>2, <3>2, <4>1 DEF R!On
    <3> QED
      BY <1>3, <3>1, <3>2
  <2>2. \A x \in R!On(t) : x \in R!On(s)
    BY <1>1, <1>2, <1>3 DEF R!On
  <2>3. s[1] \in R!On(s)
    BY <1>3 DEF R!On
  <2> QED
    BY <2>1, <2>2, <2>3
<1> QED
  BY <1>1, <1>4, <1>5, <1>6 DEF t, n

LEMMA RdsAppendOnce ==
  ASSUME NEW S, NEW s \in Seq(S), R!Once(s), NEW b \in S, b \notin R!On(s)
  PROVE  /\ Append(s, b) \in Seq(S) /\ R!Once(Append(s, b)) /\ R!On(Append(s, b)) = R!On(s) \cup {b}
         /\ Len(s) \in Nat /\ Len(Append(s, b)) = Len(s) + 1
<1> DEFINE t == Append(s, b)
           n == Len(s)
<1>1. /\ t \in Seq(S) /\ n \in Nat /\ Len(t) = n + 1 /\ \A k \in 1 .. n : t[k] = s[k]
  OBVIOUS
<1>2. t[n + 1] = b /\ DOMAIN t = 1 .. (n + 1) /\ DOMAIN s = 1 .. n
  OBVIOUS
<1> HIDE DEF t, n
<1>3. /\ \A k \in 1 .. (n + 1) : k \in 1 .. n \/ k = n + 1
      /\ \A k \in 1 .. n : k \in 1 .. (n + 1)
      /\ n + 1 \in 1 .. (n + 1)
  BY <1>1
<1>4. \A k \in 1 .. n : s[k] # b
  BY <1>2 DEF R!On
<1>5. R!Once(t)
  BY <1>1, <1>2, <1>3, <1>4 DEF R!Once
<1>6. R!On(t) = R!On(s) \cup {b}
  BY <1>1, <1>2, <1>3 DEF R!On
<1> QED
  BY <1>1, <1>5, <1>6 DEF t, n

LEMMA RdsConsOnce ==
  ASSUME NEW S, NEW s \in Seq(S), R!Once(s), NEW b \in S, b \notin R!On(s)
  PROVE  /\ <<b>> \o s \in Seq(S) /\ R!Once(<<b>> \o s) /\ R!On(<<b>> \o s) = R!On(s) \cup {b}
         /\ Len(s) \in Nat /\ Len(<<b>> \o s) = Len(s) + 1
<1> DEFINE t == <<b>> \o s
           n == Len(s)
<1>1. t \in Seq(S) /\ n \in Nat /\ Len(t) = n + 1
  OBVIOUS
<1>2. /\ \A k \in 1 .. n : t[k + 1] = s[k]
      /\ t[1] = b /\ DOMAIN t = 1 .. (n + 1) /\ DOMAIN s = 1 .. n
  OBVIOUS
<1> HIDE DEF t, n
<1>3. /\ \A k \in 1 .. (n + 1) : (k - 1 \in 1 .. n /\ k = (k - 1) + 1) \/ k = 1
      /\ \A k \in 1 .. n : k + 1 \in 1 .. (n + 1)
      /\ 1 \in 1 .. (n + 1)
  BY <1>1
<1>4. \A k \in 1 .. n : s[k] # b
  BY <1>2 DEF R!On
<1>5. ASSUME NEW k \in 1 .. (n + 1)
      PROVE  (k = 1 /\ t[k] = b) \/ (k - 1 \in 1 .. n /\ t[k] = s[k - 1])
  <2>1. CASE k = 1
    BY <1>2, <2>1
  <2>2. CASE k - 1 \in 1 .. n /\ k = (k - 1) + 1
    <3>1. t[(k - 1) + 1] = s[k - 1]
      BY <1>2, <2>2
    <3> QED
      BY <2>2, <3>1
  <2> QED
    BY <1>3, <2>1, <2>2
<1>6. R!Once(t)
  <2> SUFFICES ASSUME NEW j \in 1 .. (n + 1), NEW k \in 1 .. (n + 1), t[j] = t[k]
               PROVE  j = k
    BY <1>2 DEF R!Once
  <2>1. CASE j = 1 /\ t[j] = b
    BY <1>4, <1>5, <2>1
  <2>2. CASE k = 1 /\ t[k] = b
    BY <1>4, <1>5, <2>2
  <2>3. CASE j - 1 \in 1 .. n /\ t[j] = s[j - 1] /\ k - 1 \in 1 .. n /\ t[k] = s[k - 1]
    <3>1. j - 1 = k - 1
      BY <1>2, <2>3 DEF R!Once
    <3> QED
      BY <3>1, <1>1
  <2> QED
    BY <1>5, <2>1, <2>2, <2>3
<1>7. R!On(t) = R!On(s) \cup {b}
  <2>1. \A x \in R!On(t) : x \in R!On(s) \cup {b}
    BY <1>2, <1>5 DEF R!On
  <2>2. \A x \in R!On(s) : x \in R!On(t)
    BY <1>2, <1>3 DEF R!On
  <2>3. b \in R!On(t)
    BY <1>2, <1>3 DEF R!On
  <2> QED
    BY <2>1, <2>2, <2>3
<1> QED
  BY <1>1, <1>6, <1>7 DEF t, n

\* A set of positions has a first and a last one.
LEMMA RdsMinIsFirst ==
  ASSUME NEW X, X \subseteq Nat, X # {}
  PROVE  R!Min(X) \in X /\ \A y \in X : R!Min(X) <= y
<1>1. PICK x \in X : \A y \in X : ~ (<<y, x>> \in OpToRel(<, Nat))
  BY NatLessThanWellFounded, WFMin
<1>2. \A y \in X : ~ (y < x)
  BY <1>1, Zenon DEF OpToRel
<1>3. \A y \in X : x <= y
  BY <1>2
<1> QED BY <1>3 DEF R!Min

LEMMA RdsMaxIsLast ==
  ASSUME NEW n \in Nat, NEW X, X \subseteq 1 .. n, X # {}
  PROVE  R!Max(X) \in X /\ \A y \in X : y <= R!Max(X)
<1> DEFINE Y == {n - y : y \in X}
<1>1. Y \subseteq Nat /\ Y # {}
  <2>1. \A y \in X : n - y \in Nat
    OBVIOUS
  <2> QED BY <2>1
<1>2. R!Min(Y) \in Y /\ \A z \in Y : R!Min(Y) <= z
  BY <1>1, RdsMinIsFirst
<1> HIDE DEF Y
<1>3. PICK x \in X : R!Min(Y) = n - x
  BY <1>2 DEF Y
<1>4. \A y \in X : n - y \in Y
  BY DEF Y
<1>5. \A y \in X : y <= x
  BY <1>2, <1>3, <1>4
<1> QED BY <1>5 DEF R!Max

\* SelectInSeq and SelectLastInSeq with the conditions of this module.
LEMMA RdsFirstWithIs ==
  ASSUME NEW S, NEW s \in Seq(S), NEW blk, R!FirstWith(s, blk) # 0
  PROVE  R!FirstWith(s, blk) \in 1 .. Len(s) /\ buf[s[R!FirstWith(s, blk)]].blk = blk
<1> DEFINE I == {k \in 1 .. Len(s) : buf[s[k]].blk = blk}
<1>1. R!FirstWith(s, blk) = IF I # {} THEN R!Min(I) ELSE 0
  BY DEF R!FirstWith, R!SelectInSeq
<1>2. I # {} /\ I \subseteq Nat
  BY <1>1
<1>3. R!Min(I) \in I
  BY <1>2, RdsMinIsFirst
<1> QED
  BY <1>1, <1>2, <1>3

LEMMA RdsLastWithIs ==
  ASSUME NEW S, NEW s \in Seq(S), NEW blk, R!LastWith(s, blk) # 0
  PROVE  R!LastWith(s, blk) \in 1 .. Len(s) /\ buf[s[R!LastWith(s, blk)]].blk = blk
<1> DEFINE I == {k \in 1 .. Len(s) : buf[s[k]].blk = blk}
<1>1. R!LastWith(s, blk) = IF I # {} THEN R!Max(I) ELSE 0
  BY DEF R!LastWith, R!SelectLastInSeq
<1>2. I # {} /\ I \subseteq 1 .. Len(s) /\ Len(s) \in Nat
  BY <1>1
<1>3. R!Max(I) \in I
  BY <1>2, RdsMaxIsLast
<1> QED
  BY <1>1, <1>2, <1>3

LEMMA RdsQueuedWriteIs ==
  ASSUME NEW S, req \in Seq(S), NEW blk
  PROVE  IF R!QueuedWrite(blk) = 0 THEN \A k \in 1 .. Len(req) : ~ R!Queued(k, blk)
         ELSE R!QueuedWrite(blk) \in 1 .. Len(req) /\ R!Queued(R!QueuedWrite(blk), blk)
<1> DEFINE I == {k \in 1 .. Len(req) : buf[req[k]].blk = blk /\ buf[req[k]].op = "write"}
<1>1. R!QueuedWrite(blk) = IF I # {} THEN R!Min(I) ELSE 0
  BY DEF R!QueuedWrite, R!SelectInSeq
<1>2. I \subseteq Nat /\ I \subseteq 1 .. Len(req) /\ 0 \notin 1 .. Len(req)
  OBVIOUS
<1>3. \A k \in 1 .. Len(req) : k \in I <=> R!Queued(k, blk)
  BY DEF R!Queued
<1> HIDE DEF I
<1>4. CASE I = {}
  BY <1>1, <1>3, <1>4
<1>5. CASE I # {}
  <2>1. R!Min(I) \in I
    BY <1>2, <1>5, RdsMinIsFirst
  <2> QED
    BY <1>1, <1>2, <1>3, <1>5, <2>1
<1> QED
  BY <1>4, <1>5

LEMMA RdsLastQueuedWriteIs ==
  ASSUME NEW S, req \in Seq(S), NEW blk, NEW k \in 1 .. Len(req), R!Queued(k, blk)
  PROVE  /\ R!LastQueuedWrite(blk) \in 1 .. Len(req) /\ R!Queued(R!LastQueuedWrite(blk), blk)
         /\ k <= R!LastQueuedWrite(blk)
<1> DEFINE I == {j \in 1 .. Len(req) : buf[req[j]].blk = blk /\ buf[req[j]].op = "write"}
<1>1. R!LastQueuedWrite(blk) = IF I # {} THEN R!Max(I) ELSE 0
  BY DEF R!LastQueuedWrite, R!SelectLastInSeq
<1>2. I \subseteq 1 .. Len(req) /\ Len(req) \in Nat /\ k \in I
  BY DEF R!Queued
<1>3. \A j \in I : R!Queued(j, blk)
  BY DEF R!Queued
<1> HIDE DEF I
<1>4. R!Max(I) \in I /\ \A y \in I : y <= R!Max(I)
  BY <1>2, RdsMaxIsLast
<1> QED
  BY <1>1, <1>2, <1>3, <1>4

LEMMA RdsOldestIs ==
  ASSUME NEW S, cache \in Seq(S), R!Oldest # 0
  PROVE  R!Oldest \in 1 .. Len(cache)
<1> DEFINE I == {k \in 1 .. Len(cache) : buf[cache[k]].ref <= 0}
<1>1. R!Oldest = IF I # {} THEN R!Max(I) ELSE 0
  BY DEF R!Oldest, R!SelectLastInSeq
<1>2. I # {} /\ I \subseteq 1 .. Len(cache) /\ Len(cache) \in Nat
  BY <1>1
<1>3. R!Max(I) \in I
  BY <1>2, RdsMaxIsLast
<1> QED
  BY <1>1, <1>2, <1>3

LEMMA RdsPositionIs ==
  ASSUME NEW S, NEW s \in Seq(S), NEW b
  PROVE  LET k == R!SelectInSeq(s, LAMBDA c : c = b)
         IN  IF k = 0 THEN b \notin R!On(s) ELSE k \in 1 .. Len(s) /\ s[k] = b
<1> DEFINE I == {k \in 1 .. Len(s) : s[k] = b}
           k == R!SelectInSeq(s, LAMBDA c : c = b)
<1>1. k = IF I # {} THEN R!Min(I) ELSE 0
  BY DEF R!SelectInSeq
<1>2. I \subseteq Nat /\ I \subseteq 1 .. Len(s) /\ 0 \notin 1 .. Len(s) /\ \A j \in I : s[j] = b
  OBVIOUS
<1>3. I = {} => b \notin R!On(s)
  BY DEF R!On
<1> HIDE DEF I, k
<1>4. CASE I # {}
  <2>1. R!Min(I) \in I
    BY <1>2, <1>4, RdsMinIsFirst
  <2>2. k \in 1 .. Len(s) /\ s[k] = b /\ k # 0
    BY <1>1, <1>2, <1>4, <2>1
  <2> QED
    BY <2>2 DEF k
<1>5. CASE I = {}
  BY <1>1, <1>3, <1>5 DEF k
<1> QED
  BY <1>4, <1>5

\* A buffer is taken out of a list.
LEMMA RdsWithoutOnce ==
  ASSUME NEW S, NEW s \in Seq(S), R!Once(s), NEW b, b \in R!On(s)
  PROVE  /\ R!Without(s, b) \in Seq(S) /\ R!Once(R!Without(s, b)) /\ R!On(R!Without(s, b)) = R!On(s) \ {b}
         /\ Len(R!Without(s, b)) \in Nat /\ Len(s) = Len(R!Without(s, b)) + 1
<1> DEFINE i == R!SelectInSeq(s, LAMBDA v : v = b)
           n == Len(s)
           t == R!Without(s, b)
<1>1. i \in 1 .. n /\ s[i] = b
  BY RdsPositionIs
<1>2. t = R!RemoveAt(s, i)
  BY DEF R!Without, R!RemoveFirst, R!On
<1>3. n \in Nat /\ DOMAIN s = 1 .. n
  OBVIOUS
<1> HIDE DEF i
<1> DEFINE u == SubSeq(s, 1, i - 1)
           v == SubSeq(s, i + 1, n)
<1>4. u \in Seq(S) /\ Len(u) = i - 1 /\ \A k \in 1 .. (i - 1) : u[k] = s[k]
  BY <1>1, <1>3
<1>5. v \in Seq(S) /\ Len(v) = n - i /\ \A k \in 1 .. (n - i) : v[k] = s[i + k]
  <2>1. n \in Int /\ i \in Int /\ i + 1 >= 1 /\ i <= n
    BY <1>1, <1>3
  <2>2. v \in Seq(S)
    BY <2>1
  <2>3. Len(v) = n - i
    BY <2>1
  <2>4. \A k \in 1 .. (n - i) : v[k] = s[i + k]
    BY <2>1
  <2> QED
    BY <2>2, <2>3, <2>4
<1>6. t = u \o v
  BY <1>2 DEF R!RemoveAt
<1> HIDE DEF u, v, t
<1>7. t \in Seq(S) /\ Len(t) = n - 1 /\ DOMAIN t = 1 .. (n - 1)
  <2>1. u \in Seq(S) /\ v \in Seq(S)
    BY <1>4, <1>5
  <2>2. u \o v \in Seq(S) /\ Len(u \o v) = Len(u) + Len(v)
    BY ONLY <2>1
  <2>3. t \in Seq(S) /\ Len(t) = Len(u) + Len(v)
    BY <1>6, <2>2
  <2>4. Len(t) = n - 1
    BY <1>1, <1>3, <1>4, <1>5, <2>3
  <2> QED
    BY <2>3, <2>4
<1>8. \A k \in 1 .. (n - 1) : t[k] = IF k < i THEN s[k] ELSE s[k + 1]
  <2> SUFFICES ASSUME NEW k \in 1 .. (n - 1)
               PROVE  t[k] = IF k < i THEN s[k] ELSE s[k + 1]
    OBVIOUS
  <2>1. CASE k < i
    <3>1. k \in 1 .. (i - 1) /\ t[k] = u[k]
      BY <1>1, <1>3, <1>4, <1>5, <1>6, <2>1
    <3> QED
      BY <1>4, <2>1, <3>1
  <2>2. CASE ~ (k < i)
    <3>1. k - (i - 1) \in 1 .. (n - i) /\ i + (k - (i - 1)) = k + 1
      BY <1>1, <1>3, <2>2
    <3>2. t[k] = v[k - (i - 1)]
      BY <1>1, <1>3, <1>4, <1>5, <1>6, <2>2
    <3> QED
      BY <1>5, <2>2, <3>1, <3>2
  <2> QED
    BY <2>1, <2>2
<1> HIDE DEF n
<1>9. \A k \in 1 .. (n - 1) : /\ k \in 1 .. n /\ k + 1 \in 1 .. n
                              /\ (IF k < i THEN k ELSE k + 1) \in 1 .. n
                              /\ (IF k < i THEN k ELSE k + 1) # i
                              /\ t[k] = s[IF k < i THEN k ELSE k + 1]
  BY <1>1, <1>3, <1>8
<1>10. R!Once(t)
  <2> SUFFICES ASSUME NEW j \in 1 .. (n - 1), NEW k \in 1 .. (n - 1), t[j] = t[k]
               PROVE  j = k
    BY <1>7 DEF R!Once
  <2>1. (IF j < i THEN j ELSE j + 1) = (IF k < i THEN k ELSE k + 1)
    BY <1>3, <1>9 DEF R!Once
  <2> QED
    BY <1>1, <1>3, <2>1
<1>11. R!On(t) \subseteq R!On(s) \ {b}
  <2> SUFFICES ASSUME NEW k \in 1 .. (n - 1)
               PROVE  t[k] \in R!On(s) /\ t[k] # b
    BY <1>7 DEF R!On
  <2> QED
    BY <1>1, <1>3, <1>9 DEF R!On, R!Once
<1>12. R!On(s) \ {b} \subseteq R!On(t)
  <2> SUFFICES ASSUME NEW k \in 1 .. n, k # i
               PROVE  s[k] \in R!On(t)
    BY <1>1, <1>3 DEF R!On
  <2>1. CASE k < i
    BY <1>1, <1>3, <1>7, <1>8, <2>1 DEF R!On
  <2>2. CASE k > i
    <3>1. k - 1 \in 1 .. (n - 1) /\ ~ (k - 1 < i) /\ (k - 1) + 1 = k
      BY <1>1, <1>3, <2>2
    <3>2. t[k - 1] = s[k]
      BY <1>8, <3>1
    <3> QED
      BY <1>7, <3>1, <3>2 DEF R!On
  <2> QED
    BY <1>1, <1>3, <2>1, <2>2
<1>13. n - 1 \in Nat /\ n = (n - 1) + 1
  BY <1>1, <1>3
<1> QED
  BY <1>7, <1>10, <1>11, <1>12, <1>13 DEF t, n

\* One list is put, reversed, before another.
LEMMA RdsReverseOnto ==
  ASSUME NEW S, NEW s \in Seq(S), NEW t \in Seq(S), R!Once(s), R!Once(t), R!On(s) \cap R!On(t) = {}
  PROVE  /\ R!Reverse(s) \o t \in Seq(S) /\ R!Once(R!Reverse(s) \o t) /\ R!On(R!Reverse(s) \o t) = R!On(s) \cup R!On(t)
         /\ Len(R!Reverse(s) \o t) = Len(s) + Len(t)
<1> DEFINE n == Len(s)
           m == Len(t)
           r == R!Reverse(s)
           w == r \o t
<1>1. n \in Nat /\ m \in Nat /\ DOMAIN s = 1 .. n /\ DOMAIN t = 1 .. m
  OBVIOUS
<1>2. \A k \in 1 .. n : (n - k) + 1 \in 1 .. n
  BY <1>1
<1>3. r = [k \in 1 .. n |-> s[(n - k) + 1]] /\ r \in Seq(S) /\ Len(r) = n
  BY <1>1, <1>2 DEF R!Reverse
<1>4. \A k \in 1 .. n : r[k] = s[(n - k) + 1]
  BY <1>3
<1> HIDE DEF r
<1>5. w \in Seq(S) /\ Len(w) = n + m /\ DOMAIN w = 1 .. (n + m)
  BY <1>1, <1>3
<1>6. /\ \A k \in 1 .. n : w[k] = r[k]
      /\ \A k \in 1 .. m : w[n + k] = t[k]
  BY <1>1, <1>3
<1> HIDE DEF n, m, w
<1>7. \A k \in 1 .. (n + m) : k \in 1 .. n \/ (k - n \in 1 .. m /\ n + (k - n) = k)
  BY <1>1
<1>8. /\ \A k \in 1 .. n : w[k] = s[(n - k) + 1] /\ w[k] \in R!On(s)
      /\ \A k \in 1 .. m : w[n + k] \in R!On(t)
  BY <1>1, <1>2, <1>4, <1>6 DEF R!On
<1>9. R!Once(w)
  <2> SUFFICES ASSUME NEW j \in 1 .. (n + m), NEW k \in 1 .. (n + m), w[j] = w[k]
               PROVE  j = k
    BY <1>5 DEF R!Once
  <2>1. CASE j \in 1 .. n /\ k \in 1 .. n
    <3>1. (n - j) + 1 = (n - k) + 1
      <4>1. s[(n - j) + 1] = s[(n - k) + 1]
        BY <1>8, <2>1
      <4>2. (n - j) + 1 \in DOMAIN s /\ (n - k) + 1 \in DOMAIN s
        BY <1>1, <1>2, <2>1
      <4> QED
        BY <4>1, <4>2, Zenon DEF R!Once
    <3> QED
      BY <1>1, <2>1, <3>1
  <2>2. CASE j - n \in 1 .. m /\ n + (j - n) = j /\ k - n \in 1 .. m /\ n + (k - n) = k
    <3>1. t[j - n] = t[k - n]
      BY <1>6, <2>2
    <3>2. j - n = k - n
      BY <1>1, <2>2, <3>1 DEF R!Once
    <3> QED
      BY <2>2, <3>2
  <2>3. CASE j \in 1 .. n /\ k - n \in 1 .. m /\ n + (k - n) = k
    BY <1>8, <2>3
  <2>4. CASE k \in 1 .. n /\ j - n \in 1 .. m /\ n + (j - n) = j
    BY <1>8, <2>4
  <2> QED
    BY <1>7, <2>1, <2>2, <2>3, <2>4
<1>10. R!On(w) \subseteq R!On(s) \cup R!On(t)
  <2> SUFFICES ASSUME NEW k \in 1 .. (n + m) PROVE w[k] \in R!On(s) \cup R!On(t)
    BY <1>5 DEF R!On
  <2>1. CASE k - n \in 1 .. m /\ n + (k - n) = k
    BY <1>8, <2>1
  <2> QED
    BY <1>7, <1>8, <2>1
<1>11. R!On(s) \subseteq R!On(w)
  <2> SUFFICES ASSUME NEW k \in 1 .. n PROVE s[k] \in R!On(w)
    BY <1>1 DEF R!On
  <2>1. (n - k) + 1 \in 1 .. n /\ (n - ((n - k) + 1)) + 1 = k /\ (n - k) + 1 \in 1 .. (n + m)
    BY <1>1
  <2>2. w[(n - k) + 1] = s[k]
    BY <1>8, <2>1
  <2> QED
    BY <1>5, <2>1, <2>2 DEF R!On
<1>12. R!On(t) \subseteq R!On(w)
  <2> SUFFICES ASSUME NEW k \in 1 .. m PROVE t[k] \in R!On(w)
    BY <1>1 DEF R!On
  <2>1. n + k \in 1 .. (n + m)
    BY <1>1
  <2> QED
    BY <1>5, <1>6, <2>1 DEF R!On
<1> QED
  BY <1>5, <1>9, <1>10, <1>11, <1>12 DEF w, n, m, r

\* The six ways in which a buffer changes its list.
LEMMA RdsFreeToReq ==
  ASSUME NEW f, NEW r, NEW c, R!Partition(f, r, c), f # <<>>
  PROVE  /\ R!Partition(Tail(f), Append(r, Head(f)), c) /\ Head(f) \in R!Bufs /\ Head(f) \notin R!On(r)
         /\ Len(f) + Len(c) = Len(Tail(f)) + Len(c) + 1
<1>1. /\ Tail(f) \in Seq(R!Bufs) /\ R!Once(Tail(f)) /\ Head(f) \in R!Bufs
      /\ Len(f) \in Nat /\ Len(Tail(f)) \in Nat /\ Len(f) = Len(Tail(f)) + 1
      /\ R!On(f) = R!On(Tail(f)) \cup {Head(f)} /\ Head(f) \notin R!On(Tail(f))
  BY RdsTailOnce DEF R!Partition
<1>2. Head(f) \notin R!On(r)
  BY <1>1 DEF R!Partition
<1>3. /\ Append(r, Head(f)) \in Seq(R!Bufs) /\ R!Once(Append(r, Head(f)))
      /\ R!On(Append(r, Head(f))) = R!On(r) \cup {Head(f)}
      /\ Len(r) \in Nat /\ Len(Append(r, Head(f))) = Len(r) + 1
  BY <1>1, <1>2, RdsAppendOnce DEF R!Partition
<1>4. Len(c) \in Nat /\ c \in Seq(R!Bufs) /\ R!Once(c)
  BY DEF R!Partition
<1>5. Len(Tail(f)) + Len(Append(r, Head(f))) + Len(c) = RD_BUFFS
  BY <1>1, <1>3, <1>4 DEF R!Partition
<1> QED
  BY <1>1, <1>2, <1>3, <1>4, <1>5 DEF R!Partition

LEMMA RdsCacheToReq ==
  ASSUME NEW f, NEW r, NEW c, R!Partition(f, r, c), NEW b \in R!On(c)
  PROVE  /\ R!Partition(f, Append(r, b), R!Without(c, b)) /\ b \in R!Bufs /\ b \notin R!On(r)
         /\ Len(f) + Len(c) = Len(f) + Len(R!Without(c, b)) + 1
<1>1. /\ R!Without(c, b) \in Seq(R!Bufs) /\ R!Once(R!Without(c, b)) /\ R!On(R!Without(c, b)) = R!On(c) \ {b}
      /\ Len(R!Without(c, b)) \in Nat /\ Len(c) = Len(R!Without(c, b)) + 1
  BY RdsWithoutOnce DEF R!Partition
<1>2. b \notin R!On(r) /\ b \in R!Bufs
  BY <1>1 DEF R!Partition
<1>3. /\ Append(r, b) \in Seq(R!Bufs) /\ R!Once(Append(r, b)) /\ R!On(Append(r, b)) = R!On(r) \cup {b}
      /\ Len(r) \in Nat /\ Len(Append(r, b)) = Len(r) + 1
  BY <1>2, RdsAppendOnce DEF R!Partition
<1>4. Len(f) \in Nat /\ f \in Seq(R!Bufs) /\ R!Once(f)
  BY DEF R!Partition
<1>5. Len(f) + Len(Append(r, b)) + Len(R!Without(c, b)) = RD_BUFFS
  BY <1>1, <1>3, <1>4 DEF R!Partition
<1> QED
  BY <1>1, <1>2, <1>3, <1>4, <1>5 DEF R!Partition

LEMMA RdsReqToCache ==
  ASSUME NEW f, NEW r, NEW c, R!Partition(f, r, c), r # <<>>
  PROVE  /\ R!Partition(f, Tail(r), <<Head(r)>> \o c) /\ Head(r) \in R!Bufs
         /\ Head(r) \notin R!On(Tail(r)) /\ Head(r) \in R!On(r)
         /\ Len(f) + Len(<<Head(r)>> \o c) = Len(f) + Len(c) + 1
         /\ Len(r) = Len(Tail(r)) + 1 /\ Len(Tail(r)) \in Nat
<1>1. /\ Tail(r) \in Seq(R!Bufs) /\ R!Once(Tail(r)) /\ Head(r) \in R!Bufs
      /\ Len(r) \in Nat /\ Len(Tail(r)) \in Nat /\ Len(r) = Len(Tail(r)) + 1
      /\ R!On(r) = R!On(Tail(r)) \cup {Head(r)} /\ Head(r) \notin R!On(Tail(r))
  BY RdsTailOnce DEF R!Partition
<1>2. Head(r) \notin R!On(c)
  BY <1>1 DEF R!Partition
<1>3. /\ <<Head(r)>> \o c \in Seq(R!Bufs) /\ R!Once(<<Head(r)>> \o c)
      /\ R!On(<<Head(r)>> \o c) = R!On(c) \cup {Head(r)}
      /\ Len(c) \in Nat /\ Len(<<Head(r)>> \o c) = Len(c) + 1
  BY <1>1, <1>2, RdsConsOnce DEF R!Partition
<1>4. Len(f) \in Nat /\ f \in Seq(R!Bufs) /\ R!Once(f)
  BY DEF R!Partition
<1>5. Len(f) + Len(Tail(r)) + Len(<<Head(r)>> \o c) = RD_BUFFS
  BY <1>1, <1>3, <1>4 DEF R!Partition
<1> QED
  BY <1>1, <1>2, <1>3, <1>4, <1>5 DEF R!Partition

LEMMA RdsReqToFree ==
  ASSUME NEW f, NEW r, NEW c, R!Partition(f, r, c), r # <<>>
  PROVE  /\ R!Partition(<<Head(r)>> \o f, Tail(r), c) /\ Head(r) \in R!Bufs
         /\ Head(r) \notin R!On(Tail(r)) /\ Head(r) \in R!On(r)
         /\ Len(<<Head(r)>> \o f) + Len(c) = Len(f) + Len(c) + 1
         /\ Len(r) = Len(Tail(r)) + 1 /\ Len(Tail(r)) \in Nat
<1>1. /\ Tail(r) \in Seq(R!Bufs) /\ R!Once(Tail(r)) /\ Head(r) \in R!Bufs
      /\ Len(r) \in Nat /\ Len(Tail(r)) \in Nat /\ Len(r) = Len(Tail(r)) + 1
      /\ R!On(r) = R!On(Tail(r)) \cup {Head(r)} /\ Head(r) \notin R!On(Tail(r))
  BY RdsTailOnce DEF R!Partition
<1>2. Head(r) \notin R!On(f)
  BY <1>1 DEF R!Partition
<1>3. /\ <<Head(r)>> \o f \in Seq(R!Bufs) /\ R!Once(<<Head(r)>> \o f)
      /\ R!On(<<Head(r)>> \o f) = R!On(f) \cup {Head(r)}
      /\ Len(f) \in Nat /\ Len(<<Head(r)>> \o f) = Len(f) + 1
  BY <1>1, <1>2, RdsConsOnce DEF R!Partition
<1>4. Len(c) \in Nat /\ c \in Seq(R!Bufs) /\ R!Once(c)
  BY DEF R!Partition
<1>5. Len(<<Head(r)>> \o f) + Len(Tail(r)) + Len(c) = RD_BUFFS
  BY <1>1, <1>3, <1>4 DEF R!Partition
<1> QED
  BY <1>1, <1>2, <1>3, <1>4, <1>5 DEF R!Partition

LEMMA RdsCacheToFree ==
  ASSUME NEW f, NEW r, NEW c, R!Partition(f, r, c), NEW b \in R!On(c)
  PROVE  /\ R!Partition(<<b>> \o f, r, R!Without(c, b))
         /\ Len(<<b>> \o f) + Len(R!Without(c, b)) = Len(f) + Len(c)
<1>1. /\ R!Without(c, b) \in Seq(R!Bufs) /\ R!Once(R!Without(c, b)) /\ R!On(R!Without(c, b)) = R!On(c) \ {b}
      /\ Len(R!Without(c, b)) \in Nat /\ Len(c) = Len(R!Without(c, b)) + 1
  BY RdsWithoutOnce DEF R!Partition
<1>2. b \notin R!On(f) /\ b \in R!Bufs
  BY <1>1 DEF R!Partition
<1>3. /\ <<b>> \o f \in Seq(R!Bufs) /\ R!Once(<<b>> \o f) /\ R!On(<<b>> \o f) = R!On(f) \cup {b}
      /\ Len(f) \in Nat /\ Len(<<b>> \o f) = Len(f) + 1
  BY <1>2, RdsConsOnce DEF R!Partition
<1>4. Len(r) \in Nat /\ r \in Seq(R!Bufs) /\ R!Once(r)
  BY DEF R!Partition
<1>5. Len(<<b>> \o f) + Len(r) + Len(R!Without(c, b)) = RD_BUFFS
  BY <1>1, <1>3, <1>4 DEF R!Partition
<1>6. /\ R!On(<<b>> \o f) \cap R!On(r) = {} /\ R!On(<<b>> \o f) \cap R!On(R!Without(c, b)) = {}
      /\ R!On(r) \cap R!On(R!Without(c, b)) = {}
      /\ R!Bufs = R!On(<<b>> \o f) \cup R!On(r) \cup R!On(R!Without(c, b))
  <2> DEFINE F0 == R!On(f)
             R0 == R!On(r)
             C0 == R!On(c)
  <2>1. F0 \cap R0 = {} /\ F0 \cap C0 = {} /\ R0 \cap C0 = {} /\ R!Bufs = F0 \cup R0 \cup C0 /\ b \in C0
    BY DEF R!Partition
  <2>2. R!On(<<b>> \o f) = F0 \cup {b} /\ R!On(R!Without(c, b)) = C0 \ {b}
    BY <1>1, <1>3
  <2> HIDE DEF F0, R0, C0
  <2>3. /\ (F0 \cup {b}) \cap R0 = {} /\ (F0 \cup {b}) \cap (C0 \ {b}) = {} /\ R0 \cap (C0 \ {b}) = {}
        /\ R!Bufs = (F0 \cup {b}) \cup R0 \cup (C0 \ {b})
    BY <2>1
  <2> QED
    BY <2>2, <2>3 DEF R0
<1>7. R!Partition(<<b>> \o f, r, R!Without(c, b))
  BY <1>1, <1>3, <1>4, <1>5, <1>6, Zenon DEF R!Partition
<1>8. Len(<<b>> \o f) + Len(R!Without(c, b)) = Len(f) + Len(c)
  BY <1>1, <1>3
<1> QED
  BY <1>7, <1>8

LEMMA RdsAllToFree ==
  ASSUME NEW f, NEW c, R!Partition(f, <<>>, c)
  PROVE  R!Partition(R!Reverse(c) \o f, <<>>, <<>>) /\ Len(R!Reverse(c) \o f) + Len(<<>>) = Len(f) + Len(c)
<1>1. /\ R!Reverse(c) \o f \in Seq(R!Bufs) /\ R!Once(R!Reverse(c) \o f)
      /\ R!On(R!Reverse(c) \o f) = R!On(c) \cup R!On(f) /\ Len(R!Reverse(c) \o f) = Len(c) + Len(f)
  BY RdsReverseOnto DEF R!Partition
<1>2. R!On(<<>>) = {} /\ R!Once(<<>>) /\ <<>> \in Seq(R!Bufs) /\ Len(<<>>) = 0
  BY DEF R!On, R!Once
<1>3. Len(f) \in Nat /\ Len(c) \in Nat
  BY DEF R!Partition
<1>4. Len(R!Reverse(c) \o f) + Len(<<>>) + Len(<<>>) = RD_BUFFS
  BY <1>1, <1>2, <1>3 DEF R!Partition
<1>5. Len(R!Reverse(c) \o f) + Len(<<>>) = Len(f) + Len(c)
  BY <1>1, <1>2, <1>3
<1> QED
  BY <1>1, <1>2, <1>4, <1>5 DEF R!Partition

\* The requests after one more has been queued, and after the first has been taken.
LEMMA RdsOneMore ==
  ASSUME NEW r \in Seq(R!Bufs), NEW b \in R!Bufs, b \notin R!On(r)
  PROVE  /\ Append(r, b) \in Seq(R!Bufs) /\ Len(r) \in Nat /\ Len(Append(r, b)) = Len(r) + 1
         /\ DOMAIN Append(r, b) = 1 .. (Len(r) + 1)
         /\ \A k \in 1 .. Len(r) : Append(r, b)[k] = r[k] /\ r[k] # b /\ r[k] \in R!Bufs
         /\ Append(r, b)[Len(r) + 1] = b
<1>1. Append(r, b) \in Seq(R!Bufs) /\ Len(r) \in Nat /\ Len(Append(r, b)) = Len(r) + 1
      /\ DOMAIN Append(r, b) = 1 .. (Len(r) + 1)
  OBVIOUS
<1>2. \A k \in 1 .. Len(r) : Append(r, b)[k] = r[k] /\ r[k] # b /\ r[k] \in R!Bufs
  BY DEF R!On
<1>3. Append(r, b)[Len(r) + 1] = b
  OBVIOUS
<1> QED
  BY <1>1, <1>2, <1>3

LEMMA RdsOneLess ==
  ASSUME NEW r \in Seq(R!Bufs), r # <<>>
  PROVE  /\ Tail(r) \in Seq(R!Bufs) /\ Len(Tail(r)) \in Nat /\ Len(r) = Len(Tail(r)) + 1
         /\ \A k \in 1 .. Len(Tail(r)) : /\ Tail(r)[k] = r[k + 1] /\ k + 1 \in 1 .. Len(r)
                                         /\ Tail(r)[k] \in R!Bufs
         /\ Head(r) = r[1] /\ 1 \in 1 .. Len(r) /\ Head(r) \in R!Bufs
<1>1. Tail(r) \in Seq(R!Bufs) /\ Len(Tail(r)) \in Nat /\ Len(r) = Len(Tail(r)) + 1
  OBVIOUS
<1>2. \A k \in 1 .. Len(Tail(r)) : Tail(r)[k] = r[k + 1] /\ Tail(r)[k] \in R!Bufs
  OBVIOUS
<1>3. \A k \in 1 .. Len(Tail(r)) : k + 1 \in 1 .. Len(r)
  BY <1>1
<1>4. Head(r) = r[1] /\ 1 \in 1 .. Len(r) /\ Head(r) \in R!Bufs
  OBVIOUS
<1> QED
  BY <1>1, <1>2, <1>3, <1>4

-----------------------------------------------------------------------------
(* Requests.                                                               *)
\* All of the invariant that a request changes without regard to rd_availsem.
RdsMost == R!TypeOK /\ R!ListsOk /\ R!QueueOk /\ R!ExchangeOk /\ R!Numbered /\ R!Replied /\ R!Kept

LEMMA RdsEnqueueType ==
  ASSUME R!Inv, NEW p \in Procs, NEW r \in R!Callers, r.op # "none", r.op = "write" => r.blk \in DiskBlocks,
         NEW b \in R!Bufs, R!Enqueue(p, r, b),
         free' \in Seq(R!Bufs), req' \in Seq(R!Bufs), cache' \in Seq(R!Bufs), fault' = fault,
         overtaken' \in BOOLEAN, UNCHANGED <<R!comvars, R!netvars, misplaced, unsent>>
  PROVE  R!TypeOK' /\ buf'[b].op = r.op /\ buf'[b].blk = r.blk /\ buf'[b].val = r.val
         /\ \A c \in R!Bufs \ {b} : buf'[c] = buf[c]
<1> DEFINE e == [op |-> r.op, ref |-> IF r.op = "write" THEN 0 ELSE 1, blk |-> r.blk,
                 valid |-> r.op = "write", pid |-> p, val |-> r.val]
<1>1. e \in R!Buffers /\ e.op = r.op /\ e.blk = r.blk /\ e.val = r.val
  <2>1. r.op \in {"none", "read", "write", "sync"} /\ r.blk \in R!Numbers /\ r.val \in R!Bytes
    BY DEF R!Callers
  <2>2. (IF r.op = "write" THEN 0 ELSE 1) \in Int /\ (r.op = "write") \in BOOLEAN
    OBVIOUS
  <2> QED
    BY <2>1, <2>2 DEF R!Buffers
<1>2. /\ buf' = [buf EXCEPT ![b] = e]
      /\ reqsem' = reqsem + 1
      /\ at' = [at EXCEPT ![p] = IF r.op = "write" THEN R!Idle ELSE [r EXCEPT !.pc = "receive"]]
      /\ prmsg' = IF r.op = "write" THEN prmsg ELSE [prmsg EXCEPT ![p] = R!NOMSG]
      /\ last' = IF r.op = "write" THEN [last EXCEPT ![r.blk] = r.val] ELSE last
  BY DEF R!Enqueue
<1> HIDE DEF e
<1>3. /\ buf \in [R!Bufs -> R!Buffers] /\ (\A c \in R!Bufs : buf[c].op = "write" => buf[c].blk \in DiskBlocks)
      /\ reqsem \in Int
      /\ at \in [Procs -> R!Callers] /\ (\A q \in Procs : at[q].op = "write" => at[q].blk \in DiskBlocks)
      /\ (\A q \in Procs : at[q].pc = "alloc" => at[q].op # "none")
      /\ prmsg \in [Procs -> R!Bufs \cup {R!NOMSG, R!SYNCED}] /\ last \in [DiskBlocks -> R!Bytes]
  BY DEF R!Inv, R!TypeOK, R!BufferType, R!UserType, R!OtherType
<1>4. /\ buf' \in [R!Bufs -> R!Buffers] /\ buf'[b] = e
      /\ \A c \in R!Bufs \ {b} : buf'[c] = buf[c]
  BY <1>1, <1>2, <1>3
<1>5. \A c \in R!Bufs : buf'[c].op = "write" => buf'[c].blk \in DiskBlocks
  BY <1>1, <1>3, <1>4
<1>6. /\ at' \in [Procs -> R!Callers] /\ (\A q \in Procs : at'[q].op = "write" => at'[q].blk \in DiskBlocks)
      /\ (\A q \in Procs : at'[q].pc = "alloc" => at'[q].op # "none")
  <2>1. R!Idle \in R!Callers /\ R!Idle.op # "write" /\ R!Idle.pc # "alloc"
    BY DEF R!Idle, R!Callers, R!Numbers, R!Bytes
  <2>2. /\ [r EXCEPT !.pc = "receive"] \in R!Callers /\ [r EXCEPT !.pc = "receive"].op = r.op
        /\ [r EXCEPT !.pc = "receive"].pc = "receive"
    BY DEF R!Callers
  <2>3. \A q \in Procs \ {p} : at'[q] = at[q]
    BY <1>2, <1>3
  <2>4. at'[p] = IF r.op = "write" THEN R!Idle ELSE [r EXCEPT !.pc = "receive"]
    BY <1>2, <1>3
  <2>5. at' \in [Procs -> R!Callers]
    BY <1>2, <1>3, <2>1, <2>2
  <2> QED
    BY <1>3, <2>1, <2>2, <2>3, <2>4, <2>5
<1>7. prmsg' \in [Procs -> R!Bufs \cup {R!NOMSG, R!SYNCED}]
  BY <1>2, <1>3
<1>8. last' \in [DiskBlocks -> R!Bytes]
  BY <1>2, <1>3 DEF R!Callers
<1>9. R!TypeOK'
  <2>1. R!BufferType'
    BY <1>4, <1>5 DEF R!BufferType
  <2>2. R!UserType'
    BY <1>6, <1>7 DEF R!UserType
  <2>3. R!ExchangeType'
    BY DEF R!ExchangeType, R!Inv, R!TypeOK, R!comvars, R!netvars
  <2>4. R!OtherType'
    <3>1. R!OtherType /\ reqsem' \in Int
      BY <1>2, <1>3 DEF R!Inv, R!TypeOK
    <3> QED
      BY <1>8, <3>1 DEF R!OtherType
  <2> QED
    BY <2>1, <2>2, <2>3, <2>4 DEF R!TypeOK
<1> QED
  BY <1>1, <1>4, <1>9

LEMMA RdsEnqueueKeeps ==
  ASSUME R!Inv, R!Running, NEW p \in Procs, NEW r \in R!Callers,
         r.op # "none", r.op = "write" => r.blk \in DiskBlocks,
         NEW b \in R!Bufs, b \notin R!On(req), R!Enqueue(p, r, b), R!Partition(free', Append(req, b), cache'),
         fault' = fault, overtaken' \in BOOLEAN, UNCHANGED <<R!comvars, R!netvars, misplaced, unsent>>
  PROVE  RdsMost'
<1>1. req' = Append(req, b) /\ req \in Seq(R!Bufs) /\ fault = "none" /\ fault' = "none"
  BY DEF R!Enqueue, R!Inv, R!TypeOK, R!BufferType, R!Running
<1> PICK n \in Nat : n = Len(req)
  BY <1>1
<1>2. /\ R!TypeOK' /\ buf'[b].op = r.op /\ buf'[b].blk = r.blk /\ buf'[b].val = r.val
      /\ \A c \in R!Bufs \ {b} : buf'[c] = buf[c]
  <2>1. free' \in Seq(R!Bufs) /\ req' \in Seq(R!Bufs) /\ cache' \in Seq(R!Bufs)
    BY <1>1 DEF R!Partition
  <2> QED
    BY <2>1, RdsEnqueueType
<1>3. /\ n \in Nat /\ Len(req') = n + 1 /\ DOMAIN req' = 1 .. (n + 1) /\ DOMAIN req = 1 .. n
      /\ \A k \in 1 .. n : req'[k] = req[k] /\ req[k] # b /\ req[k] \in R!Bufs
  BY <1>1, RdsOneMore
<1>4. req'[n + 1] = b
  BY <1>1, RdsOneMore
<1>5. /\ \A k \in 1 .. (n + 1) : k \in 1 .. n \/ k = n + 1
      /\ \A k \in 1 .. n : k < n + 1 /\ k \in 1 .. (n + 1)
      /\ n + 1 \in 1 .. (n + 1)
  BY <1>3
<1>6. UNCHANGED <<com, rdseq, msgblk, net, replies, store, misplaced, unsent>>
  BY DEF R!comvars, R!netvars
<1>7. R!ListsOk'
  BY <1>1 DEF R!ListsOk
<1>8. R!QueueOk'
  <2>1. \A k \in 1 .. (n + 1) : buf'[req'[k]].op # "none"
    BY <1>1, <1>2, <1>3, <1>4, <1>5 DEF R!Inv, R!QueueOk
  <2>2. /\ reqsem' = reqsem + 1 /\ reqsem >= 0 /\ reqsem \in Int
        /\ n = reqsem + (IF com.op = "read" THEN 1 ELSE 0)
    BY <1>1 DEF R!Inv, R!QueueOk, R!Enqueue, R!TypeOK, R!OtherType
  <2>3. reqsem' >= 0 /\ n + 1 = reqsem' + (IF com.op = "read" THEN 1 ELSE 0)
    BY <1>3, <2>2
  <2>4. ASSUME com.op = "read" PROVE buf'[Head(req')].op = "read" /\ com.b = Head(req')
    <3>1. 1 \in 1 .. n /\ Head(req') = req'[1] /\ Head(req) = req[1]
      BY <1>3, <2>2, <2>4, <1>1
    <3>2. buf[Head(req)].op = "read" /\ com.b = Head(req)
      BY <1>1, <2>4 DEF R!Inv, R!QueueOk
    <3> QED
      BY <1>2, <1>3, <3>1, <3>2
  <2> QED
    BY <1>3, <1>6, <2>1, <2>3, <2>4 DEF R!QueueOk
<1>9. R!ExchangeOk' /\ R!Numbered' /\ R!Replied'
  BY <1>6 DEF R!Inv, R!ExchangeOk, R!Numbered, R!Replied, R!Active
<1>10. R!Kept'
  <2> SUFFICES ASSUME ~ unsent, ~ misplaced, NEW blk \in DiskBlocks
               PROVE  R!LastWrite(blk)'
    BY <1>6 DEF R!Kept
  <2>1. R!LastWrite(blk)
    BY <1>1 DEF R!Inv, R!Kept
  <2>2. \A k \in 1 .. n : /\ R!Queued(k, blk)' <=> R!Queued(k, blk)
                          /\ buf'[req'[k]].val = buf[req[k]].val
    BY <1>2, <1>3 DEF R!Queued
  <2>3. R!Queued(n + 1, blk)' <=> (r.op = "write" /\ r.blk = blk)
    BY <1>2, <1>4 DEF R!Queued
  <2>4. last \in [DiskBlocks -> R!Bytes]
        /\ last' = IF r.op = "write" THEN [last EXCEPT ![r.blk] = r.val] ELSE last
    BY DEF R!Enqueue, R!Inv, R!TypeOK, R!OtherType
  <2>5. \A k : R!Sent(k, blk)' <=> R!Sent(k, blk)
    BY <1>6 DEF R!Sent
  <2>6. CASE r.op = "write" /\ r.blk = blk
    <3>1. last'[blk] = r.val
      BY <2>4, <2>6
    <3>2. buf'[req'[n + 1]].val = r.val
      BY <1>2, <1>4
    <3>3. R!Queued(n + 1, blk)'
      BY <2>3, <2>6
    <3>4. \A k \in 1 .. (n + 1) :
            R!Queued(k, blk)' /\ (\A j \in 1 .. (n + 1) : k < j => ~ R!Queued(j, blk)') => k = n + 1
      BY <1>5, <3>3
    <3> QED
      BY <1>3, <1>5, <3>1, <3>2, <3>3, <3>4 DEF R!LastWrite
  <2>7. CASE ~ (r.op = "write" /\ r.blk = blk)
    <3>1. last'[blk] = last[blk] /\ ~ R!Queued(n + 1, blk)'
      BY <2>3, <2>4, <2>7
    <3>2. \A k \in 1 .. n : R!Queued(k, blk) /\ (\A j \in 1 .. n : k < j => ~ R!Queued(j, blk))
                              => buf[req[k]].val = last[blk]
      BY <2>1 DEF R!LastWrite
    <3>3. \A k \in 1 .. (n + 1) :
            R!Queued(k, blk)' /\ (\A j \in 1 .. (n + 1) : k < j => ~ R!Queued(j, blk)')
              => buf'[req'[k]].val = last'[blk]
      BY <1>5, <2>2, <3>1, <3>2
    <3>4. (\A k \in 1 .. (n + 1) : ~ R!Queued(k, blk)') => \A k \in 1 .. n : ~ R!Queued(k, blk)
      BY <1>5, <2>2
    <3>5. R!LastSent(blk)' <=> R!LastSent(blk)
      BY <1>6, <2>5, <3>1 DEF R!LastSent
    <3> QED
      BY <1>3, <1>6, <2>1, <3>1, <3>3, <3>4, <3>5 DEF R!LastWrite
  <2> QED
    BY <2>6, <2>7
<1> QED
  BY <1>2, <1>7, <1>8, <1>9, <1>10 DEF RdsMost

\* When no buffer is found the machine panics.
LEMMA RdsNoBufferKeeps ==
  ASSUME R!Inv, R!Running, fault' = "no buffer", R!AvailOk', overtaken' \in BOOLEAN,
         UNCHANGED <<R!listvars, reqsem, at, prmsg, last, R!comvars, R!netvars, misplaced, unsent>>
  PROVE  R!Inv'
<1>1. UNCHANGED <<free, req, cache, buf, com, rdseq, msgblk, net, replies, store>>
  BY DEF R!listvars, R!comvars, R!netvars
<1>2. R!TypeOK'
  BY <1>1 DEF R!Inv, R!TypeOK, R!BufferType, R!UserType, R!ExchangeType, R!OtherType
<1>3. R!ExchangeOk' /\ R!Numbered' /\ R!Replied'
  BY <1>1 DEF R!Inv, R!ExchangeOk, R!Numbered, R!Replied, R!Active
<1>4. R!QueueOk' /\ R!Counted' /\ R!Kept'
  BY DEF R!QueueOk, R!Counted, R!Kept
<1>5. R!ListsOk'
  BY <1>1 DEF R!Inv, R!ListsOk, R!Running
<1> QED
  BY <1>2, <1>3, <1>4, <1>5 DEF R!Inv

\* What rdsbufalloc takes comes from the free list or the cache.
LEMMA RdsBufferTaken ==
  ASSUME R!Inv, R!Running, NEW p \in Procs, NEW r \in R!Callers, R!rdsbufalloc(LAMBDA b : R!Enqueue(p, r, b))
  PROVE  \/ fault' = "no buffer" /\ UNCHANGED <<R!listvars, reqsem, at, prmsg, last>>
         \/ \E b \in R!Bufs : /\ b \notin R!On(req) /\ R!Enqueue(p, r, b) /\ fault' = fault
                            /\ R!Partition(free', Append(req, b), cache')
                            /\ Len(free) + Len(cache) = Len(free') + Len(cache') + 1
<1>1. R!Partition(free, req, cache)
  BY DEF R!Inv, R!ListsOk, R!Running
<1>2. CASE free # <<>> /\ free' = Tail(free) /\ cache' = cache /\ fault' = fault /\ R!Enqueue(p, r, Head(free))
  BY <1>1, <1>2, RdsFreeToReq
<1>3. CASE /\ R!Oldest # 0 /\ cache' = R!Without(cache, cache[R!Oldest]) /\ free' = free /\ fault' = fault
           /\ R!Enqueue(p, r, cache[R!Oldest])
  <2>1. R!Oldest \in 1 .. Len(cache)
    BY <1>1, <1>3, RdsOldestIs DEF R!Partition
  <2>2. cache[R!Oldest] \in R!On(cache)
    BY <1>1, <2>1 DEF R!Partition, R!On
  <2> QED
    <3> DEFINE b == cache[R!Oldest]
    <3>1. /\ R!Partition(free, Append(req, b), R!Without(cache, b)) /\ b \in R!Bufs /\ b \notin R!On(req)
          /\ Len(free) + Len(cache) = Len(free) + Len(R!Without(cache, b)) + 1
      BY <1>1, <2>2, RdsCacheToReq
    <3>2. cache' = R!Without(cache, b) /\ free' = free /\ fault' = fault /\ R!Enqueue(p, r, b)
      BY <1>3
    <3> HIDE DEF b
    <3> QED
      BY <3>1, <3>2
<1>4. CASE fault' = "no buffer" /\ UNCHANGED <<R!listvars, reqsem, at, prmsg, last>>
  BY <1>4
<1> QED
  BY <1>2, <1>3, <1>4 DEF R!rdsbufalloc

\* What a request does to its process.
LEMMA RdsEnqueueAt ==
  ASSUME R!Inv, NEW p \in Procs, NEW r \in R!Callers, NEW b, R!Enqueue(p, r, b)
  PROVE  at'[p].pc # "alloc" /\ \A q \in Procs \ {p} : at'[q] = at[q]
<1>1. at \in [Procs -> R!Callers]
      /\ at' = [at EXCEPT ![p] = IF r.op = "write" THEN R!Idle ELSE [r EXCEPT !.pc = "receive"]]
  BY DEF R!Inv, R!TypeOK, R!UserType, R!Enqueue
<1>2. [r EXCEPT !.pc = "receive"].pc = "receive" /\ R!Idle.pc = "idle"
  BY DEF R!Callers, R!Idle
<1> QED
  BY <1>1, <1>2

LEMMA RdsInvParts == R!Inv <=> RdsMost /\ R!AvailOk /\ R!Counted
BY DEF R!Inv, RdsMost

LEMMA RdsAllocatesKeeps ==
  ASSUME R!Inv, R!Running, NEW p \in Procs, NEW r \in R!Callers, r.op # "none",
         r.op = "write" => r.blk \in DiskBlocks, at[p] = R!Idle,
         R!Allocates(p, r), UNCHANGED <<R!comvars, R!netvars, misplaced, unsent>>
  PROVE  R!Inv'
<1>1. /\ avail \in R!SemaphoreOf(Procs) /\ R!Waiting(avail) \subseteq {q \in Procs : at[q].pc = "alloc"}
      /\ avail' = R!wait(avail, p) /\ overtaken' = overtaken /\ overtaken \in BOOLEAN
      /\ at[p].pc = "idle" /\ avail.count \in Int
  <2>1. avail \in R!SemaphoreOf(Procs) /\ R!Waiting(avail) \subseteq {q \in Procs : at[q].pc = "alloc"}
    BY DEF R!Inv, R!AvailOk
  <2>2. avail.count \in Int
    BY <2>1 DEF R!SemaphoreOf
  <2>3. avail' = R!wait(avail, p) /\ overtaken' = overtaken
    BY DEF R!Allocates
  <2>4. overtaken \in BOOLEAN
    BY DEF R!Inv, R!TypeOK, R!OtherType
  <2>5. at[p].pc = "idle"
    BY DEF R!Idle
  <2> QED
    BY <2>1, <2>2, <2>3, <2>4, <2>5
<1>2. p \notin R!Waiting(avail)
  BY <1>1
<1>3. avail' \in R!SemaphoreOf(Procs) /\ avail'.count = avail.count - 1
  BY <1>1, <1>2, RdsWaited
<1>4. CASE ~ R!Blocks(avail) /\ R!rdsbufalloc(LAMBDA b : R!Enqueue(p, r, b))
  <2>1. avail'.queue = <<>> /\ avail.queue = <<>> /\ avail.count > 0
    BY <1>1, <1>2, <1>4, RdsWaited DEF R!Blocks
  <2>2. R!Waiting(avail') = {} /\ R!Waiting(avail) = {}
    BY <2>1 DEF R!Waiting
  <2>3. R!AvailOk'
    BY <1>3, <2>2 DEF R!AvailOk
  <2>4. CASE fault' = "no buffer" /\ UNCHANGED <<R!listvars, reqsem, at, prmsg, last>>
    BY <1>1, <2>3, <2>4, RdsNoBufferKeeps
  <2>5. ASSUME NEW b \in R!Bufs, b \notin R!On(req), R!Enqueue(p, r, b), fault' = fault,
               R!Partition(free', Append(req, b), cache'),
               Len(free) + Len(cache) = Len(free') + Len(cache') + 1
        PROVE  R!Inv'
    <3>1. RdsMost'
      BY <1>1, <2>5, RdsEnqueueKeeps
    <3>2. R!Granted' = R!Granted
      <4>1. at'[p].pc # "alloc" /\ \A q \in Procs \ {p} : at'[q] = at[q]
        BY <2>5, RdsEnqueueAt
      <4> QED
        BY <1>1, <2>2, <4>1, RdsWaitsIff DEF R!Granted
    <3>3. R!Counted'
      <4> SUFFICES ASSUME fault' = "none", ~ overtaken'
                   PROVE  Len(free') + Len(cache') = R!Cardinality(R!Granted)
                            + (IF avail'.count > 0 THEN avail'.count ELSE 0)
        BY <3>2 DEF R!Counted
      <4>1. Len(free) + Len(cache) = R!Cardinality(R!Granted) + avail.count
        BY <1>1, <2>1, <2>5 DEF R!Inv, R!Counted
      <4>2. (IF avail'.count > 0 THEN avail'.count ELSE 0) = avail.count - 1
        BY <1>1, <1>3, <2>1
      <4>3. R!Cardinality(R!Granted) \in Int /\ Len(free') + Len(cache') \in Int
        BY RemoteNumbers, FS_Subset, FS_CardinalityType, RdsCounts, <2>5 DEF R!Granted, R!Partition
      <4> HIDE DEF R!Granted
      <4> DEFINE g == R!Cardinality(R!Granted)
                 l == Len(free') + Len(cache')
      <4>4. g \in Int /\ l \in Int /\ l + 1 = g + avail.count
        BY <4>1, <4>3, <2>5
      <4> HIDE DEF g, l
      <4>5. l = g + (avail.count - 1)
        BY <1>1, <4>4
      <4> QED
        BY <4>2, <4>5 DEF g, l
    <3> QED
      BY <2>3, <3>1, <3>3, RdsInvParts DEF R!Inv, RdsMost
  <2> QED
    BY <1>4, <2>4, <2>5, RdsBufferTaken
<1>5. CASE /\ R!Blocks(avail) /\ at' = [at EXCEPT ![p] = [r EXCEPT !.pc = "alloc"]]
           /\ UNCHANGED <<R!listvars, reqsem, prmsg, last, fault>>
  <2>1. R!Waiting(avail') = R!Waiting(avail) \cup {p} /\ avail.count <= 0
    BY <1>1, <1>2, <1>5, RdsWaited DEF R!Blocks
  <2>2. at \in [Procs -> R!Callers]
    BY DEF R!Inv, R!TypeOK, R!UserType
  <2>3. [r EXCEPT !.pc = "alloc"] \in R!Callers /\ [r EXCEPT !.pc = "alloc"].pc = "alloc"
        /\ [r EXCEPT !.pc = "alloc"].op = r.op /\ [r EXCEPT !.pc = "alloc"].blk = r.blk
    BY DEF R!Callers
  <2>4. /\ at' \in [Procs -> R!Callers] /\ at'[p].pc = "alloc" /\ at'[p].op = r.op /\ at'[p].blk = r.blk
        /\ \A q \in Procs \ {p} : at'[q] = at[q]
    BY <1>5, <2>2, <2>3
  <2>5. UNCHANGED <<free, req, cache, buf, com, rdseq, msgblk, net, replies, store>>
    BY <1>5 DEF R!listvars, R!comvars, R!netvars
  <2>6. R!UserType'
    BY <1>5, <2>4 DEF R!Inv, R!TypeOK, R!UserType
  <2>7. R!TypeOK'
    BY <1>1, <1>5, <2>5, <2>6 DEF R!Inv, R!TypeOK, R!BufferType, R!ExchangeType, R!OtherType
  <2>8. R!ExchangeOk' /\ R!Numbered' /\ R!Replied' /\ R!ListsOk' /\ R!QueueOk'
    BY <1>5, <2>5 DEF R!Inv, R!ExchangeOk, R!Numbered, R!Replied, R!Active, R!ListsOk, R!QueueOk
  <2>9. R!Kept'
    BY <1>5, <2>5 DEF R!Inv, R!Kept, R!LastWrite, R!LastSent, R!Sent, R!Queued
  <2>10. R!AvailOk'
    BY <1>1, <1>3, <2>1, <2>4 DEF R!AvailOk
  <2>11. R!Granted' = R!Granted
    BY <1>1, <2>1, <2>4, RdsWaitsIff DEF R!Granted
  <2>12. R!Counted'
    <3>1. ~ (avail'.count > 0) /\ ~ (avail.count > 0)
      BY <1>1, <1>3, <2>1
    <3> QED
      BY <1>1, <1>5, <2>5, <2>11, <3>1 DEF R!Inv, R!Counted
  <2> QED
    BY <2>7, <2>8, <2>9, <2>10, <2>12 DEF R!Inv
<1> QED
  BY <1>4, <1>5 DEF R!Allocates

LEMMA RdsGoesOnKeeps ==
  ASSUME R!Inv, NEW p \in Procs, R!AllocGoesOn(p)
  PROVE  R!Inv'
<1>1. /\ R!Running /\ at[p].pc = "alloc" /\ ~ R!Waits(avail, p) /\ R!rdsbufalloc(LAMBDA b : R!Enqueue(p, at[p], b))
      /\ UNCHANGED <<avail, R!comvars, R!netvars, overtaken, misplaced, unsent>>
  BY DEF R!AllocGoesOn
<1>2. PICK r \in R!Callers : r = at[p]
  BY DEF R!Inv, R!TypeOK, R!UserType
<1>3. r.op # "none" /\ (r.op = "write" => r.blk \in DiskBlocks)
  BY <1>1, <1>2 DEF R!Inv, R!TypeOK, R!UserType
<1>4. R!rdsbufalloc(LAMBDA b : R!Enqueue(p, r, b))
  BY <1>1, <1>2 DEF R!rdsbufalloc
<1>5. overtaken' \in BOOLEAN
  BY <1>1 DEF R!Inv, R!TypeOK, R!OtherType
<1>6. CASE fault' = "no buffer" /\ UNCHANGED <<R!listvars, reqsem, at, prmsg, last>>
  <2>1. R!AvailOk'
    BY <1>1, <1>6 DEF R!Inv, R!AvailOk
  <2> QED
    BY <1>1, <1>5, <1>6, <2>1, RdsNoBufferKeeps
<1>7. ASSUME NEW b \in R!Bufs, b \notin R!On(req), R!Enqueue(p, r, b), fault' = fault,
             R!Partition(free', Append(req, b), cache'),
             Len(free) + Len(cache) = Len(free') + Len(cache') + 1
      PROVE  R!Inv'
  <2>1. RdsMost'
    BY <1>1, <1>3, <1>5, <1>7, RdsEnqueueKeeps
  <2>2. at'[p].pc # "alloc" /\ \A q \in Procs \ {p} : at'[q] = at[q]
    BY <1>7, RdsEnqueueAt
  <2>3. R!AvailOk'
    <3>1. p \notin R!Waiting(avail)
      BY <1>1, RdsWaitsIff
    <3> QED
      BY <1>1, <2>2, <3>1 DEF R!Inv, R!AvailOk
  <2>4. R!Granted' = R!Granted \ {p} /\ p \in R!Granted
    BY <1>1, <2>2 DEF R!Granted, R!Waits
  <2>5. R!Counted'
    <3> SUFFICES ASSUME fault' = "none", ~ overtaken'
                 PROVE  Len(free') + Len(cache') = R!Cardinality(R!Granted \ {p})
                          + (IF avail.count > 0 THEN avail.count ELSE 0)
      BY <1>1, <2>4 DEF R!Counted
    <3>1. Len(free) + Len(cache) = R!Cardinality(R!Granted) + (IF avail.count > 0 THEN avail.count ELSE 0)
      BY <1>1, <1>7 DEF R!Inv, R!Counted
    <3>2. /\ R!Cardinality(R!Granted) \in Int /\ R!Cardinality(R!Granted \ {p}) \in Int
          /\ R!Cardinality(R!Granted) = R!Cardinality(R!Granted \ {p}) + 1
      <4>1. IsFiniteSet(R!Granted)
        BY RemoteNumbers, FS_Subset, RdsCounts DEF R!Granted
      <4>2. R!Cardinality(R!Granted \ {p}) = R!Cardinality(R!Granted) - 1
        BY <2>4, <4>1, FS_RemoveElement, RdsCounts
      <4>3. R!Cardinality(R!Granted) \in Nat
        BY <4>1, FS_CardinalityType, RdsCounts
      <4> QED
        BY <4>2, <4>3
    <3>3. Len(free') + Len(cache') \in Int /\ avail.count \in Int
      BY <1>7 DEF R!Partition, R!Inv, R!AvailOk, R!SemaphoreOf
    <3> DEFINE g == R!Cardinality(R!Granted)
               h == R!Cardinality(R!Granted \ {p})
               l == Len(free') + Len(cache')
               c == IF avail.count > 0 THEN avail.count ELSE 0
    <3>4. g \in Int /\ h \in Int /\ l \in Int /\ c \in Int /\ g = h + 1 /\ l + 1 = g + c
      BY <1>7, <3>1, <3>2, <3>3
    <3> HIDE DEF g, h, l, c
    <3>5. l = h + c
      BY <3>4
    <3> QED
      BY <3>5 DEF h, l, c
  <2> QED
    BY <2>1, <2>3, <2>5 DEF R!Inv, RdsMost
<1> QED
  BY <1>1, <1>4, <1>6, <1>7, RdsBufferTaken

LEMMA RdsReuseKeeps ==
  ASSUME R!Inv, R!Running, NEW p \in Procs, NEW blk \in DiskBlocks, NEW val \in Values, at[p] = R!Idle,
         R!Reusable(blk), R!Reuse(p, blk, val), UNCHANGED <<R!comvars, R!netvars, unsent>>
  PROVE  R!Inv'
<1> DEFINE b == cache[R!FirstWith(cache, blk)]
           r == R!Request("write", blk, val)
<1>1. R!Partition(free, req, cache)
  BY DEF R!Inv, R!ListsOk, R!Running
<1>2. b \in R!On(cache)
  <2>1. R!FirstWith(cache, blk) # 0 /\ cache \in Seq(R!Bufs)
    BY <1>1 DEF R!Reusable, R!Partition
  <2>2. R!FirstWith(cache, blk) \in 1 .. Len(cache)
    BY <2>1, RdsFirstWithIs
  <2> QED
    BY <2>1, <2>2 DEF R!On
<1>3. r \in R!Callers /\ r.op = "write" /\ r.blk = blk
  BY DEF R!Request, R!Callers, R!Numbers, R!Bytes
<1>4. /\ cache' = R!Without(cache, b) /\ avail' = R!TakesOne(avail)
      /\ overtaken' = (overtaken \/ avail.count <= 0) /\ R!Enqueue(p, r, b)
      /\ UNCHANGED <<free, misplaced, fault>>
  BY DEF R!Reuse
<1>5. /\ R!Partition(free, Append(req, b), R!Without(cache, b)) /\ b \in R!Bufs /\ b \notin R!On(req)
      /\ Len(free) + Len(cache) = Len(free) + Len(R!Without(cache, b)) + 1
  BY <1>1, <1>2, RdsCacheToReq
<1> HIDE DEF b, r
<1>6. overtaken' \in BOOLEAN
  BY <1>4
<1>7. RdsMost'
  BY <1>3, <1>4, <1>5, <1>6, RdsEnqueueKeeps
<1>8. at'[p].pc # "alloc" /\ (\A q \in Procs \ {p} : at'[q] = at[q]) /\ at[p].pc = "idle"
  BY <1>3, <1>4, RdsEnqueueAt DEF R!Idle
<1>9. /\ avail \in R!SemaphoreOf(Procs) /\ R!Waiting(avail) \subseteq {q \in Procs : at[q].pc = "alloc"}
  BY DEF R!Inv, R!AvailOk
<1>10. avail.count \in Int
  BY <1>9 DEF R!SemaphoreOf
<1>11. CASE avail.count <= 0
  <2>1. avail' = avail /\ overtaken'
    <3>1. avail.count - 1 < 0
      BY <1>10, <1>11
    <3>2. avail' = avail
      BY <1>4, <3>1 DEF R!TakesOne
    <3>3. overtaken'
      BY <1>4, <1>11
    <3> QED
      BY <3>2, <3>3
  <2>2. R!AvailOk'
    BY <1>8, <1>9, <2>1 DEF R!AvailOk
  <2> QED
    BY <1>7, <2>1, <2>2 DEF R!Counted, R!Inv, RdsMost
<1>12. CASE avail.count > 0
  <2>1. avail.count - 1 \in Nat /\ avail' = R!semcreate(avail.count - 1)
    BY <1>4, <1>10, <1>12 DEF R!TakesOne, R!semreset
  <2>2. avail' \in R!SemaphoreOf(Procs) /\ R!Waiting(avail') = {} /\ avail'.count = avail.count - 1
    BY <2>1, RdsCreated DEF R!semcreate
  <2>3. R!AvailOk'
    BY <2>2 DEF R!AvailOk
  <2>4. avail.queue = <<>>
    BY <1>9, <1>12 DEF R!SemaphoreOf
  <2>5. R!Granted' = R!Granted
    BY <1>8, <2>2, <2>4, RdsWaitsIff DEF R!Granted, R!Waiting
  <2>6. R!Counted'
    <3> SUFFICES ASSUME fault' = "none", ~ overtaken'
                 PROVE  Len(free') + Len(cache') = R!Cardinality(R!Granted)
                          + (IF avail'.count > 0 THEN avail'.count ELSE 0)
      BY <2>5 DEF R!Counted
    <3>1. Len(free) + Len(cache) = R!Cardinality(R!Granted) + avail.count
      BY <1>4, <1>12 DEF R!Inv, R!Counted
    <3>2. (IF avail'.count > 0 THEN avail'.count ELSE 0) = avail.count - 1
      BY <1>10, <1>12, <2>2
    <3>3. R!Cardinality(R!Granted) \in Int /\ Len(free') + Len(cache') \in Int
      BY RemoteNumbers, FS_Subset, FS_CardinalityType, RdsCounts, <1>4, <1>5 DEF R!Granted, R!Partition
    <3> DEFINE g == R!Cardinality(R!Granted)
               l == Len(free') + Len(cache')
    <3>4. g \in Int /\ l \in Int /\ l + 1 = g + avail.count
      BY <1>4, <1>5, <3>1, <3>3
    <3> HIDE DEF g, l
    <3>5. l = g + (avail.count - 1)
      BY <1>10, <3>4
    <3> QED
      BY <3>2, <3>5 DEF g, l
  <2> QED
    BY <1>7, <2>3, <2>6 DEF R!Inv, RdsMost
<1> QED
  BY <1>10, <1>11, <1>12

\* The data of a request is replaced: only the first that QueuedWrite finds.
LEMMA RdsReplaceKeeps ==
  ASSUME R!Inv, R!Running, NEW blk \in DiskBlocks, NEW val \in Values, R!QueuedWrite(blk) # 0,
         R!ReplaceQueued(blk, val), UNCHANGED <<R!comvars, R!netvars, unsent>>
  PROVE  R!Inv'
<1>1. PICK k0 \in 1 .. Len(req) : k0 = R!QueuedWrite(blk) /\ R!Queued(k0, blk)
  BY RdsQueuedWriteIs DEF R!Inv, R!TypeOK, R!BufferType
<1>2. PICK b \in R!Bufs : b = req[k0]
  BY <1>1 DEF R!Inv, R!TypeOK, R!BufferType
<1>3. /\ buf' = [buf EXCEPT ![b].val = val] /\ last' = [last EXCEPT ![blk] = val]
      /\ misplaced' = (misplaced \/ R!TwoQueued(blk))
      /\ UNCHANGED <<free, req, cache, avail, reqsem, at, prmsg, overtaken, fault>>
  BY <1>1, <1>2 DEF R!ReplaceQueued
<1>4. UNCHANGED <<com, rdseq, msgblk, net, replies, store, unsent>>
  BY DEF R!comvars, R!netvars
<1>5. /\ buf \in [R!Bufs -> R!Buffers] /\ (\A c \in R!Bufs : buf[c].op = "write" => buf[c].blk \in DiskBlocks)
      /\ last \in [DiskBlocks -> R!Bytes] /\ val \in R!Bytes /\ req \in Seq(R!Bufs) /\ misplaced \in BOOLEAN
  BY DEF R!Inv, R!TypeOK, R!BufferType, R!OtherType, R!Bytes
<1>6. /\ buf' \in [R!Bufs -> R!Buffers] /\ buf'[b].val = val
      /\ \A c \in R!Bufs : buf'[c].op = buf[c].op /\ buf'[c].blk = buf[c].blk
      /\ \A c \in R!Bufs \ {b} : buf'[c] = buf[c]
  <2>1. [buf[b] EXCEPT !.val = val] \in R!Buffers
        /\ [buf[b] EXCEPT !.val = val].val = val
        /\ [buf[b] EXCEPT !.val = val].op = buf[b].op
        /\ [buf[b] EXCEPT !.val = val].blk = buf[b].blk
    BY <1>5 DEF R!Buffers
  <2>2. buf' = [buf EXCEPT ![b] = [buf[b] EXCEPT !.val = val]]
    BY <1>3, <1>5
  <2> QED
    BY <1>5, <2>1, <2>2
<1>7. last' \in [DiskBlocks -> R!Bytes] /\ last'[blk] = val /\ \A x \in DiskBlocks \ {blk} : last'[x] = last[x]
  BY <1>3, <1>5
<1>8. misplaced' \in BOOLEAN
  BY <1>3
<1>9. R!TypeOK'
  <2>1. R!BufferType'
    BY <1>3, <1>5, <1>6 DEF R!Inv, R!TypeOK, R!BufferType
  <2>2. R!UserType' /\ R!ExchangeType'
    BY <1>3, <1>4 DEF R!Inv, R!TypeOK, R!UserType, R!ExchangeType
  <2>3. R!OtherType'
    BY <1>3, <1>4, <1>7, <1>8 DEF R!Inv, R!TypeOK, R!OtherType
  <2> QED
    BY <2>1, <2>2, <2>3 DEF R!TypeOK
<1>10. R!ListsOk' /\ R!ExchangeOk' /\ R!Numbered' /\ R!Replied' /\ R!AvailOk'
  BY <1>3, <1>4 DEF R!Inv, R!ListsOk, R!ExchangeOk, R!Numbered, R!Replied, R!AvailOk, R!Active
<1>11. R!QueueOk'
  <2>1. \A k \in DOMAIN req : req[k] \in R!Bufs
    BY <1>5
  <2>2. req # <<>> => Head(req) \in R!Bufs
    BY <1>5
  <2>3. com.op = "read" => req # <<>>
    BY <1>5 DEF R!Inv, R!QueueOk, R!Running, R!TypeOK, R!OtherType
  <2> QED
    BY <1>3, <1>4, <1>6, <2>1, <2>2, <2>3 DEF R!Inv, R!QueueOk
<1>12. R!Counted'
  <2>1. R!Granted' = R!Granted
    BY <1>3 DEF R!Granted
  <2> QED
    BY <1>3, <2>1 DEF R!Inv, R!Counted
<1>13. R!Kept'
  <2> SUFFICES ASSUME fault = "none", ~ unsent, ~ misplaced', NEW x \in DiskBlocks
               PROVE  R!LastWrite(x)'
    BY <1>3, <1>4 DEF R!Kept
  <2>1. R!LastWrite(x) /\ ~ R!TwoQueued(blk)
    BY <1>3 DEF R!Inv, R!Kept
  <2>2. \A k \in 1 .. Len(req) : R!Queued(k, x)' <=> R!Queued(k, x)
    <3>1. \A k \in 1 .. Len(req) : req[k] \in R!Bufs
      BY <1>5
    <3> QED
      BY <1>3, <1>6, <3>1 DEF R!Queued
  <2>3. CASE x = blk
    <3>1. ASSUME NEW k \in 1 .. Len(req), R!Queued(k, blk) PROVE k = k0
      <4>1. \A j, i \in 1 .. Len(req) : R!Queued(j, blk) /\ R!Queued(i, blk) => ~ (j < i)
        BY <1>5, <2>1 DEF R!TwoQueued, R!Queued
      <4> QED
        BY <1>1, <3>1, <4>1
    <3>2. \A k \in 1 .. Len(req) :
            R!Queued(k, blk) /\ (\A j \in 1 .. Len(req) : k < j => ~ R!Queued(j, blk)) => k = k0
      BY <1>1, <3>1
    <3>3. buf'[req[k0]].val = last'[blk]
      BY <1>2, <1>6, <1>7
    <3> QED
      BY <1>1, <1>3, <2>2, <2>3, <3>2, <3>3 DEF R!LastWrite
  <2>4. CASE x # blk
    <3>1. last'[x] = last[x]
      BY <1>7, <2>4
    <3>2. \A k \in 1 .. Len(req) : R!Queued(k, x) => buf'[req[k]].val = buf[req[k]].val
      <4>1. R!Queued(k0, blk)
        BY <1>1
      <4>2. ASSUME NEW k \in 1 .. Len(req), R!Queued(k, x) PROVE req[k] \in R!Bufs \ {b}
        BY <1>2, <1>5, <2>4, <4>1, <4>2 DEF R!Queued
      <4> QED
        BY <1>6, <4>2
    <3>3. \A k : R!Sent(k, x)' <=> R!Sent(k, x)
      BY <1>4 DEF R!Sent
    <3>4. R!LastSent(x)' <=> R!LastSent(x)
      BY <1>4, <3>1, <3>3 DEF R!LastSent
    <3> QED
      BY <1>3, <1>4, <2>1, <2>2, <3>1, <3>2, <3>4 DEF R!LastWrite
  <2> QED
    BY <2>3, <2>4
<1> QED
  BY <1>9, <1>10, <1>11, <1>12, <1>13 DEF R!Inv

LEMMA RdsUserKeeps ==
  ASSUME R!Inv, NEW p \in Procs, R!User(p)
  PROVE  R!Inv'
<1>1. CASE \E blk \in DiskBlocks : R!rdsread(p, blk)
  <2>1. PICK blk \in DiskBlocks : R!rdsread(p, blk)
    BY <1>1
  <2>2. R!Request("read", blk, 0) \in R!Callers /\ R!Request("read", blk, 0).op = "read"
    BY DEF R!Request, R!Callers, R!Numbers, R!Bytes
  <2> QED
    BY <2>1, <2>2, RdsAllocatesKeeps DEF R!rdsread, R!Makes, R!Call, R!comvars, R!netvars
<1>2. CASE R!rdssync(p)
  <2>1. R!Request("sync", 0, 0) \in R!Callers /\ R!Request("sync", 0, 0).op = "sync"
    BY DEF R!Request, R!Callers, R!Numbers, R!Bytes
  <2> QED
    BY <1>2, <2>1, RdsAllocatesKeeps DEF R!rdssync, R!Makes, R!Call, R!comvars, R!netvars
<1>3. CASE \E blk \in DiskBlocks : \E val \in Values : R!rdswrite(p, blk, val)
  <2>1. PICK blk \in DiskBlocks, val \in Values : R!rdswrite(p, blk, val)
    BY <1>3
  <2>2. R!Request("write", blk, val) \in R!Callers /\ R!Request("write", blk, val).op = "write"
        /\ R!Request("write", blk, val).blk = blk
    BY DEF R!Request, R!Callers, R!Numbers, R!Bytes
  <2>3. R!Running /\ at[p] = R!Idle /\ UNCHANGED <<R!comvars, R!netvars, unsent>>
    BY <2>1 DEF R!rdswrite, R!Makes, R!Call
  <2>4. CASE R!QueuedWrite(blk) # 0 /\ R!ReplaceQueued(blk, val)
    BY <2>3, <2>4, RdsReplaceKeeps
  <2>5. CASE R!Reusable(blk) /\ R!Reuse(p, blk, val)
    BY <2>3, <2>5, RdsReuseKeeps
  <2>6. CASE R!Allocates(p, R!Request("write", blk, val)) /\ UNCHANGED misplaced
    BY <2>2, <2>3, <2>6, RdsAllocatesKeeps
  <2> QED
    BY <2>1, <2>4, <2>5, <2>6 DEF R!rdswrite
<1> QED
  BY <1>1, <1>2, <1>3 DEF R!User

-----------------------------------------------------------------------------
(* Opening, closing, the end of a request.                                 *)

\* The queue is as it was, and so is what its requests ask for.
LEMMA RdsSameQueue ==
  ASSUME R!Inv, R!Running, UNCHANGED <<req, reqsem, com>>,
         \A c \in R!Bufs : buf'[c].op = buf[c].op
  PROVE  R!QueueOk'
<1>1. req \in Seq(R!Bufs)
  BY DEF R!Inv, R!TypeOK, R!BufferType
<1>2. /\ \A k \in DOMAIN req : req[k] \in R!Bufs
      /\ req # <<>> => Head(req) \in R!Bufs
  BY <1>1
<1>3. com.op = "read" => req # <<>>
  BY <1>1 DEF R!Inv, R!QueueOk, R!Running, R!TypeOK, R!OtherType
<1> QED
  BY <1>2, <1>3 DEF R!Inv, R!QueueOk, R!Running

LEMMA RdsSameKept ==
  ASSUME R!Inv, R!Running, UNCHANGED <<req, com, net, store, last, misplaced, unsent>>,
         \A c \in R!Bufs : buf'[c].op = buf[c].op /\ buf'[c].blk = buf[c].blk /\ buf'[c].val = buf[c].val
  PROVE  R!Kept'
<1>1. \A k \in 1 .. Len(req) : req[k] \in R!Bufs
  BY DEF R!Inv, R!TypeOK, R!BufferType
<1> SUFFICES ASSUME ~ unsent, ~ misplaced, NEW blk \in DiskBlocks
             PROVE  R!LastWrite(blk)'
  BY DEF R!Kept
<1>2. R!LastWrite(blk)
  BY DEF R!Inv, R!Kept, R!Running
<1>3. \A k \in 1 .. Len(req) : (R!Queued(k, blk)' <=> R!Queued(k, blk)) /\ buf'[req'[k]].val = buf[req[k]].val
  BY <1>1 DEF R!Queued
<1>4. R!LastSent(blk)' <=> R!LastSent(blk)
  BY DEF R!LastSent, R!Sent
<1> QED
  BY <1>2, <1>3, <1>4 DEF R!LastWrite

LEMMA RdsSameExchange ==
  ASSUME R!Inv, UNCHANGED <<R!comvars, R!netvars>>
  PROVE  R!ExchangeType' /\ R!ExchangeOk' /\ R!Numbered' /\ R!Replied'
<1>1. UNCHANGED <<com, rdseq, msgblk, net, replies, store>>
  BY DEF R!comvars, R!netvars
<1> QED
  BY <1>1 DEF R!Inv, R!TypeOK, R!ExchangeType, R!ExchangeOk, R!Numbered, R!Replied, R!Active

\* Nothing that the invariant is about changes.
LEMMA RdsNothingKeeps ==
  ASSUME R!Inv, UNCHANGED <<R!listvars, avail, reqsem, at, prmsg, R!comvars, R!netvars, last,
                          overtaken, misplaced, unsent, fault>>
  PROVE  R!Inv'
<1>1. UNCHANGED <<free, req, cache, buf, com, rdseq, msgblk, net, replies, store>>
  BY DEF R!listvars, R!comvars, R!netvars
<1>2. R!BufferType' /\ R!UserType' /\ R!ExchangeType' /\ R!OtherType'
  BY <1>1 DEF R!Inv, R!TypeOK, R!BufferType, R!UserType, R!ExchangeType, R!OtherType
<1>3. R!ListsOk' /\ R!QueueOk' /\ R!ExchangeOk' /\ R!AvailOk' /\ R!Numbered' /\ R!Replied'
  BY <1>1 DEF R!Inv, R!ListsOk, R!QueueOk, R!ExchangeOk, R!AvailOk, R!Numbered, R!Replied, R!Active
<1>4. R!Counted'
  BY <1>1 DEF R!Inv, R!Counted, R!Granted
<1>5. R!Kept'
  BY <1>1 DEF R!Inv, R!Kept, R!LastWrite, R!LastSent, R!Sent, R!Queued
<1> QED
  BY <1>2, <1>3, <1>4, <1>5 DEF R!Inv, R!TypeOK

LEMMA RdsOpenKeeps ==
  ASSUME R!Inv, R!rdsopen
  PROVE  R!Inv'
BY RdsNothingKeeps DEF R!rdsopen

LEMMA RdsCloseKeeps ==
  ASSUME R!Inv, R!rdsclose
  PROVE  R!Inv'
<1>1. /\ R!Running /\ req = <<>> /\ free' = R!Reverse(cache) \o free /\ cache' = <<>>
      /\ buf' = [b \in R!Bufs |-> IF R!Contains(cache, b) THEN [buf[b] EXCEPT !.valid = FALSE] ELSE buf[b]]
      /\ UNCHANGED <<req, avail, reqsem, at, prmsg, R!comvars, R!netvars, last, overtaken, misplaced, unsent, fault>>
  BY DEF R!rdsclose, R!Call
<1>2. R!Partition(free, <<>>, cache)
  BY <1>1 DEF R!Inv, R!ListsOk, R!Running
<1>3. R!Partition(free', req', cache') /\ Len(free') + Len(cache') = Len(free) + Len(cache)
  BY <1>1, <1>2, RdsAllToFree
<1>4. \A b \in R!Bufs : /\ buf'[b] \in R!Buffers /\ buf'[b].op = buf[b].op
                      /\ buf'[b].blk = buf[b].blk /\ buf'[b].val = buf[b].val
  <2> SUFFICES ASSUME NEW b \in R!Bufs
               PROVE  /\ buf'[b] \in R!Buffers /\ buf'[b].op = buf[b].op
                      /\ buf'[b].blk = buf[b].blk /\ buf'[b].val = buf[b].val
    OBVIOUS
  <2>1. buf[b] \in R!Buffers
    BY DEF R!Inv, R!TypeOK, R!BufferType
  <2>2. /\ [buf[b] EXCEPT !.valid = FALSE] \in R!Buffers
        /\ [buf[b] EXCEPT !.valid = FALSE].op = buf[b].op
        /\ [buf[b] EXCEPT !.valid = FALSE].blk = buf[b].blk
        /\ [buf[b] EXCEPT !.valid = FALSE].val = buf[b].val
    BY <2>1 DEF R!Buffers
  <2>3. buf'[b] = [buf[b] EXCEPT !.valid = FALSE] \/ buf'[b] = buf[b]
    BY <1>1
  <2> QED
    BY <2>1, <2>2, <2>3
<1>5. R!BufferType'
  <2>1. DOMAIN buf' = R!Bufs /\ buf' = [b \in R!Bufs |-> buf'[b]]
    BY <1>1
  <2>2. buf' \in [R!Bufs -> R!Buffers]
    BY <1>4, <2>1
  <2>3. \A b \in R!Bufs : buf'[b].op = "write" => buf'[b].blk \in DiskBlocks
    BY <1>4 DEF R!Inv, R!TypeOK, R!BufferType
  <2> QED
    BY <1>3, <2>2, <2>3 DEF R!BufferType, R!Partition
<1>6. R!UserType' /\ R!OtherType'
  BY <1>1 DEF R!Inv, R!TypeOK, R!UserType, R!OtherType
<1>7. R!ExchangeType' /\ R!ExchangeOk' /\ R!Numbered' /\ R!Replied'
  BY <1>1, RdsSameExchange
<1>8. R!QueueOk'
  BY <1>1, <1>4, RdsSameQueue DEF R!comvars
<1>9. R!Kept'
  BY <1>1, <1>4, RdsSameKept DEF R!comvars, R!netvars
<1>10. R!ListsOk' /\ R!AvailOk' /\ R!Counted'
  <2>1. R!Granted' = R!Granted
    BY <1>1 DEF R!Granted
  <2> QED
    BY <1>1, <1>3, <2>1 DEF R!Inv, R!ListsOk, R!AvailOk, R!Counted
<1> QED
  BY <1>5, <1>6, <1>7, <1>8, <1>9, <1>10 DEF R!Inv, R!TypeOK

\* A reader takes its message: the buffer stays where it is, or goes from the cache to
\* the free list.
LEMMA RdsReadReturnsTo ==
  ASSUME R!Inv, R!Running, NEW p \in Procs, prmsg[p] # R!NOMSG, prmsg[p] # R!SYNCED, R!ReadReturns(p)
  PROVE  /\ buf' \in [R!Bufs -> R!Buffers]
         /\ \A c \in R!Bufs : buf'[c].op = buf[c].op /\ buf'[c].blk = buf[c].blk /\ buf'[c].val = buf[c].val
         /\ R!Partition(free', req, cache') /\ Len(free') + Len(cache') = Len(free) + Len(cache)
         /\ fault' \in {fault, "list walk"}
<1>1. R!Partition(free, req, cache)
  BY DEF R!Inv, R!ListsOk, R!Running
<1> DEFINE b == prmsg[p]
           k == R!SelectInSeq(cache, LAMBDA c : c = b)
           newer == R!SelectInSeq(cache, LAMBDA c : buf[c].blk = at[p].blk)
           unread == buf[b].ref - 1 <= 0
<1>2. b \in R!Bufs
  BY DEF R!Inv, R!TypeOK, R!UserType
<1>3. /\ buf' = [buf EXCEPT ![b].ref = @ - 1]
      /\ IF unread /\ k > 0 /\ newer < k
         THEN cache' = R!Without(cache, b) /\ free' = <<b>> \o free
         ELSE UNCHANGED <<cache, free>>
      /\ fault' = IF unread /\ k = 0 THEN "list walk" ELSE fault
  BY DEF R!ReadReturns
<1>4. IF k = 0 THEN b \notin R!On(cache) ELSE k \in 1 .. Len(cache) /\ cache[k] = b
  BY <1>1, RdsPositionIs DEF R!Partition
<1>5. k > 0 => b \in R!On(cache)
  <2>1. cache \in Seq(R!Bufs)
    BY <1>1 DEF R!Partition
  <2> HIDE DEF k
  <2>2. k # 0 => b \in R!On(cache)
    BY <1>4, <2>1 DEF R!On
  <2> QED
    BY <2>2
<1> HIDE DEF b, k, newer, unread
<1>6. buf[b] \in R!Buffers /\ buf \in [R!Bufs -> R!Buffers]
  BY <1>2 DEF R!Inv, R!TypeOK, R!BufferType
<1>7. /\ buf' \in [R!Bufs -> R!Buffers]
      /\ \A c \in R!Bufs : buf'[c].op = buf[c].op /\ buf'[c].blk = buf[c].blk /\ buf'[c].val = buf[c].val
  <2> DEFINE e == [buf[b] EXCEPT !.ref = @ - 1]
  <2>1. e \in R!Buffers /\ e.op = buf[b].op /\ e.blk = buf[b].blk /\ e.val = buf[b].val
    BY <1>6 DEF R!Buffers
  <2>2. buf' = [buf EXCEPT ![b] = e]
    BY <1>3, <1>6
  <2> HIDE DEF e
  <2> QED
    BY <1>2, <1>6, <2>1, <2>2
<1>8. R!Partition(free', req, cache') /\ Len(free') + Len(cache') = Len(free) + Len(cache)
  <2>1. CASE b \in R!On(cache) /\ cache' = R!Without(cache, b) /\ free' = <<b>> \o free
    <3>1. /\ R!Partition(<<b>> \o free, req, R!Without(cache, b))
          /\ Len(<<b>> \o free) + Len(R!Without(cache, b)) = Len(free) + Len(cache)
      BY <1>1, <2>1, RdsCacheToFree
    <3> QED
      BY <2>1, <3>1
  <2>2. CASE UNCHANGED <<cache, free>>
    BY <1>1, <2>2
  <2> QED
    BY <1>3, <1>5, <2>1, <2>2
<1> QED
  BY <1>3, <1>7, <1>8

LEMMA RdsReceiveKeeps ==
  ASSUME R!Inv, NEW p \in Procs, R!receive(p)
  PROVE  R!Inv'
<1>1. /\ R!Running /\ at[p].pc = "receive" /\ prmsg[p] # R!NOMSG
      /\ at' = [at EXCEPT ![p] = R!Idle] /\ prmsg' = [prmsg EXCEPT ![p] = R!NOMSG]
      /\ UNCHANGED <<rdstate, req, avail, reqsem, R!comvars, R!netvars, last, calls, overtaken, misplaced, unsent>>
  BY DEF R!receive
<1>2. /\ buf' \in [R!Bufs -> R!Buffers]
      /\ \A c \in R!Bufs : buf'[c].op = buf[c].op /\ buf'[c].blk = buf[c].blk /\ buf'[c].val = buf[c].val
      /\ R!Partition(free', req, cache') /\ Len(free') + Len(cache') = Len(free) + Len(cache)
      /\ fault' \in {fault, "list walk"}
  <2>1. CASE prmsg[p] = R!SYNCED
    <3>1. UNCHANGED <<buf, cache, free, fault>>
      BY <2>1 DEF R!receive
    <3> QED
      BY <1>1, <3>1 DEF R!Inv, R!ListsOk, R!Running, R!TypeOK, R!BufferType
  <2>2. CASE prmsg[p] # R!SYNCED
    <3>1. R!ReadReturns(p)
      BY <2>2 DEF R!receive
    <3> QED
      BY <1>1, <2>2, <3>1, RdsReadReturnsTo
  <2> QED
    BY <2>1, <2>2
<1>3. R!BufferType'
  <2>1. \A c \in R!Bufs : buf'[c].op = "write" => buf'[c].blk \in DiskBlocks
    BY <1>2 DEF R!Inv, R!TypeOK, R!BufferType
  <2> QED
    BY <1>1, <1>2, <2>1 DEF R!BufferType, R!Partition
<1>4. at' \in [Procs -> R!Callers] /\ at'[p] = R!Idle /\ \A q \in Procs \ {p} : at'[q] = at[q]
  <2>1. R!Idle \in R!Callers
    BY DEF R!Idle, R!Callers, R!Numbers, R!Bytes
  <2> QED
    BY <1>1, <2>1 DEF R!Inv, R!TypeOK, R!UserType
<1>5. R!Idle.op # "write" /\ R!Idle.pc # "alloc"
  BY DEF R!Idle
<1>6. R!UserType'
  <2>1. prmsg' \in [Procs -> R!Bufs \cup {R!NOMSG, R!SYNCED}]
    BY <1>1 DEF R!Inv, R!TypeOK, R!UserType
  <2> QED
    BY <1>4, <1>5, <2>1 DEF R!Inv, R!TypeOK, R!UserType
<1>7. R!OtherType'
  BY <1>1, <1>2 DEF R!Inv, R!TypeOK, R!OtherType
<1>8. R!ExchangeType' /\ R!ExchangeOk' /\ R!Numbered' /\ R!Replied'
  BY <1>1, RdsSameExchange
<1>9. R!QueueOk' /\ R!Kept'
  BY <1>1, <1>2, RdsSameQueue, RdsSameKept DEF R!comvars, R!netvars
<1>10. R!AvailOk'
  BY <1>1, <1>4 DEF R!Inv, R!AvailOk
<1>11. R!Granted' = R!Granted
  BY <1>1, <1>4, <1>5 DEF R!Granted
<1>12. R!ListsOk' /\ R!Counted'
  BY <1>1, <1>2, <1>11 DEF R!Inv, R!ListsOk, R!Counted, R!Running
<1> QED
  BY <1>3, <1>6, <1>7, <1>8, <1>9, <1>10, <1>12 DEF R!Inv, R!TypeOK

-----------------------------------------------------------------------------
(* rdsprocess.                                                             *)

\* A buffer more is free or in the cache, and rd_availsem is signalled.
LEMMA RdsFreedOne ==
  ASSUME R!Inv, R!Running, avail' = R!signal(avail), UNCHANGED <<at, overtaken>>,
         R!Partition(free, req, cache), R!Partition(free', req', cache'),
         Len(free') + Len(cache') = Len(free) + Len(cache) + 1
  PROVE  R!AvailOk' /\ R!Counted'
<1>1. /\ avail \in R!SemaphoreOf(Procs) /\ R!Waiting(avail) \subseteq {q \in Procs : at[q].pc = "alloc"}
  BY DEF R!Inv, R!AvailOk
<1>2. avail.count \in Int
  BY <1>1 DEF R!SemaphoreOf
<1>3. avail' \in R!SemaphoreOf(Procs) /\ avail'.count = avail.count + 1
  BY <1>1, RdsSignalled
<1>4. /\ R!Granted = {q \in Procs : at[q].pc = "alloc" /\ q \notin R!Waiting(avail)}
      /\ R!Granted' = {q \in Procs : at[q].pc = "alloc" /\ q \notin R!Waiting(avail')}
  BY RdsWaitsIff DEF R!Granted
<1>5. IsFiniteSet(R!Granted) /\ R!Cardinality(R!Granted) \in Int
  BY RemoteNumbers, FS_Subset, FS_CardinalityType, RdsCounts DEF R!Granted
<1> DEFINE g == R!Cardinality(R!Granted)
           l == Len(free) + Len(cache)
<1>6. l \in Int /\ Len(free') + Len(cache') = l + 1
  BY DEF R!Partition
<1>7. ~ overtaken => l = g + (IF avail.count > 0 THEN avail.count ELSE 0)
  BY DEF R!Inv, R!Counted, R!Running
<1>8. CASE avail.count < 0
  <2>1. PICK q \in Procs : q \in R!Waiting(avail) /\ R!Waiting(avail') = R!Waiting(avail) \ {q}
    BY <1>1, <1>8, RdsSignalled
  <2>2. R!AvailOk'
    BY <1>1, <1>3, <2>1 DEF R!AvailOk
  <2>3. R!Granted' = R!Granted \cup {q} /\ q \notin R!Granted
    BY <1>1, <1>4, <2>1
  <2>4. R!Cardinality(R!Granted') = g + 1
    BY <1>5, <2>3, FS_AddElement, RdsCounts
  <2>5. (IF avail'.count > 0 THEN avail'.count ELSE 0) = 0 /\ (IF avail.count > 0 THEN avail.count ELSE 0) = 0
    BY <1>2, <1>3, <1>8
  <2>6. R!Counted'
    <3> SUFFICES ASSUME ~ overtaken PROVE Len(free') + Len(cache') = R!Cardinality(R!Granted') + 0
      BY <2>5 DEF R!Counted
    <3>1. l = g + 0 /\ g \in Int
      BY <1>5, <1>7, <2>5
    <3> HIDE DEF g, l
    <3> QED
      BY <1>6, <2>4, <3>1
  <2> QED
    BY <2>2, <2>6
<1>9. CASE avail.count >= 0
  <2>1. avail'.queue = avail.queue
    BY <1>1, <1>9, RdsSignalled
  <2>2. R!Waiting(avail') = R!Waiting(avail)
    BY <2>1 DEF R!Waiting
  <2>3. R!AvailOk'
    BY <1>1, <1>3, <2>2 DEF R!AvailOk
  <2>4. R!Granted' = R!Granted
    BY <1>4, <2>2
  <2>5. /\ (IF avail'.count > 0 THEN avail'.count ELSE 0) = avail.count + 1
        /\ (IF avail.count > 0 THEN avail.count ELSE 0) = avail.count
    BY <1>2, <1>3, <1>9
  <2>6. R!Counted'
    <3> SUFFICES ASSUME ~ overtaken PROVE Len(free') + Len(cache') = g + (avail.count + 1)
      BY <2>4, <2>5 DEF R!Counted
    <3>1. l = g + avail.count /\ g \in Int
      BY <1>5, <1>7, <2>5
    <3> HIDE DEF g, l
    <3> QED
      BY <1>2, <1>6, <3>1
  <2> QED
    BY <2>3, <2>6
<1> QED
  BY <1>2, <1>8, <1>9

\* A message to a process that may have one.
LEMMA RdsMessageType ==
  ASSUME R!Inv, NEW q, NEW m \in R!Bufs \cup {R!SYNCED}, R!Message(q, m), UNCHANGED at
  PROVE  R!UserType'
<1>1. prmsg \in [Procs -> R!Bufs \cup {R!NOMSG, R!SYNCED}]
  BY DEF R!Inv, R!TypeOK, R!UserType
<1>2. prmsg' = prmsg \/ prmsg' = [prmsg EXCEPT ![q] = m]
  BY DEF R!Message
<1>3. prmsg' \in [Procs -> R!Bufs \cup {R!NOMSG, R!SYNCED}]
  BY <1>1, <1>2
<1> QED
  BY <1>3 DEF R!Inv, R!TypeOK, R!UserType

\* The head of the queue is gone: what is left of it, and where the last write of a block is.
LEMMA RdsHeadGone ==
  ASSUME R!Inv, req # <<>>, req' = Tail(req), UNCHANGED last, Head(req) \notin R!On(Tail(req)),
         \A c \in R!Bufs \ {Head(req)} :
            buf'[c].op = buf[c].op /\ buf'[c].blk = buf[c].blk /\ buf'[c].val = buf[c].val
  PROVE  /\ (\A k \in DOMAIN req : buf[req[k]].op # "none")
              => \A k \in DOMAIN req' : buf'[req'[k]].op # "none"
         /\ \A blk \in DiskBlocks : R!LastWrite(blk) =>
              /\ \A k \in 1 .. Len(req') :
                   R!Queued(k, blk)' /\ (\A j \in 1 .. Len(req') : k < j => ~ R!Queued(j, blk)')
                     => buf'[req'[k]].val = last'[blk]
              /\ (\A k \in 1 .. Len(req') : ~ R!Queued(k, blk)') =>
                   \/ \A k \in 1 .. Len(req) : ~ R!Queued(k, blk)
                   \/ R!Queued(1, blk) /\ buf[Head(req)].val = last[blk]
<1>1. req \in Seq(R!Bufs)
  BY DEF R!Inv, R!TypeOK, R!BufferType
<1> PICK n \in Nat : n = Len(Tail(req))
  BY <1>1, RdsOneLess
<1>2. /\ req' = Tail(req) /\ Len(req') = n /\ Len(req) = n + 1 /\ DOMAIN req' = 1 .. n /\ DOMAIN req = 1 .. (n + 1)
      /\ \A k \in 1 .. n : req'[k] = req[k + 1] /\ k + 1 \in 1 .. (n + 1) /\ req'[k] \in R!Bufs
      /\ Head(req) = req[1]
  BY <1>1, RdsOneLess
<1>3. \A k \in 1 .. n : req'[k] \in R!Bufs \ {Head(req)}
  BY <1>2 DEF R!On
<1>4. \A k \in 1 .. n : /\ buf'[req'[k]].op = buf[req[k + 1]].op
                        /\ buf'[req'[k]].blk = buf[req[k + 1]].blk
                        /\ buf'[req'[k]].val = buf[req[k + 1]].val
  BY <1>2, <1>3
<1>5. /\ \A k \in 1 .. (n + 1) : k = 1 \/ (k - 1 \in 1 .. n /\ k = (k - 1) + 1)
      /\ 1 \in 1 .. (n + 1)
      /\ \A j, k \in 1 .. n : j < k <=> j + 1 < k + 1
      /\ \A k \in 1 .. (n + 1) : ~ (k < 1)
  OBVIOUS
<1>6. (\A k \in 1 .. (n + 1) : buf[req[k]].op # "none") => \A k \in 1 .. n : buf'[req'[k]].op # "none"
  BY <1>2, <1>4
<1>7. ASSUME NEW blk \in DiskBlocks, R!LastWrite(blk)
      PROVE  /\ \A k \in 1 .. n :
                  R!Queued(k, blk)' /\ (\A j \in 1 .. n : k < j => ~ R!Queued(j, blk)')
                    => buf'[req'[k]].val = last'[blk]
             /\ (\A k \in 1 .. n : ~ R!Queued(k, blk)') =>
                  \/ \A k \in 1 .. (n + 1) : ~ R!Queued(k, blk)
                  \/ R!Queued(1, blk) /\ buf[Head(req)].val = last[blk]
  <2>1. \A k \in 1 .. (n + 1) : R!Queued(k, blk) /\ (\A j \in 1 .. (n + 1) : k < j => ~ R!Queued(j, blk))
                                  => buf[req[k]].val = last[blk]
    BY <1>2, <1>7 DEF R!LastWrite
  <2>2. \A k \in 1 .. n : R!Queued(k, blk)' <=> R!Queued(k + 1, blk)
    BY <1>4 DEF R!Queued
  <2>3. ASSUME NEW k \in 1 .. n, R!Queued(k, blk)', \A j \in 1 .. n : k < j => ~ R!Queued(j, blk)'
        PROVE  buf'[req'[k]].val = last'[blk]
    <3>1. ASSUME NEW j \in 1 .. (n + 1), k + 1 < j PROVE ~ R!Queued(j, blk)
      <4>1. j - 1 \in 1 .. n /\ j = (j - 1) + 1 /\ k < j - 1
        BY <3>1
      <4> QED
        BY <2>2, <2>3, <4>1
    <3>2. buf[req[k + 1]].val = last[blk]
      BY <1>2, <2>1, <2>2, <2>3, <3>1
    <3> QED
      BY <1>4, <3>2
  <2>4. ASSUME \A k \in 1 .. n : ~ R!Queued(k, blk)'
        PROVE  \/ \A k \in 1 .. (n + 1) : ~ R!Queued(k, blk)
               \/ R!Queued(1, blk) /\ buf[Head(req)].val = last[blk]
    <3>1. ASSUME NEW k \in 1 .. (n + 1), k # 1 PROVE ~ R!Queued(k, blk)
      <4>1. k - 1 \in 1 .. n /\ k = (k - 1) + 1
        BY <1>5, <3>1
      <4> QED
        BY <2>2, <2>4, <4>1
    <3>2. \A j \in 1 .. (n + 1) : 1 < j => j # 1
      OBVIOUS
    <3>3. R!Queued(1, blk) => buf[req[1]].val = last[blk]
      BY <1>5, <2>1, <3>1, <3>2
    <3> QED
      BY <1>2, <3>1, <3>3
  <2> QED
    BY <2>3, <2>4
<1> QED
  BY <1>2, <1>6, <1>7

\* rdsprocess takes the head of the queue.
RdsBegins(b) ==
  /\ R!Inv /\ R!Running /\ com.pc = "idle" /\ reqsem > 0 /\ reqsem' = reqsem - 1 /\ b = Head(req)
  /\ UNCHANGED <<rdstate, at, R!netvars, last, calls, overtaken, misplaced, unsent, fault>>

LEMMA RdsAtTheHead ==
  ASSUME NEW b, RdsBegins(b)
  PROVE  /\ com.op = "none" /\ req \in Seq(R!Bufs) /\ req # <<>> /\ Len(req) = reqsem /\ b \in R!Bufs
         /\ buf[b] \in R!Buffers /\ (buf[b].op = "write" => buf[b].blk \in DiskBlocks)
         /\ reqsem' \in Int /\ reqsem' >= 0 /\ reqsem = reqsem' + 1
         /\ R!Partition(free, req, cache) /\ R!OtherType'
<1>1. com.op = "none" /\ req \in Seq(R!Bufs) /\ reqsem \in Int
  BY DEF RdsBegins, R!Inv, R!ExchangeOk, R!Active, R!TypeOK, R!BufferType, R!OtherType
<1>2. Len(req) = reqsem
  BY <1>1 DEF RdsBegins, R!Inv, R!QueueOk, R!Running
<1>3. req # <<>> /\ b \in R!Bufs
  BY <1>1, <1>2 DEF RdsBegins
<1>4. reqsem' \in Int /\ reqsem' >= 0 /\ reqsem = reqsem' + 1
  BY <1>1 DEF RdsBegins
<1>5. R!OtherType'
  BY <1>4 DEF RdsBegins, R!Inv, R!TypeOK, R!OtherType
<1>6. buf[b] \in R!Buffers /\ (buf[b].op = "write" => buf[b].blk \in DiskBlocks) /\ R!Partition(free, req, cache)
  BY <1>3 DEF RdsBegins, R!Inv, R!TypeOK, R!BufferType, R!ListsOk, R!Running
<1> QED
  BY <1>1, <1>2, <1>3, <1>4, <1>5, <1>6

\* A new exchange has a number of its own.
LEMMA RdsExchangeBegins ==
  ASSUME NEW b, RdsBegins(b), NEW op \in {"read", "write"}, NEW blk \in DiskBlocks, NEW val \in R!Bytes,
         b \in R!Bufs, R!Exchange(op, b, blk, val), msgblk' \in DiskBlocks
  PROVE  /\ com'.op = op /\ com'.b = b /\ com'.blk = blk /\ com'.val = val
         /\ R!ExchangeType' /\ R!ExchangeOk' /\ R!Numbered' /\ R!Replied'
<1>1. /\ com \in R!Messages /\ rdseq \in Nat /\ net \in Seq(R!Messages) /\ replies \in Seq(R!Messages)
      /\ (\A k \in 1 .. Len(net) : R!Carries(net[k]) /\ net[k].op # "none") /\ store \in [DiskBlocks -> R!Bytes]
      /\ UNCHANGED <<net, replies, store>>
  BY DEF RdsBegins, R!Inv, R!TypeOK, R!ExchangeType, R!netvars
<1>2. /\ com' = [R!NoExchange EXCEPT !.pc = "send", !.op = op, !.b = b, !.blk = blk, !.val = val, !.seq = rdseq]
      /\ rdseq' = rdseq + 1
  BY DEF R!Exchange
<1>3. com' = [pc |-> "send", op |-> op, b |-> b, blk |-> blk, val |-> val, seq |-> rdseq, tries |-> 0, xmit |-> TRUE]
  BY <1>2 DEF R!NoExchange
<1>4. com' \in R!Messages
  BY <1>1, <1>3 DEF R!Messages, R!Numbers
<1>5. com'.pc = "send" /\ com'.op = op /\ com'.b = b /\ com'.blk = blk /\ com'.val = val /\ com'.seq = rdseq
  BY <1>3
<1>6. R!ExchangeType'
  BY <1>1, <1>2, <1>4, <1>5 DEF R!ExchangeType, R!Carries
<1>7. R!ExchangeOk'
  BY <1>5 DEF R!ExchangeOk, R!Active
<1>8. /\ \A k \in 1 .. Len(net) : net[k].seq \in Nat /\ net[k].seq < rdseq
      /\ \A k \in 1 .. Len(replies) : replies[k].seq \in Nat /\ replies[k].seq < rdseq
  <2>1. /\ \A k \in 1 .. Len(net) : net[k].seq < rdseq
        /\ \A k \in 1 .. Len(replies) : replies[k].seq < rdseq
    BY DEF RdsBegins, R!Inv, R!Numbered
  <2>2. /\ \A k \in 1 .. Len(net) : net[k] \in R!Messages
        /\ \A k \in 1 .. Len(replies) : replies[k] \in R!Messages
    BY <1>1
  <2> QED
    BY <2>1, <2>2 DEF R!Messages
<1>9. /\ \A k \in 1 .. Len(net) : net[k].seq < rdseq + 1 /\ net[k].seq # rdseq
      /\ \A k \in 1 .. Len(replies) : replies[k].seq < rdseq + 1 /\ replies[k].seq # rdseq
      /\ rdseq = (rdseq + 1) - 1
  BY <1>1, <1>8
<1>10. R!Numbered'
  BY <1>1, <1>2, <1>5, <1>9 DEF R!Numbered, RdsBegins, R!Inv
<1>11. R!Replied'
  BY <1>1, <1>5, <1>9 DEF R!Replied
<1> QED
  BY <1>5, <1>6, <1>7, <1>10, <1>11

LEMMA RdsTakeReadKeeps ==
  ASSUME NEW b, RdsBegins(b), buf[b].op = "read", R!TakeRead(b)
  PROVE  R!Inv'
<1>1. /\ com.op = "none" /\ req \in Seq(R!Bufs) /\ req # <<>> /\ Len(req) = reqsem /\ b \in R!Bufs
      /\ reqsem' \in Int /\ reqsem' >= 0 /\ reqsem = reqsem' + 1 /\ R!OtherType'
  BY RdsAtTheHead
<1>2. R!Exchange("read", b, msgblk, 0) /\ UNCHANGED <<free, req, cache, buf, avail, prmsg, msgblk>>
  BY DEF R!TakeRead
<1>3. msgblk \in DiskBlocks /\ msgblk' \in DiskBlocks /\ 0 \in R!Bytes
  BY <1>2 DEF RdsBegins, R!Inv, R!TypeOK, R!ExchangeType, R!Bytes
<1>4. /\ com'.op = "read" /\ com'.b = b
      /\ R!ExchangeType' /\ R!ExchangeOk' /\ R!Numbered' /\ R!Replied'
  BY <1>1, <1>2, <1>3, RdsExchangeBegins
<1>5. R!BufferType' /\ R!UserType'
  BY <1>2 DEF RdsBegins, R!Inv, R!TypeOK, R!BufferType, R!UserType
<1>6. R!ListsOk' /\ R!AvailOk'
  BY <1>2 DEF RdsBegins, R!Inv, R!ListsOk, R!AvailOk
<1>7. R!Counted'
  BY <1>2 DEF RdsBegins, R!Inv, R!Counted, R!Granted
<1>8. R!QueueOk'
  <2>1. Len(req) = reqsem' + 1
    BY <1>1
  <2> QED
    BY <1>1, <1>2, <1>4, <2>1 DEF RdsBegins, R!Inv, R!QueueOk
<1>9. R!Kept'
  <2> SUFFICES ASSUME ~ unsent, ~ misplaced, NEW blk \in DiskBlocks
               PROVE  R!LastWrite(blk)'
    BY DEF R!Kept, RdsBegins
  <2>1. R!LastWrite(blk)
    BY DEF RdsBegins, R!Inv, R!Kept, R!Running
  <2>2. UNCHANGED <<net, store, last>>
    BY DEF RdsBegins, R!netvars
  <2>3. \A k : R!Queued(k, blk)' <=> R!Queued(k, blk)
    BY <1>2 DEF R!Queued
  <2>4. R!LastSent(blk)' <=> R!LastSent(blk)
    BY <2>2 DEF R!LastSent, R!Sent
  <2> QED
    BY <1>1, <1>2, <1>4, <2>1, <2>2, <2>3, <2>4 DEF R!LastWrite
<1> QED
  BY <1>1, <1>4, <1>5, <1>6, <1>7, <1>8, <1>9 DEF R!Inv, R!TypeOK

LEMMA RdsTakeWriteKeeps ==
  ASSUME NEW b, RdsBegins(b), buf[b].op = "write", R!TakeWrite(b)
  PROVE  R!Inv'
<1>1. /\ com.op = "none" /\ req \in Seq(R!Bufs) /\ req # <<>> /\ Len(req) = reqsem /\ b \in R!Bufs
      /\ buf[b] \in R!Buffers /\ buf[b].blk \in DiskBlocks
      /\ reqsem' \in Int /\ reqsem' >= 0 /\ reqsem = reqsem' + 1 /\ R!OtherType'
      /\ R!Partition(free, req, cache) /\ b = Head(req) /\ fault' = fault /\ fault = "none"
  BY RdsAtTheHead DEF RdsBegins, R!Running
<1>2. /\ msgblk' = buf[b].blk /\ R!Exchange("write", b, buf[b].blk, buf[b].val)
      /\ req' = Tail(req) /\ cache' = <<b>> \o cache /\ buf' = [buf EXCEPT ![b].ref = 0]
      /\ avail' = R!signal(avail) /\ UNCHANGED <<free, prmsg>>
  BY DEF R!TakeWrite
<1>3. buf[b].val \in R!Bytes
  BY <1>1 DEF R!Buffers
<1>4. /\ com'.op = "write" /\ com'.blk = buf[b].blk /\ com'.val = buf[b].val
      /\ R!ExchangeType' /\ R!ExchangeOk' /\ R!Numbered' /\ R!Replied'
  BY <1>1, <1>2, <1>3, RdsExchangeBegins
<1>5. /\ R!Partition(free', req', cache') /\ Len(free') + Len(cache') = Len(free) + Len(cache) + 1
      /\ b \notin R!On(Tail(req)) /\ Len(req) = Len(Tail(req)) + 1 /\ Len(Tail(req)) \in Nat
  BY <1>1, <1>2, RdsReqToCache
<1>6. /\ buf' \in [R!Bufs -> R!Buffers]
      /\ \A c \in R!Bufs : buf'[c].op = buf[c].op /\ buf'[c].blk = buf[c].blk /\ buf'[c].val = buf[c].val
  <2> DEFINE e == [buf[b] EXCEPT !.ref = 0]
  <2>1. e \in R!Buffers /\ e.op = buf[b].op /\ e.blk = buf[b].blk /\ e.val = buf[b].val
    BY <1>1 DEF R!Buffers
  <2>2. buf' = [buf EXCEPT ![b] = e]
    BY <1>2
  <2>3. buf \in [R!Bufs -> R!Buffers]
    BY DEF RdsBegins, R!Inv, R!TypeOK, R!BufferType
  <2> HIDE DEF e
  <2> QED
    BY <1>1, <2>1, <2>2, <2>3
<1>7. R!BufferType'
  <2>1. \A c \in R!Bufs : buf'[c].op = "write" => buf'[c].blk \in DiskBlocks
    BY <1>6 DEF RdsBegins, R!Inv, R!TypeOK, R!BufferType
  <2> QED
    BY <1>5, <1>6, <2>1 DEF R!BufferType, R!Partition
<1>8. R!UserType'
  BY <1>2 DEF RdsBegins, R!Inv, R!TypeOK, R!UserType
<1>9. R!AvailOk' /\ R!Counted'
  BY <1>1, <1>2, <1>5, RdsFreedOne DEF RdsBegins
<1>10. R!ListsOk'
  BY <1>5 DEF R!ListsOk
<1>11. R!QueueOk'
  <2>1. \A k \in DOMAIN req' : buf'[req'[k]].op # "none"
    BY <1>1, <1>2, <1>5, <1>6, RdsHeadGone DEF RdsBegins, R!Inv, R!QueueOk
  <2>2. Len(req') = reqsem' /\ reqsem' \in Int /\ reqsem' >= 0
    <3>1. req' = Tail(req) /\ reqsem' \in Int /\ reqsem' >= 0 /\ Len(Tail(req)) + 1 = reqsem' + 1
      BY <1>1, <1>2, <1>5
    <3>2. Len(Tail(req)) \in Int
      BY <1>5
    <3> QED
      BY ONLY <3>1, <3>2
  <2>3. reqsem' + 0 = reqsem'
    <3>1. \A n \in Int : n + 0 = n
      OBVIOUS
    <3> QED
      BY <2>2, <3>1, Zenon
  <2>4. com'.op # "read"
    BY <1>4
  <2> QED
    BY <2>1, <2>2, <2>3, <2>4 DEF R!QueueOk
<1>12. R!Kept'
  <2> SUFFICES ASSUME ~ unsent, ~ misplaced, NEW blk \in DiskBlocks
               PROVE  R!LastWrite(blk)'
    BY DEF R!Kept, RdsBegins
  <2>1. R!LastWrite(blk)
    BY DEF RdsBegins, R!Inv, R!Kept, R!Running
  <2>2. UNCHANGED <<net, store, last>>
    BY DEF RdsBegins, R!netvars
  <2>3. R!LastSent(blk)' <=> R!LastSent(blk)
    BY <2>2 DEF R!LastSent, R!Sent
  <2>4. /\ \A k \in 1 .. Len(req') :
             R!Queued(k, blk)' /\ (\A j \in 1 .. Len(req') : k < j => ~ R!Queued(j, blk)')
               => buf'[req'[k]].val = last'[blk]
        /\ (\A k \in 1 .. Len(req') : ~ R!Queued(k, blk)') =>
             \/ \A k \in 1 .. Len(req) : ~ R!Queued(k, blk)
             \/ R!Queued(1, blk) /\ buf[Head(req)].val = last[blk]
    BY <1>1, <1>2, <1>5, <1>6, <2>1, <2>2, RdsHeadGone DEF RdsBegins
  <2>5. R!Queued(1, blk) <=> buf[b].blk = blk
    BY <1>1, RdsOneLess DEF R!Queued
  <2>6. 1 \in 1 .. Len(req)
    BY <1>5
  <2>7. ASSUME \A k \in 1 .. Len(req) : ~ R!Queued(k, blk)
        PROVE  R!LastSent(blk) /\ com'.blk # blk
    BY <1>1, <1>4, <2>1, <2>5, <2>6, <2>7 DEF R!LastWrite
  <2>8. ASSUME R!Queued(1, blk), buf[Head(req)].val = last[blk]
        PROVE  com'.blk = blk /\ com'.val = last'[blk]
    BY <1>1, <1>4, <2>2, <2>5, <2>8
  <2> QED
    BY <1>4, <2>2, <2>3, <2>4, <2>7, <2>8 DEF R!LastWrite
<1> QED
  BY <1>1, <1>4, <1>7, <1>8, <1>9, <1>10, <1>11, <1>12 DEF R!Inv, R!TypeOK

LEMMA RdsTakeSyncKeeps ==
  ASSUME NEW b, RdsBegins(b), buf[b].op = "sync", R!TakeSync(b)
  PROVE  R!Inv'
<1>1. /\ com.op = "none" /\ req \in Seq(R!Bufs) /\ req # <<>> /\ Len(req) = reqsem /\ b \in R!Bufs
      /\ reqsem' \in Int /\ reqsem' >= 0 /\ reqsem = reqsem' + 1 /\ R!OtherType'
      /\ R!Partition(free, req, cache) /\ b = Head(req) /\ fault' = fault /\ fault = "none"
  BY RdsAtTheHead DEF RdsBegins, R!Running
<1>2. /\ R!Message(buf[b].pid, R!SYNCED) /\ req' = Tail(req) /\ free' = <<b>> \o free
      /\ avail' = R!signal(avail) /\ UNCHANGED <<cache, buf, com, rdseq, msgblk>>
  BY DEF R!TakeSync
<1>3. UNCHANGED <<com, rdseq, msgblk, net, replies, store, last, at>>
  BY <1>2 DEF RdsBegins, R!netvars
<1>4. R!ExchangeType' /\ R!ExchangeOk' /\ R!Numbered' /\ R!Replied'
  BY <1>3, RdsSameExchange DEF RdsBegins, R!comvars, R!netvars
<1>5. /\ R!Partition(free', req', cache') /\ Len(free') + Len(cache') = Len(free) + Len(cache) + 1
      /\ b \notin R!On(Tail(req)) /\ Len(req) = Len(Tail(req)) + 1 /\ Len(Tail(req)) \in Nat
  <2>1. /\ R!Partition(<<Head(req)>> \o free, Tail(req), cache)
        /\ Len(<<Head(req)>> \o free) + Len(cache) = Len(free) + Len(cache) + 1
        /\ Head(req) \notin R!On(Tail(req)) /\ Len(req) = Len(Tail(req)) + 1 /\ Len(Tail(req)) \in Nat
    <3>1. R!Partition(free, req, cache) /\ req # <<>>
      BY <1>1
    <3> QED
      BY ONLY <3>1, RdsReqToFree
  <2>2. b = Head(req)
    BY <1>1
  <2> QED
    BY <1>2, <2>1, <2>2
<1>6. R!BufferType'
  BY <1>2, <1>5 DEF RdsBegins, R!Inv, R!TypeOK, R!BufferType, R!Partition
<1>7. R!UserType'
  BY <1>2, <1>3, RdsMessageType DEF RdsBegins
<1>8. R!AvailOk' /\ R!Counted'
  BY <1>1, <1>2, <1>5, RdsFreedOne DEF RdsBegins
<1>9. R!ListsOk'
  BY <1>5 DEF R!ListsOk
<1>10. R!QueueOk'
  <2>1. \A k \in DOMAIN req' : buf'[req'[k]].op # "none"
    BY <1>1, <1>2, <1>3, <1>5, RdsHeadGone DEF RdsBegins, R!Inv, R!QueueOk
  <2>2. Len(req') = reqsem' /\ reqsem' \in Int /\ reqsem' >= 0
    <3>1. req' = Tail(req) /\ reqsem' \in Int /\ reqsem' >= 0 /\ Len(Tail(req)) + 1 = reqsem' + 1
      BY <1>1, <1>2, <1>5
    <3>2. Len(Tail(req)) \in Int
      BY <1>5
    <3> QED
      BY ONLY <3>1, <3>2
  <2>3. reqsem' + 0 = reqsem'
    <3>1. \A n \in Int : n + 0 = n
      OBVIOUS
    <3> QED
      BY <2>2, <3>1, Zenon
  <2>4. com'.op # "read"
    BY <1>1, <1>3
  <2> QED
    BY <2>1, <2>2, <2>3, <2>4 DEF R!QueueOk
<1>11. R!Kept'
  <2> SUFFICES ASSUME ~ unsent, ~ misplaced, NEW blk \in DiskBlocks
               PROVE  R!LastWrite(blk)'
    BY DEF R!Kept, RdsBegins
  <2>1. R!LastWrite(blk)
    BY DEF RdsBegins, R!Inv, R!Kept, R!Running
  <2>2. R!LastSent(blk)' <=> R!LastSent(blk)
    BY <1>3 DEF R!LastSent, R!Sent
  <2>3. /\ \A k \in 1 .. Len(req') :
             R!Queued(k, blk)' /\ (\A j \in 1 .. Len(req') : k < j => ~ R!Queued(j, blk)')
               => buf'[req'[k]].val = last'[blk]
        /\ (\A k \in 1 .. Len(req') : ~ R!Queued(k, blk)') =>
             \/ \A k \in 1 .. Len(req) : ~ R!Queued(k, blk)
             \/ R!Queued(1, blk) /\ buf[Head(req)].val = last[blk]
    BY <1>1, <1>2, <1>3, <1>5, <2>1, RdsHeadGone DEF RdsBegins
  <2>4. ~ R!Queued(1, blk)
    BY <1>1, RdsOneLess DEF R!Queued
  <2> QED
    BY <1>1, <1>3, <2>1, <2>2, <2>3, <2>4 DEF R!LastWrite
<1> QED
  BY <1>1, <1>4, <1>6, <1>7, <1>8, <1>9, <1>10, <1>11 DEF R!Inv, R!TypeOK

LEMMA RdsProcessKeeps ==
  ASSUME R!Inv, R!rdsprocess
  PROVE  R!Inv'
<1> DEFINE b == Head(req)
<1>1. RdsBegins(b)
  BY DEF R!rdsprocess, RdsBegins
<1>2. \/ buf[b].op = "read" /\ R!TakeRead(b)
      \/ buf[b].op = "write" /\ R!TakeWrite(b)
      \/ buf[b].op = "sync" /\ R!TakeSync(b)
  BY DEF R!rdsprocess
<1> HIDE DEF b
<1> QED
  BY <1>1, <1>2, RdsTakeReadKeeps, RdsTakeWriteKeeps, RdsTakeSyncKeeps

-----------------------------------------------------------------------------
(* rdscomm and the server.                                                 *)

\* rdscomm tries again, or waits: the request and its number are the same.
RdsSameRequest ==
  /\ R!Active /\ com'.pc # "idle" /\ com'.op = com.op /\ com'.b = com.b /\ com'.blk = com.blk
  /\ com'.val = com.val /\ com'.seq = com.seq /\ com' \in R!Messages

LEMMA RdsRetried ==
  /\ \A x \in BOOLEAN : \A c \in R!Messages :
        [c EXCEPT !.pc = "send", !.tries = @ + 1, !.xmit = x] \in R!Messages
  /\ \A c \in R!Messages : [c EXCEPT !.pc = "recv", !.xmit = TRUE] \in R!Messages
<1>1. ASSUME NEW x \in BOOLEAN, NEW c \in R!Messages
      PROVE  [c EXCEPT !.pc = "send", !.tries = @ + 1, !.xmit = x] \in R!Messages
  <2>1. c.tries + 1 \in Int
    BY DEF R!Messages
  <2>2. [c EXCEPT !.tries = c.tries + 1] \in R!Messages
    BY <2>1 DEF R!Messages
  <2>3. \A d \in R!Messages : [d EXCEPT !.pc = "send"] \in R!Messages
    BY DEF R!Messages
  <2>4. \A d \in R!Messages : [d EXCEPT !.xmit = x] \in R!Messages
    BY Zenon DEF R!Messages
  <2>5. [[[c EXCEPT !.tries = c.tries + 1] EXCEPT !.pc = "send"] EXCEPT !.xmit = x] \in R!Messages
    BY <2>2, <2>3, <2>4
  <2> QED
    BY <2>5 DEF R!Messages
<1>2. ASSUME NEW c \in R!Messages
      PROVE  [c EXCEPT !.pc = "recv", !.xmit = TRUE] \in R!Messages
  BY DEF R!Messages
<1> QED
  BY <1>1, <1>2

LEMMA RdsTryIsSame ==
  ASSUME R!Inv, R!Active, NEW x \in BOOLEAN, R!TryAgain(x)
  PROVE  RdsSameRequest
<1>1. com \in R!Messages
  BY DEF R!Inv, R!TypeOK, R!ExchangeType
<1>2. com' = [com EXCEPT !.pc = "send", !.tries = @ + 1, !.xmit = x]
  BY DEF R!TryAgain
<1>3. com' \in R!Messages
  BY <1>1, <1>2, RdsRetried
<1>4. /\ com'.pc = "send" /\ com'.op = com.op /\ com'.b = com.b /\ com'.blk = com.blk
      /\ com'.val = com.val /\ com'.seq = com.seq
  BY <1>1, <1>2 DEF R!Messages
<1> QED
  BY <1>3, <1>4 DEF RdsSameRequest

\* What does not touch the lists, while rdscomm is at work.
LEMMA RdsSameLists ==
  ASSUME R!Inv, R!Running, RdsSameRequest, UNCHANGED <<R!listvars, avail, reqsem, at, prmsg, rdseq, msgblk, store,
                                                last, overtaken, misplaced, unsent, fault>>
  PROVE  /\ R!BufferType' /\ R!UserType' /\ R!OtherType' /\ R!ListsOk' /\ R!QueueOk' /\ R!ExchangeOk'
         /\ R!AvailOk' /\ R!Counted'
<1>1. UNCHANGED <<free, req, cache, buf>>
  BY DEF R!listvars
<1>2. R!BufferType' /\ R!UserType' /\ R!OtherType'
  BY <1>1 DEF R!Inv, R!TypeOK, R!BufferType, R!UserType, R!OtherType
<1>3. R!ListsOk' /\ R!QueueOk'
  BY <1>1 DEF R!Inv, R!ListsOk, R!QueueOk, RdsSameRequest
<1>4. R!ExchangeOk'
  BY DEF R!Inv, R!ExchangeOk, RdsSameRequest, R!Active
<1>5. R!AvailOk' /\ R!Counted'
  BY <1>1 DEF R!Inv, R!AvailOk, R!Counted, R!Granted
<1> QED
  BY <1>2, <1>3, <1>4, <1>5

LEMMA RdsTailOf ==
  ASSUME NEW S, NEW s \in Seq(S), s # <<>>
  PROVE  /\ Tail(s) \in Seq(S) /\ Len(Tail(s)) \in Nat /\ Len(s) = Len(Tail(s)) + 1
         /\ \A k \in 1 .. Len(Tail(s)) : Tail(s)[k] = s[k + 1] /\ k + 1 \in 1 .. Len(s)
         /\ Head(s) = s[1] /\ 1 \in 1 .. Len(s) /\ Head(s) \in S
<1>1. Tail(s) \in Seq(S) /\ Len(Tail(s)) \in Nat /\ Len(s) = Len(Tail(s)) + 1
  OBVIOUS
<1>2. \A k \in 1 .. Len(Tail(s)) : Tail(s)[k] = s[k + 1]
  OBVIOUS
<1>3. \A k \in 1 .. Len(Tail(s)) : k + 1 \in 1 .. Len(s)
  BY <1>1
<1>4. Head(s) = s[1] /\ 1 \in 1 .. Len(s) /\ Head(s) \in S
  OBVIOUS
<1> QED
  BY <1>1, <1>2, <1>3, <1>4

\* Nothing is sent; a reply may be taken.
LEMMA RdsWaitsOn ==
  ASSUME R!Inv, R!Running, RdsSameRequest,
         replies' = replies \/ (replies # <<>> /\ replies' = Tail(replies)), net' = net,
         UNCHANGED <<R!listvars, avail, reqsem, at, prmsg, rdseq, msgblk, store,
                     last, overtaken, misplaced, unsent, fault>>
  PROVE  R!Inv'
<1>1. /\ R!BufferType' /\ R!UserType' /\ R!OtherType' /\ R!ListsOk' /\ R!QueueOk' /\ R!ExchangeOk' /\ R!AvailOk' /\ R!Counted'
  BY RdsSameLists
<1>2. replies \in Seq(R!Messages) /\ R!ExchangeType
  BY DEF R!Inv, R!TypeOK, R!ExchangeType
<1>3. /\ replies' \in Seq(R!Messages)
      /\ \A k \in 1 .. Len(replies') : \E j \in 1 .. Len(replies) : replies'[k] = replies[j]
  <2>1. CASE replies' = replies
    BY <1>2, <2>1
  <2>2. CASE replies # <<>> /\ replies' = Tail(replies)
    <3>1. Tail(replies) \in Seq(R!Messages)
          /\ \A k \in 1 .. Len(Tail(replies)) : Tail(replies)[k] = replies[k + 1] /\ k + 1 \in 1 .. Len(replies)
      BY <1>2, <2>2, RdsTailOf
    <3> QED
      BY <2>2, <3>1
  <2> QED
    BY <2>1, <2>2
<1>4. R!ExchangeType'
  BY <1>2, <1>3 DEF R!ExchangeType, RdsSameRequest, R!Carries
<1>5. R!Numbered'
  <2>1. \A k \in 1 .. Len(replies') : replies'[k].seq < rdseq
    BY <1>3 DEF R!Inv, R!Numbered
  <2> QED
    BY <2>1 DEF R!Inv, R!Numbered, RdsSameRequest, R!Active
<1>6. R!Replied'
  <2>1. ASSUME NEW k \in 1 .. Len(replies'), replies'[k].seq = com.seq
        PROVE  \E j \in 1 .. Len(replies) : replies[j].seq = com.seq
    BY <1>3, <2>1
  <2> QED
    BY <2>1 DEF R!Inv, R!Replied, RdsSameRequest, R!Active
<1>7. R!Kept'
  <2>1. UNCHANGED <<req, buf>>
    BY DEF R!listvars
  <2> QED
    BY <2>1 DEF R!Inv, R!Kept, R!LastWrite, R!LastSent, R!Sent, R!Queued, RdsSameRequest
<1> QED
  BY <1>1, <1>4, <1>5, <1>6, <1>7 DEF R!Inv, R!TypeOK

LEMMA RdsTimesOutKeeps ==
  ASSUME R!Inv, R!TimesOut
  PROVE  R!Inv'
<1>1. /\ R!Running /\ com.pc = "recv" /\ R!TryAgain(TRUE)
      /\ UNCHANGED <<R!listvars, avail, reqsem, at, prmsg, rdseq, msgblk, R!netvars, last,
                     overtaken, misplaced, unsent, fault>>
  BY DEF R!TimesOut
<1>2. R!Active
  BY <1>1 DEF R!Active
<1>3. RdsSameRequest
  BY <1>1, <1>2, RdsTryIsSame
<1> QED
  BY <1>1, <1>3, RdsWaitsOn DEF R!netvars

LEMMA RdsGivesUpKeeps ==
  ASSUME R!Inv, R!GivesUp
  PROVE  R!Inv'
<1>1. /\ R!Running /\ fault' = "timeout"
      /\ UNCHANGED <<R!listvars, avail, reqsem, at, prmsg, R!comvars, R!netvars, last,
                     overtaken, misplaced, unsent>>
  BY DEF R!GivesUp
<1>2. UNCHANGED <<free, req, cache, buf>>
  BY <1>1 DEF R!listvars
<1>3. R!BufferType' /\ R!UserType' /\ R!OtherType'
  BY <1>1, <1>2 DEF R!Inv, R!TypeOK, R!BufferType, R!UserType, R!OtherType
<1>4. R!ExchangeType' /\ R!ExchangeOk' /\ R!Numbered' /\ R!Replied'
  BY <1>1, RdsSameExchange
<1>5. R!QueueOk' /\ R!Counted' /\ R!Kept'
  BY <1>1 DEF R!QueueOk, R!Counted, R!Kept
<1>6. R!ListsOk' /\ R!AvailOk'
  BY <1>1, <1>2 DEF R!Inv, R!ListsOk, R!AvailOk, R!Running
<1> QED
  BY <1>3, <1>4, <1>5, <1>6 DEF R!Inv, R!TypeOK

LEMMA RdsTransmitKeeps ==
  ASSUME R!Inv, R!Transmit
  PROVE  R!Inv'
<1>1. /\ R!Running /\ com.pc = "send" /\ com' = [com EXCEPT !.pc = "recv", !.xmit = TRUE]
      /\ (net' = net \/ net' = Append(net, com))
      /\ UNCHANGED <<R!listvars, avail, reqsem, at, prmsg, rdseq, msgblk, replies, store, last,
                     overtaken, misplaced, unsent, fault>>
  BY DEF R!Transmit
<1>2. com \in R!Messages /\ R!Carries(com) /\ net \in Seq(R!Messages) /\ rdseq \in Nat /\ R!ExchangeType
  BY DEF R!Inv, R!TypeOK, R!ExchangeType
<1>3. R!Active /\ com.op # "none" /\ com.seq = rdseq - 1 /\ com.seq \in Nat
  BY <1>1, <1>2 DEF R!Inv, R!ExchangeOk, R!Active, R!Numbered, R!Messages
<1>4. RdsSameRequest
  <2>1. com' \in R!Messages
    BY <1>1, <1>2, RdsRetried
  <2>2. /\ com'.pc = "recv" /\ com'.op = com.op /\ com'.b = com.b /\ com'.blk = com.blk
        /\ com'.val = com.val /\ com'.seq = com.seq
    BY <1>1, <1>2 DEF R!Messages
  <2> QED
    BY <1>3, <2>1, <2>2 DEF RdsSameRequest
<1>5. CASE net' = net
  BY <1>1, <1>4, <1>5, RdsWaitsOn
<1>6. CASE net' = Append(net, com)
  <2>1. /\ R!BufferType' /\ R!UserType' /\ R!OtherType' /\ R!ListsOk' /\ R!QueueOk' /\ R!ExchangeOk' /\ R!AvailOk' /\ R!Counted'
    BY <1>1, <1>4, RdsSameLists
  <2> PICK n \in Nat : n = Len(net)
    BY <1>2
  <2>2. /\ net' \in Seq(R!Messages) /\ Len(net') = n + 1 /\ Len(net) = n
        /\ \A k \in 1 .. n : net'[k] = net[k]
    BY <1>2, <1>6
  <2>3. net'[n + 1] = com
    BY <1>2, <1>6
  <2>4. /\ \A k \in 1 .. (n + 1) : k \in 1 .. n \/ k = n + 1
        /\ \A k \in 1 .. n : k < n + 1 /\ k \in 1 .. (n + 1)
        /\ n + 1 \in 1 .. (n + 1)
    OBVIOUS
  <2>5. R!ExchangeType'
    <3>1. \A k \in 1 .. (n + 1) : R!Carries(net'[k]) /\ net'[k].op # "none"
      BY <1>2, <1>3, <2>2, <2>3, <2>4 DEF R!ExchangeType
    <3>2. \A k \in 1 .. Len(net') : (R!Carries(net[k]) /\ net[k].op # "none")'
      BY <2>2, <3>1 DEF R!Carries
    <3>3. R!Carries(com)'
      BY <1>2, <1>4 DEF RdsSameRequest, R!Carries
    <3> QED
      BY <1>1, <1>2, <1>4, <2>2, <3>2, <3>3 DEF R!ExchangeType, RdsSameRequest
  <2>6. \A k \in 1 .. n : net[k].seq < rdseq /\ net[k].seq \in Nat
    <3>1. \A k \in 1 .. n : net[k] \in R!Messages
      BY <1>2, <2>2
    <3> QED
      BY <2>2, <3>1 DEF R!Inv, R!Numbered, R!Messages
  <2>7. \A k \in 1 .. n : net[k].seq <= com.seq
    BY <1>2, <1>3, <2>6
  <2>8. com.seq < rdseq
    BY <1>2, <1>3
  <2>9. R!Numbered'
    <3>1. R!Active' /\ com'.seq = rdseq - 1 /\ com'.seq = com.seq
      BY <1>3, <1>4 DEF RdsSameRequest, R!Active
    <3>2. \A k \in 1 .. Len(replies) : replies[k].seq < rdseq
      BY DEF R!Inv, R!Numbered
    <3>3. \A k \in 1 .. (n + 1) : net'[k].seq < rdseq
      BY <2>2, <2>3, <2>4, <2>6, <2>8
    <3>4. ASSUME NEW j \in 1 .. (n + 1), NEW k \in 1 .. (n + 1), j < k
          PROVE  net'[j].seq <= net'[k].seq
      <4>1. CASE k \in 1 .. n
        <5>1. j \in 1 .. n
          BY <3>4, <4>1
        <5> QED
          BY <2>2, <3>4, <4>1, <5>1 DEF R!Inv, R!Numbered
      <4>2. CASE k = n + 1
        <5>1. j \in 1 .. n
          BY <3>4, <4>2
        <5> QED
          BY <2>2, <2>3, <2>7, <4>2, <5>1
      <4> QED
        BY <2>4, <4>1, <4>2
    <3>5. \A k \in 1 .. (n + 1) : net'[k].seq = com.seq =>
                                    net'[k].op = com.op /\ net'[k].blk = com.blk /\ net'[k].val = com.val
      BY <1>3, <2>2, <2>3, <2>4 DEF R!Inv, R!Numbered
    <3> QED
      BY <1>1, <1>4, <2>2, <3>1, <3>2, <3>3, <3>4, <3>5 DEF R!Numbered, RdsSameRequest
  <2>10. R!Replied'
    <3> SUFFICES ASSUME NEW k \in 1 .. Len(replies), replies[k].seq = com.seq
                 PROVE  /\ \A i \in 1 .. (n + 1) : net'[i].seq = com.seq
                        /\ com.op = "write" => store[com.blk] = com.val
      BY <1>1, <1>4, <2>2 DEF R!Replied, RdsSameRequest
    <3>1. /\ \A i \in 1 .. n : net[i].seq = com.seq
          /\ com.op = "write" => store[com.blk] = com.val
      BY <1>3, <2>2 DEF R!Inv, R!Replied
    <3> QED
      BY <2>2, <2>3, <2>4, <3>1
  <2>11. R!Kept'
    <3> SUFFICES ASSUME ~ unsent, ~ misplaced, NEW blk \in DiskBlocks
                 PROVE  R!LastWrite(blk)'
      BY <1>1 DEF R!Kept
    <3>1. R!LastWrite(blk)
      BY <1>1 DEF R!Inv, R!Kept, R!Running
    <3>2. UNCHANGED <<req, buf>>
      BY <1>1 DEF R!listvars
    <3>3. \A k : R!Queued(k, blk)' <=> R!Queued(k, blk)
      BY <3>2 DEF R!Queued
    <3>4. CASE com.op = "write" /\ com.blk = blk
      BY <1>1, <1>4, <3>1, <3>2, <3>3, <3>4 DEF R!LastWrite, RdsSameRequest
    <3>5. CASE ~ (com.op = "write" /\ com.blk = blk)
      <4>1. ~ R!Sent(n + 1, blk)' /\ \A k \in 1 .. n : R!Sent(k, blk)' <=> R!Sent(k, blk)
        BY <2>2, <2>3, <3>5 DEF R!Sent
      <4>2. ASSUME R!LastSent(blk) PROVE R!LastSent(blk)'
        <5>1. CASE \E k \in 1 .. n : /\ R!Sent(k, blk) /\ net[k].val = last[blk]
                                     /\ \A j \in 1 .. n : k < j => ~ R!Sent(j, blk)
          <6>1. PICK k \in 1 .. n : /\ R!Sent(k, blk) /\ net[k].val = last[blk]
                                    /\ \A j \in 1 .. n : k < j => ~ R!Sent(j, blk)
            BY <5>1
          <6>2. k \in 1 .. (n + 1) /\ R!Sent(k, blk)' /\ net'[k].val = last'[blk]
            BY <1>1, <2>2, <2>4, <4>1, <6>1
          <6>3. \A j \in 1 .. (n + 1) : k < j => ~ R!Sent(j, blk)'
            BY <2>4, <4>1, <6>1
          <6> QED
            BY <2>2, <6>2, <6>3 DEF R!LastSent
        <5>2. CASE (\A k \in 1 .. n : ~ R!Sent(k, blk)) /\ store[blk] = last[blk]
          <6>1. \A k \in 1 .. (n + 1) : ~ R!Sent(k, blk)'
            BY <2>4, <4>1, <5>2
          <6> QED
            BY <1>1, <2>2, <5>2, <6>1 DEF R!LastSent
        <5> QED
          BY <2>2, <4>2, <5>1, <5>2 DEF R!LastSent
      <4> QED
        BY <1>1, <1>4, <3>1, <3>2, <3>3, <3>5, <4>2 DEF R!LastWrite, RdsSameRequest
    <3> QED
      BY <3>4, <3>5
  <2> QED
    BY <2>1, <2>5, <2>9, <2>10, <2>11 DEF R!Inv, R!TypeOK
<1> QED
  BY <1>1, <1>5, <1>6

\* An answer is taken, and the exchange is over.
RdsEnds(r) ==
  /\ R!Inv /\ R!Running /\ com.pc = "recv" /\ replies # <<>> /\ replies' = Tail(replies)
  /\ r = Head(replies) /\ R!Accepts(r) /\ com' = R!NoExchange
  /\ UNCHANGED <<free, reqsem, at, rdseq, msgblk, net, store, last, overtaken, misplaced>>

LEMMA RdsExchangeEnds ==
  ASSUME NEW r, RdsEnds(r)
  PROVE  /\ com'.op = "none" /\ R!ExchangeType' /\ R!ExchangeOk' /\ R!Numbered' /\ R!Replied'
         /\ r \in R!Messages /\ r.op = com.op /\ r.seq <= com.seq /\ R!Active
<1>1. /\ com'.op = "none" /\ com'.pc = "idle" /\ com' = R!NoExchange
  BY DEF RdsEnds, R!NoExchange
<1>2. /\ replies \in Seq(R!Messages) /\ replies # <<>> /\ r = Head(replies)
  BY DEF RdsEnds, R!Inv, R!TypeOK, R!ExchangeType
<1>3. /\ Tail(replies) \in Seq(R!Messages) /\ r \in R!Messages
      /\ \A k \in 1 .. Len(Tail(replies)) : Tail(replies)[k] = replies[k + 1] /\ k + 1 \in 1 .. Len(replies)
  BY <1>2, RdsTailOf
<1>4. R!NoExchange \in R!Messages
  BY DEF R!NoExchange, R!Messages, R!Numbers, R!Bytes
<1>5. R!ExchangeType'
  BY <1>1, <1>3, <1>4 DEF RdsEnds, R!Inv, R!TypeOK, R!ExchangeType, R!Carries
<1>6. ~ R!Active' /\ R!Active
  BY <1>1 DEF R!Active, RdsEnds
<1>7. R!ExchangeOk' /\ R!Replied'
  BY <1>1, <1>6 DEF R!ExchangeOk, R!Replied
<1>8. R!Numbered'
  <2>1. \A k \in 1 .. Len(Tail(replies)) : Tail(replies)[k].seq < rdseq
    BY <1>3 DEF RdsEnds, R!Inv, R!Numbered
  <2> QED
    BY <1>6, <2>1 DEF RdsEnds, R!Inv, R!Numbered
<1> QED
  BY <1>1, <1>3, <1>5, <1>6, <1>7, <1>8 DEF RdsEnds, R!Accepts

LEMMA RdsReadAnsweredKeeps ==
  ASSUME NEW r, RdsEnds(r), com.op = "read", R!ReadAnswered(r)
  PROVE  R!Inv'
<1>1. /\ com'.op = "none" /\ R!ExchangeType' /\ R!ExchangeOk' /\ R!Numbered' /\ R!Replied' /\ r \in R!Messages
  BY RdsExchangeEnds
<1>2. /\ R!Partition(free, req, cache) /\ req \in Seq(R!Bufs) /\ com.b = Head(req) /\ buf[Head(req)].op = "read"
      /\ Len(req) = reqsem + 1 /\ reqsem \in Int /\ reqsem >= 0
      /\ \A k \in DOMAIN req : buf[req[k]].op # "none"
  BY DEF RdsEnds, R!Inv, R!ListsOk, R!Running, R!TypeOK, R!BufferType, R!OtherType, R!QueueOk
<1>3. req # <<>>
  BY <1>2
<1>4. PICK b \in R!Bufs : b = com.b /\ b = Head(req)
  BY <1>2, <1>3
<1>5. /\ buf' = [buf EXCEPT ![b].val = r.val, ![b].ref = 1]
      /\ req' = Tail(req) /\ cache' = <<b>> \o cache /\ avail' = R!signal(avail)
      /\ R!Message(buf[b].pid, b) /\ fault' \in {"spliced", fault} /\ unsent' = unsent
  BY <1>4 DEF R!ReadAnswered
<1>6. /\ R!Partition(free', req', cache') /\ Len(free') + Len(cache') = Len(free) + Len(cache) + 1
      /\ b \notin R!On(Tail(req)) /\ Len(req) = Len(Tail(req)) + 1 /\ Len(Tail(req)) \in Nat
  <2>1. /\ R!Partition(free, Tail(req), <<Head(req)>> \o cache)
        /\ Len(free) + Len(<<Head(req)>> \o cache) = Len(free) + Len(cache) + 1
        /\ Head(req) \notin R!On(Tail(req)) /\ Len(req) = Len(Tail(req)) + 1 /\ Len(Tail(req)) \in Nat
    BY <1>2, <1>3, RdsReqToCache
  <2>2. free' = free
    BY DEF RdsEnds
  <2> QED
    BY <1>4, <1>5, <2>1, <2>2
<1>7. /\ buf' \in [R!Bufs -> R!Buffers] /\ buf'[b].op = buf[b].op /\ buf'[b].blk = buf[b].blk
      /\ \A c \in R!Bufs \ {b} : buf'[c] = buf[c]
  <2>1. buf \in [R!Bufs -> R!Buffers] /\ buf[b] \in R!Buffers
    BY DEF RdsEnds, R!Inv, R!TypeOK, R!BufferType
  <2>2. r.val \in R!Bytes
    BY <1>1 DEF R!Messages
  <2> DEFINE d == [buf[b] EXCEPT !.val = r.val]
             e == [d EXCEPT !.ref = 1]
  <2>3. d \in R!Buffers /\ d.op = buf[b].op /\ d.blk = buf[b].blk
    BY <2>1, <2>2 DEF R!Buffers
  <2> HIDE DEF d
  <2>4. e \in R!Buffers /\ e.op = d.op /\ e.blk = d.blk
    BY <2>3 DEF R!Buffers
  <2>5. buf' = [buf EXCEPT ![b] = e]
    BY <1>5, <2>1 DEF d
  <2> HIDE DEF e
  <2> QED
    BY <2>1, <2>3, <2>4, <2>5
<1>8. R!BufferType'
  <2>1. \A c \in R!Bufs : buf'[c].op = "write" => buf'[c].blk \in DiskBlocks
    BY <1>7 DEF RdsEnds, R!Inv, R!TypeOK, R!BufferType
  <2> QED
    BY <1>6, <1>7, <2>1 DEF R!BufferType, R!Partition
<1>9. R!UserType'
  BY <1>5, RdsMessageType DEF RdsEnds
<1>10. R!OtherType'
  BY <1>5 DEF RdsEnds, R!Inv, R!TypeOK, R!OtherType
<1>11. R!AvailOk' /\ R!Counted'
  BY <1>2, <1>5, <1>6, RdsFreedOne DEF RdsEnds
<1>12. R!ListsOk'
  BY <1>6 DEF R!ListsOk
<1>13. R!QueueOk'
  <2>1. \A k \in DOMAIN req' : buf'[req'[k]].op # "none"
    BY <1>2, <1>3, <1>4, <1>5, <1>6, <1>7, RdsHeadGone DEF RdsEnds
  <2>2. Len(req') = reqsem' /\ reqsem' \in Int /\ reqsem' >= 0
    <3>1. reqsem' = reqsem
      BY DEF RdsEnds
    <3>2. Len(Tail(req)) + 1 = reqsem + 1 /\ Len(Tail(req)) \in Int /\ reqsem \in Int
      BY <1>2, <1>6
    <3>3. Len(Tail(req)) = reqsem
      BY <3>2
    <3> QED
      BY <1>2, <1>5, <3>1, <3>3
  <2>3. reqsem' + 0 = reqsem'
    <3>1. \A n \in Int : n + 0 = n
      OBVIOUS
    <3> QED
      BY <2>2, <3>1, Zenon
  <2> QED
    BY <1>1, <2>1, <2>2, <2>3 DEF R!QueueOk
<1>14. R!Kept'
  <2> SUFFICES ASSUME ~ unsent, ~ misplaced, NEW blk \in DiskBlocks
               PROVE  R!LastWrite(blk)'
    BY <1>5 DEF R!Kept, RdsEnds
  <2>1. R!LastWrite(blk)
    BY DEF RdsEnds, R!Inv, R!Kept, R!Running
  <2>2. R!LastSent(blk)' <=> R!LastSent(blk)
    BY DEF R!LastSent, R!Sent, RdsEnds
  <2>3. /\ \A k \in 1 .. Len(req') :
             R!Queued(k, blk)' /\ (\A j \in 1 .. Len(req') : k < j => ~ R!Queued(j, blk)')
               => buf'[req'[k]].val = last'[blk]
        /\ (\A k \in 1 .. Len(req') : ~ R!Queued(k, blk)') =>
             \/ \A k \in 1 .. Len(req) : ~ R!Queued(k, blk)
             \/ R!Queued(1, blk) /\ buf[Head(req)].val = last[blk]
    BY <1>3, <1>4, <1>5, <1>6, <1>7, <2>1, RdsHeadGone DEF RdsEnds
  <2>4. ~ R!Queued(1, blk)
    BY <1>2, <1>3, RdsOneLess DEF R!Queued
  <2>5. ASSUME \A k \in 1 .. Len(req) : ~ R!Queued(k, blk) PROVE R!LastSent(blk)
    BY <2>1, <2>5 DEF R!LastWrite
  <2> QED
    BY <1>1, <2>2, <2>3, <2>4, <2>5 DEF R!LastWrite
<1> QED
  BY <1>1, <1>8, <1>9, <1>10, <1>11, <1>12, <1>13, <1>14 DEF R!Inv, R!TypeOK

LEMMA RdsWriteAnsweredKeeps ==
  ASSUME NEW r, RdsEnds(r), com.op = "write", unsent' = (unsent \/ r.seq < com.seq),
         UNCHANGED <<req, cache, buf, avail, prmsg, fault>>
  PROVE  R!Inv'
<1>1. /\ com'.op = "none" /\ R!ExchangeType' /\ R!ExchangeOk' /\ R!Numbered' /\ R!Replied'
      /\ r \in R!Messages /\ r.seq <= com.seq /\ R!Active
  BY RdsExchangeEnds
<1>2. R!BufferType' /\ R!UserType'
  BY DEF RdsEnds, R!Inv, R!TypeOK, R!BufferType, R!UserType
<1>3. R!OtherType'
  <2>1. unsent' \in BOOLEAN
    OBVIOUS
  <2> QED
    BY <2>1 DEF RdsEnds, R!Inv, R!TypeOK, R!OtherType
<1>4. R!ListsOk' /\ R!AvailOk' /\ R!Counted'
  BY DEF RdsEnds, R!Inv, R!ListsOk, R!AvailOk, R!Counted, R!Granted
<1>5. R!QueueOk'
  BY <1>1 DEF RdsEnds, R!Inv, R!QueueOk, R!Running
<1>6. R!Kept'
  <2> SUFFICES ASSUME ~ unsent', ~ misplaced, NEW blk \in DiskBlocks
               PROVE  R!LastWrite(blk)'
    BY DEF R!Kept, RdsEnds
  <2>1. ~ unsent /\ ~ (r.seq < com.seq)
    OBVIOUS
  <2>2. R!LastWrite(blk)
    BY <2>1 DEF RdsEnds, R!Inv, R!Kept, R!Running
  <2>3. com \in R!Messages /\ net \in Seq(R!Messages) /\ replies \in Seq(R!Messages)
    BY DEF RdsEnds, R!Inv, R!TypeOK, R!ExchangeType
  <2>4. r.seq = com.seq
    <3>1. r.seq \in Nat /\ com.seq \in Nat
      BY <1>1, <2>3 DEF R!Messages
    <3> QED
      BY <1>1, <2>1, <3>1
  <2>5. \E k \in 1 .. Len(replies) : replies[k].seq = com.seq
    BY <2>3, <2>4, RdsTailOf DEF RdsEnds
  <2>6. (\A k \in 1 .. Len(net) : net[k].seq = com.seq) /\ store[com.blk] = com.val
    BY <1>1, <2>5 DEF RdsEnds, R!Inv, R!Replied
  <2>7. \A k : R!Queued(k, blk)' <=> R!Queued(k, blk)
    BY DEF R!Queued
  <2>8. R!LastSent(blk)' <=> R!LastSent(blk)
    BY DEF R!LastSent, R!Sent, RdsEnds
  <2>9. ASSUME com.blk = blk, com.val = last[blk] PROVE R!LastSent(blk)
    <3>1. \A k \in 1 .. Len(net) : R!Sent(k, blk) /\ net[k].val = last[blk]
      BY <1>1, <2>6, <2>9 DEF RdsEnds, R!Inv, R!Numbered, R!Sent
    <3>2. CASE net = <<>>
      BY <2>6, <2>9, <3>2 DEF R!LastSent
    <3>3. CASE net # <<>>
      <4>1. Len(net) \in 1 .. Len(net) /\ \A j \in 1 .. Len(net) : ~ (Len(net) < j)
        BY <2>3, <3>3
      <4> QED
        BY <3>1, <4>1 DEF R!LastSent
    <3> QED
      BY <3>2, <3>3
  <2> QED
    BY <1>1, <2>2, <2>7, <2>8, <2>9 DEF R!LastWrite, RdsEnds
<1> QED
  BY <1>1, <1>2, <1>3, <1>4, <1>5, <1>6 DEF R!Inv, R!TypeOK

LEMMA RdsReplyKeeps ==
  ASSUME R!Inv, R!Receive
  PROVE  R!Inv'
<1> DEFINE r == Head(replies)
<1>1. /\ R!Running /\ com.pc = "recv" /\ replies # <<>> /\ replies' = Tail(replies)
      /\ UNCHANGED <<rdstate, free, reqsem, at, rdseq, msgblk, net, store, last, calls, overtaken, misplaced>>
  BY DEF R!Receive
<1>2. \/ R!Accepts(r) /\ com' = R!NoExchange /\ R!Answered(r)
      \/ /\ ~ R!Accepts(r) /\ R!TryAgain(r.seq >= com.seq)
         /\ UNCHANGED <<req, cache, buf, avail, prmsg, unsent, fault>>
  BY DEF R!Receive
<1>3. r = Head(replies)
  OBVIOUS
<1> HIDE DEF r
<1>4. CASE R!Accepts(r) /\ com' = R!NoExchange /\ R!Answered(r)
  <2>1. RdsEnds(r)
    BY <1>1, <1>3, <1>4 DEF RdsEnds
  <2> QED
    BY <1>4, <2>1, RdsReadAnsweredKeeps, RdsWriteAnsweredKeeps DEF R!Answered
<1>5. CASE /\ ~ R!Accepts(r) /\ R!TryAgain(r.seq >= com.seq)
           /\ UNCHANGED <<req, cache, buf, avail, prmsg, unsent, fault>>
  <2>1. RdsSameRequest
    <3> DEFINE x == r.seq >= com.seq
    <3>1. x \in BOOLEAN
      <4>1. r.seq \in Nat /\ com.seq \in Nat
        <5>1. r \in R!Messages /\ com \in R!Messages
          BY <1>1, <1>3, RdsTailOf DEF R!Inv, R!TypeOK, R!ExchangeType
        <5> QED
          BY <5>1 DEF R!Messages
      <4> QED
        BY <4>1
    <3>2. R!TryAgain(x)
      BY <1>5
    <3>3. R!Active
      BY <1>1 DEF R!Active
    <3> HIDE DEF x
    <3> QED
      BY <3>1, <3>2, <3>3, RdsTryIsSame
  <2> QED
    BY <1>1, <1>5, <2>1, RdsWaitsOn DEF R!listvars
<1> QED
  BY <1>2, <1>4, <1>5

LEMMA RdsServerKeeps ==
  ASSUME R!Inv, R!Server
  PROVE  R!Inv'
<1> PICK m : m = Head(net)
  OBVIOUS
<1>1. /\ net # <<>> /\ net' = Tail(net)
      /\ store' = IF m.op = "write" THEN [store EXCEPT ![m.blk] = m.val] ELSE store
      /\ replies' = replies \/ replies' = Append(replies, [m EXCEPT !.val = store'[m.blk]])
      /\ UNCHANGED <<R!listvars, avail, reqsem, at, prmsg, R!comvars, last, overtaken, misplaced, unsent, fault>>
  BY DEF R!Server
<1>2. UNCHANGED <<free, req, cache, buf, com, rdseq, msgblk>>
  BY <1>1 DEF R!listvars, R!comvars
<1>3. /\ net \in Seq(R!Messages) /\ replies \in Seq(R!Messages) /\ store \in [DiskBlocks -> R!Bytes]
      /\ com \in R!Messages /\ rdseq \in Nat
      /\ \A k \in 1 .. Len(net) : R!Carries(net[k]) /\ net[k].op # "none"
  BY DEF R!Inv, R!TypeOK, R!ExchangeType
<1> PICK n \in Nat : n = Len(Tail(net))
  BY <1>1, <1>3, RdsTailOf
<1>4. /\ net' \in Seq(R!Messages) /\ Len(net') = n /\ Len(net) = n + 1
      /\ \A k \in 1 .. n : net'[k] = net[k + 1] /\ k + 1 \in 1 .. (n + 1)
      /\ m = net[1] /\ 1 \in 1 .. (n + 1) /\ m \in R!Messages
  BY <1>1, <1>3, RdsTailOf
<1>5. m.blk \in DiskBlocks /\ m.val \in R!Bytes /\ m.seq \in Nat
  BY <1>3, <1>4 DEF R!Carries, R!Messages
<1>6. store' \in [DiskBlocks -> R!Bytes] /\ store'[m.blk] \in R!Bytes
  BY <1>1, <1>3, <1>5
<1> DEFINE a == [m EXCEPT !.val = store'[m.blk]]
<1>7. a \in R!Messages /\ a.seq = m.seq
  BY <1>4, <1>6 DEF R!Messages
<1> HIDE DEF a
<1>8. replies' = replies \/ replies' = Append(replies, a)
  BY <1>1 DEF a
<1>9. replies' \in Seq(R!Messages)
      /\ \A k \in 1 .. Len(replies') : replies'[k] = a \/ \E j \in 1 .. Len(replies) : replies'[k] = replies[j]
  <2>1. CASE replies' = replies
    BY <1>3, <2>1
  <2>2. CASE replies' = Append(replies, a)
    <3>1. PICK l \in Nat : l = Len(replies)
      BY <1>3
    <3>2. /\ replies' \in Seq(R!Messages) /\ Len(replies') = l + 1
          /\ \A k \in 1 .. l : replies'[k] = replies[k]
      BY <1>3, <1>7, <2>2, <3>1
    <3>3. replies'[l + 1] = a
      BY <1>3, <2>2, <3>1
    <3>4. \A k \in 1 .. (l + 1) : k \in 1 .. l \/ k = l + 1
      BY <3>1
    <3> QED
      BY <3>1, <3>2, <3>3, <3>4
  <2> QED
    BY <1>8, <2>1, <2>2
<1>10. R!ExchangeType'
  <2>1. \A k \in 1 .. n : R!Carries(net'[k]) /\ net'[k].op # "none"
    BY <1>3, <1>4
  <2>2. \A k \in 1 .. Len(net') : (R!Carries(net[k]) /\ net[k].op # "none")'
    BY <1>4, <2>1 DEF R!Carries
  <2> QED
    BY <1>2, <1>4, <1>6, <1>9, <2>2 DEF R!Inv, R!TypeOK, R!ExchangeType, R!Carries
<1>11. R!BufferType' /\ R!UserType' /\ R!OtherType'
  BY <1>1, <1>2 DEF R!Inv, R!TypeOK, R!BufferType, R!UserType, R!OtherType
<1>12. R!ListsOk' /\ R!QueueOk' /\ R!ExchangeOk' /\ R!AvailOk' /\ R!Counted'
  BY <1>1, <1>2 DEF R!Inv, R!ListsOk, R!QueueOk, R!ExchangeOk, R!AvailOk, R!Counted, R!Granted, R!Active
<1>13. /\ \A k \in 1 .. (n + 1) : net[k].seq < rdseq /\ net[k].seq \in Nat
       /\ \A j, k \in 1 .. (n + 1) : j < k => net[j].seq <= net[k].seq
       /\ \A k \in 1 .. (n + 1) : R!Active /\ net[k].seq = com.seq
                                    => net[k].op = com.op /\ net[k].blk = com.blk /\ net[k].val = com.val
  <2>1. \A k \in 1 .. (n + 1) : net[k] \in R!Messages
    BY <1>3, <1>4
  <2> QED
    BY <1>4, <2>1 DEF R!Inv, R!Numbered, R!Messages
<1>14. R!Numbered'
  <2>1. \A k \in 1 .. Len(replies') : replies'[k].seq < rdseq
    BY <1>4, <1>7, <1>9, <1>13 DEF R!Inv, R!Numbered
  <2>2. \A k \in 1 .. n : net'[k].seq < rdseq
    BY <1>4, <1>13
  <2>3. \A j, k \in 1 .. n : j < k => net'[j].seq <= net'[k].seq
    <3> SUFFICES ASSUME NEW j \in 1 .. n, NEW k \in 1 .. n, j < k PROVE net'[j].seq <= net'[k].seq
      OBVIOUS
    <3>1. j + 1 < k + 1
      OBVIOUS
    <3> QED
      BY <1>4, <1>13, <3>1
  <2>4. \A k \in 1 .. n : R!Active /\ net'[k].seq = com.seq
                            => net'[k].op = com.op /\ net'[k].blk = com.blk /\ net'[k].val = com.val
    BY <1>4, <1>13
  <2> QED
    BY <1>2, <1>4, <2>1, <2>2, <2>3, <2>4 DEF R!Inv, R!Numbered, R!Active
<1>15. R!Replied'
  <2> SUFFICES ASSUME R!Active, NEW k \in 1 .. Len(replies'), replies'[k].seq = com.seq
               PROVE  /\ \A j \in 1 .. n : net'[j].seq = com.seq
                      /\ com.op = "write" => store'[com.blk] = com.val
    BY <1>2, <1>4 DEF R!Replied, R!Active
  <2>1. CASE \E j \in 1 .. Len(replies) : replies'[k] = replies[j]
    <3>1. /\ \A j \in 1 .. (n + 1) : net[j].seq = com.seq
          /\ com.op = "write" => store[com.blk] = com.val
      BY <1>4, <2>1 DEF R!Inv, R!Replied
    <3>2. m.seq = com.seq /\ m.op = com.op /\ m.blk = com.blk /\ m.val = com.val
      BY <1>4, <1>13, <3>1
    <3> QED
      BY <1>1, <1>3, <1>4, <1>5, <3>1, <3>2
  <2>2. CASE replies'[k] = a
    <3>1. m.seq = com.seq
      BY <1>7, <2>2
    <3>2. m.op = com.op /\ m.blk = com.blk /\ m.val = com.val
      BY <1>4, <1>13, <3>1
    <3>3. com.op = "write" => store'[com.blk] = com.val
      BY <1>1, <1>3, <1>5, <3>2
    <3>4. com.seq = rdseq - 1
      BY DEF R!Inv, R!Numbered
    <3>5. ASSUME NEW j \in 1 .. n PROVE net'[j].seq = com.seq
      <4>1. 1 < j + 1 /\ j + 1 \in 1 .. (n + 1)
        OBVIOUS
      <4>2. net[1].seq <= net[j + 1].seq /\ net[j + 1].seq < rdseq /\ net[j + 1].seq \in Nat
        BY <1>4, <1>13, <4>1
      <4>3. net'[j].seq = net[j + 1].seq /\ net[1].seq = com.seq
        BY <1>4, <3>1
      <4>4. \A x, y, z \in Nat : x <= y /\ y < z /\ x = z - 1 => y = x
        OBVIOUS
      <4>5. com.seq \in Nat /\ rdseq \in Nat
        BY <1>3, <1>5, <3>1
      <4>6. net[j + 1].seq = com.seq
        BY <3>4, <4>2, <4>3, <4>4, <4>5
      <4> QED
        BY <4>3, <4>6
    <3> QED
      BY <3>3, <3>5
  <2> QED
    BY <1>9, <2>1, <2>2
<1>16. R!Kept'
  <2> SUFFICES ASSUME fault = "none", ~ unsent, ~ misplaced, NEW blk \in DiskBlocks
               PROVE  R!LastWrite(blk)'
    BY <1>1 DEF R!Kept
  <2>1. R!LastWrite(blk)
    BY DEF R!Inv, R!Kept
  <2>2. \A k : R!Queued(k, blk)' <=> R!Queued(k, blk)
    BY <1>2 DEF R!Queued
  <2>3. \A k \in 1 .. n : R!Sent(k, blk)' <=> R!Sent(k + 1, blk)
    BY <1>4 DEF R!Sent
  <2>4. last' = last
    BY <1>1
  <2>5. ASSUME R!LastSent(blk) PROVE R!LastSent(blk)'
    <3>1. CASE \E k \in 1 .. (n + 1) : /\ R!Sent(k, blk) /\ net[k].val = last[blk]
                                       /\ \A j \in 1 .. (n + 1) : k < j => ~ R!Sent(j, blk)
      <4>1. PICK k \in 1 .. (n + 1) : /\ R!Sent(k, blk) /\ net[k].val = last[blk]
                                      /\ \A j \in 1 .. (n + 1) : k < j => ~ R!Sent(j, blk)
        BY <3>1
      <4>2. CASE k = 1
        <5>1. store'[blk] = last[blk]
          BY <1>1, <1>3, <1>4, <1>5, <4>1, <4>2 DEF R!Sent
        <5>2. ASSUME NEW j \in 1 .. n PROVE ~ R!Sent(j, blk)'
          <6>1. k < j + 1 /\ j + 1 \in 1 .. (n + 1)
            BY <4>2
          <6> QED
            BY <2>3, <4>1, <6>1
        <5> QED
          BY <1>4, <2>4, <5>1, <5>2 DEF R!LastSent
      <4>3. CASE k # 1
        <5>1. PICK i \in 1 .. n : k = i + 1
          <6>1. k - 1 \in 1 .. n /\ k = (k - 1) + 1
            BY <4>3
          <6> QED
            BY <6>1
        <5>2. R!Sent(i, blk)' /\ net'[i].val = last[blk]
          BY <1>4, <2>3, <4>1, <5>1
        <5>3. ASSUME NEW j \in 1 .. n, i < j PROVE ~ R!Sent(j, blk)'
          <6>1. k < j + 1 /\ j + 1 \in 1 .. (n + 1)
            BY <5>1, <5>3
          <6> QED
            BY <2>3, <4>1, <6>1
        <5> QED
          BY <1>4, <2>4, <5>2, <5>3 DEF R!LastSent
      <4> QED
        BY <4>2, <4>3
    <3>2. CASE (\A k \in 1 .. (n + 1) : ~ R!Sent(k, blk)) /\ store[blk] = last[blk]
      <4>1. store'[blk] = store[blk]
        BY <1>1, <1>3, <1>4, <1>5, <3>2 DEF R!Sent
      <4>2. \A j \in 1 .. n : ~ R!Sent(j, blk)'
        BY <1>4, <2>3, <3>2
      <4> QED
        BY <1>4, <2>4, <3>2, <4>1, <4>2 DEF R!LastSent
    <3> QED
      BY <1>4, <2>5, <3>1, <3>2 DEF R!LastSent
  <2> QED
    BY <1>2, <2>1, <2>2, <2>4, <2>5 DEF R!LastWrite
<1> QED
  BY <1>10, <1>11, <1>12, <1>14, <1>15, <1>16 DEF R!Inv, R!TypeOK

-----------------------------------------------------------------------------
(* The invariant, and what it says.                                        *)
LEMMA RdsStarts ==
  ASSUME R!Init
  PROVE  R!Inv
<1>1. /\ free = [k \in 1 .. RD_BUFFS |-> k] /\ req = <<>> /\ cache = <<>>
      /\ avail = R!semcreate(RD_BUFFS) /\ reqsem = 0
      /\ at = [p \in Procs |-> R!Idle] /\ prmsg = [p \in Procs |-> R!NOMSG]
      /\ com = R!NoExchange /\ rdseq = 1 /\ msgblk \in DiskBlocks
      /\ net = <<>> /\ replies = <<>> /\ store = [k \in DiskBlocks |-> 0]
      /\ last = [k \in DiskBlocks |-> 0]
      /\ overtaken = FALSE /\ misplaced = FALSE /\ unsent = FALSE /\ fault = "none"
  BY DEF R!Init
<1>2. RD_BUFFS \in Nat
  BY RemoteNumbers
<1>3. /\ free \in Seq(R!Bufs) /\ Len(free) = RD_BUFFS /\ DOMAIN free = 1 .. RD_BUFFS
      /\ \A k \in 1 .. RD_BUFFS : free[k] = k
  BY <1>1, <1>2 DEF R!Bufs
<1>4. req \in Seq(R!Bufs) /\ cache \in Seq(R!Bufs) /\ Len(req) = 0 /\ Len(cache) = 0
      /\ DOMAIN req = {} /\ DOMAIN cache = {}
  BY <1>1
<1>5. R!On(free) = R!Bufs /\ R!On(req) = {} /\ R!On(cache) = {}
  BY <1>3, <1>4 DEF R!On, R!Bufs
<1>6. R!Partition(free, req, cache)
  <2>1. R!Once(free) /\ R!Once(req) /\ R!Once(cache)
    BY <1>3, <1>4 DEF R!Once
  <2>2. Len(free) + Len(req) + Len(cache) = RD_BUFFS
    BY <1>2, <1>3, <1>4
  <2> QED
    BY <1>3, <1>4, <1>5, <2>1, <2>2 DEF R!Partition
<1>7. R!BufferType
  <2>1. (CHOOSE p \in Procs : TRUE) \in Procs
    BY RemoteNumbers
  <2>2. \A b \in R!Bufs : buf[b] = [op |-> "none", ref |-> 0, blk |-> 0, valid |-> FALSE,
                                  pid |-> CHOOSE p \in Procs : TRUE, val |-> 0]
    BY DEF R!Init
  <2>3. [op |-> "none", ref |-> 0, blk |-> 0, valid |-> FALSE,
         pid |-> CHOOSE p \in Procs : TRUE, val |-> 0] \in R!Buffers
    BY <2>1 DEF R!Buffers, R!Numbers, R!Bytes
  <2>4. buf \in [R!Bufs -> R!Buffers]
    BY <2>3 DEF R!Init
  <2> QED
    BY <1>3, <1>4, <2>2, <2>4 DEF R!BufferType
<1>8. R!UserType
  BY <1>1 DEF R!UserType, R!Idle, R!Callers, R!Numbers, R!Bytes
<1>9. com \in R!Messages /\ com.op = "none" /\ com.pc = "idle"
  BY <1>1 DEF R!NoExchange, R!Messages, R!Numbers, R!Bytes
<1>10. R!ExchangeType
  BY <1>1, <1>9 DEF R!ExchangeType, R!Carries, R!Bytes
<1>11. R!OtherType
  <2>1. last \in [DiskBlocks -> R!Bytes]
    BY <1>1 DEF R!Bytes
  <2>2. reqsem \in Int
    BY <1>1
  <2> QED
    BY <1>1, <2>1, <2>2, Zenon DEF R!OtherType
<1>12. R!QueueOk /\ R!ExchangeOk /\ R!ListsOk
  BY <1>1, <1>4, <1>6, <1>9 DEF R!QueueOk, R!ExchangeOk, R!ListsOk, R!Active
<1>13. avail \in R!SemaphoreOf(Procs) /\ R!Waiting(avail) = {} /\ avail.count = RD_BUFFS
  BY <1>1, <1>2, RdsCreated DEF R!semcreate
<1>14. R!AvailOk
  BY <1>13 DEF R!AvailOk
<1>15. R!Counted
  <2>1. R!Granted = {}
    BY <1>1 DEF R!Granted, R!Idle
  <2>2. R!Cardinality(R!Granted) = 0
    BY <2>1, FS_EmptySet, RdsCounts
  <2> QED
    BY <1>2, <1>3, <1>4, <1>13, <2>2 DEF R!Counted
<1>16. R!Numbered /\ R!Replied
  BY <1>1, <1>9 DEF R!Numbered, R!Replied, R!Active
<1>17. R!Kept
  <2>1. \A blk \in DiskBlocks : store[blk] = last[blk]
    BY <1>1
  <2> QED
    BY <1>1, <1>4, <1>9, <2>1 DEF R!Kept, R!LastWrite, R!LastSent
<1> QED
  BY <1>7, <1>8, <1>10, <1>11, <1>12, <1>14, <1>15, <1>16, <1>17 DEF R!Inv, R!TypeOK

LEMMA RdsInvKeeps ==
  ASSUME R!Inv, [R!Next]_(R!vars)
  PROVE  R!Inv'
<1>1. CASE UNCHANGED R!vars
  <2>1. UNCHANGED R!listvars /\ UNCHANGED R!comvars /\ UNCHANGED R!netvars
        /\ UNCHANGED <<avail, reqsem, at, prmsg, last, overtaken, misplaced, unsent, fault>>
    BY <1>1 DEF R!vars, R!listvars, R!comvars, R!netvars
  <2> QED
    BY <2>1, RdsNothingKeeps
<1>2. CASE R!Rdsproc
  BY <1>2, RdsProcessKeeps, RdsTransmitKeeps, RdsGivesUpKeeps, RdsTimesOutKeeps, RdsReplyKeeps DEF R!Rdsproc
<1>3. CASE \E p \in Procs : R!User(p) \/ R!GoesOn(p)
  BY <1>3, RdsUserKeeps, RdsGoesOnKeeps, RdsReceiveKeeps DEF R!GoesOn
<1>4. CASE R!rdsopen \/ R!rdsclose \/ R!Server
  BY <1>4, RdsOpenKeeps, RdsCloseKeeps, RdsServerKeeps
<1>5. CASE R!Done
  BY <1>1, <1>5 DEF R!Done
<1>6. R!Next \/ UNCHANGED R!vars
  OBVIOUS
<1> QED
  BY <1>1, <1>2, <1>3, <1>4, <1>5, <1>6 DEF R!Next

LEMMA RdsOnBoth ==
  ASSUME NEW S, NEW s \in Seq(S), NEW t \in Seq(S)
  PROVE  s \o t \in Seq(S) /\ Len(s \o t) = Len(s) + Len(t) /\ R!On(s \o t) = R!On(s) \cup R!On(t)
<1> PICK m \in Nat : m = Len(s)
  OBVIOUS
<1> PICK n \in Nat : n = Len(t)
  OBVIOUS
<1> DEFINE u == s \o t
<1>1. /\ u \in Seq(S) /\ Len(u) = m + n /\ DOMAIN u = 1 .. (m + n)
      /\ DOMAIN s = 1 .. m /\ DOMAIN t = 1 .. n
  OBVIOUS
<1>2. /\ \A k \in 1 .. m : u[k] = s[k] /\ k \in 1 .. (m + n)
      /\ \A k \in 1 .. n : u[m + k] = t[k] /\ m + k \in 1 .. (m + n)
  OBVIOUS
<1> HIDE DEF u
<1>3. \A k \in 1 .. (m + n) : k \in 1 .. m \/ (k - m \in 1 .. n /\ k = m + (k - m))
  OBVIOUS
<1>4. \A k \in 1 .. (m + n) : (k \in 1 .. m /\ u[k] = s[k]) \/ (k - m \in 1 .. n /\ u[k] = t[k - m])
  <2> SUFFICES ASSUME NEW k \in 1 .. (m + n)
               PROVE  (k \in 1 .. m /\ u[k] = s[k]) \/ (k - m \in 1 .. n /\ u[k] = t[k - m])
    OBVIOUS
  <2>1. CASE k \in 1 .. m
    BY <1>2, <2>1
  <2>2. CASE k - m \in 1 .. n /\ k = m + (k - m)
    <3>1. u[m + (k - m)] = t[k - m]
      BY <1>2, <2>2
    <3> QED
      BY <2>2, <3>1
  <2> QED
    BY <1>3, <2>1, <2>2
<1>5. R!On(u) = R!On(s) \cup R!On(t)
  <2>1. \A x \in R!On(u) : x \in R!On(s) \cup R!On(t)
    BY <1>1, <1>4 DEF R!On
  <2>2. \A x \in R!On(s) : x \in R!On(u)
    BY <1>1, <1>2 DEF R!On
  <2>3. ASSUME NEW k \in 1 .. n PROVE t[k] \in R!On(u)
    <3>1. m + k \in DOMAIN u /\ u[m + k] = t[k]
      BY <1>1, <1>2
    <3> QED
      BY <3>1 DEF R!On
  <2>4. \A x \in R!On(t) : x \in R!On(u)
    BY <1>1, <2>3 DEF R!On
  <2> QED
    BY <2>1, <2>2, <2>4
<1> QED
  BY <1>1, <1>5 DEF u

LEMMA RdsContainsIs ==
  ASSUME NEW S, NEW s \in Seq(S), NEW x, x \in R!On(s)
  PROVE  R!Contains(s, x)
<1>1. DOMAIN s = 1 .. Len(s)
  OBVIOUS
<1> QED
  BY <1>1 DEF R!Contains, R!On

\* Every buffer is on exactly one list.
LEMMA RdsListsSound ==
  ASSUME R!Inv
  PROVE  R!BufferOnOneList
<1> SUFFICES ASSUME fault \in {"none", "timeout", "no buffer"}
             PROVE  /\ \A b \in R!Bufs : R!Contains(free \o req \o cache, b)
                    /\ Len(free \o req \o cache) = RD_BUFFS
  BY DEF R!BufferOnOneList
<1>1. R!Partition(free, req, cache)
  BY DEF R!Inv, R!ListsOk
<1>2. /\ free \in Seq(R!Bufs) /\ req \in Seq(R!Bufs) /\ cache \in Seq(R!Bufs)
      /\ R!Bufs = R!On(free) \cup R!On(req) \cup R!On(cache) /\ Len(free) + Len(req) + Len(cache) = RD_BUFFS
  BY <1>1 DEF R!Partition
<1>3. /\ free \o req \in Seq(R!Bufs) /\ Len(free \o req) = Len(free) + Len(req)
      /\ R!On(free \o req) = R!On(free) \cup R!On(req)
  <2>1. free \in Seq(R!Bufs) /\ req \in Seq(R!Bufs)
    BY <1>2
  <2> QED
    BY <2>1, RdsOnBoth, Zenon
<1>4. /\ (free \o req) \o cache \in Seq(R!Bufs)
      /\ Len((free \o req) \o cache) = Len(free \o req) + Len(cache)
      /\ R!On((free \o req) \o cache) = R!On(free \o req) \cup R!On(cache)
  <2> DEFINE f == free \o req
  <2>1. f \in Seq(R!Bufs) /\ cache \in Seq(R!Bufs)
    BY <1>2, <1>3
  <2> HIDE DEF f
  <2>2. f \o cache \in Seq(R!Bufs) /\ Len(f \o cache) = Len(f) + Len(cache) /\ R!On(f \o cache) = R!On(f) \cup R!On(cache)
    BY <2>1, RdsOnBoth, Zenon
  <2> QED
    BY <2>2 DEF f
<1>5. \A b \in R!Bufs : b \in R!On((free \o req) \o cache)
  BY <1>2, <1>3, <1>4
<1> DEFINE all == (free \o req) \o cache
<1>6. all \in Seq(R!Bufs) /\ Len(all) = RD_BUFFS /\ \A b \in R!Bufs : b \in R!On(all)
  BY <1>2, <1>3, <1>4, <1>5
<1> HIDE DEF all
<1>7. \A b \in R!Bufs : R!Contains(all, b)
  BY <1>6, RdsContainsIs
<1> QED
  BY <1>6, <1>7 DEF all

\* The counts.
LEMMA RdsCountsSound ==
  ASSUME R!Inv
  PROVE  R!SemaphoresCount
<1> SUFFICES ASSUME fault = "none", ~ overtaken
             PROVE  /\ avail.count + Len(avail.queue) = Len(free \o cache) - R!Cardinality(R!Granted)
                    /\ avail.queue # <<>> => Len(free \o cache) = R!Cardinality(R!Granted)
                    /\ Len(req) = reqsem + (IF com.op = "read" THEN 1 ELSE 0)
  BY DEF R!SemaphoresCount
<1>1. Len(free) + Len(cache) = R!Cardinality(R!Granted) + (IF avail.count > 0 THEN avail.count ELSE 0)
  BY DEF R!Inv, R!Counted
<1>2. avail \in R!SemaphoreOf(Procs)
  BY DEF R!Inv, R!AvailOk
<1>3. /\ avail.count \in Int /\ avail.queue \in Seq(Procs)
      /\ IF avail.count < 0 THEN Len(avail.queue) = - avail.count ELSE avail.queue = <<>>
  BY <1>2 DEF R!SemaphoreOf
<1>4. Len(free \o cache) = Len(free) + Len(cache) /\ Len(free) + Len(cache) \in Int
  <2>1. free \in Seq(R!Bufs) /\ cache \in Seq(R!Bufs)
    BY DEF R!Inv, R!TypeOK, R!BufferType
  <2>2. Len(free \o cache) = Len(free) + Len(cache)
    BY <2>1, RdsOnBoth, Zenon
  <2> QED
    BY <2>1, <2>2
<1>5. R!Cardinality(R!Granted) \in Int
  BY RemoteNumbers, FS_Subset, FS_CardinalityType, RdsCounts DEF R!Granted
<1> DEFINE g == R!Cardinality(R!Granted)
           l == Len(free) + Len(cache)
           n == Len(avail.queue)
           c == avail.count
<1>6. n \in Int /\ c \in Int /\ g \in Int /\ l \in Int /\ l = g + (IF c > 0 THEN c ELSE 0)
      /\ (IF c < 0 THEN n = - c ELSE n = 0) /\ (avail.queue # <<>> => c < 0)
  BY <1>1, <1>3, <1>4, <1>5
<1>7. Len(req) = reqsem + (IF com.op = "read" THEN 1 ELSE 0)
  BY DEF R!Inv, R!QueueOk
<1> HIDE DEF g, l, n, c
<1>8. c + n = l - g /\ (avail.queue # <<>> => l = g)
  BY <1>6
<1> QED
  BY <1>4, <1>7, <1>8 DEF g, l, n, c

\* The last write of a block that no request asks for is under way, or done.
LEMMA RdsWritesSound ==
  ASSUME R!Inv
  PROVE  R!WritesKept
<1> SUFFICES ASSUME fault = "none", ~ unsent, ~ misplaced, NEW blk \in DiskBlocks
             PROVE  \/ \E k \in DOMAIN req : buf[req[k]].op = "write" /\ buf[req[k]].blk = blk
                                             /\ buf[req[k]].val = last[blk]
                    \/ com.op = "write" /\ com.blk = blk /\ com.val = last[blk]
                    \/ ~ R!WriteQueued(blk) /\ store[blk] = last[blk]
                    \/ \E k \in DOMAIN net : net[k].op = "write" /\ net[k].blk = blk /\ net[k].val = last[blk]
  BY DEF R!WritesKept
<1>1. R!LastWrite(blk)
  BY DEF R!Inv, R!Kept
<1>2. /\ req \in Seq(R!Bufs) /\ DOMAIN req = 1 .. Len(req) /\ DOMAIN net = 1 .. Len(net)
  BY DEF R!Inv, R!TypeOK, R!BufferType, R!ExchangeType
<1>3. CASE \E k \in 1 .. Len(req) : R!Queued(k, blk)
  <2>1. PICK k \in 1 .. Len(req) : R!Queued(k, blk) /\ \A j \in 1 .. Len(req) : k < j => ~ R!Queued(j, blk)
    <3>1. PICK i \in 1 .. Len(req) : R!Queued(i, blk)
      BY <1>3
    <3>2. /\ R!LastQueuedWrite(blk) \in 1 .. Len(req) /\ R!Queued(R!LastQueuedWrite(blk), blk)
          /\ \A j \in 1 .. Len(req) : R!Queued(j, blk) => j <= R!LastQueuedWrite(blk)
      BY <1>2, <3>1, RdsLastQueuedWriteIs
    <3> QED
      BY <1>2, <3>2
  <2>2. buf[req[k]].val = last[blk]
    BY <1>1, <2>1 DEF R!LastWrite
  <2> QED
    BY <1>2, <2>1, <2>2 DEF R!Queued
<1>4. CASE \A k \in 1 .. Len(req) : ~ R!Queued(k, blk)
  <2>1. IF com.op = "write" /\ com.blk = blk THEN com.val = last[blk] ELSE R!LastSent(blk)
    BY <1>1, <1>4 DEF R!LastWrite
  <2>2. ~ R!WriteQueued(blk)
    <3> SUFFICES ASSUME R!LastWith(req, blk) # 0
                 PROVE  buf[req[R!LastWith(req, blk)]].op # "write"
      BY DEF R!WriteQueued
    <3>1. R!LastWith(req, blk) \in 1 .. Len(req) /\ buf[req[R!LastWith(req, blk)]].blk = blk
      BY <1>2, RdsLastWithIs
    <3> QED
      BY <1>4, <3>1 DEF R!Queued
  <2> QED
    BY <1>2, <2>1, <2>2 DEF R!LastSent, R!Sent
<1> QED
  BY <1>3, <1>4

-----------------------------------------------------------------------------
(* Remote files.                                                           *)
\* The operators of Semaphore through the instance of Rfs.
LEMMA RfsSemaphores ==
  /\ \A s, p : (F!Waits(s, p) <=> Waits(s, p)) /\ F!wait(s, p) = wait(s, p)
  /\ \A s : /\ F!signal(s) = signal(s) /\ (F!Blocks(s) <=> Blocks(s))
            /\ F!Waiting(s) = Waiting(s)
  /\ \A n : F!semcreate(n) = semcreate(n)
  /\ \A S : F!SemaphoreOf(S) = SemaphoreOf(S)
BY DEF F!Waits, Waits, F!Waiting, Waiting, F!wait, wait, F!signal, signal, F!Blocks, Blocks,
       F!semcreate, semcreate, F!SemaphoreOf, SemaphoreOf

LEMMA RfsWaitsIff == \A s, p : F!Waits(s, p) <=> p \in F!Waiting(s)
BY WaitsIff, RfsSemaphores

LEMMA RfsCreated ==
  ASSUME NEW S, NEW n \in Nat
  PROVE  F!semcreate(n) \in F!SemaphoreOf(S) /\ F!Waiting(F!semcreate(n)) = {}
BY Created, RfsSemaphores

LEMMA RfsWaited ==
  ASSUME NEW S, NEW s \in F!SemaphoreOf(S), NEW p \in S, p \notin F!Waiting(s)
  PROVE  /\ F!wait(s, p) \in F!SemaphoreOf(S)
         /\ F!wait(s, p).count = s.count - 1
         /\ F!Blocks(s) => /\ F!Waiting(F!wait(s, p)) = F!Waiting(s) \cup {p}
                           /\ Len(F!wait(s, p).queue) = Len(s.queue) + 1
         /\ ~ F!Blocks(s) => F!wait(s, p).queue = s.queue /\ s.queue = <<>>
BY Waited, RfsSemaphores

LEMMA RfsSignalled ==
  ASSUME NEW S, NEW s \in F!SemaphoreOf(S)
  PROVE  /\ F!signal(s) \in F!SemaphoreOf(S)
         /\ F!signal(s).count = s.count + 1
         /\ s.count < 0 => \E p \in S : /\ p \in F!Waiting(s) /\ F!Waiting(F!signal(s)) = F!Waiting(s) \ {p}
                                        /\ Len(F!signal(s).queue) = Len(s.queue) - 1
         /\ s.count >= 0 => F!signal(s).queue = s.queue /\ s.queue = <<>>
BY Signalled, RfsSemaphores

LEMMA RfsOnlyHolder ==
  ASSUME F!TypeOK, F!MutexOk, NEW p \in Procs, fat[p].pc # "idle", p \notin F!Waiting(fmutex)
  PROVE  F!Holders = {p} /\ fmutex.count <= 0
<1>1. p \in F!Holders
  BY DEF F!Holders, F!InCall
<1>2. fmutex.count \in Int
  BY DEF F!MutexOk, F!SemaphoreOf
<1> QED
  BY <1>1, <1>2 DEF F!MutexOk

LEMMA RfsCallKeepsMutex ==
  ASSUME F!TypeOK, F!MutexOk, NEW p \in Procs, NEW r \in F!Requests, F!Call(p, r)
  PROVE  F!MutexOk'
<1>1. /\ fmutex' = F!wait(fmutex, p) /\ fat[p].pc = "idle"
      /\ fat' \in [Procs -> [pc : {"idle", "wait", "exchange"}, r : F!Requests \cup {F!Request("none", 0)}]]
      /\ fat'[p].pc = "wait" /\ \A q \in Procs \ {p} : fat'[q] = fat[q]
  BY DEF F!Call, F!Idle, F!TypeOK
<1>2. p \notin F!Waiting(fmutex) /\ fmutex \in F!SemaphoreOf(Procs) /\ fmutex.count \in Int /\ fmutex.count <= 1
  BY <1>1 DEF F!MutexOk, F!SemaphoreOf
<1>3. F!InCall' = F!InCall \cup {p} /\ p \notin F!InCall
  BY <1>1 DEF F!InCall, F!TypeOK
<1>4. fmutex' \in F!SemaphoreOf(Procs) /\ fmutex'.count = fmutex.count - 1
  BY <1>1, <1>2, RfsWaited
<1>5. CASE F!Blocks(fmutex)
  <2>1. F!Waiting(fmutex') = F!Waiting(fmutex) \cup {p} /\ fmutex.count # 1
    BY <1>1, <1>2, <1>5, RfsWaited DEF F!Blocks
  <2>2. F!Holders' = F!Holders
    BY <1>3, <2>1 DEF F!Holders
  <2>3. fmutex'.count # 1 /\ fmutex'.count <= 1
    BY <1>2, <1>4
  <2> QED
    BY <1>1, <1>4, <2>1, <2>2, <2>3 DEF F!MutexOk
<1>6. CASE ~ F!Blocks(fmutex)
  <2>1. fmutex'.queue = <<>> /\ fmutex.queue = <<>>
    BY <1>1, <1>2, <1>6, RfsWaited
  <2>2. F!Waiting(fmutex') = {} /\ F!Waiting(fmutex) = {}
    BY <2>1 DEF F!Waiting
  <2>3. fmutex.count = 1 /\ fmutex'.count = 0
    BY <1>2, <1>4, <1>6 DEF F!Blocks
  <2>4. F!Holders' = {p}
    BY <1>3, <2>2, <2>3 DEF F!Holders, F!MutexOk
  <2> QED
    BY <1>4, <2>2, <2>3, <2>4 DEF F!MutexOk
<1> QED
  BY <1>5, <1>6

\* Whoever is in a call and does not wait may end it, and the mutex goes to the next.
LEMMA RfsReturnKeepsMutex ==
  ASSUME F!TypeOK, F!MutexOk, NEW p \in Procs, fat[p].pc # "idle", p \notin F!Waiting(fmutex),
         F!Returns(p)
  PROVE  F!MutexOk'
<1>1. /\ fmutex' = F!signal(fmutex)
      /\ fat' \in [Procs -> [pc : {"idle", "wait", "exchange"}, r : F!Requests \cup {F!Request("none", 0)}]]
      /\ fat'[p].pc = "idle" /\ \A q \in Procs \ {p} : fat'[q] = fat[q]
  BY DEF F!Returns, F!Idle, F!TypeOK
<1>2. F!Holders = {p} /\ fmutex.count <= 0 /\ fmutex \in F!SemaphoreOf(Procs) /\ fmutex.count \in Int
  BY RfsOnlyHolder DEF F!MutexOk, F!SemaphoreOf
<1>3. F!InCall' = F!InCall \ {p}
  BY <1>1 DEF F!InCall
<1>4. fmutex' \in F!SemaphoreOf(Procs) /\ fmutex'.count = fmutex.count + 1
  BY <1>1, <1>2, RfsSignalled
<1>5. CASE fmutex.count < 0
  <2>1. PICK q \in Procs : q \in F!Waiting(fmutex) /\ F!Waiting(fmutex') = F!Waiting(fmutex) \ {q}
    BY <1>1, <1>2, <1>5, RfsSignalled
  <2>2. q # p /\ q \in F!InCall
    BY <2>1 DEF F!MutexOk, F!InCall
  <2>3. F!Holders' = {q}
    BY <1>2, <1>3, <2>1, <2>2 DEF F!Holders
  <2>4. F!Waiting(fmutex') \subseteq {s \in Procs : fat'[s].pc = "wait"}
    BY <1>1, <2>1 DEF F!MutexOk
  <2>5. fmutex'.count # 1 /\ fmutex'.count <= 1
    BY <1>2, <1>4, <1>5
  <2> QED
    BY <1>4, <2>3, <2>4, <2>5 DEF F!MutexOk
<1>6. CASE fmutex.count = 0
  <2>1. fmutex'.queue = <<>> /\ fmutex.queue = <<>>
    BY <1>1, <1>2, <1>6, RfsSignalled
  <2>2. F!Waiting(fmutex') = {} /\ F!Waiting(fmutex) = {}
    BY <2>1 DEF F!Waiting
  <2>3. F!Holders' = {} /\ fmutex'.count = 1
    BY <1>2, <1>3, <1>4, <1>6, <2>2 DEF F!Holders
  <2> QED
    BY <1>4, <2>2, <2>3 DEF F!MutexOk
<1> QED
  BY <1>2, <1>5, <1>6

\* Who has entered is the only one inside, so no exchange is under way.
LEMMA RfsEnteredAlone ==
  ASSUME F!Inv, NEW p \in Procs, F!Enters(p)
  PROVE  ~ F!Active /\ fat[p].pc # "idle" /\ p \notin F!Waiting(fmutex)
<1>1. fat[p].pc = "wait" /\ p \notin F!Waiting(fmutex)
  BY DEF F!Enters, F!Waits, F!Waiting
<1>2. F!Holders = {p}
  BY <1>1, RfsOnlyHolder DEF F!Inv
<1>3. \A q \in Procs : fat[q].pc = "exchange" => q \in F!Holders
  BY DEF F!Inv, F!MutexOk, F!Holders, F!InCall
<1> QED
  BY <1>1, <1>2, <1>3 DEF F!Inv, F!OneExchange

LEMMA RfsInExchange ==
  ASSUME F!Inv, NEW p \in Procs, fat[p].pc = "exchange"
  PROVE  fat[p].pc # "idle" /\ p \notin F!Waiting(fmutex)
BY DEF F!Inv, F!MutexOk

\* What only takes or releases the mutex leaves the rest as it is.
RfsData == F!StoreOk /\ F!NetOk /\ F!Numbered /\ F!Answered /\ F!ReadRight
LEMMA RfsUndisturbed ==
  ASSUME F!Inv, UNCHANGED <<fcom, fseq, fnet, freplies, fstore, facked, fmaybe>>
  PROVE  RfsData'
BY DEF F!Inv, RfsData, F!StoreOk, F!NetOk, F!Numbered, F!Answered, F!ReadRight, F!Active, F!Allowed, F!Sets, F!Gives

LEMMA RfsStarts == F!Init => F!Inv
<1> SUFFICES ASSUME F!Init PROVE F!Inv
  OBVIOUS
<1>1. F!TypeOK
  <2>1. fdev \in [open : BOOLEAN, write : BOOLEAN, pos : Nat] /\ fseq \in Nat /\ fmixed \in BOOLEAN
    <3>1. PICK o \in BOOLEAN : fdev = [open |-> o, write |-> o, pos |-> 0]
      BY DEF F!Init
    <3>2. [open |-> o, write |-> o, pos |-> 0] \in [open : BOOLEAN, write : BOOLEAN, pos : Nat]
      OBVIOUS
    <3> QED
      BY <3>1, <3>2 DEF F!Init
  <2>2. fat \in [Procs -> [pc : {"idle", "wait", "exchange"}, r : F!Requests \cup {F!Request("none", 0)}]]
    BY DEF F!Init, F!Idle
  <2>3. fcom \in F!Messages /\ F!Fit(fcom)
    BY DEF F!Init, F!NoExchange, F!Messages, F!Fit
  <2>4. fnet \in Seq(F!Messages) /\ (\A k \in 1 .. Len(fnet) : F!Fit(fnet[k])) /\ freplies \in Seq(F!Replies)
    BY DEF F!Init
  <2>5. fstore \in [F!Positions -> F!Bytes] /\ facked \in [F!Positions -> F!Bytes] /\ fmaybe \in [F!Positions -> SUBSET F!Bytes]
    BY DEF F!Init, F!Empty, F!Bytes
  <2> QED
    BY <2>1, <2>2, <2>3, <2>4, <2>5 DEF F!TypeOK
<1>2. F!MutexOk
  <2>1. fmutex \in F!SemaphoreOf(Procs) /\ F!Waiting(fmutex) = {} /\ fmutex.count = 1
    BY RfsCreated DEF F!Init, F!semcreate
  <2>2. F!Holders = {}
    BY DEF F!Init, F!Holders, F!InCall, F!Idle
  <2> QED
    BY <2>1, <2>2 DEF F!MutexOk
<1>3. ~ F!Active
  BY DEF F!Init, F!Active, F!NoExchange
<1>4. fnet = <<>> /\ freplies = <<>> /\ ~ fmixed /\ fstore = facked
  BY DEF F!Init
<1>5. F!StoreOk /\ F!NetOk /\ F!Numbered /\ F!Answered /\ F!ReadRight /\ F!OneExchange
  BY <1>1, <1>3, <1>4 DEF F!StoreOk, F!NetOk, F!Numbered, F!Answered, F!ReadRight, F!OneExchange, F!Allowed
<1> QED
  BY <1>1, <1>2, <1>4, <1>5 DEF F!Inv

LEMMA RfsCallKeeps ==
  ASSUME F!Inv, NEW p \in Procs, NEW r \in F!Requests, F!Call(p, r)
  PROVE  F!Inv'
<1>1. F!MutexOk'
  BY RfsCallKeepsMutex DEF F!Inv
<1>2. RfsData'
  BY RfsUndisturbed DEF F!Call
<1>3. F!TypeOK'
  BY DEF F!Call, F!Inv, F!TypeOK
<1>4. F!OneExchange'
  BY DEF F!Call, F!Inv, F!OneExchange, F!Active, F!TypeOK, F!Idle
<1> QED
  BY <1>1, <1>2, <1>3, <1>4 DEF F!Call, F!Inv, RfsData

\* The calls that make no exchange.
LEMMA RfsShortKeeps ==
  ASSUME F!Inv, NEW p \in Procs, F!Enters(p), F!Returns(p), F!TypeOK',
         UNCHANGED <<fcom, fseq, fnet, freplies, fstore, facked, fmaybe, fmixed>>
  PROVE  F!Inv'
<1>1. F!MutexOk' /\ ~ F!Active
  BY RfsEnteredAlone, RfsReturnKeepsMutex DEF F!Inv
<1>2. RfsData'
  BY RfsUndisturbed
<1>3. F!OneExchange'
  BY <1>1 DEF F!OneExchange, F!Active
<1> QED
  BY <1>1, <1>2, <1>3 DEF F!Inv, RfsData

LEMMA RfsRefuseKeeps ==
  ASSUME F!Inv, NEW p \in Procs, F!RefuseCall(p) \/ F!rflseek(p) \/ F!rflclose(p) \/ F!AtBound(p)
  PROVE  F!Inv'
<1>1. F!Enters(p) /\ F!Returns(p) /\ UNCHANGED <<fcom, fseq, fnet, freplies, fstore, facked, fmaybe, fmixed>>
  BY DEF F!RefuseCall, F!rflseek, F!rflclose, F!AtBound, F!FailReturns, F!Returns
<1>2. fdev' \in [open : BOOLEAN, write : BOOLEAN, pos : Nat]
  <2>1. CASE F!rflseek(p)
    <3>1. fat[p].r \in F!Requests \cup {F!Request("none", 0)} /\ fat[p].r.op = "seek"
      BY <2>1 DEF F!rflseek, F!Inv, F!TypeOK
    <3>2. fat[p].r.arg \in Nat
      BY <3>1 DEF F!Requests, F!Request, F!Positions
    <3> QED
      BY <2>1, <3>2 DEF F!rflseek, F!Inv, F!TypeOK
  <2>2. CASE F!rflclose(p)
    BY <2>2 DEF F!rflclose, F!Inv, F!TypeOK
  <2>3. CASE F!RefuseCall(p) \/ F!AtBound(p)
    BY <2>3 DEF F!RefuseCall, F!AtBound, F!Inv, F!TypeOK
  <2> QED
    BY <2>1, <2>2, <2>3
<1>3. fat' \in [Procs -> [pc : {"idle", "wait", "exchange"}, r : F!Requests \cup {F!Request("none", 0)}]]
  BY <1>1 DEF F!Returns, F!Idle, F!Inv, F!TypeOK
<1>4. F!TypeOK'
  BY <1>1, <1>2, <1>3 DEF F!Inv, F!TypeOK
<1> QED
  BY <1>1, <1>4, RfsShortKeeps

\* An exchange under way stays the same one when its request gets another state.
LEMMA RfsSameRequest ==
  ASSUME F!TypeOK, F!Active, NEW s \in {"send", "recv"}, NEW n \in {fcom.tries, fcom.tries + 1},
         fcom' = [fcom EXCEPT !.pc = s, !.tries = n]
  PROVE  /\ fcom' \in F!Messages /\ F!Fit(fcom') /\ F!Active'
         /\ fcom'.op = fcom.op /\ fcom'.arg = fcom.arg /\ fcom'.pos = fcom.pos /\ fcom'.seq = fcom.seq
         /\ F!Gives(fcom') = F!Gives(fcom) /\ \A i : F!Sets(fcom', i) <=> F!Sets(fcom, i)
<1>1. fcom \in F!Messages /\ F!Fit(fcom)
  BY DEF F!TypeOK
<1>2. fcom' \in F!Messages
  <2>1. n \in Int /\ s \in {"idle", "send", "recv"}
    BY <1>1 DEF F!Messages
  <2> QED
    BY ONLY <1>1, <2>1, fcom' = [fcom EXCEPT !.pc = s, !.tries = n] DEF F!Messages
<1>3. /\ fcom'.pc = s
      /\ fcom'.op = fcom.op /\ fcom'.arg = fcom.arg /\ fcom'.pos = fcom.pos /\ fcom'.seq = fcom.seq
  <2>1. DOMAIN fcom = {"pc", "op", "arg", "pos", "seq", "tries"}
    BY <1>1 DEF F!Messages
  <2> QED
    BY <2>1
<1> QED
  BY <1>1, <1>2, <1>3 DEF F!Fit, F!Active, F!Gives, F!Sets

LEMMA RfsSameKeeps ==
  ASSUME F!Inv, F!Active, NEW s \in {"send", "recv"}, NEW n \in {fcom.tries, fcom.tries + 1},
         fcom' = [fcom EXCEPT !.pc = s, !.tries = n],
         UNCHANGED <<fdev, fmutex, fat, fseq, fstore, facked, fmaybe, fmixed>>,
         fnet' = fnet, freplies' \in {freplies, Tail(freplies)}, freplies # <<>> \/ freplies' = freplies
  PROVE  F!Inv'
<1>1. /\ fcom' \in F!Messages /\ F!Fit(fcom') /\ F!Active'
      /\ fcom'.op = fcom.op /\ fcom'.arg = fcom.arg /\ fcom'.pos = fcom.pos /\ fcom'.seq = fcom.seq
      /\ F!Gives(fcom') = F!Gives(fcom) /\ \A i : F!Sets(fcom', i) <=> F!Sets(fcom, i)
  BY RfsSameRequest DEF F!Inv
<1>2. /\ freplies' \in Seq(F!Replies)
      /\ \A k \in 1 .. Len(freplies') : \E j \in 1 .. Len(freplies) : freplies'[k] = freplies[j]
  <2>1. CASE freplies' = freplies
    BY <2>1 DEF F!Inv, F!TypeOK
  <2>2. CASE freplies # <<>> /\ freplies' = Tail(freplies)
    <3>1. freplies \in Seq(F!Replies)
      BY DEF F!Inv, F!TypeOK
    <3>2. freplies' \in Seq(F!Replies) /\ Len(freplies') = Len(freplies) - 1 /\ Len(freplies) \in Nat
          /\ \A k \in 1 .. Len(freplies') : freplies'[k] = freplies[k + 1]
      BY <2>2, <3>1
    <3>3. \A k \in 1 .. Len(freplies') : k + 1 \in 1 .. Len(freplies)
      BY <3>2
    <3> QED
      BY <3>2, <3>3
  <2> QED
    BY <2>1, <2>2
<1>3. F!TypeOK'
  BY <1>1, <1>2 DEF F!Inv, F!TypeOK
<1>4. F!MutexOk' /\ F!OneExchange'
  BY DEF F!Inv, F!MutexOk, F!OneExchange, F!Holders, F!InCall
<1>5. \A i \in F!Positions : F!Allowed(i)' = F!Allowed(i)
  BY <1>1 DEF F!Allowed
<1>6. F!StoreOk' /\ F!NetOk'
  BY <1>5 DEF F!Inv, F!StoreOk, F!NetOk, F!Sets, F!Gives
<1>7. F!Numbered'
  BY <1>1, <1>2 DEF F!Inv, F!Numbered
<1>8. F!Answered'
  BY <1>1, <1>2 DEF F!Inv, F!Answered
<1>9. F!ReadRight'
  BY <1>1, <1>2 DEF F!Inv, F!ReadRight
<1> QED
  BY <1>3, <1>4, <1>6, <1>7, <1>8, <1>9 DEF F!Inv

LEMMA RfsNewExchange ==
  ASSUME NEW o \in {"none", "open", "read", "close", "truncate", "size", "write", "seek"},
         NEW a \in F!Bytes \cup {0, 1} \cup F!Positions, NEW k \in Nat, NEW n \in Nat
  PROVE  [F!NoExchange EXCEPT !.pc = "send", !.op = o, !.arg = a, !.pos = k, !.seq = n] \in F!Messages
<1>1. F!NoExchange \in F!Messages
  BY DEF F!NoExchange, F!Messages
<1>2. \A c \in F!Messages :
        [c EXCEPT !.pc = "send", !.op = o, !.arg = a, !.pos = k, !.seq = n] \in F!Messages
  BY DEF F!Messages
<1> QED
  BY <1>1, <1>2

LEMMA RfsBeginsKeeps ==
  ASSUME F!Inv, NEW p \in Procs, F!Begins(p)
  PROVE  F!Inv'
<1> DEFINE c == [F!NoExchange EXCEPT !.pc = "send", !.op = fat[p].r.op, !.arg = fat[p].r.arg,
                                   !.pos = fdev.pos, !.seq = fseq]
<1>1. ~ F!Active /\ fat[p].pc = "wait" /\ p \notin F!Waiting(fmutex)
  BY RfsEnteredAlone DEF F!Begins, F!Enters
<1>2. /\ fcom' = c /\ fseq' = fseq + 1
      /\ UNCHANGED <<fdev, fmutex, fnet, freplies, fstore, facked, fmaybe, fmixed>>
  BY DEF F!Begins
<1>3. c.pc = "send" /\ c.op = fat[p].r.op /\ c.arg = fat[p].r.arg /\ c.pos = fdev.pos /\ c.seq = fseq
  BY DEF F!NoExchange
<1>4. c \in F!Messages /\ F!Fit(c)
  <2>1. fat[p].r \in F!Requests \cup {F!Request("none", 0)} /\ fdev.pos \in Nat /\ fseq \in Nat
    BY DEF F!Inv, F!TypeOK
  <2>2. /\ fat[p].r.op \in {"none", "open", "read", "close", "truncate", "size", "write", "seek"}
        /\ fat[p].r.arg \in F!Bytes \cup {0, 1} \cup F!Positions
        /\ fat[p].r.op = "write" => fat[p].r.arg \in F!Bytes
    BY <2>1 DEF F!Requests, F!Request, F!Bytes
  <2>3. c \in F!Messages
    <3> DEFINE o == fat[p].r.op
               g == fat[p].r.arg
               k == fdev.pos
    <3>1. /\ o \in {"none", "open", "read", "close", "truncate", "size", "write", "seek"}
          /\ g \in F!Bytes \cup {0, 1} \cup F!Positions /\ k \in Nat /\ fseq \in Nat
      BY <2>1, <2>2
    <3>2. c = [F!NoExchange EXCEPT !.pc = "send", !.op = o, !.arg = g, !.pos = k, !.seq = fseq]
      OBVIOUS
    <3> HIDE DEF o, g, k, c
    <3> QED
      BY <3>1, <3>2, RfsNewExchange
  <2>4. fat[p].r.op \in {"read", "write"} => fdev.pos \in F!Positions
    BY <2>1, RemoteNumbers DEF F!Begins, F!Positions
  <2> QED
    BY <1>3, <2>2, <2>3, <2>4 DEF F!Fit
<1> HIDE DEF c
<1>5. /\ fat' \in [Procs -> [pc : {"idle", "wait", "exchange"}, r : F!Requests \cup {F!Request("none", 0)}]]
      /\ fat'[p].pc = "exchange" /\ \A q \in Procs \ {p} : fat'[q] = fat[q]
  BY DEF F!Begins, F!Inv, F!TypeOK
<1>6. fseq \in Nat /\ fcom' \in F!Messages /\ F!Fit(fcom') /\ F!Active' /\ fcom'.seq = fseq
  BY <1>2, <1>3, <1>4 DEF F!Inv, F!TypeOK, F!Active
<1>7. F!TypeOK'
  BY <1>2, <1>5, <1>6 DEF F!Inv, F!TypeOK
<1>8. F!MutexOk'
  <2>1. F!InCall' = F!InCall
    BY <1>1, <1>5 DEF F!InCall
  <2>2. F!Waiting(fmutex) \subseteq {q \in Procs : fat'[q].pc = "wait"}
    BY <1>1, <1>5 DEF F!Inv, F!MutexOk
  <2> QED
    BY <1>2, <2>1, <2>2 DEF F!Inv, F!MutexOk, F!Holders
<1>9. F!OneExchange'
  BY <1>5 DEF F!OneExchange
<1>10. \A i \in F!Positions : F!Allowed(i) \subseteq F!Allowed(i)'
  BY <1>1, <1>2 DEF F!Allowed
<1>11. F!StoreOk' /\ F!NetOk'
  BY <1>2, <1>10 DEF F!Inv, F!StoreOk, F!NetOk, F!Sets, F!Gives
<1>12. /\ \A k \in 1 .. Len(freplies) : freplies[k].seq \in Nat /\ freplies[k].seq < fseq
       /\ \A k \in 1 .. Len(fnet) : fnet[k].seq \in Nat /\ fnet[k].seq < fseq
  <2>1. /\ \A k \in 1 .. Len(freplies) : freplies[k] \in F!Replies
        /\ \A k \in 1 .. Len(fnet) : fnet[k] \in F!Messages
    BY DEF F!Inv, F!TypeOK
  <2> QED
    BY <2>1 DEF F!Inv, F!Numbered, F!Messages, F!Replies
<1>13. F!Numbered'
  <2>1. /\ \A k \in 1 .. Len(fnet) : fnet[k].seq < fseq + 1 /\ fnet[k].seq # fseq
        /\ \A k \in 1 .. Len(freplies) : freplies[k].seq < fseq + 1
        /\ fseq = (fseq + 1) - 1
    BY <1>6, <1>12
  <2>2. \A j, k \in 1 .. Len(fnet) : j < k => fnet[j].seq <= fnet[k].seq
    BY DEF F!Inv, F!Numbered
  <2>3. fcom'.seq = fseq /\ fseq' = fseq + 1 /\ fnet' = fnet /\ freplies' = freplies
    BY <1>2, <1>6
  <2> QED
    BY <2>1, <2>2, <2>3 DEF F!Numbered
<1>14. F!Answered' /\ F!ReadRight'
  BY <1>2, <1>6, <1>12 DEF F!Answered, F!ReadRight
<1> QED
  BY <1>2, <1>7, <1>8, <1>9, <1>11, <1>13, <1>14 DEF F!Inv

LEMMA RfsTimesOutKeeps ==
  ASSUME F!Inv, NEW p \in Procs, F!TimesOut(p)
  PROVE  F!Inv'
<1>1. F!Active /\ fcom' = [fcom EXCEPT !.pc = "send", !.tries = fcom.tries + 1]
  BY DEF F!TimesOut, F!TryAgain, F!Active
<1> QED
  BY <1>1, RfsSameKeeps DEF F!TimesOut

LEMMA RfsTransmitKeeps ==
  ASSUME F!Inv, NEW p \in Procs, F!Transmit(p)
  PROVE  F!Inv'
<1>1. /\ F!Active /\ fcom' = [fcom EXCEPT !.pc = "recv", !.tries = fcom.tries]
      /\ UNCHANGED <<fdev, fmutex, fat, fseq, freplies, fstore, facked, fmaybe, fmixed>>
  <2>1. fcom' = [fcom EXCEPT !.pc = "recv"] /\ fcom \in F!Messages
    BY DEF F!Transmit, F!Inv, F!TypeOK
  <2>2. fcom' = [fcom EXCEPT !.pc = "recv", !.tries = fcom.tries]
    BY <2>1 DEF F!Messages
  <2> QED
    BY <2>2 DEF F!Transmit, F!Active
<1>2. CASE fnet' = fnet
  BY <1>1, <1>2, RfsSameKeeps
<1>3. CASE fnet' = Append(fnet, fcom)
  <2>1. /\ fcom' \in F!Messages /\ F!Fit(fcom') /\ F!Active'
        /\ fcom'.op = fcom.op /\ fcom'.arg = fcom.arg /\ fcom'.pos = fcom.pos /\ fcom'.seq = fcom.seq
        /\ F!Gives(fcom') = F!Gives(fcom) /\ \A i : F!Sets(fcom', i) <=> F!Sets(fcom, i)
    BY <1>1, RfsSameRequest DEF F!Inv
  <2>2. fnet \in Seq(F!Messages) /\ fcom \in F!Messages /\ F!Fit(fcom) /\ Len(fnet) \in Nat
    BY DEF F!Inv, F!TypeOK
  <2>3. /\ fnet' \in Seq(F!Messages) /\ Len(fnet') = Len(fnet) + 1
        /\ \A k \in 1 .. Len(fnet) : fnet'[k] = fnet[k]
        /\ fnet'[Len(fnet) + 1] = fcom
    BY <1>3, <2>2
  <2> DEFINE n == Len(fnet)
  <2>4. \A k \in 1 .. Len(fnet') : k \in 1 .. n \/ k = n + 1
    BY <2>2, <2>3
  <2>5. n \in Nat /\ \A k \in 1 .. n : fnet'[k] = fnet[k]
    BY <2>2, <2>3
  <2>6. fnet'[n + 1] = fcom
    BY <2>3
  <2>7. fcom.seq = fseq - 1 /\ fcom.seq \in Nat /\ fseq \in Nat
    BY <1>1, <2>2 DEF F!Inv, F!Numbered, F!TypeOK, F!Messages
  <2>8. \A k \in 1 .. n : fnet[k].seq \in Nat /\ fnet[k].seq < fseq /\ F!Fit(fnet[k])
    <3>1. \A k \in 1 .. n : fnet[k] \in F!Messages
      BY <2>2
    <3>2. \A k \in 1 .. n : fnet[k].seq < fseq /\ F!Fit(fnet[k])
      BY DEF F!Inv, F!Numbered, F!TypeOK
    <3> QED
      BY <3>1, <3>2 DEF F!Messages
  <2>9. \A j, k \in 1 .. n : j < k => fnet[j].seq <= fnet[k].seq
    BY DEF F!Inv, F!Numbered
  <2> HIDE DEF n
  <2>10. \A k \in 1 .. Len(fnet') : F!Fit(fnet'[k]) /\ fnet'[k].seq < fseq
    BY <2>2, <2>4, <2>5, <2>6, <2>7, <2>8
  <2>11. F!TypeOK'
    BY <1>1, <2>1, <2>3, <2>10 DEF F!Inv, F!TypeOK
  <2>12. F!MutexOk' /\ F!OneExchange'
    BY <1>1 DEF F!Inv, F!MutexOk, F!OneExchange, F!Holders, F!InCall
  <2>13. \A i \in F!Positions : F!Allowed(i)' = F!Allowed(i)
    BY <1>1, <2>1 DEF F!Allowed
  <2>14. F!StoreOk'
    BY <1>1, <2>13 DEF F!Inv, F!StoreOk
  <2>15. F!NetOk'
    <3>1. \A k \in 1 .. n : \A i \in F!Positions : F!Sets(fnet[k], i) => F!Gives(fnet[k]) \in F!Allowed(i)
      BY DEF F!Inv, F!NetOk, n
    <3>2. \A i \in F!Positions : F!Sets(fcom, i) => F!Gives(fcom) \in F!Allowed(i)
      BY <1>1 DEF F!Allowed
    <3>3. \A k \in 1 .. Len(fnet') : \A i \in F!Positions : F!Sets(fnet'[k], i) => F!Gives(fnet'[k]) \in F!Allowed(i)'
      BY <2>4, <2>5, <2>6, <2>13, <3>1, <3>2
    <3> QED
      BY <3>3 DEF F!NetOk, F!Sets, F!Gives
  <2>16. F!Numbered'
    <3>1. \A j, k \in 1 .. Len(fnet') : j < k => fnet'[j].seq <= fnet'[k].seq
      <4>1. \A j \in 1 .. n : fnet[j].seq <= fcom.seq
        BY <2>7, <2>8
      <4> QED
        BY <2>4, <2>5, <2>6, <2>7, <2>9, <4>1
    <3>2. \A k \in 1 .. n : fnet[k].seq = fcom.seq => fnet[k].op = fcom.op /\ fnet[k].arg = fcom.arg /\ fnet[k].pos = fcom.pos
      BY <1>1 DEF F!Inv, F!Numbered, n
    <3>3. \A k \in 1 .. Len(fnet') :
             fnet'[k].seq = fcom.seq => fnet'[k].op = fcom.op /\ fnet'[k].arg = fcom.arg /\ fnet'[k].pos = fcom.pos
      BY <2>4, <2>5, <2>6, <3>2
    <3>4. \A k \in 1 .. Len(freplies) : freplies[k].seq < fseq
      BY DEF F!Inv, F!Numbered
    <3> QED
      BY <1>1, <2>1, <2>7, <2>10, <3>1, <3>3, <3>4 DEF F!Numbered
  <2>17. F!Answered'
    <3> SUFFICES ASSUME \E k \in 1 .. Len(freplies) : freplies[k].seq = fcom.seq /\ freplies[k].status = 0
                 PROVE  /\ \A k \in 1 .. Len(fnet') : fnet'[k].seq = fcom'.seq
                        /\ \A i \in F!Positions : F!Sets(fcom', i) => fstore'[i] = F!Gives(fcom')
      BY <1>1, <2>1 DEF F!Answered, F!Sets, F!Gives
    <3>1. /\ \A k \in 1 .. n : fnet[k].seq = fcom.seq
          /\ \A i \in F!Positions : F!Sets(fcom, i) => fstore[i] = F!Gives(fcom)
      BY <1>1 DEF F!Inv, F!Answered, n
    <3> QED
      BY <1>1, <2>1, <2>4, <2>5, <2>6, <3>1
  <2>18. F!ReadRight'
    BY <1>1, <2>1 DEF F!Inv, F!ReadRight
  <2> QED
    BY <1>1, <2>11, <2>12, <2>14, <2>15, <2>16, <2>17, <2>18 DEF F!Inv
<1> QED
  BY <1>2, <1>3 DEF F!Transmit

\* The end of an exchange: what it did or may have done has been noted.
LEMMA RfsEndKeeps ==
  ASSUME F!Inv, NEW p \in Procs, fat[p].pc = "exchange", F!Returns(p), fcom' = F!NoExchange,
         UNCHANGED <<fseq, fnet, fstore>>, ~ fmixed', fmixed' \in BOOLEAN,
         fdev' \in [open : BOOLEAN, write : BOOLEAN, pos : Nat],
         freplies' \in {freplies, Tail(freplies)}, freplies # <<>> \/ freplies' = freplies,
         facked' \in [F!Positions -> F!Bytes], fmaybe' \in [F!Positions -> SUBSET F!Bytes],
         \A i \in F!Positions : fstore[i] \in {facked'[i]} \cup fmaybe'[i],
         \A k \in 1 .. Len(fnet) : \A i \in F!Positions :
            F!Sets(fnet[k], i) => F!Gives(fnet[k]) \in {facked'[i]} \cup fmaybe'[i]
  PROVE  F!Inv'
<1>1. ~ F!Active' /\ fcom' \in F!Messages /\ F!Fit(fcom')
  BY DEF F!Active, F!NoExchange, F!Messages, F!Fit
<1>2. F!MutexOk'
  BY RfsInExchange, RfsReturnKeepsMutex DEF F!Inv
<1>3. /\ freplies' \in Seq(F!Replies)
      /\ \A k \in 1 .. Len(freplies') : \E j \in 1 .. Len(freplies) : freplies'[k] = freplies[j]
  <2>1. freplies \in Seq(F!Replies)
    BY DEF F!Inv, F!TypeOK
  <2>2. CASE freplies' = freplies
    BY <2>1, <2>2
  <2>3. CASE freplies # <<>> /\ freplies' = Tail(freplies)
    <3>1. freplies' \in Seq(F!Replies) /\ Len(freplies') = Len(freplies) - 1 /\ Len(freplies) \in Nat
          /\ \A k \in 1 .. Len(freplies') : freplies'[k] = freplies[k + 1]
      BY <2>1, <2>3
    <3>2. \A k \in 1 .. Len(freplies') : k + 1 \in 1 .. Len(freplies)
      BY <3>1
    <3> QED
      BY <3>1, <3>2
  <2> QED
    BY <2>2, <2>3
<1>4. fat' \in [Procs -> [pc : {"idle", "wait", "exchange"}, r : F!Requests \cup {F!Request("none", 0)}]]
  BY DEF F!Returns, F!Idle, F!Inv, F!TypeOK
<1>5. F!TypeOK'
  BY <1>1, <1>3, <1>4 DEF F!Inv, F!TypeOK
<1>6. \A i \in F!Positions : F!Allowed(i)' = {facked'[i]} \cup fmaybe'[i]
  BY <1>1 DEF F!Allowed
<1>7. F!StoreOk'
  BY <1>6 DEF F!StoreOk
<1>8. F!NetOk'
  BY <1>6 DEF F!NetOk, F!Sets, F!Gives
<1>9. F!Numbered'
  BY <1>1, <1>3 DEF F!Inv, F!Numbered
<1>10. F!Answered' /\ F!ReadRight' /\ F!OneExchange'
  BY <1>1 DEF F!Answered, F!ReadRight, F!OneExchange
<1> QED
  BY <1>2, <1>5, <1>7, <1>8, <1>9, <1>10 DEF F!Inv

\* After MaybeDone whatever the exchange may do is among what may be there.
LEMMA RfsMaybeDoneAllows ==
  ASSUME F!Inv, F!Active, F!MaybeDone
  PROVE  /\ fmaybe' \in [F!Positions -> SUBSET F!Bytes]
         /\ \A i \in F!Positions : F!Allowed(i) \subseteq {facked[i]} \cup fmaybe'[i]
<1>1. /\ fmaybe \in [F!Positions -> SUBSET F!Bytes] /\ F!Fit(fcom)
  BY DEF F!Inv, F!TypeOK
<1>2. CASE fcom.op = "write"
  <2>1. fmaybe' = [fmaybe EXCEPT ![fcom.pos] = @ \cup {fcom.arg}]
    BY <1>2 DEF F!MaybeDone
  <2>2. fcom.pos \in F!Positions /\ fcom.arg \in F!Bytes
    BY <1>1, <1>2 DEF F!Fit
  <2> QED
    BY <1>1, <1>2, <2>1, <2>2 DEF F!Allowed, F!Sets, F!Gives
<1>3. CASE fcom.op = "truncate"
  <2>1. fmaybe' = [i \in F!Positions |-> fmaybe[i] \cup {F!NOBYTE}]
    BY <1>3 DEF F!MaybeDone
  <2> QED
    BY <1>1, <1>3, <2>1 DEF F!Allowed, F!Sets, F!Gives, F!Bytes
<1>4. CASE fcom.op \notin {"write", "truncate"}
  BY <1>1, <1>4 DEF F!Allowed, F!Sets, F!MaybeDone
<1> QED
  BY <1>2, <1>3, <1>4

LEMMA RfsFailKeeps ==
  ASSUME F!Inv, NEW p \in Procs, fat[p].pc = "exchange", F!Active, F!FailReturns(p), fcom' = F!NoExchange,
         F!MaybeDone, UNCHANGED <<fdev, fseq, fnet, fstore, facked, fmixed>>,
         freplies' \in {freplies, Tail(freplies)}, freplies # <<>> \/ freplies' = freplies
  PROVE  F!Inv'
<1>1. /\ fmaybe' \in [F!Positions -> SUBSET F!Bytes]
      /\ \A i \in F!Positions : F!Allowed(i) \subseteq {facked[i]} \cup fmaybe'[i]
  BY RfsMaybeDoneAllows
<1>2. \A i \in F!Positions : fstore[i] \in {facked'[i]} \cup fmaybe'[i]
  BY <1>1 DEF F!Inv, F!StoreOk
<1>3. \A k \in 1 .. Len(fnet) : \A i \in F!Positions :
        F!Sets(fnet[k], i) => F!Gives(fnet[k]) \in {facked'[i]} \cup fmaybe'[i]
  BY <1>1 DEF F!Inv, F!NetOk
<1>4. /\ fdev' \in [open : BOOLEAN, write : BOOLEAN, pos : Nat] /\ facked' \in [F!Positions -> F!Bytes]
      /\ ~ fmixed' /\ fmixed' \in BOOLEAN /\ F!Returns(p)
  BY DEF F!Inv, F!TypeOK, F!FailReturns, F!Returns
<1> QED
  BY <1>1, <1>2, <1>3, <1>4, RfsEndKeeps

LEMMA RfsGivesUpKeeps ==
  ASSUME F!Inv, NEW p \in Procs, F!GivesUp(p)
  PROVE  F!Inv'
BY RfsFailKeeps DEF F!GivesUp, F!Active

\* When the server has answered, the file and all requests on their way agree with the
\* request of the exchange.
LEMMA RfsAnsweredAll ==
  ASSUME F!Inv, F!Active, freplies # <<>>, Head(freplies).seq = fcom.seq, Head(freplies).status = 0
  PROVE  /\ \A i \in F!Positions : F!Sets(fcom, i) => fstore[i] = F!Gives(fcom)
         /\ \A k \in 1 .. Len(fnet) : \A i \in F!Positions :
              /\ F!Sets(fnet[k], i) <=> F!Sets(fcom, i)
              /\ F!Sets(fcom, i) => F!Gives(fnet[k]) = F!Gives(fcom)
<1>1. 1 \in 1 .. Len(freplies) /\ freplies[1] = Head(freplies)
  BY DEF F!Inv, F!TypeOK
<1>2. /\ \A k \in 1 .. Len(fnet) : fnet[k].seq = fcom.seq
      /\ \A i \in F!Positions : F!Sets(fcom, i) => fstore[i] = F!Gives(fcom)
  BY <1>1 DEF F!Inv, F!Answered
<1>3. \A k \in 1 .. Len(fnet) : fnet[k].op = fcom.op /\ fnet[k].arg = fcom.arg /\ fnet[k].pos = fcom.pos
  BY <1>2 DEF F!Inv, F!Numbered
<1> QED
  BY <1>2, <1>3 DEF F!Sets, F!Gives

LEMMA RfsSuccessKeeps ==
  ASSUME F!Inv, NEW p \in Procs, fat[p].pc = "exchange", fcom.pc = "recv", freplies # <<>>,
         freplies' = Tail(freplies), F!Accepts(Head(freplies)), Head(freplies).status = 0,
         fcom' = F!NoExchange, F!Returns(p), F!Succeeds(Head(freplies)), UNCHANGED <<fseq, fnet, fstore>>
  PROVE  F!Inv'
<1> DEFINE r == Head(freplies)
<1>1. /\ F!Active
      /\ \A i \in F!Positions : F!Sets(fcom, i) => fstore[i] = F!Gives(fcom)
      /\ \A k \in 1 .. Len(fnet) : \A i \in F!Positions :
           /\ F!Sets(fnet[k], i) <=> F!Sets(fcom, i)
           /\ F!Sets(fcom, i) => F!Gives(fnet[k]) = F!Gives(fcom)
  <2>1. F!Active /\ r.seq = fcom.seq
    BY DEF F!Accepts, F!Active
  <2> QED
    BY <2>1, RfsAnsweredAll
<1>2. /\ fcom \in F!Messages /\ F!Fit(fcom) /\ fdev \in [open : BOOLEAN, write : BOOLEAN, pos : Nat]
      /\ fstore \in [F!Positions -> F!Bytes] /\ facked \in [F!Positions -> F!Bytes]
      /\ fmaybe \in [F!Positions -> SUBSET F!Bytes] /\ ~ fmixed /\ fmixed \in BOOLEAN
  BY DEF F!Inv, F!TypeOK
<1>3. \A i \in F!Positions : ~ F!Sets(fcom, i) =>
        /\ fstore[i] \in {facked[i]} \cup fmaybe[i]
        /\ \A k \in 1 .. Len(fnet) : ~ F!Sets(fnet[k], i)
  BY <1>1 DEF F!Inv, F!StoreOk, F!Allowed
<1>4. CASE /\ \A i \in F!Positions : ~ F!Sets(fcom, i)
           /\ UNCHANGED <<facked, fmaybe>> /\ fmixed' = FALSE
           /\ fdev' \in [open : BOOLEAN, write : BOOLEAN, pos : Nat]
  BY <1>1, <1>2, <1>3, <1>4, RfsEndKeeps
<1>5. CASE F!rfsopen
  <2>1. \A i \in F!Positions : ~ F!Sets(fcom, i)
    BY <1>5 DEF F!rfsopen, F!Sets
  <2>2. UNCHANGED <<facked, fmaybe>> /\ fmixed' = FALSE
    BY <1>2, <1>5 DEF F!rfsopen
  <2>3. fdev' \in [open : BOOLEAN, write : BOOLEAN, pos : Nat]
    BY <1>5 DEF F!rfsopen
  <2> QED
    BY <1>4, <2>1, <2>2, <2>3
<1>6. CASE F!rflread(r)
  <2>1. \A i \in F!Positions : ~ F!Sets(fcom, i)
    BY <1>6 DEF F!rflread, F!Sets
  <2>2. r.val \in {facked[fcom.pos]} \cup fmaybe[fcom.pos]
    <3>1. 1 \in 1 .. Len(freplies) /\ freplies[1] = r
      BY DEF F!Inv, F!TypeOK
    <3>2. r.seq = fcom.seq /\ r.op = "read" /\ fcom.op = "read"
      BY <1>6 DEF F!Accepts, F!rflread
    <3> QED
      BY <1>1, <3>1, <3>2 DEF F!Inv, F!ReadRight
  <2>3. UNCHANGED <<facked, fmaybe>> /\ fmixed' = FALSE
    BY <1>2, <1>6, <2>2 DEF F!rflread
  <2>4. fdev' \in [open : BOOLEAN, write : BOOLEAN, pos : Nat]
    BY <1>2, <1>6 DEF F!rflread
  <2> QED
    BY <1>4, <2>1, <2>3, <2>4
<1>7. CASE F!rflwrite
  <2>1. fcom.op = "write" /\ fcom.pos \in F!Positions /\ fcom.arg \in F!Bytes
    BY <1>2, <1>7 DEF F!rflwrite, F!Fit
  <2>2. /\ facked' = [facked EXCEPT ![fcom.pos] = fcom.arg] /\ fmaybe' = [fmaybe EXCEPT ![fcom.pos] = {}]
        /\ fmixed' = fmixed /\ fdev' = [fdev EXCEPT !.pos = @ + 1]
    BY <1>7 DEF F!rflwrite
  <2>3. fdev' \in [open : BOOLEAN, write : BOOLEAN, pos : Nat]
    BY <1>2, <2>2
  <2>4. facked' \in [F!Positions -> F!Bytes] /\ fmaybe' \in [F!Positions -> SUBSET F!Bytes]
    BY <1>2, <2>1, <2>2
  <2>5. \A i \in F!Positions : F!Sets(fcom, i) <=> i = fcom.pos
    BY <2>1 DEF F!Sets
  <2>6. F!Gives(fcom) = fcom.arg
    BY <2>1 DEF F!Gives
  <2>7. facked'[fcom.pos] = F!Gives(fcom) /\ \A i \in F!Positions \ {fcom.pos} : facked'[i] = facked[i] /\ fmaybe'[i] = fmaybe[i]
    BY <1>2, <2>1, <2>2, <2>6
  <2>8. \A i \in F!Positions : fstore[i] \in {facked'[i]} \cup fmaybe'[i]
    BY <1>1, <1>3, <2>5, <2>7
  <2>9. \A k \in 1 .. Len(fnet) : \A i \in F!Positions :
          F!Sets(fnet[k], i) => F!Gives(fnet[k]) \in {facked'[i]} \cup fmaybe'[i]
    BY <1>1, <2>5, <2>7
  <2> QED
    BY <1>2, <2>2, <2>3, <2>4, <2>8, <2>9, RfsEndKeeps
<1>8. CASE fcom.op = "truncate" /\ facked' = F!Empty /\ fmaybe' = [i \in F!Positions |-> {}]
           /\ UNCHANGED <<fdev, fmixed>>
  <2>1. \A i \in F!Positions : F!Sets(fcom, i) /\ F!Gives(fcom) = F!NOBYTE
    BY <1>8 DEF F!Sets, F!Gives
  <2>2. \A i \in F!Positions : facked'[i] = F!NOBYTE
    BY <1>8 DEF F!Empty
  <2>3. facked' \in [F!Positions -> F!Bytes] /\ fmaybe' \in [F!Positions -> SUBSET F!Bytes]
    BY <1>8 DEF F!Empty, F!Bytes
  <2>4. \A i \in F!Positions : fstore[i] \in {facked'[i]} \cup fmaybe'[i]
    BY <1>1, <2>1, <2>2
  <2>5. \A k \in 1 .. Len(fnet) : \A i \in F!Positions :
          F!Sets(fnet[k], i) => F!Gives(fnet[k]) \in {facked'[i]} \cup fmaybe'[i]
    BY <1>1, <2>1, <2>2
  <2> QED
    BY <1>2, <1>8, <2>3, <2>4, <2>5, RfsEndKeeps
<1>9. CASE fcom.op = "size" /\ UNCHANGED <<fdev, facked, fmaybe, fmixed>>
  <2>1. \A i \in F!Positions : ~ F!Sets(fcom, i)
    BY <1>9 DEF F!Sets
  <2> QED
    BY <1>2, <1>4, <1>9, <2>1
<1> QED
  BY <1>5, <1>6, <1>7, <1>8, <1>9 DEF F!Succeeds, F!rfscontrol

LEMMA RfsReceiveKeeps ==
  ASSUME F!Inv, NEW p \in Procs, F!Receive(p)
  PROVE  F!Inv'
<1>1. /\ fat[p].pc = "exchange" /\ fcom.pc = "recv" /\ freplies # <<>> /\ freplies' = Tail(freplies) /\ F!Active
      /\ UNCHANGED <<fseq, fnet, fstore>>
  BY DEF F!Receive, F!Active
<1>2. CASE ~ F!Accepts(Head(freplies)) /\ F!TryAgain /\ UNCHANGED <<fdev, fmutex, fat, facked, fmaybe, fmixed>>
  BY <1>1, <1>2, RfsSameKeeps DEF F!TryAgain
<1>3. CASE /\ F!Accepts(Head(freplies)) /\ Head(freplies).status = 0 /\ fcom' = F!NoExchange
           /\ F!Returns(p) /\ F!Succeeds(Head(freplies))
  BY <1>1, <1>3, RfsSuccessKeeps
<1>4. CASE fcom' = F!NoExchange /\ F!FailReturns(p) /\ F!MaybeDone /\ UNCHANGED <<fdev, facked, fmixed>>
  BY <1>1, <1>4, RfsFailKeeps
<1> QED
  BY <1>2, <1>3, <1>4 DEF F!Receive

\* The server carries out a request as Sets and Gives say.
LEMMA RfsExecuted ==
  ASSUME F!Inv, NEW m \in F!Messages, F!Fit(m), F!Executes(m)
  PROVE  /\ fstore' \in [F!Positions -> F!Bytes]
         /\ \A i \in F!Positions : fstore'[i] = IF F!Sets(m, i) THEN F!Gives(m) ELSE fstore[i]
<1>1. fstore \in [F!Positions -> F!Bytes]
  BY DEF F!Inv, F!TypeOK
<1>2. CASE m.op = "write"
  <2>1. fstore' = [fstore EXCEPT ![m.pos] = m.arg] /\ m.pos \in F!Positions /\ m.arg \in F!Bytes
    BY <1>2 DEF F!Executes, F!Fit
  <2> QED
    BY <1>1, <1>2, <2>1 DEF F!Sets, F!Gives
<1>3. CASE m.op = "truncate"
  BY <1>3 DEF F!Executes, F!Empty, F!Sets, F!Gives, F!Bytes
<1>4. CASE m.op \notin {"write", "truncate"}
  BY <1>1, <1>4 DEF F!Executes, F!Sets
<1> QED
  BY <1>2, <1>3, <1>4

LEMMA RfsServerKeeps ==
  ASSUME F!Inv, F!Server
  PROVE  F!Inv'
<1> DEFINE m == Head(fnet)
           n == Len(fnet')
<1>1. /\ fnet # <<>> /\ fnet' = Tail(fnet)
      /\ UNCHANGED <<fdev, fmutex, fat, fcom, fseq, facked, fmaybe, fcalls, fmixed>>
  BY DEF F!Server
<1>2. /\ fnet \in Seq(F!Messages) /\ freplies \in Seq(F!Replies) /\ fstore \in [F!Positions -> F!Bytes]
      /\ \A k \in 1 .. Len(fnet) : F!Fit(fnet[k])
  BY DEF F!Inv, F!TypeOK
<1>3. /\ fnet' \in Seq(F!Messages) /\ n \in Nat /\ Len(fnet) \in Nat /\ n + 1 = Len(fnet)
      /\ \A k \in 1 .. n : fnet'[k] = fnet[k + 1]
      /\ fnet[1] = m
  BY <1>1, <1>2
<1>4. /\ 1 \in 1 .. Len(fnet) /\ \A k \in 1 .. n : k + 1 \in 1 .. Len(fnet)
      /\ \A k \in 1 .. n : 1 < k + 1
      /\ \A j, k \in 1 .. n : j < k => j + 1 < k + 1
  BY <1>3
<1>5. m \in F!Messages /\ F!Fit(m) /\ m.seq \in Nat /\ m.seq < fseq
  <2>1. m \in F!Messages /\ F!Fit(m)
    BY <1>2, <1>3, <1>4
  <2>2. m.seq < fseq
    BY <1>3, <1>4 DEF F!Inv, F!Numbered
  <2> QED
    BY <2>1, <2>2 DEF F!Messages
<1> HIDE DEF m, n
<1>6. \A k \in 1 .. n : F!Fit(fnet'[k]) /\ fnet'[k] \in F!Messages /\ fnet'[k].seq < fseq /\ m.seq <= fnet'[k].seq
  <2>1. \A k \in 1 .. n : F!Fit(fnet'[k]) /\ fnet'[k] \in F!Messages
    <3> SUFFICES ASSUME NEW k \in 1 .. n PROVE F!Fit(fnet'[k]) /\ fnet'[k] \in F!Messages
      OBVIOUS
    <3>1. fnet'[k] = fnet[k + 1] /\ k + 1 \in 1 .. Len(fnet)
      BY <1>3, <1>4
    <3>2. \A j \in 1 .. Len(fnet) : fnet[j] \in F!Messages
      BY <1>2
    <3> QED
      BY <1>2, <3>1, <3>2
  <2>2. \A k \in 1 .. Len(fnet) : fnet[k].seq < fseq
    BY DEF F!Inv, F!Numbered
  <2>3. \A j, k \in 1 .. Len(fnet) : j < k => fnet[j].seq <= fnet[k].seq
    BY DEF F!Inv, F!Numbered
  <2> QED
    BY <1>3, <1>4, <2>1, <2>2, <2>3
<1>7. \A i \in F!Positions : F!Sets(m, i) => F!Gives(m) \in F!Allowed(i)
  BY <1>3, <1>4 DEF F!Inv, F!NetOk
<1>8. F!Active /\ m.seq = fcom.seq => m.op = fcom.op /\ m.arg = fcom.arg /\ m.pos = fcom.pos
  BY <1>3, <1>4 DEF F!Inv, F!Numbered
<1>9. \A i \in F!Positions : F!Allowed(i)' = F!Allowed(i)
  BY <1>1 DEF F!Allowed, F!Active, F!Sets, F!Gives
<1>10. F!MutexOk' /\ F!OneExchange'
  BY <1>1 DEF F!Inv, F!MutexOk, F!OneExchange, F!Holders, F!InCall, F!Active
<1>11. F!NetOk'
  <2>1. \A k \in 1 .. Len(fnet) : \A i \in F!Positions : F!Sets(fnet[k], i) => F!Gives(fnet[k]) \in F!Allowed(i)
    BY DEF F!Inv, F!NetOk
  <2>2. \A k \in 1 .. n : \A i \in F!Positions : F!Sets(fnet'[k], i) => F!Gives(fnet'[k]) \in F!Allowed(i)'
    BY <1>3, <1>4, <1>9, <2>1
  <2> QED
    BY <2>2 DEF F!NetOk, F!Sets, F!Gives, n
\* Whether the request is carried out or refused, and answered or not.
<1>12. PICK status \in {0, 1} :
         /\ status = 0 => F!Executes(m)
         /\ status = 1 => fstore' = fstore
         /\ freplies' \in {freplies, Append(freplies, F!Reply(m, status))}
  <2>1. \/ F!Executes(m) /\ freplies' \in {freplies, Append(freplies, F!Reply(m, 0))}
        \/ fstore' = fstore /\ freplies' = Append(freplies, F!Reply(m, 1))
    BY DEF F!Server, m
  <2>2. CASE F!Executes(m) /\ freplies' \in {freplies, Append(freplies, F!Reply(m, 0))}
    <3>1. 0 \in {0, 1} /\ 0 # 1
      OBVIOUS
    <3> QED
      BY <2>2, <3>1
  <2>3. CASE fstore' = fstore /\ freplies' = Append(freplies, F!Reply(m, 1))
    <3>1. 1 \in {0, 1} /\ 0 # 1
      OBVIOUS
    <3> QED
      BY <2>3, <3>1
  <2> QED
    BY <2>1, <2>2, <2>3
<1>13. /\ fstore' \in [F!Positions -> F!Bytes]
       /\ status = 0 => \A i \in F!Positions : fstore'[i] = IF F!Sets(m, i) THEN F!Gives(m) ELSE fstore[i]
       /\ status = 1 => \A i \in F!Positions : fstore'[i] = fstore[i]
  BY <1>2, <1>5, <1>12, RfsExecuted
<1>14. F!StoreOk'
  <2>1. \A i \in F!Positions : fstore'[i] \in F!Allowed(i)
    BY <1>7, <1>13 DEF F!Inv, F!StoreOk
  <2> QED
    BY <1>9, <2>1 DEF F!StoreOk
<1> DEFINE e == F!Reply(m, status)
<1>15. /\ e.seq = m.seq /\ e.status = status /\ e.op = m.op
       /\ m.op = "read" => e.val = fstore[m.pos]
  BY DEF F!Reply
<1>16. e \in F!Replies
  <2>1. m.op \in {"open", "read", "truncate", "size", "write", "none", "close", "seek"}
    BY <1>5 DEF F!Messages
  <2>2. (IF m.op = "read" THEN fstore[m.pos] ELSE 0) \in F!Bytes \cup {0}
    BY <1>2, <1>5 DEF F!Fit
  <2> QED
    BY <1>5, <2>1, <2>2 DEF F!Reply, F!Replies
<1> HIDE DEF e
<1>17. /\ freplies' \in Seq(F!Replies)
       /\ \A k \in 1 .. Len(freplies') :
            \/ k \in 1 .. Len(freplies) /\ freplies'[k] = freplies[k]
            \/ freplies'[k] = e
  <2>1. CASE freplies' = freplies
    BY <1>2, <2>1
  <2>2. CASE freplies' = Append(freplies, e)
    <3> DEFINE l == Len(freplies)
    <3>1. /\ freplies' \in Seq(F!Replies) /\ Len(freplies') = l + 1 /\ l \in Nat
          /\ \A k \in 1 .. l : freplies'[k] = freplies[k]
      BY <1>2, <1>16, <2>2
    <3>2. freplies'[l + 1] = e
      BY <1>2, <1>16, <2>2
    <3> HIDE DEF l
    <3>3. \A k \in 1 .. Len(freplies') : k \in 1 .. l \/ k = l + 1
      BY <3>1
    <3>4. \A k \in 1 .. Len(freplies') : (k \in 1 .. l /\ freplies'[k] = freplies[k]) \/ freplies'[k] = e
      BY ONLY <3>1, <3>2, <3>3
    <3> QED
      BY <3>1, <3>4 DEF l
  <2> QED
    BY <1>12, <2>1, <2>2 DEF e
<1>18. F!TypeOK'
  <2>1. \A k \in 1 .. Len(fnet') : F!Fit(fnet'[k])
    BY <1>6 DEF n
  <2> QED
    BY <1>1, <1>3, <1>13, <1>17, <2>1 DEF F!Inv, F!TypeOK
<1>19. F!Numbered'
  <2>1. \A k \in 1 .. Len(freplies') : freplies'[k].seq < fseq
    BY <1>5, <1>15, <1>17 DEF F!Inv, F!Numbered
  <2>2. \A j, k \in 1 .. n : j < k => fnet'[j].seq <= fnet'[k].seq
    <3>1. \A j, k \in 1 .. Len(fnet) : j < k => fnet[j].seq <= fnet[k].seq
      BY DEF F!Inv, F!Numbered
    <3> QED
      BY <1>3, <1>4, <3>1
  <2>3. \A k \in 1 .. n : F!Active /\ fnet'[k].seq = fcom.seq =>
          fnet'[k].op = fcom.op /\ fnet'[k].arg = fcom.arg /\ fnet'[k].pos = fcom.pos
    <3>1. \A k \in 1 .. Len(fnet) : F!Active /\ fnet[k].seq = fcom.seq =>
            fnet[k].op = fcom.op /\ fnet[k].arg = fcom.arg /\ fnet[k].pos = fcom.pos
      BY DEF F!Inv, F!Numbered
    <3> QED
      BY <1>3, <1>4, <3>1
  <2>4. F!Active => fcom.seq = fseq - 1
    BY DEF F!Inv, F!Numbered
  <2> QED
    BY <1>1, <1>6, <2>1, <2>2, <2>3, <2>4 DEF F!Numbered, F!Active, n
<1>20. F!Answered'
  <2> SUFFICES ASSUME F!Active, NEW k \in 1 .. Len(freplies'),
                      freplies'[k].seq = fcom.seq, freplies'[k].status = 0
               PROVE  /\ \A j \in 1 .. n : fnet'[j].seq = fcom.seq
                      /\ \A i \in F!Positions : F!Sets(fcom, i) => fstore'[i] = F!Gives(fcom)
    BY <1>1 DEF F!Answered, F!Active, F!Sets, F!Gives, n
  <2>1. m.seq = fcom.seq => \A i \in F!Positions : /\ F!Sets(m, i) <=> F!Sets(fcom, i)
                                                /\ F!Gives(m) = F!Gives(fcom)
    BY <1>8 DEF F!Sets, F!Gives
  <2>2. CASE k \in 1 .. Len(freplies) /\ freplies'[k] = freplies[k]
    <3>1. /\ \A j \in 1 .. Len(fnet) : fnet[j].seq = fcom.seq
          /\ \A i \in F!Positions : F!Sets(fcom, i) => fstore[i] = F!Gives(fcom)
      BY <2>2 DEF F!Inv, F!Answered
    <3>2. \A j \in 1 .. n : fnet'[j].seq = fcom.seq
      BY <1>3, <1>4, <3>1
    <3>3. m.seq = fcom.seq
      BY <1>3, <1>4, <3>1
    <3>4. \A i \in F!Positions : F!Sets(fcom, i) => fstore'[i] = F!Gives(fcom)
      BY <1>13, <2>1, <3>1, <3>3
    <3> QED
      BY <3>2, <3>4
  <2>3. CASE freplies'[k] = e
    <3>1. m.seq = fcom.seq /\ status = 0
      BY <1>15, <2>3
    <3>2. fcom.seq = fseq - 1 /\ fseq \in Nat
      BY DEF F!Inv, F!Numbered, F!TypeOK
    <3>3. \A j \in 1 .. n : fnet'[j].seq \in Nat
      BY <1>6 DEF F!Messages
    <3>4. \A j \in 1 .. n : fnet'[j].seq = fcom.seq
      BY <1>6, <3>1, <3>2, <3>3
    <3>5. \A i \in F!Positions : F!Sets(fcom, i) => fstore'[i] = F!Gives(fcom)
      BY <1>13, <2>1, <3>1
    <3> QED
      BY <3>4, <3>5
  <2> QED
    BY <1>17, <2>2, <2>3
<1>21. F!ReadRight'
  <2> SUFFICES ASSUME F!Active, fcom.op = "read", NEW k \in 1 .. Len(freplies'),
                      freplies'[k].seq = fcom.seq, freplies'[k].op = "read"
               PROVE  freplies'[k].val \in {facked[fcom.pos]} \cup fmaybe[fcom.pos]
    BY <1>1 DEF F!ReadRight, F!Active
  <2>1. CASE k \in 1 .. Len(freplies) /\ freplies'[k] = freplies[k]
    BY <2>1 DEF F!Inv, F!ReadRight
  <2>2. CASE freplies'[k] = e
    <3>1. m.seq = fcom.seq /\ m.op = "read" /\ m.pos = fcom.pos
      BY <1>8, <1>15, <2>2
    <3>2. e.val = fstore[fcom.pos] /\ fcom.pos \in F!Positions
      BY <1>5, <1>15, <3>1 DEF F!Fit
    <3>3. fstore[fcom.pos] \in {facked[fcom.pos]} \cup fmaybe[fcom.pos]
      BY <3>2 DEF F!Inv, F!StoreOk, F!Allowed, F!Sets
    <3> QED
      BY <2>2, <3>2, <3>3
  <2> QED
    BY <1>17, <2>1, <2>2
<1> QED
  BY <1>1, <1>10, <1>11, <1>14, <1>18, <1>19, <1>20, <1>21 DEF F!Inv

LEMMA RfsKeeps ==
  ASSUME F!Inv, [F!Next]_(F!vars)
  PROVE  F!Inv'
<1>1. CASE UNCHANGED F!vars
  <2>1. RfsData'
    BY <1>1, RfsUndisturbed DEF F!vars
  <2>2. F!TypeOK' /\ F!MutexOk' /\ F!OneExchange' /\ ~ fmixed'
    BY <1>1 DEF F!vars, F!Inv, F!TypeOK, F!MutexOk, F!Holders, F!InCall, F!OneExchange, F!Active
  <2> QED
    BY <2>1, <2>2 DEF F!Inv, RfsData
<1>2. ASSUME NEW p \in Procs, F!Step(p)
      PROVE  F!Inv'
  BY <1>2, RfsRefuseKeeps, RfsBeginsKeeps, RfsTransmitKeeps, RfsTimesOutKeeps, RfsGivesUpKeeps, RfsReceiveKeeps DEF F!Step
<1> QED
  BY <1>1, <1>2, RfsServerKeeps, RfsCallKeeps DEF F!Next, F!Done

LEMMA RfsInvIsSound ==
  ASSUME F!Inv
  PROVE  F!FileAsAcknowledged
<1>1. F!Exchanging = {} => ~ F!Active
  BY DEF F!Inv, F!OneExchange, F!Exchanging
<1>2. ~ F!Active => \A i \in F!Positions : fstore[i] \in {facked[i]} \cup fmaybe[i]
  BY DEF F!Inv, F!StoreOk, F!Allowed
<1> QED
  BY <1>1, <1>2 DEF F!Inv, F!FileAsAcknowledged

-----------------------------------------------------------------------------
(* The composition.                                                        *)

\* The lists and semaphores of the remote disk agree, no write of a block is lost, and
\* the server of files has what was acknowledged: rdsprocess, rdswrite, rfscomm.
THEOREM DisksAlwaysSound == Spec => []DisksSound
<1>1. Init => R!Inv /\ F!Inv
  BY RdsStarts, RfsStarts DEF Init
<1>2. R!Inv /\ F!Inv /\ [Next]_vars => (R!Inv /\ F!Inv)'
  <2> SUFFICES ASSUME R!Inv, F!Inv, [Next]_vars PROVE R!Inv' /\ F!Inv'
    OBVIOUS
  <2>1. [R!Next]_(R!vars) /\ [F!Next]_(F!vars)
    BY DEF Next, vars, rdsvars, rfsvars, R!vars, F!vars
  <2> QED
    BY <2>1, RdsInvKeeps, RfsKeeps
<1>3. R!Inv /\ F!Inv => DisksSound
  BY RdsListsSound, RdsCountsSound, RdsWritesSound, RfsInvIsSound
     DEF DisksSound, BufferOnOneList, SemaphoresCount, WritesKept, FileAsAcknowledged
<1> QED
  BY <1>1, <1>2, <1>3, PTL DEF Spec

=============================================================================
