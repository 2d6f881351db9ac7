-------------------------------- MODULE Rfs --------------------------------
(***************************************************************************)
(* Remote files, device/rfs: every call takes one mutex, most of them make *)
(* one exchange with the file server (rfscomm), which numbers its requests *)
(* and repeats a request that is not answered in time.  The network loses  *)
(* requests and replies and delays them past the timeout; it does not      *)
(* reorder them.  The server executes what reaches it, repeats included.   *)
(***************************************************************************)
EXTENDS Integers, Sequences, Semaphore

CONSTANTS Procs, Values,
          RF_RETRIES,
          MaxPos,                     \* bound: positions in the file
          NetCap,                     \* bound: messages on their way
          MaxCalls                    \* bound: calls made

VARIABLES dev,                        \* the file: rfstate, rfmode, rfpos
          mutex, at,                  \* rf_mutex; where each process is
          com, rfseq,                 \* the exchange under way; rf_seq
          net, replies, store,        \* the network, the UDP queue, the server's file
          acked, maybe,               \* history: values acknowledged, values that may be there
          calls, mixed                \* history: calls made; a read returned a wrong value
vars == <<dev, mutex, at, com, rfseq, net, replies, store, acked, maybe, calls, mixed>>

Positions == 0 .. MaxPos - 1
NOBYTE == 0
Request(op, arg) == [op |-> op, arg |-> arg]
Idle == [pc |-> "idle", r |-> Request("none", 0)]
NoExchange == [pc |-> "idle", op |-> "none", arg |-> 0, pos |-> 0, seq |-> 0, tries |-> 0]
Empty == [i \in Positions |-> NOBYTE]

Init ==
  /\ dev \in {[open |-> o, write |-> o, pos |-> 0] : o \in BOOLEAN}
  /\ mutex = semcreate(1) /\ at = [p \in Procs |-> Idle]
  /\ com = NoExchange /\ rfseq = 1
  /\ net = <<>> /\ replies = <<>> /\ store = Empty
  /\ acked = Empty /\ maybe = [i \in Positions |-> {}]
  /\ calls = 0 /\ mixed = FALSE

Requests ==
  [op : {"open"}, arg : {0, 1}] \cup [op : {"read", "close", "truncate", "size"}, arg : {0}]
  \cup [op : {"write"}, arg : Values] \cup [op : {"seek"}, arg : Positions]

(* Every call begins with wait(rf_mutex).                                  *)
Call(p, r) ==
  /\ at[p] = Idle /\ calls < MaxCalls /\ calls' = calls + 1
  /\ mutex' = wait(mutex, p)
  /\ at' = [at EXCEPT ![p] = [pc |-> "wait", r |-> r]]
  /\ UNCHANGED <<dev, com, rfseq, net, replies, store, acked, maybe, mixed>>

(* ... and ends with signal(rf_mutex), on its error paths too.             *)
ReturnsHolding(p) == mutex' = mutex /\ at' = [at EXCEPT ![p] = Idle]
FailReturns(p) == mutex' = signal(mutex) /\ at' = [at EXCEPT ![p] = Idle]
Returns(p) == mutex' = signal(mutex) /\ at' = [at EXCEPT ![p] = Idle]

(* Calls that are refused, and calls without an exchange.  rfscontrol does *)
(* not need an open file.                                                  *)
Refused(r) ==
  \/ r.op = "open" /\ dev.open
  \/ r.op \in {"read", "write", "seek", "close"} /\ ~ dev.open
  \/ r.op = "write" /\ ~ dev.write

Enters(p) == at[p].pc = "wait" /\ ~ Waits(mutex, p)

RefuseCall(p) ==
  /\ Enters(p) /\ Refused(at[p].r)
  /\ FailReturns(p)
  /\ UNCHANGED <<dev, com, rfseq, net, replies, store, acked, maybe, calls, mixed>>

rflseek(p) ==
  /\ Enters(p) /\ at[p].r.op = "seek" /\ ~ Refused(at[p].r)
  /\ dev' = [dev EXCEPT !.pos = at[p].r.arg]
  /\ Returns(p)
  /\ UNCHANGED <<com, rfseq, net, replies, store, acked, maybe, calls, mixed>>

rflclose(p) ==
  /\ Enters(p) /\ at[p].r.op = "close" /\ ~ Refused(at[p].r)
  /\ dev' = [dev EXCEPT !.open = FALSE]
  /\ Returns(p)
  /\ UNCHANGED <<com, rfseq, net, replies, store, acked, maybe, calls, mixed>>

(* rfscomm gives the request the next sequence number.                     *)
Begins(p) ==
  /\ Enters(p) /\ at[p].r.op \notin {"seek", "close"} /\ ~ Refused(at[p].r)
  /\ dev.pos < MaxPos \/ at[p].r.op \notin {"read", "write"}
  /\ at' = [at EXCEPT ![p].pc = "exchange"]
  /\ com' = [NoExchange EXCEPT !.pc = "send", !.op = at[p].r.op, !.arg = at[p].r.arg,
                               !.pos = dev.pos, !.seq = rfseq]
  /\ rfseq' = rfseq + 1
  /\ UNCHANGED <<dev, mutex, net, replies, store, acked, maybe, calls, mixed>>

(* A read or write at the bound of the model returns at once.              *)
AtBound(p) ==
  /\ Enters(p) /\ at[p].r.op \in {"read", "write"} /\ ~ Refused(at[p].r) /\ dev.pos = MaxPos
  /\ Returns(p)
  /\ UNCHANGED <<dev, com, rfseq, net, replies, store, acked, maybe, calls, mixed>>

Transmit(p) ==
  /\ at[p].pc = "exchange" /\ com.pc = "send" /\ com.tries < RF_RETRIES
  /\ com' = [com EXCEPT !.pc = "recv"]
  /\ net' \in {net} \cup (IF Len(net) + Len(replies) < NetCap THEN {Append(net, com)} ELSE {})
  /\ UNCHANGED <<dev, mutex, at, rfseq, replies, store, acked, maybe, calls, mixed>>

SameTry == com' = [com EXCEPT !.pc = "send"]
TryAgain == com' = [com EXCEPT !.pc = "send", !.tries = @ + 1]

TimesOut(p) ==
  /\ at[p].pc = "exchange" /\ com.pc = "recv" /\ replies = <<>>
  /\ TryAgain
  /\ UNCHANGED <<dev, mutex, at, rfseq, net, replies, store, acked, maybe, calls, mixed>>

(* What a call that failed may have done at the server all the same.       *)
MaybeDone ==
  maybe' = CASE com.op = "write" -> [maybe EXCEPT ![com.pos] = @ \cup {com.arg}]
             [] com.op = "truncate" -> [i \in Positions |-> maybe[i] \cup {NOBYTE}]
             [] OTHER -> maybe

GivesUp(p) ==
  /\ at[p].pc = "exchange" /\ com.pc = "send" /\ com.tries = RF_RETRIES
  /\ FailReturns(p)
  /\ com' = NoExchange
  /\ MaybeDone
  /\ UNCHANGED <<dev, rfseq, net, replies, store, acked, calls, mixed>>

AcceptsType(r) == r.op = com.op
Accepts(r) == r.seq = com.seq /\ r.op = com.op

(* The effect of a reply with status 0: the position moves by the length   *)
(* in the reply.                                                           *)
rfsopen ==
  /\ com.op = "open" /\ dev' = [open |-> TRUE, write |-> com.arg = 1, pos |-> 0]
  /\ UNCHANGED <<acked, maybe, mixed>>

rflread(r) ==
  /\ com.op = "read"
  /\ dev' = [dev EXCEPT !.pos = @ + (IF r.val = NOBYTE THEN 0 ELSE 1)]
  /\ mixed' = (mixed \/ r.val \notin {acked[com.pos]} \cup maybe[com.pos])
  /\ UNCHANGED <<acked, maybe>>

rflwrite ==
  /\ com.op = "write" /\ dev' = [dev EXCEPT !.pos = @ + 1]
  /\ acked' = [acked EXCEPT ![com.pos] = com.arg] /\ maybe' = [maybe EXCEPT ![com.pos] = {}]
  /\ UNCHANGED mixed

rfscontrol ==
  \/ /\ com.op = "truncate" /\ acked' = Empty /\ maybe' = [i \in Positions |-> {}]
     /\ UNCHANGED <<dev, mixed>>
  \/ com.op = "size" /\ UNCHANGED <<dev, acked, maybe, mixed>>

Succeeds(r) == rfsopen \/ rflread(r) \/ rflwrite \/ rfscontrol

Receive(p) ==
  /\ at[p].pc = "exchange" /\ com.pc = "recv" /\ replies # <<>>
  /\ replies' = Tail(replies)
  /\ LET r == Head(replies) IN
     \/ ~ Accepts(r) /\ TryAgain /\ UNCHANGED <<dev, mutex, at, acked, maybe, mixed>>
     \/ /\ Accepts(r) /\ r.status = 0 /\ com' = NoExchange /\ Returns(p) /\ Succeeds(r)
     \/ /\ Accepts(r) /\ r.status # 0 /\ com' = NoExchange /\ FailReturns(p) /\ MaybeDone
        /\ UNCHANGED <<dev, acked, mixed>>
  /\ UNCHANGED <<rfseq, net, store, calls>>

(* The server: it may refuse, and its reply may be lost.                   *)
Executes(m) ==
  store' = CASE m.op = "write" -> [store EXCEPT ![m.pos] = m.arg]
             [] m.op = "truncate" -> Empty
             [] OTHER -> store

Reply(m, status) ==
  [op |-> m.op, seq |-> m.seq, status |-> status, val |-> IF m.op = "read" THEN store[m.pos] ELSE 0]

Server ==
  /\ net # <<>> /\ net' = Tail(net)
  /\ LET m == Head(net) IN
     \/ Executes(m) /\ replies' \in {replies, Append(replies, Reply(m, 0))}
     \/ m.op \in {"open", "truncate"} /\ store' = store /\ replies' = Append(replies, Reply(m, 1))
  /\ UNCHANGED <<dev, mutex, at, com, rfseq, acked, maybe, calls, mixed>>

Step(p) ==
  \/ RefuseCall(p) \/ rflseek(p) \/ rflclose(p) \/ Begins(p) \/ AtBound(p)
  \/ Transmit(p) \/ TimesOut(p) \/ GivesUp(p) \/ Receive(p)

Done == calls = MaxCalls /\ (\A p \in Procs : at[p] = Idle) /\ net = <<>> /\ UNCHANGED vars

Next ==
  \/ Server \/ Done
  \/ \E p \in Procs : Step(p) \/ \E r \in Requests : Call(p, r)

Fairness == \A p \in Procs : WF_vars(Step(p))
Spec == Init /\ [][Next]_vars /\ Fairness

-----------------------------------------------------------------------------
Exchanging == {p \in Procs : at[p].pc = "exchange"}

(* Each position of the file holds the value of the last acknowledged      *)
(* write or of a later one that failed, once what is on its way has        *)
(* arrived, whatever was repeated, lost or answered late; a read returned  *)
(* nothing else.                                                           *)
FileAsAcknowledged ==
  /\ ~ mixed
  /\ net = <<>> /\ Exchanging = {} =>
       \A i \in Positions : store[i] \in {acked[i]} \cup maybe[i]

(* A call ends, with success or an error, when its retries are used up at  *)
(* the latest, and hands the mutex to the next: no path keeps it.          *)
Busy(p) == at[p] # Idle
CallsEnd == \A p \in Procs : Busy(p) ~> ~ Busy(p)

-----------------------------------------------------------------------------
(* Why the file has what was acknowledged: one process holds the mutex,    *)
(* and only the exchange it makes and copies of it can change the file     *)
(* once the server has answered.                                           *)

\* Who holds the mutex: nobody while its count is 1, and else one process of those in
\* a call.
InCall == {p \in Procs : at[p].pc # "idle"}
Holders == InCall \ Waiting(mutex)
MutexOk ==
  /\ mutex \in SemaphoreOf(Procs) /\ mutex.count <= 1
  /\ Waiting(mutex) \subseteq {p \in Procs : at[p].pc = "wait"}
  /\ IF mutex.count = 1 THEN Holders = {} ELSE \E h \in Procs : Holders = {h}

Bytes == Values \cup {NOBYTE}
Messages == [pc : {"idle", "send", "recv"}, op : {"none", "open", "read", "close", "truncate", "size", "write", "seek"},
             arg : Bytes \cup {0, 1} \cup Positions, pos : Nat, seq : Nat, tries : Int]
Fit(m) == /\ m.op \in {"read", "write"} => m.pos \in Positions
          /\ m.op = "write" => m.arg \in Bytes
Replies == [op : {"open", "read", "truncate", "size", "write", "none", "close", "seek"}, seq : Nat, status : {0, 1}, val : Bytes \cup {0}]
TypeOK ==
  /\ dev \in [open : BOOLEAN, write : BOOLEAN, pos : Nat]
  /\ at \in [Procs -> [pc : {"idle", "wait", "exchange"}, r : Requests \cup {Request("none", 0)}]]
  /\ com \in Messages /\ Fit(com) /\ rfseq \in Nat
  /\ net \in Seq(Messages) /\ (\A k \in 1 .. Len(net) : Fit(net[k])) /\ replies \in Seq(Replies)
  /\ store \in [Positions -> Bytes] /\ acked \in [Positions -> Bytes]
  /\ maybe \in [Positions -> SUBSET Bytes] /\ mixed \in BOOLEAN

\* What a request does to a position, and what may be there.
Sets(m, i) == (m.op = "write" /\ m.pos = i) \/ m.op = "truncate"
Gives(m) == IF m.op = "write" THEN m.arg ELSE NOBYTE
Active == com.pc # "idle"
Allowed(i) == {acked[i]} \cup maybe[i] \cup {x \in {Gives(com)} : Active /\ Sets(com, i)}

StoreOk == \A i \in Positions : store[i] \in Allowed(i)
NetOk == \A k \in 1 .. Len(net) : \A i \in Positions : Sets(net[k], i) => Gives(net[k]) \in Allowed(i)

\* Requests are on their way in the order in which they were numbered, and those with the
\* number of the exchange under way are copies of its request.
Numbered ==
  /\ Active => com.seq = rfseq - 1
  /\ \A k \in 1 .. Len(replies) : replies[k].seq < rfseq
  /\ \A k \in 1 .. Len(net) : net[k].seq < rfseq
  /\ \A j, k \in 1 .. Len(net) : j < k => net[j].seq <= net[k].seq
  /\ \A k \in 1 .. Len(net) :
       Active /\ net[k].seq = com.seq => net[k].op = com.op /\ net[k].arg = com.arg /\ net[k].pos = com.pos

\* Once the server has answered, all older requests have arrived and the file has what
\* was asked for; and a read was answered with what may be there.
Answered ==
  (Active /\ \E k \in 1 .. Len(replies) : replies[k].seq = com.seq /\ replies[k].status = 0) =>
    /\ \A k \in 1 .. Len(net) : net[k].seq = com.seq
    /\ \A i \in Positions : Sets(com, i) => store[i] = Gives(com)
ReadRight ==
  Active /\ com.op = "read" =>
    \A k \in 1 .. Len(replies) : replies[k].seq = com.seq /\ replies[k].op = "read" =>
                                   replies[k].val \in {acked[com.pos]} \cup maybe[com.pos]

OneExchange == Active => \E p \in Procs : at[p].pc = "exchange"
Inv == TypeOK /\ MutexOk /\ OneExchange /\ StoreOk /\ NetOk /\ Numbered /\ Answered /\ ReadRight /\ ~ mixed

=============================================================================
