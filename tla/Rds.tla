-------------------------------- MODULE Rds --------------------------------
(***************************************************************************)
(* The remote disk of device/rds: processes put read, write and sync       *)
(* requests on a queue, rdsprocess carries them out one exchange at a time *)
(* with a server it reaches through UDP, and blocks that were read or      *)
(* written stay in a cache.  A buffer is on the free list, on the request  *)
(* queue or in the cache; rd_availsem counts the first and the last.       *)
(*                                                                         *)
(* A step runs from one call that may switch processes to the next.  When  *)
(* rdsprocess finds a second request for the block it has just read, it    *)
(* unlinks that request with the pointers of another buffer, which joins   *)
(* the queue to the cache (fault = "spliced"); the model stops there.      *)
(***************************************************************************)
EXTENDS Integers, Sequences, FiniteSets, SequencesExt, Semaphore

CONSTANTS Procs, DiskBlocks, Values,
          RD_BUFFS, RD_RETRIES,
          MaxCalls                     \* bound: calls made of the device

VARIABLES rdstate,                     \* rd_state
          free, req, cache, buf,       \* the three lists and the buffers
          avail, reqsem,               \* rd_availsem; the count of rd_reqsem
          at, prmsg,                   \* where each process is; its message
          com, rdseq, msgblk,          \* rdsprocess in rdscomm; rd_seq; msg.rd_blk
          net, replies, store,         \* the network, the UDP queue, the server
          last, calls,                 \* history: last value written; calls made
          overtaken, misplaced,        \* history: see below
          unsent, fault
vars == <<rdstate, free, req, cache, buf, avail, reqsem, at, prmsg, com, rdseq, msgblk,
          net, replies, store, last, calls, overtaken, misplaced, unsent, fault>>

Bufs == 1 .. RD_BUFFS
NOMSG == 0
SYNCED == -1                           \* the message OK that ends a sync
Idle == [pc |-> "idle", op |-> "none", blk |-> 0, val |-> 0]
NoExchange == [pc |-> "idle", op |-> "none", b |-> 0, blk |-> 0, val |-> 0,
               seq |-> 0, tries |-> 0, xmit |-> TRUE]

Init ==
  /\ rdstate = "free"
  /\ free = [k \in 1 .. RD_BUFFS |-> k] /\ req = <<>> /\ cache = <<>>
  /\ buf = [b \in Bufs |-> [op |-> "none", ref |-> 0, blk |-> 0, valid |-> FALSE,
                            pid |-> CHOOSE p \in Procs : TRUE, val |-> 0]]
  /\ avail = semcreate(RD_BUFFS) /\ reqsem = 0
  /\ at = [p \in Procs |-> Idle] /\ prmsg = [p \in Procs |-> NOMSG]
  /\ com = NoExchange /\ rdseq = 1 /\ msgblk \in DiskBlocks
  /\ net = <<>> /\ replies = <<>> /\ store = [k \in DiskBlocks |-> 0]
  /\ last = [k \in DiskBlocks |-> 0] /\ calls = 0
  /\ overtaken = FALSE /\ misplaced = FALSE /\ unsent = FALSE /\ fault = "none"

Running == fault = "none"
listvars == <<free, req, cache, buf>>
comvars == <<com, rdseq, msgblk>>
netvars == <<net, replies, store>>

-----------------------------------------------------------------------------
(* Opening, closing and deleting: the exchange with the server succeeds or *)
(* it does not.                                                            *)

Call == Running /\ calls < MaxCalls /\ calls' = calls + 1

rdsopen ==
  /\ Call
  /\ \/ rdstate = "free" /\ rdstate' = "pend"
     \/ rdstate = "pend" /\ rdstate' \in {"open", "free"}
  /\ UNCHANGED <<listvars, avail, reqsem, at, prmsg, comvars, netvars, last, overtaken, misplaced, unsent, fault>>

(* rdsclose moves the cache to the free list, and so does a delete         *)
(* (RDS_CTL_DEL) that the server has accepted.                             *)
rdsclose ==
  /\ Call /\ rdstate = "open" /\ req = <<>>
  /\ rdstate' = "free"
  /\ free' = Reverse(cache) \o free /\ cache' = <<>>
  /\ buf' = [b \in Bufs |-> IF Contains(cache, b) THEN [buf[b] EXCEPT !.valid = FALSE] ELSE buf[b]]
  /\ UNCHANGED <<req, avail, reqsem, at, prmsg, comvars, netvars, last, overtaken, misplaced, unsent, fault>>

-----------------------------------------------------------------------------
(* Requests.                                                               *)

Keeps(s, b) == s
Without(s, b) == RemoveFirst(s, b)
FirstWith(s, blk) == SelectInSeq(s, LAMBDA b : buf[b].blk = blk)
LastWith(s, blk) == SelectLastInSeq(s, LAMBDA b : buf[b].blk = blk)

(* rdsbufalloc after its wait: the head of the free list, else the oldest  *)
(* cached buffer that nobody reads; there may be none.                     *)
Oldest == SelectLastInSeq(cache, LAMBDA b : buf[b].ref <= 0)

rdsbufalloc(Use(_)) ==
  \/ free # <<>> /\ free' = Tail(free) /\ cache' = cache /\ fault' = fault /\ Use(Head(free))
  \/ /\ free = <<>> /\ Oldest # 0
     /\ cache' = Without(cache, cache[Oldest]) /\ free' = free /\ fault' = fault
     /\ Use(cache[Oldest])
  \/ /\ free = <<>> /\ Oldest = 0
     /\ fault' = "no buffer" /\ UNCHANGED <<listvars, reqsem, at, prmsg, last>>

(* The request of process p goes to the tail of the queue.                 *)
Enqueue(p, r, b) ==
  /\ buf' = [buf EXCEPT ![b] = [op |-> r.op, ref |-> IF r.op = "write" THEN 0 ELSE 1, blk |-> r.blk,
                                valid |-> r.op = "write", pid |-> p, val |-> r.val]]
  /\ req' = Append(req, b)
  /\ reqsem' = reqsem + 1
  /\ at' = [at EXCEPT ![p] = IF r.op = "write" THEN Idle ELSE [r EXCEPT !.pc = "receive"]]
  /\ prmsg' = IF r.op = "write" THEN prmsg ELSE [prmsg EXCEPT ![p] = NOMSG]
  /\ last' = IF r.op = "write" THEN [last EXCEPT ![r.blk] = r.val] ELSE last

(* wait(rd_availsem), and on at once when the count was positive.          *)
Allocates(p, r) ==
  /\ avail' = wait(avail, p)
  /\ \/ ~ Blocks(avail) /\ rdsbufalloc(LAMBDA b : Enqueue(p, r, b))
     \/ /\ Blocks(avail) /\ at' = [at EXCEPT ![p] = [r EXCEPT !.pc = "alloc"]]
        /\ UNCHANGED <<listvars, reqsem, prmsg, last, fault>>
  /\ UNCHANGED overtaken

Makes(p) == Call /\ rdstate = "open" /\ at[p] = Idle
Request(op, blk, val) == [pc |-> "idle", op |-> op, blk |-> blk, val |-> val]

(* rdsread: a block in the cache that is valid, or in the most recent      *)
(* request when that is a write, is returned at once.                      *)
CacheHit(blk) == LET k == FirstWith(cache, blk) IN k # 0 /\ buf[cache[k]].valid
WriteQueued(blk) == LET k == LastWith(req, blk) IN k # 0 /\ buf[req[k]].op = "write"

rdsread(p, blk) ==
  /\ Makes(p) /\ ~ CacheHit(blk) /\ ~ WriteQueued(blk)
  /\ Allocates(p, Request("read", blk, 0))
  /\ UNCHANGED <<rdstate, comvars, netvars, misplaced, unsent>>

(* rdswrite: replace the data of a write that is queued; else reuse the    *)
(* cached buffer of the block when nobody reads it, taking one from the    *)
(* semaphore (semreset refuses a negative count); else allocate a buffer.  *)
QueuedAny(blk) == FirstWith(req, blk)
QueuedWrite(blk) == SelectInSeq(req, LAMBDA b : buf[b].blk = blk /\ buf[b].op = "write")
Reusable(blk) == LET k == FirstWith(cache, blk) IN k # 0 /\ buf[cache[k]].ref <= 0

TakesNone(s) == s
TakesOne(s) == IF s.count - 1 < 0 THEN s ELSE semreset(s, s.count - 1)

\* Whether two writes of the block are queued.
TwoQueued(blk) ==
  \E j, k \in DOMAIN req : j < k /\ \A i \in {j, k} : buf[req[i]].blk = blk /\ buf[req[i]].op = "write"
ReplaceQueued(blk, val) ==
  /\ buf' = [buf EXCEPT ![req[QueuedWrite(blk)]].val = val]
  /\ last' = [last EXCEPT ![blk] = val]
  /\ misplaced' = (misplaced \/ TwoQueued(blk))
  /\ UNCHANGED <<free, req, cache, avail, reqsem, at, prmsg, overtaken, fault>>

Reuse(p, blk, val) ==
  LET b == cache[FirstWith(cache, blk)] IN
  /\ cache' = Without(cache, b)
  /\ avail' = TakesOne(avail)
  /\ overtaken' = (overtaken \/ avail.count <= 0)
  /\ Enqueue(p, Request("write", blk, val), b)
  /\ UNCHANGED <<free, misplaced, fault>>

rdswrite(p, blk, val) ==
  /\ Makes(p)
  /\ \/ QueuedWrite(blk) # 0 /\ ReplaceQueued(blk, val)
     \/ QueuedWrite(blk) = 0 /\ Reusable(blk) /\ Reuse(p, blk, val)
     \/ /\ QueuedWrite(blk) = 0 /\ ~ Reusable(blk)
        /\ Allocates(p, Request("write", blk, val)) /\ UNCHANGED misplaced
  /\ UNCHANGED <<rdstate, comvars, netvars, unsent>>

(* RDS_CTL_SYNC of rdscontrol.                                             *)
rdssync(p) ==
  /\ Makes(p)
  /\ Allocates(p, Request("sync", 0, 0))
  /\ UNCHANGED <<rdstate, comvars, netvars, misplaced, unsent>>

AllocGoesOn(p) ==
  /\ Running /\ at[p].pc = "alloc" /\ ~ Waits(avail, p)
  /\ rdsbufalloc(LAMBDA b : Enqueue(p, at[p], b))
  /\ UNCHANGED <<rdstate, avail, comvars, netvars, calls, overtaken, misplaced, unsent>>

(* The end of rdsread: a buffer kept only for its readers is freed when    *)
(* the cache has a newer copy.  The search runs off the list when the      *)
(* buffer has left the cache.                                              *)
ReadReturns(p) ==
  LET b == prmsg[p]
      k == SelectInSeq(cache, LAMBDA c : c = b)
      newer == SelectInSeq(cache, LAMBDA c : buf[c].blk = at[p].blk)
      unread == buf[b].ref - 1 <= 0
  IN /\ buf' = [buf EXCEPT ![b].ref = @ - 1]
     /\ IF unread /\ k > 0 /\ newer < k
        THEN cache' = Without(cache, b) /\ free' = <<b>> \o free
        ELSE UNCHANGED <<cache, free>>
     /\ fault' = IF unread /\ k = 0 THEN "list walk" ELSE fault

receive(p) ==
  /\ Running /\ at[p].pc = "receive" /\ prmsg[p] # NOMSG
  /\ at' = [at EXCEPT ![p] = Idle] /\ prmsg' = [prmsg EXCEPT ![p] = NOMSG]
  /\ IF prmsg[p] = SYNCED THEN UNCHANGED <<buf, cache, free, fault>> ELSE ReadReturns(p)
  /\ UNCHANGED <<rdstate, req, avail, reqsem, comvars, netvars, last, calls, overtaken, misplaced, unsent>>

-----------------------------------------------------------------------------
(* rdsprocess.                                                             *)

Message(pid, m) == prmsg' = IF prmsg[pid] = NOMSG THEN [prmsg EXCEPT ![pid] = m] ELSE prmsg

Exchange(op, b, blk, val) ==
  /\ com' = [NoExchange EXCEPT !.pc = "send", !.op = op, !.b = b, !.blk = blk, !.val = val,
                               !.seq = rdseq]
  /\ rdseq' = rdseq + 1

(* A read request goes out with whatever block number the message holds.   *)
TakeRead(b) ==
  /\ Exchange("read", b, msgblk, 0)
  /\ UNCHANGED <<free, req, cache, buf, avail, prmsg, msgblk>>

(* A written buffer is in the cache, and may be reused, before it is sent. *)
TakeWrite(b) ==
  /\ msgblk' = buf[b].blk
  /\ Exchange("write", b, buf[b].blk, buf[b].val)
  /\ req' = Tail(req) /\ cache' = <<b>> \o cache
  /\ buf' = [buf EXCEPT ![b].ref = 0]
  /\ avail' = signal(avail)
  /\ UNCHANGED <<free, prmsg>>

TakeSync(b) ==
  /\ Message(buf[b].pid, SYNCED)
  /\ req' = Tail(req) /\ free' = <<b>> \o free
  /\ avail' = signal(avail)
  /\ UNCHANGED <<cache, buf, com, rdseq, msgblk>>

rdsprocess ==
  /\ Running /\ com.pc = "idle" /\ reqsem > 0
  /\ reqsem' = reqsem - 1
  /\ LET b == Head(req) IN
     \/ buf[b].op = "read" /\ TakeRead(b)
     \/ buf[b].op = "write" /\ TakeWrite(b)
     \/ buf[b].op = "sync" /\ TakeSync(b)
  /\ UNCHANGED <<rdstate, at, netvars, last, calls, overtaken, misplaced, unsent, fault>>

(* rdscomm: send, unless the last answer was an old one, and receive; the  *)
(* network may lose the request.  When the tries are used up rdsprocess    *)
(* panics.                                                                 *)
Transmit ==
  /\ Running /\ com.pc = "send" /\ com.tries < RD_RETRIES
  /\ com' = [com EXCEPT !.pc = "recv", !.xmit = TRUE]
  /\ net' \in {net} \cup (IF com.xmit THEN {Append(net, com)} ELSE {})
  /\ UNCHANGED <<rdstate, listvars, avail, reqsem, at, prmsg, rdseq, msgblk, replies, store, last,
                 calls, overtaken, misplaced, unsent, fault>>

GivesUp ==
  /\ Running /\ com.pc = "send" /\ com.tries = RD_RETRIES
  /\ fault' = "timeout"
  /\ UNCHANGED <<rdstate, listvars, avail, reqsem, at, prmsg, comvars, netvars, last, calls,
                 overtaken, misplaced, unsent>>

SameTry(xmit) == com' = [com EXCEPT !.pc = "send", !.xmit = xmit]
TryAgain(xmit) == com' = [com EXCEPT !.pc = "send", !.tries = @ + 1, !.xmit = xmit]

TimesOut ==
  /\ Running /\ com.pc = "recv" /\ replies = <<>>
  /\ TryAgain(TRUE)
  /\ UNCHANGED <<rdstate, listvars, avail, reqsem, at, prmsg, rdseq, msgblk, netvars, last, calls,
                 overtaken, misplaced, unsent, fault>>

(* A reply with an older sequence number only stops the next transmission: *)
(* when its type fits it is taken for the answer.                          *)
Accepts(r) == r.seq <= com.seq /\ r.op = com.op

(* The block that was read goes to the head of the cache and its reader    *)
(* gets the buffer.                                                        *)
ReadAnswered(r) ==
  LET b == com.b
      others == SelectInSeq(Tail(req), LAMBDA c : buf[c].blk = buf[b].blk)
  IN /\ buf' = [buf EXCEPT ![b].val = r.val, ![b].ref = 1]
     /\ req' = Tail(req) /\ cache' = <<b>> \o cache
     /\ avail' = signal(avail)
     /\ Message(buf[b].pid, b)
     /\ fault' = IF others # 0 THEN "spliced" ELSE fault
     /\ unsent' = unsent

Answered(r) ==
  \/ com.op = "read" /\ ReadAnswered(r)
  \/ /\ com.op = "write" /\ unsent' = (unsent \/ r.seq < com.seq)
     /\ UNCHANGED <<req, cache, buf, avail, prmsg, fault>>

Receive ==
  /\ Running /\ com.pc = "recv" /\ replies # <<>>
  /\ replies' = Tail(replies)
  /\ LET r == Head(replies) IN
     \/ Accepts(r) /\ com' = NoExchange /\ Answered(r)
     \/ /\ ~ Accepts(r) /\ TryAgain(r.seq >= com.seq)
        /\ UNCHANGED <<req, cache, buf, avail, prmsg, unsent, fault>>
  /\ UNCHANGED <<rdstate, free, reqsem, at, rdseq, msgblk, net, store, last, calls, overtaken,
                 misplaced>>

(* The server answers the requests that reach it in order; the network may *)
(* lose the reply.                                                         *)
Server ==
  /\ net # <<>> /\ net' = Tail(net)
  /\ LET m == Head(net) IN
     /\ store' = IF m.op = "write" THEN [store EXCEPT ![m.blk] = m.val] ELSE store
     /\ replies' \in {replies, Append(replies, [m EXCEPT !.val = store'[m.blk]])}
  /\ UNCHANGED <<rdstate, listvars, avail, reqsem, at, prmsg, comvars, last, calls, overtaken,
                 misplaced, unsent, fault>>

Done == (~ Running \/ calls = MaxCalls) /\ UNCHANGED vars

User(p) ==
  \/ \E blk \in DiskBlocks : rdsread(p, blk) \/ \E val \in Values : rdswrite(p, blk, val)
  \/ rdssync(p)

Rdsproc == rdsprocess \/ Transmit \/ GivesUp \/ TimesOut \/ Receive
GoesOn(p) == AllocGoesOn(p) \/ receive(p)

Next ==
  \/ rdsopen \/ rdsclose \/ Rdsproc \/ Server \/ Done
  \/ \E p \in Procs : User(p) \/ GoesOn(p)

(* The processes run, and the clock.                                       *)
Fairness == WF_vars(Rdsproc) /\ \A p \in Procs : WF_vars(GoesOn(p))
Spec == Init /\ [][Next]_vars /\ Fairness

-----------------------------------------------------------------------------
(* Every buffer is on exactly one of the three lists, once: no sequence of *)
(* requests, answers and closes loses a buffer or puts it in two places.   *)
BufferOnOneList ==
  fault \in {"none", "timeout", "no buffer"} =>
    /\ \A b \in Bufs : Contains(free \o req \o cache, b)
    /\ Len(free \o req \o cache) = RD_BUFFS

Granted == {p \in Procs : at[p].pc = "alloc" /\ ~ Waits(avail, p)}

(* rd_availsem counts the buffers on the free list and in the cache that   *)
(* no released process is about to take, and rd_reqsem the requests that   *)
(* rdsprocess has not begun, unless a write took the buffer that a         *)
(* released process was to get (rdswrite ignores that semreset fails).     *)
SemaphoresCount ==
  fault = "none" /\ ~ overtaken =>
    /\ avail.count + Len(avail.queue) = Len(free \o cache) - Cardinality(Granted)
    /\ avail.queue # <<>> => Len(free \o cache) = Cardinality(Granted)
    /\ Len(req) = reqsem + (IF com.op = "read" THEN 1 ELSE 0)

(* The value last written to a block is in a queued request, on its way or *)
(* at the server: retries, replaced requests and reused buffers lose no    *)
(* write, unless an old reply was taken for the answer to a write, or a    *)
(* write replaced the data of a request that another write of its block    *)
(* follows (rdswrite searches the queue before it waits for a buffer and   *)
(* not again, and replaces the first that it finds).                       *)
WritesKept ==
  fault = "none" /\ ~ unsent /\ ~ misplaced =>
    \A blk \in DiskBlocks :
      \/ \E k \in DOMAIN req : buf[req[k]].op = "write" /\ buf[req[k]].blk = blk
                               /\ buf[req[k]].val = last[blk]
      \/ com.op = "write" /\ com.blk = blk /\ com.val = last[blk]
      \/ ~ WriteQueued(blk) /\ store[blk] = last[blk]
      \/ \E k \in DOMAIN net : net[k].op = "write" /\ net[k].blk = blk /\ net[k].val = last[blk]

(* A process that waits for a buffer or for its block goes on, however     *)
(* requests, retries and late replies interleave, unless the system halts. *)
Busy(p) == at[p] # Idle
Returned(p) == at[p] = Idle \/ fault # "none"
RequestsEnd == \A p \in Procs : Busy(p) ~> Returned(p)

-----------------------------------------------------------------------------
(* Why the lists, the counts and the writes are right: the lists are a     *)
(* partition of the buffers; a released process has a buffer to take; and  *)
(* the last write of a block is in the queue, else in the exchange under   *)
(* way, else the last that is on its way, else at the server, whose answer *)
(* to the exchange comes when nothing older is on its way.                 *)

\* Sequences of buffers that hold each once.
On(s) == {s[k] : k \in DOMAIN s}
Once(s) == \A j, k \in DOMAIN s : s[j] = s[k] => j = k
Partition(f, r, c) ==
  /\ f \in Seq(Bufs) /\ r \in Seq(Bufs) /\ c \in Seq(Bufs)
  /\ Once(f) /\ Once(r) /\ Once(c)
  /\ On(f) \cap On(r) = {} /\ On(f) \cap On(c) = {} /\ On(r) \cap On(c) = {}
  /\ Bufs = On(f) \cup On(r) \cup On(c)
  /\ Len(f) + Len(r) + Len(c) = RD_BUFFS

Bytes == Values \cup {0}
Numbers == DiskBlocks \cup {0}
Buffers == [op : {"none", "read", "write", "sync"}, ref : Int, blk : Numbers, valid : BOOLEAN,
            pid : Procs, val : Bytes]
Callers == [pc : {"idle", "receive", "alloc"}, op : {"none", "read", "write", "sync"}, blk : Numbers, val : Bytes]
Messages == [pc : {"idle", "send", "recv"}, op : {"none", "read", "write"}, b : Bufs \cup {0}, blk : Numbers,
             val : Bytes, seq : Nat, tries : Int, xmit : BOOLEAN]
Carries(m) == m.op # "none" => m.blk \in DiskBlocks
BufferType ==
  /\ free \in Seq(Bufs) /\ req \in Seq(Bufs) /\ cache \in Seq(Bufs)
  /\ buf \in [Bufs -> Buffers] /\ \A b \in Bufs : buf[b].op = "write" => buf[b].blk \in DiskBlocks
UserType ==
  /\ at \in [Procs -> Callers] /\ \A p \in Procs : at[p].op = "write" => at[p].blk \in DiskBlocks
  /\ \A p \in Procs : at[p].pc = "alloc" => at[p].op # "none"
  /\ prmsg \in [Procs -> Bufs \cup {NOMSG, SYNCED}]
ExchangeType ==
  /\ com \in Messages /\ Carries(com) /\ rdseq \in Nat /\ msgblk \in DiskBlocks
  /\ net \in Seq(Messages) /\ (\A k \in 1 .. Len(net) : Carries(net[k]) /\ net[k].op # "none")
  /\ replies \in Seq(Messages) /\ store \in [DiskBlocks -> Bytes]
OtherType ==
  /\ reqsem \in Int /\ last \in [DiskBlocks -> Bytes]
  /\ overtaken \in BOOLEAN /\ misplaced \in BOOLEAN /\ unsent \in BOOLEAN
  /\ fault \in {"none", "timeout", "no buffer", "spliced", "list walk"}
TypeOK == BufferType /\ UserType /\ ExchangeType /\ OtherType

Active == com.pc # "idle"

\* The lists, and what is at the head of the queue while it is read.
ListsOk == fault \in {"none", "timeout", "no buffer"} => Partition(free, req, cache)
QueueOk ==
  fault = "none" =>
    /\ \A k \in DOMAIN req : buf[req[k]].op # "none"
    /\ reqsem >= 0 /\ Len(req) = reqsem + (IF com.op = "read" THEN 1 ELSE 0)
    /\ com.op = "read" => buf[Head(req)].op = "read" /\ com.b = Head(req)
ExchangeOk == Active <=> com.op # "none"

\* Who waits for a buffer, and for how many there are.
AvailOk == avail \in SemaphoreOf(Procs) /\ Waiting(avail) \subseteq {p \in Procs : at[p].pc = "alloc"}
Counted ==
  fault = "none" /\ ~ overtaken =>
    Len(free) + Len(cache) = Cardinality(Granted) + (IF avail.count > 0 THEN avail.count ELSE 0)

\* Requests are on their way in the order in which they were numbered, and those with the
\* number of the exchange under way are copies of its request; once one of them has been
\* answered, only copies are on their way, and the server has done what it asks for.
Numbered ==
  /\ Active => com.seq = rdseq - 1
  /\ \A k \in 1 .. Len(replies) : replies[k].seq < rdseq
  /\ \A k \in 1 .. Len(net) : net[k].seq < rdseq
  /\ \A j, k \in 1 .. Len(net) : j < k => net[j].seq <= net[k].seq
  /\ \A k \in 1 .. Len(net) :
       Active /\ net[k].seq = com.seq => net[k].op = com.op /\ net[k].blk = com.blk /\ net[k].val = com.val
Replied ==
  (Active /\ \E k \in 1 .. Len(replies) : replies[k].seq = com.seq) =>
    /\ \A k \in 1 .. Len(net) : net[k].seq = com.seq
    /\ com.op = "write" => store[com.blk] = com.val

\* The last write of a block: in the queue, else in the exchange, else the last on its way,
\* else at the server.
Queued(k, blk) == buf[req[k]].op = "write" /\ buf[req[k]].blk = blk
LastQueuedWrite(blk) == SelectLastInSeq(req, LAMBDA b : buf[b].blk = blk /\ buf[b].op = "write")
Sent(k, blk) == net[k].op = "write" /\ net[k].blk = blk
LastSent(blk) ==
  \/ \E k \in 1 .. Len(net) : /\ Sent(k, blk) /\ net[k].val = last[blk]
                              /\ \A j \in 1 .. Len(net) : k < j => ~ Sent(j, blk)
  \/ (\A k \in 1 .. Len(net) : ~ Sent(k, blk)) /\ store[blk] = last[blk]
LastWrite(blk) ==
  /\ \A k \in 1 .. Len(req) :
       Queued(k, blk) /\ (\A j \in 1 .. Len(req) : k < j => ~ Queued(j, blk)) => buf[req[k]].val = last[blk]
  /\ (\A k \in 1 .. Len(req) : ~ Queued(k, blk)) =>
       IF com.op = "write" /\ com.blk = blk THEN com.val = last[blk] ELSE LastSent(blk)
Kept == fault = "none" /\ ~ unsent /\ ~ misplaced => \A blk \in DiskBlocks : LastWrite(blk)

Inv == TypeOK /\ ListsOk /\ QueueOk /\ ExchangeOk /\ AvailOk /\ Counted /\ Numbered /\ Replied /\ Kept

=============================================================================
