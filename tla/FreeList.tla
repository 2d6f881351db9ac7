------------------------------ MODULE FreeList ------------------------------
(***************************************************************************)
(* The first-fit free list that every physical region is managed with:     *)
(* getmem, getstk and freemem on memlist, and their copies _getfreemem and *)
(* _freemem on pdptlist, ffslist, swaplist and vstacklist.                 *)
(*                                                                         *)
(* The linked list of memblk headers is the sequence of its blocks in link *)
(* order.  Each operation runs with interrupts disabled, so it is one      *)
(* step.                                                                   *)
(***************************************************************************)
EXTENDS Integers, SequencesExt

CONSTANTS
  MB,        \* size of a memblk header, the unit of roundmb
  MinAddr,   \* minheap / minstruct, a multiple of MB
  Size,      \* bytes in the region, a multiple of MB
  MaxBytes,  \* bound: largest request a client makes
  SYSERR     \* the error return

ASSUME FreeListAssumption ==
  /\ MB \in Nat \ {0} /\ MinAddr \in Nat \ {0}
  /\ Size \in Nat \ {0} /\ MaxBytes \in Nat
  /\ MinAddr % MB = 0 /\ Size % MB = 0
  /\ SYSERR \notin Nat

VARIABLES
  list,   \* the blocks of the free list, in link order
  held,   \* blocks handed to a client and not given back (ghost)
  ret     \* which call returned last, and what it returned

vars == <<list, held, ret>>

MaxAddr == MinAddr + Size - 1
Bytes(b) == b.addr .. (b.addr + b.len - 1)
roundmb(n) == ((n + MB - 1) \div MB) * MB

\* What client-visible blocks look like: the address and the byte count that
\* will be passed back to freemem.
Requests == 1 .. MaxBytes
Held(b) == b.addr .. (b.addr + roundmb(b.nbytes) - 1)

Init ==
  /\ list = << [addr |-> MinAddr, len |-> Size] >>
  /\ held = {}
  /\ ret = <<"get", SYSERR>>

-----------------------------------------------------------------------------
\* Positions of the blocks large enough for n bytes.
Fits(n) == {i \in DOMAIN list : list[i].len >= n}

\* getmem takes the low end of the first block that fits and unlinks the
\* block when it matches exactly.
TakeLowNoUnlink(i, n) == [list EXCEPT ![i] = [addr |-> @.addr + n, len |-> @.len - n]]
TakeLow(i, n) ==
  IF list[i].len = n
  THEN RemoveAt(list, i)
  ELSE [list EXCEPT ![i] = [addr |-> @.addr + n, len |-> @.len - n]]

getmem(nbytes) ==
  LET n == roundmb(nbytes)
      fit == Fits(n)
  IN  \/ /\ nbytes = 0 \/ fit = {}
         /\ ret' = <<"get", SYSERR>>
         /\ UNCHANGED <<list, held>>
      \/ /\ nbytes # 0 /\ fit # {}
         /\ LET i == Min(fit)
            IN  /\ list' = TakeLow(i, n)
                /\ ret' = <<"get", list[i].addr>>
                /\ held' = held \union {[addr |-> list[i].addr, nbytes |-> nbytes]}

\* getstk takes the high end of the last block that fits.  The code returns
\* the highest word of it; the model keeps the base that freestk recomputes.
TakeHigh(i, n) ==
  IF list[i].len = n
  THEN RemoveAt(list, i)
  ELSE [list EXCEPT ![i].len = @ - n]

getstk(nbytes) ==
  LET n == roundmb(nbytes)
      fit == Fits(n)
  IN  \/ /\ nbytes = 0 \/ fit = {}
         /\ ret' = <<"get", SYSERR>>
         /\ UNCHANGED <<list, held>>
      \/ /\ nbytes # 0 /\ fit # {}
         /\ LET i == Max(fit)
                base == list[i].addr + list[i].len - n
            IN  /\ list' = TakeHigh(i, n)
                /\ ret' = <<"get", base>>
                /\ held' = held \union {[addr |-> base, nbytes |-> nbytes]}

-----------------------------------------------------------------------------
\* Number of blocks the walk of freemem leaves behind it: it stops at the
\* first block whose address is not below the freed one.
Walk(block) ==
  LET stop == {i \in DOMAIN list : list[i].addr >= block}
  IN  IF stop = {} THEN Len(list) ELSE Min(stop) - 1

\* End of the block before position k + 1; 0 stands for NULL.
Top(k) == IF k = 0 THEN 0 ELSE list[k].addr + list[k].len

\* The overlap test of freemem.
OverlapsPrevOnly(block, n, k) == k # 0 /\ block < Top(k)
OverlapsTouching(block, n, k) ==
  \/ k # 0 /\ block <= Top(k)
  \/ k < Len(list) /\ block + n > list[k + 1].addr
Overlaps(block, n, k) ==
  \/ k # 0 /\ block < Top(k)
  \/ k < Len(list) /\ block + n > list[k + 1].addr

\* Extend the previous block, or link a new one after it.
JoinPrev(block, n, k) ==
  IF Top(k) = block
  THEN [seq |-> [list EXCEPT ![k].len = @ + n], pos |-> k]
  ELSE [seq |-> InsertAt(list, k + 1, [addr |-> block, len |-> n]), pos |-> k + 1]

\* Swallow the block after position i when the two touch.
JoinNextNever(s, i) == s
JoinNext(s, i) ==
  IF i < Len(s) /\ s[i].addr + s[i].len = s[i + 1].addr
  THEN RemoveAt([s EXCEPT ![i].len = @ + s[i + 1].len], i + 1)
  ELSE s

\* Outcome of a call of freemem: rejected, or the new list.
Rejected(block, nbytes) ==
  \/ nbytes = 0 \/ block < MinAddr \/ block > MaxAddr
  \/ Overlaps(block, roundmb(nbytes), Walk(block))

freemem(block, nbytes) ==
  \/ /\ Rejected(block, nbytes)
     /\ ret' = <<"free", SYSERR>>
     /\ UNCHANGED list
  \/ /\ ~ Rejected(block, nbytes)
     /\ LET j == JoinPrev(block, roundmb(nbytes), Walk(block))
        IN  list' = JoinNext(j.seq, j.pos)
     /\ ret' = <<"free", block>>

-----------------------------------------------------------------------------
Free == UNION {Bytes(list[i]) : i \in DOMAIN list}

\* A client returns a block it holds.
Release(b) ==
  /\ b \in held
  /\ freemem(b.addr, b.nbytes)
  /\ held' = held \ {b}

\* A client returns memory part of which is already free (a double free), or
\* an address outside the region.
ReleaseTwice(block, nbytes) ==
  /\ \/ block \notin MinAddr .. MaxAddr
     \/ (block .. (block + roundmb(nbytes) - 1)) \cap Free # {}
  /\ freemem(block, nbytes)
  /\ UNCHANGED held

Next ==
  \/ \E n \in 0 .. MaxBytes : getmem(n)
  \/ \E n \in 0 .. MaxBytes : getstk(n)
  \/ \E b \in held : Release(b)
  \/ \E a \in (MinAddr - MB) .. (MaxAddr + 1), n \in Requests : ReleaseTwice(a, n)

Spec == Init /\ [][Next]_vars

-----------------------------------------------------------------------------
\* Blocks are well-formed, inside the region and of header granularity.
TypeOK ==
  /\ \A i \in DOMAIN list :
       /\ list[i] \in [addr : MinAddr .. MaxAddr, len : 1 .. Size]
       /\ list[i].addr % MB = 0 /\ list[i].len % MB = 0
  /\ held \subseteq [addr : MinAddr .. MaxAddr, nbytes : Requests]
  /\ ret \in {"get", "free"} \X ({SYSERR} \union (MinAddr .. MaxAddr))

\* The list stays in address order and fully coalesced, whatever order blocks
\* are taken and returned in: consecutive blocks are separated by a gap.  The
\* walk, the overlap test and the merge with the next block in freemem all
\* rely on it.
Coalesced ==
  \A i \in DOMAIN list : i + 1 \in DOMAIN list =>
     list[i].addr + list[i].len < list[i + 1].addr

\* No byte is lost and none is handed out twice: every byte of the region is
\* either on the free list or in exactly one held block, even after clients
\* free memory twice.
Conserved ==
  /\ \A b, c \in held : b # c => Held(b) \cap Held(c) = {}
  /\ \A b \in held : Held(b) \cap Free = {}
  /\ Free \union UNION {Held(b) : b \in held} = MinAddr .. MaxAddr

\* The free list is sound: its blocks are well-formed, in order and apart, and
\* with the held ones they make up the region (getmem.c, getstk.c, freemem.c).
FreeListSound == TypeOK /\ Coalesced /\ Conserved

\* The allocator promises MemPool's behaviour: an allocation fails only when
\* no free run is long enough, a block that is held is never refused back, and
\* a double free changes nothing.
Pool == INSTANCE MemPool WITH free <- Free, held <- {<<b.addr, roundmb(b.nbytes)>> : b \in held},
          Region <- MinAddr .. MaxAddr, Lengths <- {roundmb(n) : n \in 0 .. MaxBytes}
PoolSpec == Pool!Spec

=============================================================================
