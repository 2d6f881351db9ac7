-------------------------------- MODULE Lfs --------------------------------
(***************************************************************************)
(* The local file system of device/lfs: a directory sector, index blocks   *)
(* that each point at IBLEN data blocks, two free lists that live on the   *)
(* disk, and one cached index block and data block per open file.          *)
(*                                                                         *)
(* An operation computes on a record x: the directory in memory (dir, with *)
(* dirty for lf_dirdirty), the disk as the operation sees it (disk), the   *)
(* control block of its file (c) and the disk images its writes go through *)
(* (log).  The writes then reach the disk one at a time (DiskWrites), so   *)
(* that every image a crash could leave behind is a state.  The directory  *)
(* mutex is held until they are done.                                      *)
(***************************************************************************)
EXTENDS Integers, Sequences, FiniteSets, SequencesExt

CONSTANTS Names,                \* file names
          Bytes,                \* the byte values written to each file
          Slots,                \* the file pseudo-devices, 0..Nlfl-1
          NI, ND,               \* index blocks and data blocks of the disk
          IBLEN, BLKSIZ,        \* data blocks per index block, bytes per block
          NumDirEnt, MaxSize,   \* directory entries; bound: bytes of each file
          MaxCalls              \* bound: calls that open, write and truncate

VARIABLES disk, images,        \* the disk, and the images still to be written
          dir, present, dirty, \* lf_dir, lf_dirpresent, lf_dirdirty
          ctl,                 \* lfltab
          opening,             \* a call of lfsopen that waits for the directory
          busy,                \* the file whose operation is writing
          content,             \* history: what was written to each file
          raced, calls,        \* history: a file was opened twice; calls made
          halted               \* panic
vars == <<disk, images, dir, present, dirty, ctl, opening, busy, content, raced, calls, halted>>

NULL == -1
NONE == "none"
IDATA == IBLEN * BLKSIZ
DFILL == "+"

lfibclear(offset) == [next |-> NULL, offset |-> offset, dba |-> [k \in 0 .. IBLEN - 1 |-> NULL]]

Formatted == [dir |-> [dfree |-> 0, ifree |-> 0, files |-> <<>>],
              ib |-> [i \in 0 .. NI - 1 |->
                        [lfibclear(0) EXCEPT !.next = IF i = NI - 1 THEN NULL ELSE i + 1]],
              db |-> [d \in 0 .. ND - 1 |->
                        [data |-> <<>>, next |-> IF d = ND - 1 THEN NULL ELSE d + 1]]]

FreeCtl == [used |-> FALSE, name |-> NONE, entry |-> 0, pos |-> 0, inum |-> NULL,
            ib |-> lfibclear(0), dnum |-> NULL, db |-> <<>>, byte |-> BLKSIZ,
            ibdirty |-> FALSE, dbdirty |-> FALSE]

Init ==
  /\ disk = Formatted /\ images = <<>>
  /\ dir = Formatted.dir /\ present = FALSE /\ dirty = FALSE
  /\ ctl = [s \in Slots |-> FreeCtl]
  /\ opening = [slot |-> NULL, name |-> NONE]
  /\ busy = NONE
  /\ content = [f \in Names |-> <<>>]
  /\ raced = FALSE /\ calls = 0 /\ halted = FALSE

-----------------------------------------------------------------------------
(* Reading and writing the disk.                                           *)

write(x, d) == [x EXCEPT !.disk = d, !.log = Append(@, d)]
WriteDir(x) == write(x, [x.disk EXCEPT !.dir = x.dir])
lfibput(x, i, b) == write(x, [x.disk EXCEPT !.ib[i] = b])
PutData(x, d, bytes) == write(x, [x.disk EXCEPT !.db[d] = [data |-> bytes, next |-> NULL]])

(* lfiballoc and lfdballoc unlink the head of a free list and write the    *)
(* directory at once; an empty list is a panic.                            *)
lfiballocKeeps(x) ==
  IF x.dir.ifree = NULL THEN [x EXCEPT !.halt = TRUE] ELSE [WriteDir(x) EXCEPT !.dirty = FALSE]

lfiballoc(x) ==
  IF x.dir.ifree = NULL THEN [x EXCEPT !.halt = TRUE]
  ELSE [WriteDir([x EXCEPT !.dir.ifree = x.disk.ib[x.dir.ifree].next]) EXCEPT !.dirty = FALSE]

lfdballoc(x) ==
  IF x.dir.dfree = NULL THEN [x EXCEPT !.halt = TRUE]
  ELSE [WriteDir([x EXCEPT !.dir.dfree = x.disk.db[x.dir.dfree].next])
          EXCEPT !.dirty = FALSE, !.c.db = [k \in 1 .. BLKSIZ |-> DFILL]]

lfdbfree(x, d) ==
  LET linked == write([x EXCEPT !.dir.dfree = d],
                      [x.disk EXCEPT !.db[d] = [data |-> <<>>, next |-> x.dir.dfree]])
  IN WriteDir(linked)

(* lfflush: the directory, then the data block, then the index block.      *)
FlushDir(x) == IF x.dirty THEN [WriteDir(x) EXCEPT !.dirty = FALSE] ELSE x
FlushData(x) ==
  IF x.c.dbdirty THEN [PutData(x, x.c.dnum, x.c.db) EXCEPT !.c.dbdirty = FALSE] ELSE x
FlushIndex(x) ==
  IF x.c.ibdirty THEN [lfibput(x, x.c.inum, x.c.ib) EXCEPT !.c.ibdirty = FALSE] ELSE x
FlushNoIndex(x) == FlushData(FlushDir(x))
lfflush(x) == FlushIndex(FlushData(FlushDir(x)))

-----------------------------------------------------------------------------
(* lfsetup: the index block and the data block for the file position.      *)

Entry(x) == x.dir.files[x.c.entry]

FirstIndex(x) ==
  LET first == Entry(x).ilist IN
  CASE x.c.inum = NULL /\ first = NULL ->
         LET a == lfiballoc(x) IN
         IF a.halt THEN a
         ELSE [a EXCEPT !.dir.files[x.c.entry].ilist = x.dir.ifree, !.c.ibdirty = TRUE,
                        !.c.inum = x.dir.ifree, !.c.ib = lfibclear(0)]
    [] (x.c.inum = NULL /\ first # NULL) \/ (x.c.inum # NULL /\ x.c.pos < x.c.ib.offset) ->
         [x EXCEPT !.c.inum = first, !.c.ib = x.disk.ib[first]]
    [] OTHER -> x

NextIndex(x) ==
  LET next == x.c.ib.next IN
  IF next # NULL
  THEN [x EXCEPT !.c.inum = next, !.c.ib = x.disk.ib[next], !.c.dnum = NULL]
  ELSE LET a == lfiballoc(x)
           linked == lfibput(a, x.c.inum, [x.c.ib EXCEPT !.next = x.dir.ifree])
       IN IF a.halt THEN a
          ELSE [linked EXCEPT !.c.inum = x.dir.ifree, !.c.ib = lfibclear(x.c.ib.offset + IDATA),
                              !.c.ibdirty = TRUE, !.c.dnum = NULL]

Covers(x) == (x.c.pos \div IDATA) * IDATA <= x.c.ib.offset

CoveringIndex(x) ==
  LET walk[n \in 0 .. NI] ==
        IF n = 0 THEN x
        ELSE LET y == walk[n - 1] IN IF y.halt \/ Covers(y) THEN y ELSE NextIndex(y)
  IN walk[NI]

DataIndex(x) == (x.c.pos % IDATA) \div BLKSIZ

DataBlock(x) ==
  LET k == DataIndex(x)
      d == x.c.ib.dba[k]
      a == lfdballoc(x)
  IN CASE x.halt -> x
       [] ~ x.halt /\ d = NULL ->
            IF a.halt THEN a
            ELSE [a EXCEPT !.c.ib.dba[k] = x.dir.dfree, !.c.ibdirty = TRUE, !.c.dnum = x.dir.dfree]
       [] ~ x.halt /\ d # NULL /\ d # x.c.dnum ->
            [x EXCEPT !.c.db = x.disk.db[d].data, !.c.dbdirty = FALSE, !.c.dnum = d]
       [] OTHER -> x

lfsetup(x) ==
  LET flushed == IF x.c.ibdirty \/ x.c.dbdirty THEN lfflush(x) ELSE x
      y == DataBlock(CoveringIndex(FirstIndex(flushed)))
  IN [y EXCEPT !.c.byte = y.c.pos % BLKSIZ]

SetUp(x) == IF x.c.byte >= BLKSIZ THEN lfsetup(x) ELSE x

(* lflgetc and lflputc on an open file.                                    *)
getc(x) ==
  LET y == SetUp(x) IN IF y.halt THEN y ELSE [y EXCEPT !.c.byte = @ + 1, !.c.pos = @ + 1]

putc(x, ch) ==
  LET y == SetUp(x)
      grows == y.c.pos >= Entry(y).size
      stored == [y EXCEPT !.c.db[y.c.byte + 1] = ch, !.c.byte = @ + 1, !.c.pos = @ + 1,
                          !.c.dbdirty = TRUE, !.dirty = @ \/ grows]
  IN CASE y.halt -> y
       [] ~ y.halt /\ grows -> [stored EXCEPT !.dir.files[y.c.entry].size = @ + 1]
       [] OTHER -> stored

SeekInBlock(x, offset) == [x EXCEPT !.c.pos = offset]
seek(x, offset) == [x EXCEPT !.c.pos = offset, !.c.byte = BLKSIZ]

(* lftruncate frees the data blocks of each index block of the file and    *)
(* puts the chain of index blocks in front of the free list.               *)
FreeData(x, i) ==
  LET dba == x.disk.ib[i].dba
      freed == FoldLeft(LAMBDA y, k : IF dba[k] = NULL THEN y ELSE lfdbfree(y, dba[k]),
                        x, [k \in 1 .. IBLEN |-> k - 1])
  IN freed

ChainTail(next, ifree) == IF next = NULL THEN ifree ELSE next

FreeIndexOnly(x, i, ifree) ==
  lfibput(x, i, [lfibclear(0) EXCEPT !.next = ChainTail(x.disk.ib[i].next, ifree)])

FreeIndex(x, i, ifree) ==
  LET next == ChainTail(x.disk.ib[i].next, ifree)
  IN lfibput(FreeData(x, i), i, [lfibclear(0) EXCEPT !.next = next])

lftruncate(x) ==
  LET flushed == IF x.c.ibdirty \/ x.c.dbdirty THEN lfflush(x) ELSE x
      ifree == x.dir.ifree
      first == Entry(x).ilist
      reset == [flushed EXCEPT !.c.pos = 0, !.c.inum = NULL, !.c.dnum = NULL, !.c.byte = BLKSIZ,
                               !.dir.files[x.c.entry].ilist = NULL,
                               !.dir.files[x.c.entry].size = 0, !.dirty = TRUE]
      walk[n \in 0 .. NI] ==
        IF n = 0 THEN [x |-> reset, i |-> first]
        ELSE LET w == walk[n - 1]
                 y == FreeIndex(w.x, w.i, ifree)
             IN IF w.i = ifree THEN w ELSE [x |-> y, i |-> y.disk.ib[w.i].next]
  IN IF Entry(x).size = 0 THEN x
     ELSE [walk[NI].x EXCEPT !.dir.ifree = first, !.dirty = TRUE]

-----------------------------------------------------------------------------
(* The device calls.                                                       *)

View(s) == [dir |-> dir, dirty |-> dirty, disk |-> disk, log |-> <<>>, c |-> ctl[s], halt |-> FALSE]

Idle == images = <<>> /\ ~ raced /\ ~ halted
Counted == calls < MaxCalls /\ calls' = calls + 1

Apply(s, x) ==
  /\ dir' = x.dir /\ dirty' = x.dirty
  /\ ctl' = [ctl EXCEPT ![s] = x.c]
  /\ images' = x.log
  /\ busy' = IF x.log = <<>> THEN NONE ELSE ctl[s].name
  /\ halted' = x.halt
  /\ UNCHANGED <<disk, present, opening, raced>>

DiskWrites ==
  /\ images # <<>>
  /\ disk' = Head(images) /\ images' = Tail(images)
  /\ busy' = IF Len(images) = 1 THEN NONE ELSE busy
  /\ UNCHANGED <<dir, present, dirty, ctl, opening, content, raced, calls, halted>>

IsOpen(f) == \E s \in Slots : ctl[s].used /\ ctl[s].name = f

(* lfsopen looks for an open file of that name and for a free device       *)
(* before it waits for the directory; the rest runs when it has the mutex. *)
(* One process at a time is stopped between the two (OpenChecks); others   *)
(* run through.                                                            *)
NotOpening == [slot |-> NULL, name |-> NONE]
FirstFree == {s \in Slots : ~ ctl[s].used /\ \A r \in Slots : r < s => ctl[r].used}

OpenChecks(f) ==
  /\ ~ raced /\ ~ halted /\ calls < MaxCalls
  /\ opening = NotOpening /\ ~ IsOpen(f)
  /\ \E s \in FirstFree : opening' = [slot |-> s, name |-> f]
  /\ UNCHANGED <<disk, images, dir, present, dirty, ctl, busy, content, raced, calls, halted>>

LoadedDir == IF present THEN dir ELSE disk.dir
EntryOf(d, f) == {k \in 1 .. Len(d.files) : d.files[k].name = f}

Opens(s, f, d, k) ==
  /\ dir' = d
  /\ ctl' = [ctl EXCEPT ![s] = [FreeCtl EXCEPT !.used = TRUE, !.name = f, !.entry = k]]
  /\ raced' = (ctl[s].used \/ IsOpen(f))
  /\ content' = IF k > Len(LoadedDir.files) THEN [content EXCEPT ![f] = <<>>] ELSE content

OpenFails == dir' = LoadedDir /\ UNCHANGED <<ctl, raced, content>>

OpenFile(s, f, mode) ==
  LET d == LoadedDir
      new == [d EXCEPT !.files = Append(@, [name |-> f, size |-> 0, ilist |-> NULL])]
      found == EntryOf(d, f)
  IN /\ Idle /\ Counted
     /\ present' = TRUE
     /\ \/ found = {} /\ mode # "old" /\ Len(d.files) < NumDirEnt
           /\ Opens(s, f, new, Len(d.files) + 1)
        \/ found = {} /\ (mode = "old" \/ Len(d.files) >= NumDirEnt) /\ OpenFails
        \/ mode # "new" /\ (\E k \in found : Opens(s, f, d, k))
        \/ mode = "new" /\ found # {} /\ OpenFails
     /\ UNCHANGED <<disk, images, dirty, busy, halted>>

lfsopen(f, mode) ==
  /\ ~ IsOpen(f)
  /\ \E s \in FirstFree : OpenFile(s, f, mode)
  /\ UNCHANGED opening

OpenGoesOn(mode) ==
  /\ opening # NotOpening
  /\ OpenFile(opening.slot, opening.name, mode)
  /\ opening' = NotOpening

lflgetc(s) ==
  /\ Idle /\ ctl[s].used
  /\ ctl[s].pos < Entry(View(s)).size
  /\ Apply(s, getc(View(s)))
  /\ UNCHANGED <<content, calls>>

lflputc(s, ch) ==
  LET pos == ctl[s].pos
      f == ctl[s].name
  IN /\ Idle /\ ctl[s].used /\ ch \in Bytes[f] /\ pos < MaxSize[f] /\ Counted
     /\ pos <= Entry(View(s)).size
     /\ Apply(s, putc(View(s), ch))
     /\ content' = IF halted' THEN content
                   ELSE [content EXCEPT ![f] = IF pos < Len(@) THEN [@ EXCEPT ![pos + 1] = ch]
                                               ELSE Append(@, ch)]

lflseek(s, offset) ==
  /\ Idle /\ ctl[s].used /\ offset <= Entry(View(s)).size
  /\ Apply(s, seek(View(s), offset))
  /\ UNCHANGED <<content, calls>>

lflcontrol(s) ==
  /\ Idle /\ ctl[s].used /\ Counted
  /\ Apply(s, lftruncate(View(s)))
  /\ content' = [content EXCEPT ![ctl[s].name] = <<>>]

lflclose(s) ==
  LET x == IF dirty \/ ctl[s].dbdirty \/ ctl[s].ibdirty THEN lfflush(View(s)) ELSE View(s)
  IN /\ Idle /\ ctl[s].used
     /\ Apply(s, [x EXCEPT !.c = FreeCtl])
     /\ UNCHANGED <<content, calls>>

(* The system stops and boots again while no file is open: lfsinit and     *)
(* lflinit forget everything but the disk.                                 *)
Reboot ==
  /\ Idle /\ present
  /\ \A s \in Slots : ~ ctl[s].used
  /\ opening = NotOpening
  /\ present' = FALSE /\ dirty' = FALSE /\ dir' = Formatted.dir
  /\ UNCHANGED <<disk, images, ctl, opening, busy, content, raced, calls, halted>>

Stopped == (raced \/ halted \/ calls = MaxCalls) /\ images = <<>> /\ UNCHANGED vars

Next ==
  \/ DiskWrites \/ Reboot \/ Stopped
  \/ \E f \in Names : OpenChecks(f)
  \/ \E mode \in {"old", "new", "any"} : OpenGoesOn(mode) \/ \E f \in Names : lfsopen(f, mode)
  \/ \E s \in Slots :
       \/ lflgetc(s) \/ lflcontrol(s) \/ lflclose(s)
       \/ \E ch \in UNION {Bytes[f] : f \in Names} : lflputc(s, ch)
       \/ \E offset \in 0 .. Max({MaxSize[f] : f \in Names}) : lflseek(s, offset)

Spec == Init /\ [][Next]_vars

-----------------------------------------------------------------------------
(* What the blocks of a disk are used for.                                 *)

Follow(start, next) ==
  LET n == Cardinality(DOMAIN next)
      reach[k \in 0 .. n] == IF k = 0 THEN {start} \ {NULL}
                             ELSE LET r == reach[k - 1]
                                  IN r \cup ({next[b] : b \in r} \ {NULL})
  IN reach[n]

Nexts(blocks) == [b \in DOMAIN blocks |-> blocks[b].next]

(* The index blocks as the open files see them.                            *)
CachedIb ==
  [i \in 0 .. NI - 1 |->
     LET holders == {s \in Slots : ctl[s].used /\ ctl[s].inum = i}
     IN IF holders = {} THEN disk.ib[i] ELSE ctl[CHOOSE s \in holders : TRUE].ib]

IndexOf(ib, ilist) == Follow(ilist, Nexts(ib))
DataOf(ib, indexes) == UNION {{ib[i].dba[k] : k \in 0 .. IBLEN - 1} : i \in indexes} \ {NULL}

(* Every index block and every data block is on its free list or belongs   *)
(* to exactly one file: what lfiballoc, lfdballoc and lfdbfree, lfsetup    *)
(* and lftruncate do to the two lists neither loses nor shares a block,    *)
(* also across a reboot.                                                   *)
BlocksConserved ==
  LET d == LoadedDir
      ib == CachedIb
      owned == [k \in 1 .. Len(d.files) |-> IndexOf(ib, d.files[k].ilist)]
      freeI == IndexOf(ib, d.ifree)
      freeD == Follow(d.dfree, Nexts(disk.db))
  IN images = <<>> /\ ~ raced /\ ~ halted =>
       /\ freeI \cup UNION {owned[k] : k \in DOMAIN owned} = 0 .. NI - 1
       /\ freeD \cup UNION {DataOf(ib, owned[k]) : k \in DOMAIN owned} = 0 .. ND - 1
       /\ \A k, l \in DOMAIN owned :
            /\ owned[k] \cap freeI = {} /\ DataOf(ib, owned[k]) \cap freeD = {}
            /\ k # l => owned[k] \cap owned[l] = {}
            /\ k # l => DataOf(ib, owned[k]) \cap DataOf(ib, owned[l]) = {}

(* A read at any position of any open file, whatever was read, written,    *)
(* seeked and truncated before and whatever the blocks in memory are,      *)
(* returns the byte last written there: the byte lflgetc is about to       *)
(* extract after lfsetup.                                                  *)
ReadsWhatWasWritten ==
  \A s \in Slots :
    Idle /\ ctl[s].used =>
      LET x == View(s)
          y == SetUp(x)
          f == content[ctl[s].name]
      IN /\ Entry(x).size = Len(f)
         /\ x.c.pos < Len(f) => ~ y.halt /\ y.c.db[y.c.byte + 1] = f[x.c.pos + 1]

(* The disk, as it is, holds a file with these bytes.                      *)
OnDisk(f, bytes) ==
  LET Holds(e, pos) ==
        \E i \in IndexOf(disk.ib, e.ilist) :
          LET b == disk.ib[i].dba[(pos % IDATA) \div BLKSIZ] IN
          /\ disk.ib[i].offset = (pos \div IDATA) * IDATA
          /\ b # NULL /\ disk.db[b].data[(pos % BLKSIZ) + 1] = bytes[pos + 1]
  IN \/ EntryOf(disk.dir, f) = {} /\ bytes = <<>>
     \/ \E k \in EntryOf(disk.dir, f) :
          LET e == disk.dir.files[k] IN
          e.size = Len(bytes) /\ \A pos \in 0 .. e.size - 1 : Holds(e, pos)

(* A file that has been closed is on the disk, in every image the writes   *)
(* for other files go through: a crash at any moment keeps its bytes.      *)
ClosedFilesDurable ==
  \A f \in Names : ~ raced /\ ~ IsOpen(f) /\ busy # f => OnDisk(f, content[f])

(* Nor can what is done after that crash overwrite it: in every image its  *)
(* index and data blocks are off the free lists of the disk, which         *)
(* lfiballoc, lfdballoc, lfdbfree and lftruncate rewrite in several writes.*)
(* (The blocks of an open file may be shared: its index block on the disk  *)
(* still points into the free list until it is flushed.)                   *)
ClosedFilesNotFree ==
  \A f \in Names : ~ raced /\ ~ IsOpen(f) /\ busy # f =>
    \A k \in EntryOf(disk.dir, f) :
      LET own == IndexOf(disk.ib, disk.dir.files[k].ilist)
      IN /\ own \cap IndexOf(disk.ib, disk.dir.ifree) = {}
         /\ DataOf(disk.ib, own) \cap Follow(disk.dir.dfree, Nexts(disk.db)) = {}
=============================================================================
