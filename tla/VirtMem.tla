------------------------------ MODULE VirtMem ------------------------------
(***************************************************************************)
(* Demand paging of the user processes: vcreate, vmalloc, vfree, kill, the *)
(* memory accesses of the running process and the page fault handler with  *)
(* its swapping.                                                           *)
(*                                                                         *)
(* A page is a slot of a page table frame, <<t, v>>, and stands for the    *)
(* pt_t pointer that the code keeps in ptmap and swap2ffsmap.  Page 0 of a *)
(* process is its stack, the others are its heap.  Frames are numbered     *)
(* across the regions; ffs2swapmap and swap2ffsmap are indexed by frame    *)
(* number, where the code subtracts the first frame of the region.         *)
(***************************************************************************)
EXTENDS Integers, FiniteSets

CONSTANTS
  Procs,      \* user processes (process table slots that vcreate fills)
  NULLPROC,   \* the null process; stands for every system process
  NULL,       \* the null pointer
  F,          \* MAX_FSS_SIZE, frames of the FFS region
  S,          \* MAX_SWAP_SIZE, frames of the swap region
  VS,         \* MAX_STACK_SIZE, frames of the virtual stack region
  NT,         \* frames of the PD/PT region that can hold a user page table
  MaxHeap,    \* MAX_HEAP_SIZE
  PAGE_SIZE,
  UINT,       \* 2^32: modulus of uint32 arithmetic
  V,          \* bound: pages of a process that are ever mapped
  MaxCreate,  \* bound: calls of vcreate
  HeapOf,     \* HeapOf[p]: the hsize argument p is created with
  Sizes       \* bound: the nbytes arguments of vmalloc

VARIABLES
  pt,            \* page table entries
  ptmap, ffs2swapmap, swap2ffsmap,
  ffslist, swaplist, vstacklist, pdptlist,   \* free frames of each region
  n_free_vpages,
  tbl,           \* page table of each process, NULL when PR_FREE
  hsize, vfree, vmax,
  req,           \* nbytes of a vmalloc between its check and its service, or 0
  currpid,
  tlb,           \* a translation of currpid that the processor has cached
  mem,           \* mem[f] = q: frame f holds the latest contents of page q
  halted,        \* why the machine halted, or "no"
  created,       \* calls of vcreate so far
  held,          \* ghost: blocks vmalloc returned and vfree did not take back
  written        \* ghost: pages their owner has written to since vmalloc

maps == <<ptmap, ffs2swapmap, swap2ffsmap>>
lists == <<ffslist, swaplist, vstacklist, pdptlist>>
account == <<n_free_vpages, hsize, vfree, vmax, req, created>>
vars == <<pt, maps, lists, account, tbl, currpid, tlb, mem, halted, held, written>>

FFS == 1 .. F
Swap == (F + 1) .. (F + S)
VStack == (F + S + 1) .. (F + S + VS)
Frames == 1 .. (F + S + VS)
Tables == 1 .. NT
VPages == 0 .. (V - 1)
Pages == Tables \X VPages
Junk == NULL      \* in mem: contents nobody relies on
Flushed == [v |-> 0, base |-> 0, dirty |-> FALSE]   \* an empty TLB

ASSUME VirtMemAssumption ==
  /\ F \in Nat \ {0} /\ S \in Nat /\ VS \in Nat /\ NT \in Nat
  /\ V \in Nat \ {0} /\ MaxHeap \in Nat /\ MaxCreate \in Nat
  /\ PAGE_SIZE \in Nat \ {0} /\ UINT \in Nat \ {0} /\ MaxHeap < UINT
  /\ NULLPROC \notin Procs /\ NULL \notin Pages /\ NULL \notin Tables
  /\ HeapOf \in [Procs -> Nat]
  /\ Sizes \subseteq Nat

PTE == [pres : BOOLEAN, dirty : BOOLEAN, isvmalloc : BOOLEAN,
        isswapped : BOOLEAN, already_swapped : BOOLEAN, base : 0 .. (F + S + VS)]

\* A zeroed page table entry, and the two that kernel_service_malloc writes.
ZeroPTE == [pres |-> FALSE, dirty |-> FALSE, isvmalloc |-> FALSE,
            isswapped |-> FALSE, already_swapped |-> FALSE, base |-> 0]
HeapPTE == [ZeroPTE EXCEPT !.isvmalloc = TRUE]
StackPTEAddress(f) == [ZeroPTE EXCEPT !.pres = TRUE, !.dirty = TRUE, !.base = f * PAGE_SIZE]
StackPTE(f) == [ZeroPTE EXCEPT !.pres = TRUE, !.dirty = TRUE, !.base = f]

\* ceil_div of memory.h, on uint32 operands.
ceil_div(a, b) == IF a % b = 0 THEN a \div b ELSE ((a + b) % UINT) \div b

\* First fit on a region handed out frame by frame: the lowest free frame.
Lowest(f, free) == f \in free /\ \A g \in free : f <= g

Init ==
  /\ pt = [q \in Pages |-> ZeroPTE]
  /\ ptmap = [f \in FFS |-> NULL]
  /\ ffs2swapmap = [f \in FFS |-> -1]
  /\ swap2ffsmap = [s \in Swap |-> NULL]
  /\ ffslist = FFS /\ swaplist = Swap /\ vstacklist = VStack /\ pdptlist = Tables
  /\ n_free_vpages = MaxHeap
  /\ tbl = [p \in Procs |-> NULL]
  /\ hsize = [p \in Procs |-> 0]
  /\ vfree = [p \in Procs |-> 0]
  /\ vmax = [p \in Procs |-> 0]
  /\ req = [p \in Procs |-> 0]
  /\ currpid = NULLPROC
  /\ tlb = Flushed
  /\ mem = [f \in Frames |-> Junk]
  /\ halted = "no"
  /\ created = 0
  /\ held = [p \in Procs |-> {}]
  /\ written = {}

-----------------------------------------------------------------------------
Running == halted = "no"

\* The ASSERTs that are told apart; "assertion" is any of those that compare
\* the maps, the page table entries and the request with each other.
Reasons == {"assertion", "SEGMENTATION FAULT", "Out of pdpt memory",
            "Out of virtual stack memory", "Out of swappable memory",
            "Illegal value of n_free_vpages"}

\* A failed ASSERT prints its message and halts the machine.
Halt(why) ==
  /\ halted' = why
  /\ UNCHANGED <<pt, maps, lists, account, tbl, currpid, tlb, mem, held, written>>

\* currpid is a user process that executes its own code, not inside vmalloc.
InUser == Running /\ currpid \in Procs /\ req[currpid] = 0

\* The page table entry that currpid's virtual page v translates through.
Cur(v) == <<tbl[currpid], v>>

BlockPages(b) == {v \in VPages : b.page <= v /\ v * PAGE_SIZE < b.page * PAGE_SIZE + b.nbytes}

\* The pages p was given: its stack and the blocks it holds.
Owned(p) == {0} \union UNION {BlockPages(b) : b \in held[p]}

-----------------------------------------------------------------------------
(***************************************************************************)
(* Processes come and go.                                                  *)
(***************************************************************************)

\* create_directory_entry clears the frame the directory entry pointed at
\* before the new table frame was assigned, so the new table keeps whatever
\* its frame holds.
CreateTable(t) == pt

\* vcreate, with the kernel_service_malloc that getvstk runs for the stack
\* page and the writes of the initial stack.
vcreate(p) ==
  /\ Running /\ currpid = NULLPROC
  /\ tbl[p] = NULL /\ HeapOf[p] <= MaxHeap
  /\ created < MaxCreate
  /\ \/ pdptlist = {} /\ Halt("Out of pdpt memory")
     \/ pdptlist # {} /\ vstacklist = {} /\ Halt("Out of virtual stack memory")
     \/ \E t \in Tables, f \in VStack :
          /\ Lowest(t, pdptlist) /\ Lowest(f, vstacklist)
          /\ pdptlist' = pdptlist \ {t}
          /\ vstacklist' = vstacklist \ {f}
          /\ tbl' = [tbl EXCEPT ![p] = t]
          /\ pt' = [CreateTable(t) EXCEPT ![<<t, 0>>] = StackPTE(f)]
          /\ mem' = [mem EXCEPT ![f] = <<t, 0>>]
          /\ written' = written \union {<<t, 0>>}
          /\ hsize' = [hsize EXCEPT ![p] = HeapOf[p]]
          /\ vfree' = [vfree EXCEPT ![p] = HeapOf[p]]
          /\ vmax' = [vmax EXCEPT ![p] = 1]
          /\ created' = created + 1
          /\ UNCHANGED <<maps, ffslist, swaplist, n_free_vpages, req, currpid,
                         tlb, halted, held>>

\* resched and ctxsw: loading cr3 flushes the TLB.
resched(p) ==
  /\ Running /\ p # currpid
  /\ p \in Procs => tbl[p] # NULL
  /\ currpid' = p
  /\ tlb' = Flushed
  /\ UNCHANGED <<pt, maps, lists, account, tbl, mem, halted, held, written>>

-----------------------------------------------------------------------------
(***************************************************************************)
(* free_vpage on every page of the set P.                                  *)
(***************************************************************************)
Resident(P) == {q \in P : pt[q].pres /\ pt[q].base \in FFS}
SwappedOut(P) == {q \in P : ~ pt[q].pres /\ pt[q].isswapped}

\* The swap frames of P: those of swapped pages and those that still back a
\* resident page.
SwapFramesKeepBacking(P) == {pt[q].base : q \in SwappedOut(P)}
SwapFrames(P) ==
  {pt[q].base : q \in SwappedOut(P)} \union
  {ffs2swapmap[pt[q].base] : q \in {r \in Resident(P) : pt[r].already_swapped}}

FreeAsserts(P) ==
  \A q \in P :
    /\ pt[q].pres => ~ pt[q].isvmalloc
    /\ q \in Resident(P) /\ pt[q].already_swapped => ffs2swapmap[pt[q].base] # -1
    /\ q \in SwappedOut(P) =>
         pt[q].already_swapped /\ swap2ffsmap[pt[q].base] = NULL

FreeVPages(P) ==
  LET ffs == {pt[q].base : q \in Resident(P)}
      swap == SwapFrames(P)
      stack == {pt[q].base : q \in {r \in P : pt[r].pres /\ pt[r].base \in VStack}}
  IN  /\ ffslist' = ffslist \union ffs
      /\ swaplist' = swaplist \union swap
      /\ vstacklist' = vstacklist \union stack
      /\ ptmap' = [f \in FFS |-> IF f \in ffs THEN NULL ELSE ptmap[f]]
      /\ ffs2swapmap' = [f \in FFS |-> IF f \in ffs THEN -1 ELSE ffs2swapmap[f]]
      /\ swap2ffsmap' = [s \in Swap |-> IF s \in swap THEN NULL ELSE swap2ffsmap[s]]
      /\ pt' = [q \in Pages |-> IF q \in P THEN ZeroPTE ELSE pt[q]]
      /\ mem' = [f \in Frames |-> IF mem[f] \in P THEN Junk ELSE mem[f]]
      /\ written' = written \ P

\* vfree and its service: the loop runs from the page of the block's address
\* to end_page, which is computed from the last byte of the block.
end_page(b) == ceil_div((b.page * PAGE_SIZE + b.nbytes - 1) % UINT, PAGE_SIZE)

FreedPagesFromBefore(b) == {v \in VPages : b.page - 1 <= v /\ v < end_page(b)}
FreedPagesButLast(b) == {v \in VPages : b.page <= v /\ v < end_page(b) - 1}
FreedPages(b) == {v \in VPages : b.page <= v /\ v < end_page(b)}

NpagesTruncated(b) == (b.page * PAGE_SIZE + b.nbytes - 1) \div PAGE_SIZE - b.page
Npages(b) == IF end_page(b) > b.page THEN end_page(b) - b.page ELSE 0

kernel_service_free(b) ==
  /\ LET P == {Cur(v) : v \in FreedPages(b)}
         n == (n_free_vpages + Npages(b)) % UINT
     IN  \/ ~ FreeAsserts(P) /\ Halt("assertion")
         \/ FreeAsserts(P) /\ n > MaxHeap /\ Halt("Illegal value of n_free_vpages")
         \/ /\ FreeAsserts(P) /\ n <= MaxHeap
            /\ FreeVPages(P)
            /\ n_free_vpages' = n
            /\ vfree' = [vfree EXCEPT ![currpid] = @ + Npages(b)]
            /\ held' = [held EXCEPT ![currpid] = @ \ {b}]
            /\ tlb' = Flushed
            /\ UNCHANGED <<pdptlist, hsize, vmax, req, created, tbl, currpid,
                           halted>>

\* The pages of table t that freevmem frees.
PresentPages(t) == {q \in Pages : q[1] = t /\ pt[q].pres}
freevmem(t) == {q \in Pages : q[1] = t /\ (pt[q].pres \/ pt[q].isswapped)}

\* kill, by the process itself or by a system process: freevmem, then
\* destroy_directory (here or in the resched that leaves the process).
\* Bound: no process is killed between the checks of its vmalloc and the
\* service.
kill(p) ==
  /\ Running /\ currpid \in {p, NULLPROC}
  /\ tbl[p] # NULL /\ req[p] = 0
  /\ LET P == freevmem(tbl[p])
         n == (n_free_vpages + hsize[p] - vfree[p]) % UINT
     IN  \/ ~ FreeAsserts(P) /\ Halt("assertion")
         \/ FreeAsserts(P) /\ n > MaxHeap /\ Halt("Illegal value of n_free_vpages")
         \/ /\ FreeAsserts(P) /\ n <= MaxHeap
            /\ FreeVPages(P)
            /\ n_free_vpages' = n
            /\ pdptlist' = pdptlist \union {tbl[p]}
            /\ tbl' = [tbl EXCEPT ![p] = NULL]
            /\ held' = [held EXCEPT ![p] = {}]
            /\ hsize' = [hsize EXCEPT ![p] = 0]
            /\ vfree' = [vfree EXCEPT ![p] = 0]
            /\ vmax' = [vmax EXCEPT ![p] = 0]
            /\ currpid' = NULLPROC
            /\ tlb' = Flushed
            /\ UNCHANGED <<req, created, halted>>

-----------------------------------------------------------------------------
(***************************************************************************)
(* vmalloc checks the quotas with interrupts enabled and then creates a    *)
(* process that runs kernel_service_malloc; other processes may run in     *)
(* between.                                                                *)
(***************************************************************************)
vmalloc(nbytes) ==
  LET n == ceil_div(nbytes, PAGE_SIZE)
  IN  /\ InUser
      /\ nbytes # 0 /\ n <= vfree[currpid] /\ n <= n_free_vpages
      /\ vmax[currpid] + n <= V
      /\ req' = [req EXCEPT ![currpid] = nbytes]
      /\ UNCHANGED <<pt, maps, lists, n_free_vpages, hsize, vfree, vmax, created,
                     tbl, currpid, tlb, mem, halted, held, written>>

kernel_service_malloc ==
  /\ Running /\ currpid \in Procs /\ req[currpid] # 0
  /\ LET p == currpid
         n == ceil_div(req[p], PAGE_SIZE)
         new == {Cur(v) : v \in {w \in VPages : vmax[p] <= w /\ w < vmax[p] + n}}
     IN  \/ n > vfree[p] /\ Halt("assertion")
         \/ /\ n <= vfree[p]
            /\ pt' = [q \in Pages |-> IF q \in new THEN HeapPTE ELSE pt[q]]
            /\ held' = [held EXCEPT ![p] = @ \union {[page |-> vmax[p], nbytes |-> req[p]]}]
            /\ vmax' = [vmax EXCEPT ![p] = @ + n]
            /\ vfree' = [vfree EXCEPT ![p] = @ - n]
            /\ n_free_vpages' = (n_free_vpages - n) % UINT
            /\ req' = [req EXCEPT ![p] = 0]
            /\ tlb' = Flushed
            /\ UNCHANGED <<maps, lists, hsize, created, tbl, currpid, mem, halted, written>>

-----------------------------------------------------------------------------
(***************************************************************************)
(* Accesses of the running process (the processor, external).              *)
(***************************************************************************)

\* The translation of page v: cached, or walked from the page table.  The
\* TLB holds one entry, and a new one replaces it (bound: a cache replaces an
\* entry whenever it likes, so every entry is seen for as long as it may live).
Cached(v) == tlb.base # 0 /\ tlb.v = v
Translation(v) ==
  IF Cached(v) THEN tlb ELSE [v |-> v, base |-> pt[Cur(v)].base, dirty |-> pt[Cur(v)].dirty]

Mapped(v) == Cached(v) \/ pt[Cur(v)].pres

Read(v) ==
  /\ Mapped(v)
  /\ tlb' = Translation(v)
  /\ UNCHANGED <<pt, maps, lists, account, tbl, currpid, mem, halted, held, written>>

\* Every store makes new contents: older copies of the page are worth nothing.
\* The processor sets the dirty bit in the page table entry only when the
\* translation it uses is clean.
Write(v) ==
  LET q == Cur(v)
      t == Translation(v)
  IN  /\ Mapped(v)
      /\ mem' = [f \in Frames |-> IF f = t.base THEN q ELSE IF mem[f] = q THEN Junk ELSE mem[f]]
      /\ written' = written \union {q}
      /\ tlb' = [t EXCEPT !.dirty = TRUE]
      /\ pt' = IF t.dirty THEN pt ELSE [pt EXCEPT ![q].dirty = TRUE]
      /\ UNCHANGED <<maps, lists, account, tbl, currpid, halted, held>>

-----------------------------------------------------------------------------
(***************************************************************************)
(* The page fault handler.                                                 *)
(***************************************************************************)

\* Entries as the handler leaves them.
BroughtIn(e, f) ==
  [e EXCEPT !.base = f, !.pres = TRUE, !.isvmalloc = FALSE, !.isswapped = FALSE,
            !.dirty = FALSE]
Evicted(e, s) ==
  [e EXCEPT !.base = s, !.pres = FALSE, !.isswapped = TRUE,
            !.already_swapped = TRUE, !.dirty = FALSE]
CollectedKeepsBit(e) == [e EXCEPT !.dirty = TRUE]
CollectedStaysClean(e) == [e EXCEPT !.already_swapped = FALSE]
Collected(e) == [e EXCEPT !.already_swapped = FALSE, !.dirty = TRUE]

\* copy_page(from, to, FALSE).
CopyBack(m, from, to) == [m EXCEPT ![from] = m[to]]
Copy(m, from, to) == [m EXCEPT ![to] = m[from]]

\* cr3 is reloaded on the way into and out of the handler.
FlushTLBNever == tlb
FlushTLB == Flushed

\* There is a free FFS frame f.
FaultIn(q, f) ==
  LET e == pt[q]
      swapped == e.isswapped
  IN  \/ /\ \/ swapped /\ ~ (ffs2swapmap[f] = -1 /\ swap2ffsmap[e.base] = NULL)
            \/ ptmap[f] # NULL /\ pt[ptmap[f]].pres
         /\ Halt("assertion")
      \/ /\ swapped => ffs2swapmap[f] = -1 /\ swap2ffsmap[e.base] = NULL
         /\ ptmap[f] # NULL => ~ pt[ptmap[f]].pres
         /\ ffslist' = ffslist \ {f}
         /\ ptmap' = [ptmap EXCEPT ![f] = q]
         /\ pt' = [pt EXCEPT ![q] = BroughtIn(@, f)]
         /\ IF swapped
            THEN /\ mem' = Copy(mem, e.base, f)
                 /\ ffs2swapmap' = [ffs2swapmap EXCEPT ![f] = e.base]
                 /\ swap2ffsmap' = [swap2ffsmap EXCEPT ![e.base] = q]
            ELSE UNCHANGED <<mem, ffs2swapmap, swap2ffsmap>>
         /\ tlb' = FlushTLB
         /\ UNCHANGED <<swaplist, vstacklist, pdptlist, account, tbl, currpid,
                        halted, held, written>>

\* A swapped-out page that lost its swap bit.
SwapBitLost(q) == pt[q].isswapped /\ ~ pt[q].already_swapped

\* The page in frame f is written out to swap frame s and page q takes its
\* frame; tables and ftsm are pt and ffs2swapmap after the swap frame was
\* chosen.
Exchange(q, f, s, tables, ftsm) ==
  LET w == ptmap[f]
      swapped == pt[q].isswapped
      out == IF tables[w].dirty \/ swapped THEN Copy(mem, f, s) ELSE mem
  IN  /\ pt' = [tables EXCEPT ![w] = Evicted(@, s), ![q] = BroughtIn(@, f)]
      /\ ptmap' = [ptmap EXCEPT ![f] = q]
      /\ IF swapped
         THEN /\ mem' = Copy(out, pt[q].base, f)
              /\ ffs2swapmap' = [ftsm EXCEPT ![f] = pt[q].base]
              /\ swap2ffsmap' = [swap2ffsmap EXCEPT ![s] = NULL, ![pt[q].base] = q]
         ELSE /\ mem' = out
              /\ ffs2swapmap' = [ftsm EXCEPT ![f] = -1]
              /\ swap2ffsmap' = [swap2ffsmap EXCEPT ![s] = NULL]
      /\ tlb' = FlushTLB
      /\ UNCHANGED <<ffslist, vstacklist, pdptlist, account, tbl, currpid,
                     halted, held, written>>

\* The victim still has a copy in swap: reuse its swap frame.
EvictToOwn(q, f) ==
  /\ pt[ptmap[f]].already_swapped
  /\ \/ (ffs2swapmap[f] = -1 \/ SwapBitLost(q)) /\ Halt("assertion")
     \/ /\ ffs2swapmap[f] # -1 /\ ~ SwapBitLost(q)
        /\ Exchange(q, f, ffs2swapmap[f], pt, ffs2swapmap)
        /\ UNCHANGED swaplist

\* The victim gets a new swap frame.
EvictToNew(q, f, s) ==
  /\ ~ pt[ptmap[f]].already_swapped
  /\ Lowest(s, swaplist)
  /\ \/ (ffs2swapmap[f] # -1 \/ SwapBitLost(q)) /\ Halt("assertion")
     \/ /\ ffs2swapmap[f] = -1 /\ ~ SwapBitLost(q)
        /\ Exchange(q, f, s, pt, ffs2swapmap)
        /\ swaplist' = swaplist \ {s}

\* Swap frames that back a resident page (swap_get_evict_candidate).
Candidates == {s \in Swap : swap2ffsmap[s] # NULL /\ pt[swap2ffsmap[s]].pres}

\* Swap is full: take the swap frame of a page that is resident as well.
EvictToCollected(q, f, s) ==
  LET c == swap2ffsmap[s]
  IN  /\ ~ pt[ptmap[f]].already_swapped
      /\ swaplist = {} /\ Lowest(s, Candidates)
      /\ \/ (ffs2swapmap[f] # -1 \/ SwapBitLost(q)) /\ Halt("assertion")
         \/ /\ ffs2swapmap[f] = -1 /\ ~ SwapBitLost(q)
            /\ Exchange(q, f, s, [pt EXCEPT ![c] = Collected(@)],
                        [ffs2swapmap EXCEPT ![pt[c].base] = -1])
            /\ UNCHANGED swaplist

\* Swap is full of pages that are only there: exchange q with the victim.
\* The handler sets the dirty bit of q here and clears it when it is done.
InPlaceKeepsBit(e, f) == BroughtIn(e, f)
InPlace(e, f) == BroughtIn(Collected(e), f)

EvictInPlace(q, f) ==
  LET w == ptmap[f]
      s == pt[q].base
  IN  /\ ~ pt[w].already_swapped
      /\ swaplist = {} /\ Candidates = {}
      /\ \/ ffs2swapmap[f] # -1 /\ Halt("assertion")
         \/ ffs2swapmap[f] = -1 /\ ~ pt[q].isswapped /\ Halt("Out of swappable memory")
         \/ /\ ffs2swapmap[f] = -1 /\ pt[q].isswapped
            /\ pt' = [pt EXCEPT ![w] = Evicted(@, s), ![q] = InPlace(@, f)]
            /\ ptmap' = [ptmap EXCEPT ![f] = q]
            /\ ffs2swapmap' = [ffs2swapmap EXCEPT ![f] = -1]
            /\ swap2ffsmap' = [swap2ffsmap EXCEPT ![s] = NULL]
            /\ mem' = [mem EXCEPT ![s] = mem[f], ![f] = mem[s]]
            /\ tlb' = FlushTLB
            /\ UNCHANGED <<lists, account, tbl, currpid, halted, held, written>>

\* The handler, for a fault of currpid on page v.
pagefault_handler(v) ==
  LET q == Cur(v)
  IN  /\ ~ Mapped(v)
      /\ \/ ~ pt[q].isvmalloc /\ ~ pt[q].isswapped /\ Halt("SEGMENTATION FAULT")
         \/ pt[q].isvmalloc /\ pt[q].isswapped /\ Halt("assertion")
         \/ /\ pt[q].isvmalloc # pt[q].isswapped
            /\ \/ \E f \in FFS : Lowest(f, ffslist) /\ FaultIn(q, f)
               \/ /\ ffslist = {}
                  /\ \E f \in FFS :
                       \/ ptmap[f] = NULL /\ Halt("assertion")
                       \/ /\ ptmap[f] # NULL
                          /\ \/ EvictToOwn(q, f)
                             \/ \E s \in Swap : EvictToNew(q, f, s)
                             \/ \E s \in Swap : EvictToCollected(q, f, s)
                             \/ EvictInPlace(q, f)

\* The running process touches page v.
Access(v) == Read(v) \/ Write(v) \/ pagefault_handler(v)

OwnAccess == InUser /\ \E v \in Owned(currpid) : Access(v)

\* A wild pointer: an access to a page the process was not given.
StrayAccess == InUser /\ \E v \in VPages \ Owned(currpid) : Access(v)

\* The running process calls vfree for a block it holds.
VFree == InUser /\ \E b \in held[currpid] : kernel_service_free(b)

\* The machine stays halted; the null process does nothing.
Halted == ~ Running /\ UNCHANGED vars
Idle == Running /\ currpid = NULLPROC /\ UNCHANGED vars

Next ==
  \/ \E p \in Procs : vcreate(p) \/ kill(p)
  \/ \E p \in Procs \union {NULLPROC} : resched(p)
  \/ \E nbytes \in Sizes : vmalloc(nbytes)
  \/ kernel_service_malloc
  \/ VFree
  \/ OwnAccess
  \/ Halted \/ Idle

\* Programs that only touch what they were given.
Spec == Init /\ [][Next]_vars

\* Programs with wild pointers, until a process has died: the next one may
\* get its page table, with what freevmem left in it.
NoTableReused == created = Cardinality({p \in Procs : tbl[p] # NULL})
StraySpec == Init /\ [][Next \/ (NoTableReused /\ StrayAccess)]_vars

-----------------------------------------------------------------------------
(***************************************************************************)
(* Properties.                                                             *)
(***************************************************************************)

\* The type of every variable (the declarations of paging.c and process.h).
TypeOK ==
  /\ pt \in [Pages -> PTE]
  /\ ptmap \in [FFS -> Pages \union {NULL}]
  /\ ffs2swapmap \in [FFS -> Swap \union {-1}]
  /\ swap2ffsmap \in [Swap -> Pages \union {NULL}]
  /\ ffslist \subseteq FFS /\ swaplist \subseteq Swap
  /\ vstacklist \subseteq VStack /\ pdptlist \subseteq Tables
  /\ n_free_vpages \in 0 .. (UINT - 1)
  /\ tbl \in [Procs -> Tables \union {NULL}]
  /\ hsize \in [Procs -> Nat] /\ vfree \in [Procs -> Int]
  /\ vmax \in [Procs -> Nat] /\ req \in [Procs -> Nat]
  /\ currpid \in Procs \union {NULLPROC}
  /\ tlb \in [v : VPages, base : 0 .. (F + S + VS), dirty : BOOLEAN]
  /\ mem \in [Frames -> Pages \union {Junk}]
  /\ halted \in Reasons \union {"no"}
  /\ created \in Nat
  /\ held \in [Procs -> SUBSET [page : Nat, nbytes : Nat]]
  /\ written \subseteq Pages

\* A page in memory or in swap, and one that may still be faulted in.
Live(q) == pt[q].pres \/ pt[q].isswapped
InUse(q) == Live(q) \/ pt[q].isvmalloc

\* FFS: ptmap names exactly the page that owns each frame, and ffs2swapmap
\* the swap frame that still backs it.
FfsInv ==
  \A f \in FFS :
    /\ f \in ffslist <=> ptmap[f] = NULL
    /\ ptmap[f] # NULL => pt[ptmap[f]].pres /\ pt[ptmap[f]].base = f
    /\ ffs2swapmap[f] # -1 <=> ptmap[f] # NULL /\ pt[ptmap[f]].already_swapped
    /\ ffs2swapmap[f] # -1 => swap2ffsmap[ffs2swapmap[f]] = ptmap[f]

\* Swap: swap2ffsmap names the resident page a swap frame backs.
SwapInv ==
  \A s \in Swap : swap2ffsmap[s] # NULL =>
    /\ pt[swap2ffsmap[s]].pres
    /\ pt[swap2ffsmap[s]].base \in FFS
    /\ ffs2swapmap[pt[swap2ffsmap[s]].base] = s
    /\ s \notin swaplist

\* Page table entries: the bits agree with each other and with the maps.
PageInv ==
  \A q \in Pages :
    /\ pt[q].pres =>
         /\ ~ pt[q].isvmalloc /\ ~ pt[q].isswapped
         /\ \/ pt[q].base \in FFS /\ ptmap[pt[q].base] = q
            \/ pt[q].base \in VStack \ vstacklist /\ ~ pt[q].already_swapped
    /\ pt[q].isswapped =>
         /\ ~ pt[q].isvmalloc /\ pt[q].already_swapped
         /\ pt[q].base \in Swap \ swaplist /\ swap2ffsmap[pt[q].base] = NULL
    /\ pt[q].already_swapped => Live(q)

\* No two pages share a frame.
NoSharing ==
  \A q, r \in Pages : q # r /\ Live(q) /\ Live(r) => pt[q].base # pt[r].base

\* ptmap, ffs2swapmap, swap2ffsmap, the free lists and the page table entries
\* of all processes describe one assignment of frames to pages, and no frame
\* has two owners.
MapsConsistent == FfsInv /\ SwapInv /\ PageInv /\ NoSharing

\* A swap frame that is not free holds a swapped page, or backs a resident one.
SwapReached ==
  \A s \in Swap \ swaplist : \E q \in Pages :
    \/ pt[q].isswapped /\ pt[q].base = s
    \/ pt[q].pres /\ pt[q].base \in FFS /\ ffs2swapmap[pt[q].base] = s

\* A stack frame that is not free holds a page, and a page table that is not
\* free belongs to a process.
StackReached == \A f \in VStack \ vstacklist : \E q \in Pages : pt[q].pres /\ pt[q].base = f
TablesReached == \A t \in Tables \ pdptlist : \E p \in Procs : tbl[p] = t

\* No frame leaks: a frame that is not free is reachable from a live page, so
\* that the free_vpage of that page will return it (free_vpage, freevmem).
NoLeak == SwapReached /\ StackReached /\ TablesReached

\* Page tables: every process has its own, a free table describes no frame,
\* and nothing beyond vmax does.
TableInv ==
  /\ \A p \in Procs : tbl[p] # NULL =>
       /\ tbl[p] \notin pdptlist
       /\ \A r \in Procs : r # p => tbl[r] # tbl[p]
       /\ vmax[p] > 0
  /\ \A q \in Pages : Live(q) => \E p \in Procs : tbl[p] = q[1] /\ q[2] < vmax[p]

\* Virtual stack pages are not swapped out: the stack page of a process is
\* resident in the virtual stack region for as long as the process exists.
StackResident ==
  \A p \in Procs : tbl[p] # NULL =>
    pt[<<tbl[p], 0>>].pres /\ pt[<<tbl[p], 0>>].base \in VStack

\* Reading a page returns what its owner last wrote to it, wherever swapping
\* has moved it: the frame its page table entry names, and the one the
\* processor has cached, hold the latest contents.
DataIntegrity ==
  /\ \A q \in written : Live(q) /\ mem[pt[q].base] = q
  /\ currpid \in Procs => \A v \in VPages :
       Cached(v) /\ Cur(v) \in written => mem[tlb.base] = Cur(v)

\* No cached translation survives a change of the page table entry it was
\* loaded from (write_pdbr, ctxsw).
TLBCoherent ==
  \A v \in VPages : Cached(v) =>
    /\ currpid \in Procs
    /\ pt[Cur(v)].pres /\ pt[Cur(v)].base = tlb.base
    /\ tlb.dirty => pt[Cur(v)].dirty

\* The heap pages of process p that are in use.
HeapPages(p) == {q \in Pages : q[1] = tbl[p] /\ 0 < q[2] /\ q[2] < vmax[p] /\ InUse(q)}
AllHeapPages == UNION {HeapPages(p) : p \in Procs}

\* The quota counters account for the pages that really are in use: vfree of
\* each process, and n_free_vpages across them (as uint32 values).
QuotaExact ==
  /\ \A p \in Procs : tbl[p] # NULL => hsize[p] - vfree[p] = Cardinality(HeapPages(p))
  /\ (n_free_vpages + Cardinality(AllHeapPages)) % UINT = MaxHeap

\* The machine halts only when a process touches a page it was not given: no
\* ASSERT of the paging code finds an inconsistency, swap space is never
\* exhausted and no access to an allocated page is a segmentation fault.
OnlyStraysHalt ==
  [][halted' = halted \/ (halted' = "SEGMENTATION FAULT" /\ StrayAccess)]_vars

\* Whatever the quotas allow, the maps never contradict an ASSERT of
\* pagefault_handler, free_vpage or kernel_service_malloc.
NoAssertionFires == halted # "assertion"

\* Only pages a process was given are backed by a frame: vfree takes every
\* page of the block away, and touching any other page is a segmentation
\* fault.
OnlyOwnedLive ==
  \A p \in Procs : tbl[p] # NULL =>
    \A v \in VPages \ Owned(p) : ~ Live(<<tbl[p], v>>)

\* The address spaces the processes see: a page is "blank" until it is
\* written to, and then holds the "latest" contents or has lost them.
Content(q) ==
  IF q \notin written THEN "blank" ELSE IF mem[pt[q].base] = q THEN "latest" ELSE "lost"
Space ==
  [p \in Procs |->
     IF tbl[p] = NULL THEN <<>> ELSE [v \in Owned(p) |-> Content(<<tbl[p], v>>)]]

Private == INSTANCE AddressSpace WITH
  space <- Space, Vals <- {"latest"}, Blank <- "blank"

\* Each process sees a private memory of its own: faults, evictions and the
\* scheduling of the other processes never change it.
PrivateMemory == Private!Spec

=============================================================================
