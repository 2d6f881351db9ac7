--------------------------- MODULE VirtMemProofs ---------------------------
(***************************************************************************)
(* Theorems about VirtMem for every number of processes, frames and pages. *)
(*                                                                         *)
(* The inductive invariant IInv adds to the properties that TLC checks     *)
(* what the heap bookkeeping owes them (ProcInv).  There is one lemma per  *)
(* action; those for the page fault handler and for free_vpage first show  *)
(* that the frame maps stay consistent, and then that the page tables and  *)
(* the processes are not disturbed.  The theorems are about StraySpec: the *)
(* programs may have wild pointers until a page table is used again.  The  *)
(* second half is about the memory that processes see, and about sizes.    *)
(***************************************************************************)
EXTENDS VirtMem, TLAPS, FiniteSetTheorems

\* ceil_div rounds up when the addition does not wrap around.
NoWrap == \A n \in Sizes : n + PAGE_SIZE < UINT

\* Division with remainder on integers.
LEMMA DivNat ==
  ASSUME NEW a \in Int, NEW b \in Nat \ {0}
  PROVE  /\ a \div b \in Int
         /\ a % b \in 0 .. (b - 1)
         /\ a = b * (a \div b) + (a % b)
OBVIOUS

\* Page numbers are ordered as the addresses of the pages are.
LEMMA MulMono ==
  ASSUME NEW v \in Nat, NEW w \in Nat, NEW b \in Nat \ {0}, v * b < w * b
  PROVE  v < w
<1>1. SUFFICES ASSUME w <= v PROVE FALSE
  OBVIOUS
<1>2. PICK d \in Nat : v = w + d
  <2>1. v - w \in Nat /\ v = w + (v - w)
    BY <1>1
  <2> QED BY <2>1
<1>3. v * b = w * b + d * b
  BY <1>2
<1>4. d * b >= 0
  OBVIOUS
<1> QED BY <1>3, <1>4

\* ceil_div gives enough pages for a request when its addition does not wrap.
LEMMA CeilDiv ==
  ASSUME NEW a \in Nat, NEW b \in Nat \ {0}
  PROVE  /\ ceil_div(a, b) \in Nat
         /\ a + b < UINT => a <= ceil_div(a, b) * b
<1>1. a \div b \in Nat /\ a = b * (a \div b) + (a % b)
  BY DivNat
<1> QED BY <1>1, VirtMemAssumption DEF ceil_div

-----------------------------------------------------------------------------
\* The heap bookkeeping of a process: only processes that exist run or have a
\* request or blocks; a request that passed the check of vmalloc still fits the
\* quota of its process; blocks lie above the stack page and below vmax.
ProcInv ==
  /\ currpid \in Procs => tbl[currpid] # NULL
  /\ \A p \in Procs : req[p] # 0 =>
       tbl[p] # NULL /\ req[p] \in Sizes /\ ceil_div(req[p], PAGE_SIZE) <= vfree[p]
  /\ \A p \in Procs : \A b \in held[p] :
       /\ tbl[p] # NULL /\ b.page > 0
       /\ \A v \in BlockPages(b) : v < vmax[p]

\* Until a process has died, vcreate was called once for each process, so that
\* every page table is new; and the pages in use are below the vmax of their
\* process.  Later a process may get a table with marks of the one before it.
Alive == {p \in Procs : tbl[p] # NULL}
ReuseInv ==
  /\ IsFiniteSet(Alive) /\ Cardinality(Alive) <= created
  /\ NoTableReused => \A q \in Pages : InUse(q) => \E p \in Procs : tbl[p] = q[1] /\ q[2] < vmax[p]

\* A step of programs that may have wild pointers.
AnyNext == Next \/ (NoTableReused /\ StrayAccess)

\* The inductive invariant.
IInv == TypeOK /\ MapsConsistent /\ NoLeak /\ TableInv /\ StackResident /\ ProcInv

-----------------------------------------------------------------------------
\* The fields of an entry that the handler has brought in.
LEMMA BroughtInOps ==
  ASSUME NEW e \in PTE, NEW f \in 0 .. (F + S + VS)
  PROVE  /\ BroughtIn(e, f) \in PTE
         /\ BroughtIn(e, f).base = f /\ BroughtIn(e, f).pres
         /\ ~ BroughtIn(e, f).isvmalloc /\ ~ BroughtIn(e, f).isswapped
         /\ BroughtIn(e, f).already_swapped <=> e.already_swapped
BY VirtMemAssumption DEF PTE, BroughtIn

\* The fields of an entry whose page was written out to swap frame s.
LEMMA EvictedOps ==
  ASSUME NEW e \in PTE, NEW s \in 0 .. (F + S + VS)
  PROVE  /\ Evicted(e, s) \in PTE
         /\ Evicted(e, s).base = s /\ ~ Evicted(e, s).pres
         /\ Evicted(e, s).isvmalloc <=> e.isvmalloc
         /\ Evicted(e, s).isswapped /\ Evicted(e, s).already_swapped
BY VirtMemAssumption DEF PTE, Evicted

\* The fields of an entry that lost its swap frame to garbage collection.
LEMMA CollectedOps ==
  ASSUME NEW e \in PTE
  PROVE  /\ Collected(e) \in PTE
         /\ Collected(e).base = e.base /\ (Collected(e).pres <=> e.pres)
         /\ Collected(e).isvmalloc <=> e.isvmalloc
         /\ Collected(e).isswapped <=> e.isswapped
         /\ ~ Collected(e).already_swapped
BY VirtMemAssumption DEF PTE, Collected

\* The FFS, swap and virtual stack regions are disjoint.
LEMMA Regions ==
  /\ FFS \subseteq Frames /\ Swap \subseteq Frames /\ VStack \subseteq Frames
  /\ FFS \cap Swap = {} /\ FFS \cap VStack = {} /\ Swap \cap VStack = {}
  /\ Frames \subseteq 0 .. (F + S + VS) /\ 0 \notin Frames
  /\ -1 \notin Swap
BY VirtMemAssumption DEF FFS, Swap, VStack, Frames

\* The step makes no page but q live, and moves no stack page.
OnlyRevives(q) ==
  \A r \in Pages :
    /\ Live(r)' => Live(r) \/ r = q
    /\ pt[r].pres /\ pt[r].base \in VStack => pt'[r].pres /\ pt'[r].base = pt[r].base

\* An empty TLB has the type of a TLB.
LEMMA FlushedType == Flushed \in [v : VPages, base : 0 .. (F + S + VS), dirty : BOOLEAN]
BY VirtMemAssumption DEF Flushed, VPages

\* Page q takes frame f, whose page goes to swap frame s; c is the page that s
\* was collected from, if any.  Covers the first three ways to evict.
Exchanging(q, f, s, c) ==
  /\ ~ pt[q].pres /\ pt[q].isvmalloc # pt[q].isswapped /\ SwapBitLost(q) = FALSE
  /\ ptmap[f] # NULL
  /\ \A r \in Pages : pt[r].isswapped => pt[r].base # s
  /\ swap2ffsmap[s] \in {NULL, ptmap[f], c}
  /\ ffs2swapmap[f] \in {-1, s}
  /\ c # NULL => c # ptmap[f] /\ swap2ffsmap[s] = c
  /\ Exchange(q, f, s, IF c = NULL THEN pt ELSE [pt EXCEPT ![c] = Collected(pt[c])],
              IF c = NULL THEN ffs2swapmap ELSE [ffs2swapmap EXCEPT ![pt[c].base] = -1])
  /\ swaplist' = swaplist \ {s}

\* Page q is faulted into the free frame f.
FaultingIn(q, f) ==
  /\ ~ pt[q].pres /\ pt[q].isvmalloc # pt[q].isswapped
  /\ f \in ffslist /\ FaultIn(q, f)

\* Page q is exchanged with the one in frame f.
InPlaceExchange(q, f) ==
  /\ ~ pt[q].pres /\ pt[q].isswapped /\ ~ pt[q].isvmalloc
  /\ ptmap[f] # NULL /\ ffs2swapmap[f] = -1
  /\ ffslist = {} /\ swaplist = {} /\ Candidates = {}
  /\ pt' = [pt EXCEPT ![ptmap[f]] = Evicted(@, pt[q].base), ![q] = InPlace(@, f)]
  /\ ptmap' = [ptmap EXCEPT ![f] = q]
  /\ ffs2swapmap' = [ffs2swapmap EXCEPT ![f] = -1]
  /\ swap2ffsmap' = [swap2ffsmap EXCEPT ![pt[q].base] = NULL]
  /\ mem' = [mem EXCEPT ![pt[q].base] = mem[f], ![f] = mem[pt[q].base]]
  /\ tlb' = FlushTLB
  /\ UNCHANGED <<lists, account, tbl, currpid, halted, held, written>>

\* Every FFS frame is taken and every swap frame holds a page that is only
\* there: the state in which the handler exchanges pages in place.
MemoryStuck == ffslist = {} /\ swaplist = {} /\ Candidates = {}

\* The entries of the pages that an exchange is about, before and after it.
ExchangeEffect(q, f, s, c) ==
  LET w == ptmap[f]
      d == pt[c].base
  IN  /\ w \in Pages /\ w # q /\ pt[w].pres /\ pt[w].base = f
      /\ q # NULL /\ w # NULL /\ pt[q] \in PTE /\ pt[w] \in PTE
      /\ c # NULL => /\ c \in Pages /\ c # q /\ c # w /\ pt[c].pres /\ d \in FFS /\ d # f
                     /\ ffs2swapmap[d] = s /\ ptmap[d] = c /\ pt[c] \in PTE
                     /\ pt[c].already_swapped
      /\ pt' = [r \in Pages |-> IF r = q THEN BroughtIn(pt[q], f)
                                ELSE IF r = w THEN Evicted(pt[w], s)
                                ELSE IF r = c THEN Collected(pt[c])
                                ELSE pt[r]]

LEMMA ExchangeDoes ==
  ASSUME TypeOK, MapsConsistent,
         NEW q \in Pages, NEW f \in FFS, NEW s \in Swap, NEW c \in Pages \union {NULL},
         Exchanging(q, f, s, c)
  PROVE  ExchangeEffect(q, f, s, c)
<1> DEFINE w == ptmap[f]
           d == pt[c].base
           tables == IF c = NULL THEN pt ELSE [pt EXCEPT ![c] = Collected(pt[c])]
<1> USE DEF Exchanging
<1>1. /\ w \in Pages /\ w # q /\ pt[w].pres /\ pt[w].base = f
      /\ q # NULL /\ w # NULL /\ pt[q] \in PTE /\ pt[w] \in PTE
  BY VirtMemAssumption DEF TypeOK, MapsConsistent, FfsInv
<1>2. c # NULL => /\ c \in Pages /\ c # q /\ c # w /\ pt[c].pres /\ d \in FFS /\ d # f
                  /\ ffs2swapmap[d] = s /\ ptmap[d] = c /\ pt[c] \in PTE
                  /\ pt[c].already_swapped
  <2>1. c # NULL => /\ c \in Pages /\ c # q /\ c # w /\ pt[c].pres /\ d \in FFS
                    /\ ffs2swapmap[d] = s /\ pt[c] \in PTE
    BY DEF TypeOK, MapsConsistent, SwapInv
  <2>2. c # NULL => ptmap[d] = c
    BY <2>1, Regions DEF MapsConsistent, PageInv
  <2>3. c # NULL => d # f
    BY <2>1, <2>2
  <2>4. c # NULL => pt[c].already_swapped
    <3>1. c # NULL => ffs2swapmap[d] # -1
      BY <2>1, Regions
    <3>2. \A g \in FFS : ffs2swapmap[g] # -1 => pt[ptmap[g]].already_swapped
      BY DEF MapsConsistent, FfsInv
    <3> QED BY <2>1, <2>2, <3>1, <3>2
  <2> QED BY <2>1, <2>2, <2>3, <2>4
<1>3. pt' = [r \in Pages |-> IF r = q THEN BroughtIn(pt[q], f)
                             ELSE IF r = w THEN Evicted(pt[w], s)
                             ELSE IF r = c THEN Collected(pt[c])
                             ELSE pt[r]]
  <2>1. pt' = [tables EXCEPT ![w] = Evicted(tables[w], s), ![q] = BroughtIn(tables[q], f)]
    BY <1>1, <1>2 DEF Exchange, TypeOK
  <2>2. pt \in [Pages -> PTE]
    BY DEF TypeOK
  <2>3. CASE c = NULL
    <3>1. pt' = [pt EXCEPT ![w] = Evicted(pt[w], s), ![q] = BroughtIn(pt[q], f)]
      BY <2>1, <2>3
    <3>2. \A r \in Pages : r # c
      BY <2>3, VirtMemAssumption
    <3> QED BY <3>1, <3>2, <2>2, <1>1
  <2>4. CASE c # NULL
    <3>1. tables = [pt EXCEPT ![c] = Collected(pt[c])]
      BY <2>4
    <3>2. tables[w] = pt[w] /\ tables[q] = pt[q]
      BY <3>1, <2>2, <2>4, <1>1, <1>2
    <3>3. pt' = [tables EXCEPT ![w] = Evicted(pt[w], s), ![q] = BroughtIn(pt[q], f)]
      BY <2>1, <3>2
    <3> QED BY <3>1, <3>3, <2>2, <2>4, <1>1, <1>2
  <2> QED BY <2>3, <2>4
<1> QED BY <1>1, <1>2, <1>3 DEF ExchangeEffect

\* Such an exchange keeps the maps consistent.
LEMMA ExchangeMaps ==
  ASSUME TypeOK, MapsConsistent,
         NEW q \in Pages, NEW f \in FFS, NEW s \in Swap, NEW c \in Pages \union {NULL},
         Exchanging(q, f, s, c)
  PROVE  /\ MapsConsistent'
         /\ TypeOK'
         /\ OnlyRevives(q)
         /\ SwapReached => SwapReached'
         /\ UNCHANGED <<vstacklist, pdptlist, account, tbl, currpid, halted, held>>
<1> DEFINE w == ptmap[f]
           d == pt[c].base
<1> USE DEF Exchanging
<1>0. ExchangeEffect(q, f, s, c)
  BY ExchangeDoes
<1>1. /\ w \in Pages /\ w # q /\ pt[w].pres /\ pt[w].base = f
      /\ q # NULL /\ w # NULL /\ pt[q] \in PTE /\ pt[w] \in PTE
  BY <1>0 DEF ExchangeEffect
<1>2. c # NULL => /\ c \in Pages /\ c # q /\ c # w /\ pt[c].pres /\ d \in FFS /\ d # f
                  /\ ffs2swapmap[d] = s /\ ptmap[d] = c /\ pt[c] \in PTE
                  /\ pt[c].already_swapped
  BY <1>0 DEF ExchangeEffect
<1>3. pt' = [r \in Pages |-> IF r = q THEN BroughtIn(pt[q], f)
                             ELSE IF r = w THEN Evicted(pt[w], s)
                             ELSE IF r = c THEN Collected(pt[c])
                             ELSE pt[r]]
  BY <1>0 DEF ExchangeEffect
<1>4. ptmap' = [ptmap EXCEPT ![f] = q] /\ UNCHANGED <<ffslist, vstacklist>>
  BY DEF Exchange
<1>5. pt[q].isswapped => /\ pt[q].base \in Swap /\ pt[q].base \notin swaplist
                         /\ pt[q].base # s /\ swap2ffsmap[pt[q].base] = NULL
                         /\ pt[q].already_swapped
  BY DEF MapsConsistent, PageInv
<1>6. ffs2swapmap' = [g \in FFS |-> IF g = f THEN IF pt[q].isswapped THEN pt[q].base ELSE -1
                                    ELSE IF c # NULL /\ g = d THEN -1
                                    ELSE ffs2swapmap[g]]
  BY <1>2 DEF Exchange, TypeOK
<1>7. swap2ffsmap' = [x \in Swap |-> IF pt[q].isswapped /\ x = pt[q].base THEN q
                                     ELSE IF x = s THEN NULL
                                     ELSE swap2ffsmap[x]]
  BY <1>5 DEF Exchange, TypeOK
<1>8. /\ pt'[q] \in PTE /\ pt'[q].base = f /\ pt'[q].pres
      /\ ~ pt'[q].isvmalloc /\ ~ pt'[q].isswapped
      /\ pt'[q].already_swapped <=> pt[q].already_swapped
  <2>1. f \in 0 .. (F + S + VS)
    BY Regions
  <2> QED BY <1>1, <1>3, <2>1, BroughtInOps
<1>9. /\ pt'[w] \in PTE /\ pt'[w].base = s /\ ~ pt'[w].pres
      /\ ~ pt'[w].isvmalloc /\ pt'[w].isswapped /\ pt'[w].already_swapped
  <2>1. s \in 0 .. (F + S + VS)
    BY Regions
  <2>2. ~ pt[w].isvmalloc
    BY <1>1 DEF MapsConsistent, PageInv
  <2> QED BY <1>1, <1>3, <2>1, <2>2, EvictedOps
<1>10. c # NULL => /\ pt'[c] \in PTE /\ pt'[c].base = d /\ pt'[c].pres
                   /\ ~ pt'[c].isvmalloc /\ ~ pt'[c].isswapped
                   /\ ~ pt'[c].already_swapped
  <2>2. c # NULL => ~ pt[c].isvmalloc /\ ~ pt[c].isswapped
    BY <1>2 DEF MapsConsistent, PageInv
  <2> QED BY <1>1, <1>2, <1>3, <2>2, CollectedOps
<1>11. \A r \in Pages : r # q /\ r # w /\ r # c => pt'[r] = pt[r]
  BY <1>3
<1>12. ~ pt[q].isswapped => ~ pt[q].already_swapped
  BY DEF MapsConsistent, PageInv, Live
<1>13. \A r \in Pages : r # NULL
  BY VirtMemAssumption
<1> HIDE DEF w, d
<1>20. FfsInv'
  BY <1>1, <1>2, <1>4, <1>6, <1>7, <1>8, <1>9, <1>10, <1>11, <1>12, <1>13, <1>5, Regions, SMTT(20)
  DEF TypeOK, MapsConsistent, FfsInv
<1>21. SwapInv'
  BY <1>1, <1>2, <1>4, <1>6, <1>7, <1>8, <1>9, <1>10, <1>11, <1>12, <1>13, <1>5, Regions
  DEF TypeOK, MapsConsistent, SwapInv
<1>22. PageInv'
  <2>1. SUFFICES ASSUME NEW r \in Pages
        PROVE  /\ pt'[r].pres =>
                    /\ ~ pt'[r].isvmalloc /\ ~ pt'[r].isswapped
                    /\ \/ pt'[r].base \in FFS /\ ptmap'[pt'[r].base] = r
                       \/ pt'[r].base \in VStack \ vstacklist' /\ ~ pt'[r].already_swapped
               /\ pt'[r].isswapped =>
                    /\ ~ pt'[r].isvmalloc /\ pt'[r].already_swapped
                    /\ pt'[r].base \in Swap \ swaplist' /\ swap2ffsmap'[pt'[r].base] = NULL
               /\ pt'[r].already_swapped => pt'[r].pres \/ pt'[r].isswapped
    BY DEF PageInv, Live
  <2>2. CASE r = q
    BY <2>2, <1>1, <1>4, <1>5, <1>8, <1>12 DEF TypeOK
  <2>3. CASE r = w
    BY <2>3, <1>1, <1>4, <1>5, <1>7, <1>9 DEF TypeOK
  <2>4. CASE r = c
    BY <2>4, <1>1, <1>2, <1>4, <1>10, <1>13 DEF TypeOK
  <2>5. CASE r # q /\ r # w /\ r # c
    <3>1. pt'[r] = pt[r]
      BY <2>5, <1>11
    <3>2. CASE pt[r].pres
      BY <2>5, <3>1, <3>2, <1>1, <1>4 DEF TypeOK, MapsConsistent, PageInv, Live, w
    <3>3. CASE pt[r].isswapped
      <4>1. pt[r].base # s /\ pt[r].base \in Swap
        BY <3>3 DEF MapsConsistent, PageInv
      <4>2. pt[q].isswapped => pt[r].base # pt[q].base
        BY <3>3, <2>5 DEF MapsConsistent, NoSharing, Live
      <4> QED BY <4>1, <4>2, <3>1, <3>3, <1>7 DEF MapsConsistent, PageInv, Live
    <3>4. CASE ~ pt[r].pres /\ ~ pt[r].isswapped
      BY <3>1, <3>4 DEF MapsConsistent, PageInv, Live
    <3> QED BY <3>2, <3>3, <3>4
  <2> QED BY <2>2, <2>3, <2>4, <2>5
<1>23. NoSharing'
  <2>1. \A r \in Pages : pt[r].pres /\ r # w => pt[r].base # f
    BY Regions DEF MapsConsistent, PageInv, w
  <2>2. \A r \in Pages : pt[r].pres => pt[r].base # s
    BY Regions DEF MapsConsistent, PageInv
  <2>3. \A r \in Pages : pt[r].isswapped => pt[r].base # f
    BY Regions DEF MapsConsistent, PageInv
  <2>4. \A r \in Pages : /\ r # q /\ r # w => pt'[r].base = pt[r].base
                         /\ r # q /\ r # w => (pt'[r].pres <=> pt[r].pres)
                         /\ r # q /\ r # w => (pt'[r].isswapped <=> pt[r].isswapped)
    BY <1>2, <1>10, <1>11, <1>13 DEF d, MapsConsistent, PageInv
  <2>5. f # s
    BY Regions
  <2> QED BY <1>1, <1>8, <1>9, <2>1, <2>2, <2>3, <2>4, <2>5 DEF MapsConsistent, NoSharing, Live
<1>24. TypeOK'
  <2>1. pt' \in [Pages -> PTE]
    <3>1. \A r \in Pages : pt'[r] \in PTE
      BY <1>8, <1>9, <1>10, <1>11, <1>13 DEF TypeOK
    <3> QED BY <1>3, <3>1
  <2>2. mem' \in [Frames -> Pages \union {Junk}]
    BY <1>5, Regions DEF Exchange, Copy, TypeOK
  <2>3. /\ ptmap' \in [FFS -> Pages \union {NULL}]
        /\ ffs2swapmap' \in [FFS -> Swap \union {-1}]
        /\ swap2ffsmap' \in [Swap -> Pages \union {NULL}]
        /\ swaplist' \subseteq Swap
    BY <1>4, <1>5, <1>6, <1>7 DEF TypeOK
  <2>4. UNCHANGED <<ffslist, vstacklist, pdptlist, account, tbl, currpid, halted, held, written>>
    BY DEF Exchange
  <2>5. tlb' = Flushed
    BY DEF Exchange, FlushTLB
  <2> QED BY <2>1, <2>2, <2>3, <2>4, <2>5, FlushedType DEF TypeOK, account
<1>25. OnlyRevives(q)
  <2>1. w # q /\ pt[w].base \notin VStack /\ (c # NULL => pt[c].base \notin VStack)
    BY <1>1, <1>2, Regions DEF d
  <2> QED BY <2>1, <1>1, <1>2, <1>11, <1>13 DEF OnlyRevives, Live
<1>26. ASSUME SwapReached PROVE SwapReached'
  <2>1. SUFFICES ASSUME NEW x \in Swap, x \notin swaplist'
        PROVE  \E r \in Pages : \/ pt'[r].isswapped /\ pt'[r].base = x
                                \/ /\ pt'[r].pres /\ pt'[r].base \in FFS
                                   /\ ffs2swapmap'[pt'[r].base] = x
    BY DEF SwapReached
  <2>2. CASE x = s
    BY <2>2, <1>1, <1>9
  <2>3. CASE x # s
    <3>1. PICK r \in Pages : \/ pt[r].isswapped /\ pt[r].base = x
                             \/ pt[r].pres /\ pt[r].base \in FFS /\ ffs2swapmap[pt[r].base] = x
      BY <1>26, <2>1, <2>3 DEF SwapReached
    <3>2. r # w /\ r # c
      <4>1. \A p \in Pages : pt[p].pres => ~ pt[p].isswapped
        BY DEF MapsConsistent, PageInv
      <4>2. x # -1 /\ ffs2swapmap[f] # x
        BY <2>1, <2>3, Regions
      <4>3. r # w
        BY <3>1, <4>1, <4>2, <1>1
      <4>4. r # c
        BY <3>1, <4>1, <2>3, <1>2, <1>13 DEF d
      <4> QED BY <4>3, <4>4
    <3>3. CASE r = q
      BY <3>1, <3>3, <1>6, <1>8
    <3>4. CASE r # q /\ pt[r].isswapped
      BY <3>1, <3>2, <3>4, <1>11 DEF MapsConsistent, PageInv
    <3>5. CASE r # q /\ pt[r].pres /\ pt[r].base \in FFS /\ ffs2swapmap[pt[r].base] = x
      <4>1. ptmap[pt[r].base] = r
        BY <3>5, Regions DEF MapsConsistent, PageInv
      <4>2. pt[r].base # f /\ (c # NULL => pt[r].base # d)
        BY <4>1, <3>2, <1>2 DEF w
      <4> QED BY <3>2, <3>5, <4>2, <1>6, <1>11
    <3> QED BY <3>1, <3>3, <3>4, <3>5
  <2> QED BY <2>2, <2>3
<1>27. UNCHANGED <<vstacklist, pdptlist, account, tbl, currpid, halted, held>>
  BY DEF Exchange
<1> QED BY <1>20, <1>21, <1>22, <1>23, <1>24, <1>25, <1>26, <1>27 DEF MapsConsistent

\* A fault that finds a free FFS frame.
LEMMA FaultInMaps ==
  ASSUME TypeOK, MapsConsistent, NEW q \in Pages, NEW f \in FFS, FaultingIn(q, f)
  PROVE  MapsConsistent' /\ TypeOK' /\ OnlyRevives(q) /\ (SwapReached => SwapReached') /\
         UNCHANGED <<vstacklist, pdptlist, account, tbl, currpid, halted, held>>
<1> DEFINE b == pt[q].base
<1> USE DEF FaultingIn
<1>1. /\ ptmap[f] = NULL /\ ffs2swapmap[f] = -1
      /\ pt[q] \in PTE /\ f \in Frames /\ q # NULL
  BY Regions, VirtMemAssumption DEF TypeOK, MapsConsistent, FfsInv
<1>2. pt[q].isswapped => /\ b \in Swap /\ b \notin swaplist
                         /\ swap2ffsmap[b] = NULL /\ pt[q].already_swapped
  BY DEF MapsConsistent, PageInv
<1>3. /\ ffslist' = ffslist \ {f}
      /\ ptmap' = [ptmap EXCEPT ![f] = q]
      /\ pt' = [pt EXCEPT ![q] = BroughtIn(pt[q], f)]
      /\ ffs2swapmap' = [g \in FFS |-> IF pt[q].isswapped /\ g = f THEN b ELSE ffs2swapmap[g]]
      /\ swap2ffsmap' = [x \in Swap |-> IF pt[q].isswapped /\ x = b THEN q ELSE swap2ffsmap[x]]
      /\ mem' = IF pt[q].isswapped THEN Copy(mem, b, f) ELSE mem
      /\ tlb' = Flushed
      /\ UNCHANGED <<swaplist, vstacklist, pdptlist, account, tbl, currpid, halted, held, written>>
  BY <1>1, <1>2 DEF FaultIn, TypeOK, FlushTLB
<1>4. /\ pt'[q] \in PTE /\ pt'[q].base = f /\ pt'[q].pres
      /\ ~ pt'[q].isvmalloc /\ ~ pt'[q].isswapped
      /\ pt'[q].already_swapped <=> pt[q].already_swapped
  <2>1. f \in 0 .. (F + S + VS)
    BY Regions
  <2> QED BY <1>1, <1>3, <2>1, BroughtInOps DEF TypeOK
<1>5. \A r \in Pages : r # q => pt'[r] = pt[r]
  BY <1>3 DEF TypeOK
<1>6. ~ pt[q].isswapped => ~ pt[q].already_swapped
  BY DEF MapsConsistent, PageInv, Live
<1>7. \A r \in Pages : r # NULL
  BY VirtMemAssumption
<1>8. \A r \in Pages : Live(r) => pt[r].base # f
  BY <1>1, <1>7, Regions DEF MapsConsistent, PageInv, Live
<1>10. FfsInv'
  BY <1>1, <1>2, <1>3, <1>4, <1>5, <1>6, <1>7, Regions DEF TypeOK, MapsConsistent, FfsInv
<1>11. SwapInv'
  BY <1>1, <1>2, <1>3, <1>4, <1>5, <1>6, <1>7, Regions DEF TypeOK, MapsConsistent, SwapInv
<1>12. NoSharing'
  BY <1>4, <1>5, <1>8 DEF MapsConsistent, NoSharing, Live
<1>13. PageInv'
  <2>1. \A r \in Pages : r # q /\ pt[r].isswapped /\ pt[q].isswapped => pt[r].base # b
    BY DEF MapsConsistent, NoSharing, Live
  <2>2. \A r \in Pages : r # q /\ pt[r].isswapped => swap2ffsmap'[pt[r].base] = NULL
    BY <2>1, <1>3 DEF MapsConsistent, PageInv
  <2>3. \A r \in Pages : r # q /\ pt[r].pres /\ pt[r].base \in FFS => ptmap'[pt[r].base] = r
    BY <1>3, <1>8, Regions DEF TypeOK, MapsConsistent, PageInv, Live
  <2> QED BY <2>2, <2>3, <1>1, <1>3, <1>4, <1>5, Regions DEF MapsConsistent, PageInv, Live, TypeOK
<1>14. TypeOK'
  <2>1. pt' \in [Pages -> PTE]
    BY <1>3, <1>4, <1>5 DEF TypeOK
  <2>2. mem' \in [Frames -> Pages \union {Junk}]
    BY <1>1, <1>2, <1>3, Regions DEF Copy, TypeOK
  <2>3. /\ ptmap' \in [FFS -> Pages \union {NULL}]
        /\ ffs2swapmap' \in [FFS -> Swap \union {-1}]
        /\ swap2ffsmap' \in [Swap -> Pages \union {NULL}]
        /\ ffslist' \subseteq FFS
    BY <1>2, <1>3 DEF TypeOK
  <2> QED BY <2>1, <2>2, <2>3, <1>3, FlushedType DEF TypeOK, account
<1>15. OnlyRevives(q)
  BY <1>5 DEF OnlyRevives, Live
<1>16. SwapReached => SwapReached'
  <2>1. \A r \in Pages : r # q /\ pt[r].pres => pt'[r] = pt[r] /\ pt[r].base # f
    BY <1>5, <1>8 DEF Live
  <2>2. SUFFICES ASSUME SwapReached, NEW x \in Swap, x \notin swaplist
        PROVE  \E r \in Pages : \/ pt'[r].isswapped /\ pt'[r].base = x
                                \/ /\ pt'[r].pres /\ pt'[r].base \in FFS
                                   /\ ffs2swapmap'[pt'[r].base] = x
    BY <1>3 DEF SwapReached
  <2>3. PICK r \in Pages : \/ pt[r].isswapped /\ pt[r].base = x
                           \/ pt[r].pres /\ pt[r].base \in FFS /\ ffs2swapmap[pt[r].base] = x
    BY <2>2 DEF SwapReached
  <2>4. CASE r = q
    BY <2>3, <2>4, <1>3, <1>4
  <2>5. CASE r # q
    BY <2>1, <2>3, <2>5, <1>3, <1>5
  <2> QED BY <2>4, <2>5
<1> QED BY <1>3, <1>10, <1>11, <1>12, <1>13, <1>14, <1>15, <1>16 DEF MapsConsistent

\* The exchange of a page in FFS with one in swap when swap is full.
LEMMA InPlaceMaps ==
  ASSUME TypeOK, MapsConsistent, NEW q \in Pages, NEW f \in FFS, InPlaceExchange(q, f)
  PROVE  /\ MapsConsistent' /\ TypeOK' /\ OnlyRevives(q)
         /\ SwapReached => SwapReached'
         /\ UNCHANGED <<vstacklist, pdptlist, account, tbl, currpid, halted, held>>
<1> USE DEF InPlaceExchange
<1> DEFINE w == ptmap[f]
           s == pt[q].base
<1>1. /\ w \in Pages /\ w # q /\ pt[w].pres /\ pt[w].base = f
      /\ q # NULL /\ pt[q] \in PTE /\ pt[w] \in PTE
  BY VirtMemAssumption DEF TypeOK, MapsConsistent, FfsInv
<1>2. s \in Swap /\ s \notin swaplist /\ swap2ffsmap[s] = NULL /\ f \in Frames /\ s \in Frames
  BY Regions DEF MapsConsistent, PageInv
<1>3. pt' = [r \in Pages |-> IF r = q THEN BroughtIn(Collected(pt[q]), f)
                             ELSE IF r = w THEN Evicted(pt[w], s)
                             ELSE pt[r]]
  BY <1>1 DEF TypeOK, InPlace
<1>4. /\ pt'[q] \in PTE /\ pt'[q].base = f /\ pt'[q].pres
      /\ ~ pt'[q].isvmalloc /\ ~ pt'[q].isswapped /\ ~ pt'[q].already_swapped
  <2>1. f \in 0 .. (F + S + VS)
    BY Regions
  <2>2. Collected(pt[q]) \in PTE /\ ~ Collected(pt[q]).already_swapped
    BY <1>1, CollectedOps
  <2> QED BY <1>1, <1>3, <2>1, <2>2, BroughtInOps
<1>5. /\ pt'[w] \in PTE /\ pt'[w].base = s /\ ~ pt'[w].pres
      /\ ~ pt'[w].isvmalloc /\ pt'[w].isswapped /\ pt'[w].already_swapped
  <2>1. s \in 0 .. (F + S + VS)
    BY <1>2, Regions
  <2>2. ~ pt[w].isvmalloc
    BY <1>1 DEF MapsConsistent, PageInv
  <2> QED BY <1>1, <1>3, <2>1, <2>2, EvictedOps
<1>6. \A r \in Pages : r # q /\ r # w => pt'[r] = pt[r]
  BY <1>3
<1>7. \A r \in Pages : r # NULL
  BY VirtMemAssumption
<1>8. UNCHANGED <<ffslist, swaplist, vstacklist, pdptlist>>
  BY DEF lists
<1>9. ffs2swapmap' = ffs2swapmap /\ swap2ffsmap' = swap2ffsmap
  BY <1>2 DEF TypeOK
<1>10. \A r \in Pages : r # q /\ r # w /\ Live(r) => pt[r].base # f /\ pt[r].base # s
  BY <1>1 DEF MapsConsistent, NoSharing, Live
<1> HIDE DEF w, s
<1>11. FfsInv'
  <2>1. /\ ptmap'[f] = q /\ \A g \in FFS : g # f => ptmap'[g] = ptmap[g]
        /\ ffs2swapmap[f] = -1 /\ f \notin ffslist /\ ~ pt[q].pres
    BY DEF TypeOK
  <2> HIDE DEF InPlaceExchange
  <2>2. SUFFICES ASSUME NEW g \in FFS
        PROVE  /\ g \in ffslist <=> ptmap'[g] = NULL
               /\ ptmap'[g] # NULL => pt'[ptmap'[g]].pres /\ pt'[ptmap'[g]].base = g
               /\ ffs2swapmap[g] # -1 <=> ptmap'[g] # NULL /\ pt'[ptmap'[g]].already_swapped
               /\ ffs2swapmap[g] # -1 => swap2ffsmap[ffs2swapmap[g]] = ptmap'[g]
    BY <1>8, <1>9 DEF FfsInv
  <2>3. CASE g = f
    BY <2>1, <2>3, <1>1, <1>4
  <2>4. CASE g # f
    <3>1. ptmap[g] # NULL => ptmap[g] \in Pages /\ ptmap[g] # q /\ ptmap[g] # w
      BY <2>1, <2>4, <1>1 DEF TypeOK, MapsConsistent, FfsInv
    <3> QED BY <2>1, <2>4, <3>1, <1>6 DEF MapsConsistent, FfsInv
  <2> QED BY <2>3, <2>4
<1>12. SwapInv'
  BY <1>1, <1>2, <1>4, <1>5, <1>6, <1>7, <1>8, <1>9, Regions DEF TypeOK, MapsConsistent, SwapInv, w
<1>13. NoSharing'
  <2>1. f # s
    BY <1>2, Regions
  <2>2. SUFFICES ASSUME NEW x \in Pages, NEW y \in Pages, x # y, Live(x)', Live(y)'
        PROVE  pt'[x].base # pt'[y].base
    BY DEF NoSharing
  <2>3. \A r \in Pages : r # q /\ r # w /\ Live(r)' => pt'[r].base # f /\ pt'[r].base # s
    BY <1>6, <1>10 DEF Live
  <2> HIDE DEF InPlaceExchange
  <2>4. CASE x \in {q, w} \/ y \in {q, w}
    BY <2>1, <2>2, <2>3, <2>4, <1>1, <1>4, <1>5
  <2>5. CASE x \notin {q, w} /\ y \notin {q, w}
    <3>1. pt'[x] = pt[x] /\ pt'[y] = pt[y]
      BY <2>5, <1>6
    <3>2. Live(x) /\ Live(y)
      BY <2>2, <3>1 DEF Live
    <3> QED BY <2>2, <3>1, <3>2 DEF MapsConsistent, NoSharing
  <2> QED BY <2>4, <2>5
<1>14. PageInv'
  <2>3. \A r \in Pages : r # q /\ r # w /\ pt[r].pres /\ pt[r].base \in FFS => ptmap'[pt[r].base] = r
    BY <1>10, Regions DEF TypeOK, MapsConsistent, PageInv, Live
  <2> QED BY <2>3, <1>1, <1>2, <1>4, <1>5, <1>6, <1>8, <1>9, Regions
          DEF MapsConsistent, PageInv, Live, TypeOK
<1>15. TypeOK'
  <2>1. pt' \in [Pages -> PTE]
    BY <1>3, <1>4, <1>5, <1>6 DEF TypeOK
  <2>2. mem' \in [Frames -> Pages \union {Junk}]
    BY <1>2 DEF TypeOK, s
  <2>3. ptmap' \in [FFS -> Pages \union {NULL}]
    BY DEF TypeOK
  <2> QED BY <2>1, <2>2, <2>3, <1>8, <1>9, FlushedType DEF TypeOK, account, FlushTLB
<1>16. OnlyRevives(q)
  BY <1>1, <1>6, Regions DEF OnlyRevives, Live
<1>17. ASSUME SwapReached PROVE SwapReached'
  <2>1. SUFFICES ASSUME NEW x \in Swap, x \notin swaplist
        PROVE  \E r \in Pages : \/ pt'[r].isswapped /\ pt'[r].base = x
                                \/ /\ pt'[r].pres /\ pt'[r].base \in FFS
                                   /\ ffs2swapmap'[pt'[r].base] = x
    BY <1>8 DEF SwapReached
  <2>2. PICK r \in Pages : \/ pt[r].isswapped /\ pt[r].base = x
                           \/ pt[r].pres /\ pt[r].base \in FFS /\ ffs2swapmap[pt[r].base] = x
    BY <1>17, <2>1 DEF SwapReached
  <2>3. CASE r = q
    BY <2>2, <2>3, <1>1, <1>5 DEF s
  <2>4. r # w
    BY <2>1, <2>2, <1>1, Regions DEF MapsConsistent, PageInv
  <2>5. CASE r # q
    BY <2>2, <2>4, <2>5, <1>6, <1>9
  <2> QED BY <2>3, <2>5
<1> QED BY <1>8, <1>11, <1>12, <1>13, <1>14, <1>15, <1>16, <1>17 DEF MapsConsistent

\* Nothing but a page of a process below its vmax is revived, so the page
\* tables and the processes keep their invariants.
LEMMA FaultRest ==
  ASSUME IInv, NEW v \in VPages, currpid \in Procs, v < vmax[currpid], OnlyRevives(Cur(v)),
         SwapReached', UNCHANGED <<vstacklist, pdptlist, account, tbl, currpid, held>>
  PROVE  NoLeak' /\ TableInv' /\ StackResident' /\ ProcInv'
<1> USE DEF account
<1>1. TableInv'
  <2>1. \A r \in Pages : r = Cur(v) => tbl[currpid] = r[1] /\ r[2] < vmax[currpid]
    BY DEF Cur
  <2> QED BY <2>1 DEF IInv, TableInv, OnlyRevives
<1>2. StackResident'
  <2>1. \A p \in Procs : tbl[p] # NULL => <<tbl[p], 0>> \in Pages
    BY VirtMemAssumption DEF IInv, TypeOK, Pages, VPages
  <2> QED BY <2>1 DEF IInv, StackResident, OnlyRevives
<1>3. ProcInv'
  BY DEF IInv, ProcInv
<1>4. StackReached' /\ TablesReached'
  BY DEF IInv, NoLeak, StackReached, TablesReached, OnlyRevives
<1> QED BY <1>1, <1>2, <1>3, <1>4 DEF NoLeak

\* A failed ASSERT changes nothing but the fact that the machine halted.
LEMMA HaltInv ==
  ASSUME IInv, NEW why \in Reasons, Halt(why)
  PROVE  IInv'
BY DEF IInv, Halt, maps, lists, account, TypeOK, MapsConsistent, FfsInv, SwapInv, PageInv,
       NoSharing, NoLeak, SwapReached, StackReached, TablesReached, TableInv, StackResident,
       ProcInv, Live

\* What the page fault handler does while the maps are consistent: none of its
\* ASSERTs about them fails.
LEMMA HandlerCases ==
  ASSUME TypeOK, MapsConsistent, NEW v \in VPages, NEW q \in Pages, q = Cur(v), pagefault_handler(v)
  PROVE  \/ ~ pt[q].isvmalloc /\ ~ pt[q].isswapped /\ Halt("SEGMENTATION FAULT")
         \/ Halt("Out of swappable memory") /\ MemoryStuck /\ ~ pt[q].isswapped
         \/ \E f \in FFS : FaultingIn(q, f)
         \/ \E f \in FFS, s \in Swap, c \in Pages \union {NULL} : Exchanging(q, f, s, c)
         \/ \E f \in FFS : InPlaceExchange(q, f)
<1>1. ~ pt[q].pres
  BY DEF pagefault_handler, Mapped
<1>2. ~ (pt[q].isvmalloc /\ pt[q].isswapped)
  BY DEF MapsConsistent, PageInv
<1>3. ASSUME pt[q].isvmalloc # pt[q].isswapped, NEW f \in FFS, Lowest(f, ffslist), FaultIn(q, f)
      PROVE  FaultingIn(q, f)
  BY <1>1, <1>3 DEF FaultingIn, Lowest
<1>4. ASSUME pt[q].isvmalloc # pt[q].isswapped, ffslist = {}, NEW f \in FFS, ptmap[f] # NULL,
             \/ EvictToOwn(q, f)
             \/ \E s \in Swap : EvictToNew(q, f, s)
             \/ \E s \in Swap : EvictToCollected(q, f, s)
             \/ EvictInPlace(q, f)
      PROVE  \/ Halt("Out of swappable memory") /\ MemoryStuck /\ ~ pt[q].isswapped
             \/ \E s \in Swap, c \in Pages \union {NULL} : Exchanging(q, f, s, c)
             \/ InPlaceExchange(q, f)
  <2> DEFINE w == ptmap[f]
  <2>1. /\ w \in Pages /\ pt[w].pres /\ pt[w].base = f /\ SwapBitLost(q) = FALSE
        /\ ffs2swapmap[f] # -1 <=> pt[w].already_swapped
    BY <1>4 DEF TypeOK, MapsConsistent, FfsInv, PageInv, SwapBitLost
  <2>2. CASE EvictToOwn(q, f)
    <3> DEFINE s == ffs2swapmap[f]
    <3>1. pt[w].already_swapped /\ Exchange(q, f, s, pt, ffs2swapmap) /\ swaplist' = swaplist
      BY <2>1, <2>2 DEF EvictToOwn
    <3>2. s \in Swap /\ swap2ffsmap[s] = w /\ s \notin swaplist
      BY <2>1, <3>1, <1>4 DEF TypeOK, MapsConsistent, FfsInv, SwapInv
    <3>3. \A r \in Pages : pt[r].isswapped => pt[r].base # s
      BY <1>4, <3>2 DEF MapsConsistent, PageInv
    <3>4. swaplist' = swaplist \ {s}
      BY <3>1, <3>2
    <3>5. Exchanging(q, f, s, NULL)
      BY <1>1, <1>4, <2>1, <3>1, <3>2, <3>3, <3>4 DEF Exchanging
    <3> QED BY <3>2, <3>5
  <2>3. ASSUME NEW s \in Swap, EvictToNew(q, f, s) PROVE Exchanging(q, f, s, NULL)
    <3>1. /\ ~ pt[w].already_swapped /\ ffs2swapmap[f] = -1 /\ s \in swaplist
          /\ Exchange(q, f, s, pt, ffs2swapmap) /\ swaplist' = swaplist \ {s}
      BY <2>1, <2>3 DEF EvictToNew, Lowest
    <3>2. swap2ffsmap[s] = NULL
      BY <3>1 DEF MapsConsistent, SwapInv
    <3>3. \A r \in Pages : pt[r].isswapped => pt[r].base # s
      BY <3>1 DEF MapsConsistent, PageInv
    <3> QED BY <1>1, <1>4, <2>1, <3>1, <3>2, <3>3 DEF Exchanging
  <2>4. ASSUME NEW s \in Swap, EvictToCollected(q, f, s)
        PROVE  \E c \in Pages \union {NULL} : Exchanging(q, f, s, c)
    <3> DEFINE c == swap2ffsmap[s]
    <3>1. /\ ~ pt[w].already_swapped /\ ffs2swapmap[f] = -1 /\ c # NULL /\ c \in Pages
          /\ Exchange(q, f, s, [pt EXCEPT ![c] = Collected(pt[c])],
                      [ffs2swapmap EXCEPT ![pt[c].base] = -1])
          /\ swaplist' = swaplist
      BY <2>1, <2>4 DEF EvictToCollected, Lowest, Candidates, TypeOK
    <3>2. s \notin swaplist /\ c # w
      BY <2>1, <3>1, Regions DEF MapsConsistent, SwapInv
    <3>3. \A r \in Pages : pt[r].isswapped => pt[r].base # s
      BY <3>1 DEF MapsConsistent, PageInv
    <3>4. swaplist' = swaplist \ {s}
      BY <3>1, <3>2
    <3>5. Exchanging(q, f, s, c)
      BY <1>1, <1>4, <2>1, <3>1, <3>2, <3>3, <3>4 DEF Exchanging
    <3> QED BY <3>1, <3>5
  <2>5. CASE EvictInPlace(q, f)
    <3>1. ffs2swapmap[f] = -1
      BY <2>1, <2>5 DEF EvictInPlace
    <3>2. CASE ~ pt[q].isswapped
      BY <1>4, <2>5, <3>1, <3>2 DEF EvictInPlace, MemoryStuck
    <3>3. CASE pt[q].isswapped
      BY <1>1, <1>2, <1>4, <2>5, <3>1, <3>3 DEF EvictInPlace, InPlaceExchange
    <3> QED BY <3>2, <3>3
  <2> QED BY <1>4, <2>2, <2>3, <2>4, <2>5
<1>5. ASSUME ffslist = {}, NEW f \in FFS PROVE ptmap[f] # NULL
  BY <1>5 DEF MapsConsistent, FfsInv
<1> QED BY <1>2, <1>3, <1>4, <1>5 DEF pagefault_handler

\* The page fault handler, for a page below vmax.
LEMMA HandlerInv ==
  ASSUME IInv, InUser, NEW v \in VPages, v < vmax[currpid], pagefault_handler(v)
  PROVE  IInv' /\ halted' # "assertion"
<1> DEFINE q == Cur(v)
<1>1. q \in Pages /\ currpid \in Procs /\ TypeOK /\ MapsConsistent /\ SwapReached /\ halted = "no"
  BY DEF IInv, NoLeak, ProcInv, TypeOK, InUser, Running, Cur, Pages
<1>2. CASE Halt("SEGMENTATION FAULT") \/ Halt("Out of swappable memory")
  <2>1. IInv'
    BY <1>2, HaltInv DEF Reasons
  <2> QED BY <1>2, <2>1 DEF Halt
<1>3. CASE /\ MapsConsistent' /\ TypeOK' /\ OnlyRevives(q) /\ SwapReached'
           /\ UNCHANGED <<vstacklist, pdptlist, account, tbl, currpid, halted, held>>
  <2>1. NoLeak' /\ TableInv' /\ StackResident' /\ ProcInv'
    BY <1>1, <1>3, FaultRest
  <2> QED BY <1>1, <1>3, <2>1 DEF IInv
<1>4. ASSUME NEW f \in FFS, FaultingIn(q, f) PROVE IInv' /\ halted' # "assertion"
  BY <1>1, <1>3, <1>4, FaultInMaps
<1>5. ASSUME NEW f \in FFS, NEW s \in Swap, NEW c \in Pages \union {NULL}, Exchanging(q, f, s, c)
      PROVE  IInv' /\ halted' # "assertion"
  BY <1>1, <1>3, <1>5, ExchangeMaps
<1>6. ASSUME NEW f \in FFS, InPlaceExchange(q, f) PROVE IInv' /\ halted' # "assertion"
  BY <1>1, <1>3, <1>6, InPlaceMaps
<1> QED BY <1>1, <1>2, <1>4, <1>5, <1>6, HandlerCases

-----------------------------------------------------------------------------
\* free_vpage on a set of pages.
LEMMA FreeMaps ==
  ASSUME TypeOK, MapsConsistent, NEW P \in SUBSET Pages, FreeVPages(P)
  PROVE  /\ MapsConsistent'
         /\ pt' \in [Pages -> PTE]
         /\ ptmap' \in [FFS -> Pages \union {NULL}]
         /\ ffs2swapmap' \in [FFS -> Swap \union {-1}]
         /\ swap2ffsmap' \in [Swap -> Pages \union {NULL}]
         /\ ffslist' \subseteq FFS /\ swaplist' \subseteq Swap /\ vstacklist' \subseteq VStack
         /\ mem' \in [Frames -> Pages \union {Junk}] /\ written' \subseteq Pages
         /\ \A r \in Pages : r \in P => ~ Live(r)'
         /\ \A r \in Pages : r \notin P => pt'[r] = pt[r]
         /\ SwapReached /\ StackReached => SwapReached' /\ StackReached'
<1> DEFINE ffs == {pt[q].base : q \in Resident(P)}
           swap == SwapFrames(P)
           stack == {pt[q].base : q \in {r \in P : pt[r].pres /\ pt[r].base \in VStack}}
<1>1. /\ ffslist' = ffslist \union ffs
      /\ swaplist' = swaplist \union swap
      /\ vstacklist' = vstacklist \union stack
      /\ ptmap' = [f \in FFS |-> IF f \in ffs THEN NULL ELSE ptmap[f]]
      /\ ffs2swapmap' = [f \in FFS |-> IF f \in ffs THEN -1 ELSE ffs2swapmap[f]]
      /\ swap2ffsmap' = [s \in Swap |-> IF s \in swap THEN NULL ELSE swap2ffsmap[s]]
      /\ pt' = [q \in Pages |-> IF q \in P THEN ZeroPTE ELSE pt[q]]
      /\ mem' = [f \in Frames |-> IF mem[f] \in P THEN Junk ELSE mem[f]]
      /\ written' = written \ P
  BY DEF FreeVPages
<1>2. /\ ZeroPTE \in PTE /\ ~ ZeroPTE.pres /\ ~ ZeroPTE.isvmalloc /\ ~ ZeroPTE.isswapped
      /\ ~ ZeroPTE.already_swapped
  BY VirtMemAssumption DEF ZeroPTE, PTE
<1>3. \A f \in FFS : f \in ffs <=> ptmap[f] # NULL /\ ptmap[f] \in P
  <2>1. ASSUME NEW f \in FFS, f \in ffs PROVE ptmap[f] # NULL /\ ptmap[f] \in P
    <3>1. PICK q \in P : pt[q].pres /\ pt[q].base = f
      BY <2>1 DEF Resident
    <3>2. ptmap[f] = q
      BY <3>1, Regions DEF MapsConsistent, PageInv
    <3> QED BY <3>1, <3>2, VirtMemAssumption
  <2>2. ASSUME NEW f \in FFS, ptmap[f] # NULL, ptmap[f] \in P PROVE f \in ffs
    <3>1. pt[ptmap[f]].pres /\ pt[ptmap[f]].base = f
      BY <2>2 DEF MapsConsistent, FfsInv
    <3> QED BY <2>2, <3>1 DEF Resident
  <2> QED BY <2>1, <2>2
<1>4. \A s \in swap :
        \/ \E q \in P : pt[q].isswapped /\ pt[q].base = s
        \/ \E q \in P : /\ pt[q].pres /\ pt[q].base \in FFS
                        /\ ffs2swapmap[pt[q].base] = s /\ pt[q].already_swapped
  BY DEF SwapFrames, SwappedOut, Resident
<1>5. swap \subseteq Swap
  <2>1. ASSUME NEW q \in P, pt[q].pres, pt[q].base \in FFS, pt[q].already_swapped
        PROVE  ffs2swapmap[pt[q].base] \in Swap
    <3>1. ptmap[pt[q].base] = q /\ q # NULL
      BY <2>1, Regions, VirtMemAssumption DEF MapsConsistent, PageInv
    <3>2. ffs2swapmap[pt[q].base] # -1
      BY <2>1, <3>1 DEF MapsConsistent, FfsInv
    <3> QED BY <2>1, <3>2 DEF TypeOK
  <2> QED BY <1>4, <2>1 DEF MapsConsistent, PageInv
\* A freed swap frame backs a freed page or none.
<1>6. \A s \in swap : swap2ffsmap[s] # NULL => swap2ffsmap[s] \in P
  <2>1. ASSUME NEW q \in P, pt[q].pres, pt[q].base \in FFS, pt[q].already_swapped
        PROVE  swap2ffsmap[ffs2swapmap[pt[q].base]] = q
    <3>1. ptmap[pt[q].base] = q /\ q # NULL
      BY <2>1, Regions, VirtMemAssumption DEF MapsConsistent, PageInv
    <3> QED BY <2>1, <3>1 DEF MapsConsistent, FfsInv
  <2> QED BY <1>4, <2>1 DEF MapsConsistent, PageInv
<1>7. \A s \in Swap : swap2ffsmap[s] \in P /\ swap2ffsmap[s] # NULL => s \in swap
  <2>1. ASSUME NEW s \in Swap, swap2ffsmap[s] \in P, swap2ffsmap[s] # NULL
        PROVE  s \in swap
    <3> DEFINE q == swap2ffsmap[s]
    <3>1. pt[q].pres /\ pt[q].base \in FFS /\ ffs2swapmap[pt[q].base] = s
      BY <2>1 DEF MapsConsistent, SwapInv
    <3>2. ptmap[pt[q].base] = q
      BY <2>1, <3>1, Regions DEF MapsConsistent, PageInv
    <3>3. pt[q].already_swapped
      BY <2>1, <3>1, <3>2, Regions DEF MapsConsistent, FfsInv
    <3> QED BY <2>1, <3>1, <3>3 DEF SwapFrames, Resident
  <2> QED BY <2>1
<1>8. \A q \in Pages : q \in P /\ pt[q].isswapped => pt[q].base \in swap
  BY DEF SwapFrames, SwappedOut, MapsConsistent, PageInv
<1>9. \A q \in Pages : q \notin P /\ pt[q].isswapped => pt[q].base \notin swap
  <2>1. ASSUME NEW q \in Pages, q \notin P, pt[q].isswapped, pt[q].base \in swap PROVE FALSE
    <3>1. CASE \E r \in P : pt[r].isswapped /\ pt[r].base = pt[q].base
      BY <2>1, <3>1 DEF MapsConsistent, NoSharing, Live
    <3>2. CASE \E r \in P : /\ pt[r].pres /\ pt[r].base \in FFS
                            /\ ffs2swapmap[pt[r].base] = pt[q].base /\ pt[r].already_swapped
      <4>1. PICK r \in P : /\ pt[r].pres /\ pt[r].base \in FFS
                           /\ ffs2swapmap[pt[r].base] = pt[q].base /\ pt[r].already_swapped
        BY <3>2
      <4>2. ptmap[pt[r].base] = r /\ r # NULL
        BY <4>1, Regions, VirtMemAssumption DEF MapsConsistent, PageInv
      <4>3. swap2ffsmap[pt[q].base] = r
        BY <4>1, <4>2 DEF MapsConsistent, FfsInv
      <4> QED BY <2>1, <4>2, <4>3 DEF MapsConsistent, PageInv
    <3> QED BY <2>1, <1>4, <3>1, <3>2
  <2> QED BY <2>1
<1>10. \A q \in Pages : q \notin P /\ pt[q].pres => pt[q].base \notin stack
  BY DEF MapsConsistent, NoSharing, Live
<1>11. stack \subseteq VStack /\ ffs \subseteq FFS
  BY DEF Resident
<1>12. /\ \A r \in Pages : r \in P => pt'[r] = ZeroPTE
       /\ \A r \in Pages : r \notin P => pt'[r] = pt[r]
  BY <1>1
<1>13. \A r \in Pages : r # NULL
  BY VirtMemAssumption
<1>14. pt' \in [Pages -> PTE]
  BY <1>1, <1>2, <1>12 DEF TypeOK
<1> HIDE DEF ffs, swap, stack
<1>20. FfsInv'
  <2>1. SUFFICES ASSUME NEW f \in FFS
        PROVE  /\ f \in ffslist' <=> ptmap'[f] = NULL
               /\ ptmap'[f] # NULL => pt'[ptmap'[f]].pres /\ pt'[ptmap'[f]].base = f
               /\ ffs2swapmap'[f] # -1 <=> ptmap'[f] # NULL /\ pt'[ptmap'[f]].already_swapped
               /\ ffs2swapmap'[f] # -1 => swap2ffsmap'[ffs2swapmap'[f]] = ptmap'[f]
    BY DEF FfsInv
  <2>2. CASE f \in ffs
    BY <2>2, <1>1
  <2>3. CASE f \notin ffs
    <3>1. ptmap'[f] = ptmap[f] /\ ffs2swapmap'[f] = ffs2swapmap[f] /\ (f \in ffslist' <=> f \in ffslist)
      BY <2>3, <1>1
    <3>2. ptmap[f] # NULL => ptmap[f] \in Pages /\ ptmap[f] \notin P /\ pt'[ptmap[f]] = pt[ptmap[f]]
      BY <2>3, <1>3, <1>12 DEF TypeOK
    <3>3. ASSUME ffs2swapmap[f] # -1 PROVE swap2ffsmap'[ffs2swapmap[f]] = ptmap[f]
      <4>1. ffs2swapmap[f] \in Swap /\ swap2ffsmap[ffs2swapmap[f]] = ptmap[f] /\ ptmap[f] # NULL
        BY <3>3 DEF TypeOK, MapsConsistent, FfsInv
      <4>2. ffs2swapmap[f] \notin swap
        BY <4>1, <3>2, <1>6
      <4> QED BY <4>1, <4>2, <1>1
    <3> QED BY <3>1, <3>2, <3>3 DEF MapsConsistent, FfsInv
  <2> QED BY <2>2, <2>3
<1>21. SwapInv'
  <2>1. SUFFICES ASSUME NEW s \in Swap, swap2ffsmap'[s] # NULL
        PROVE  /\ pt'[swap2ffsmap'[s]].pres
               /\ pt'[swap2ffsmap'[s]].base \in FFS
               /\ ffs2swapmap'[pt'[swap2ffsmap'[s]].base] = s
               /\ s \notin swaplist'
    BY DEF SwapInv
  <2> DEFINE q == swap2ffsmap[s]
  <2>2. s \notin swap /\ swap2ffsmap'[s] = q /\ q # NULL /\ q \in Pages /\ q \notin P
    BY <2>1, <1>1, <1>7 DEF TypeOK
  <2>3. pt'[q] = pt[q] /\ pt[q].pres /\ pt[q].base \in FFS /\ ffs2swapmap[pt[q].base] = s /\ s \notin swaplist
    BY <2>2, <1>12 DEF MapsConsistent, SwapInv
  <2>4. ptmap[pt[q].base] = q
    BY <2>2, <2>3, Regions DEF MapsConsistent, PageInv
  <2>5. pt[q].base \notin ffs
    BY <2>2, <2>3, <2>4, <1>3
  <2> QED BY <2>2, <2>3, <2>5, <1>1
<1>22. PageInv'
  <2>1. SUFFICES ASSUME NEW r \in Pages
        PROVE  /\ pt'[r].pres =>
                    /\ ~ pt'[r].isvmalloc /\ ~ pt'[r].isswapped
                    /\ \/ pt'[r].base \in FFS /\ ptmap'[pt'[r].base] = r
                       \/ pt'[r].base \in VStack \ vstacklist' /\ ~ pt'[r].already_swapped
               /\ pt'[r].isswapped =>
                    /\ ~ pt'[r].isvmalloc /\ pt'[r].already_swapped
                    /\ pt'[r].base \in Swap \ swaplist' /\ swap2ffsmap'[pt'[r].base] = NULL
               /\ pt'[r].already_swapped => pt'[r].pres \/ pt'[r].isswapped
    BY DEF PageInv, Live
  <2>2. CASE r \in P
    BY <2>2, <1>2, <1>12
  <2>3. CASE r \notin P
    <3>1. pt'[r] = pt[r]
      BY <2>3, <1>12
    <3>2. CASE pt[r].pres /\ pt[r].base \in FFS
      <4>1. ptmap[pt[r].base] = r
        BY <3>2, Regions DEF MapsConsistent, PageInv
      <4>2. ptmap'[pt[r].base] = r
        BY <2>3, <3>2, <4>1, <1>1, <1>3
      <4> QED BY <3>1, <3>2, <4>2 DEF MapsConsistent, PageInv, Live
    <3>3. CASE pt[r].pres /\ pt[r].base \notin FFS
      BY <2>3, <3>1, <3>3, <1>1, <1>10 DEF MapsConsistent, PageInv, Live
    <3>4. CASE pt[r].isswapped
      BY <2>3, <3>1, <3>4, <1>1, <1>9 DEF MapsConsistent, PageInv, Live
    <3>5. CASE ~ pt[r].pres /\ ~ pt[r].isswapped
      BY <3>1, <3>5 DEF MapsConsistent, PageInv, Live
    <3> QED BY <3>2, <3>3, <3>4, <3>5
  <2> QED BY <2>2, <2>3
<1>23. NoSharing'
  <2>1. \A r \in Pages : Live(r)' => r \notin P /\ pt'[r] = pt[r] /\ Live(r)
    BY <1>2, <1>12 DEF Live
  <2> QED BY <2>1 DEF MapsConsistent, NoSharing
<1>24. /\ ptmap' \in [FFS -> Pages \union {NULL}]
       /\ ffs2swapmap' \in [FFS -> Swap \union {-1}]
       /\ swap2ffsmap' \in [Swap -> Pages \union {NULL}]
       /\ ffslist' \subseteq FFS /\ swaplist' \subseteq Swap /\ vstacklist' \subseteq VStack
       /\ written' \subseteq Pages
  BY <1>1, <1>5, <1>11 DEF TypeOK
<1>25. mem' \in [Frames -> Pages \union {Junk}]
  BY <1>1 DEF TypeOK
<1>26. \A r \in Pages : r \in P => ~ Live(r)'
  BY <1>2, <1>12 DEF Live
<1>27. ASSUME SwapReached PROVE SwapReached'
  <2>1. SUFFICES ASSUME NEW x \in Swap, x \notin swaplist, x \notin swap
        PROVE  \E r \in Pages : \/ pt'[r].isswapped /\ pt'[r].base = x
                                \/ /\ pt'[r].pres /\ pt'[r].base \in FFS
                                   /\ ffs2swapmap'[pt'[r].base] = x
    BY <1>1 DEF SwapReached
  <2>2. PICK r \in Pages : \/ pt[r].isswapped /\ pt[r].base = x
                           \/ pt[r].pres /\ pt[r].base \in FFS /\ ffs2swapmap[pt[r].base] = x
    BY <1>27, <2>1 DEF SwapReached
  <2>3. CASE pt[r].isswapped /\ pt[r].base = x
    BY <2>1, <2>3, <1>8, <1>12
  <2>4. CASE pt[r].pres /\ pt[r].base \in FFS /\ ffs2swapmap[pt[r].base] = x
    <3>1. ptmap[pt[r].base] = r /\ r # NULL /\ x # -1
      BY <2>1, <2>4, <1>13, Regions DEF MapsConsistent, PageInv
    <3>2. pt[r].already_swapped
      BY <2>4, <3>1 DEF MapsConsistent, FfsInv
    <3>3. r \notin P
      BY <2>1, <2>4, <3>2 DEF swap, SwapFrames, Resident
    <3>4. pt[r].base \notin ffs
      BY <2>4, <3>1, <3>3, <1>3
    <3> QED BY <2>4, <3>3, <3>4, <1>1, <1>12
  <2> QED BY <2>2, <2>3, <2>4
<1>28. StackReached => StackReached'
  BY <1>1, <1>12 DEF StackReached, stack
<1> QED BY <1>12, <1>14, <1>20, <1>21, <1>22, <1>23, <1>24, <1>25, <1>26, <1>27, <1>28
    DEF MapsConsistent

\* No ASSERT of free_vpage fails while the maps are consistent.
LEMMA FreeAssertsHold ==
  ASSUME TypeOK, MapsConsistent, NEW P \in SUBSET Pages
  PROVE  FreeAsserts(P)
<1>1. SUFFICES ASSUME NEW q \in P
      PROVE  /\ pt[q].pres => ~ pt[q].isvmalloc
             /\ q \in Resident(P) /\ pt[q].already_swapped => ffs2swapmap[pt[q].base] # -1
             /\ q \in SwappedOut(P) =>
                  pt[q].already_swapped /\ swap2ffsmap[pt[q].base] = NULL
  BY DEF FreeAsserts
<1>2. ASSUME q \in Resident(P), pt[q].already_swapped PROVE ffs2swapmap[pt[q].base] # -1
  <2>1. pt[q].pres /\ pt[q].base \in FFS
    BY <1>2 DEF Resident
  <2>2. ptmap[pt[q].base] = q /\ q # NULL
    BY <2>1, Regions, VirtMemAssumption DEF MapsConsistent, PageInv
  <2> QED BY <1>2, <2>1, <2>2 DEF MapsConsistent, FfsInv
<1> QED BY <1>2 DEF MapsConsistent, PageInv, SwappedOut

\* The heap counter is a uint32.
LEMMA Quota ==
  ASSUME NEW n \in Int
  PROVE  n % UINT \in 0 .. (UINT - 1)
BY VirtMemAssumption, DivNat

\* The number of pages that vfree returns to the quotas is not negative.
LEMMA NpagesNat ==
  ASSUME NEW b \in [page : Nat, nbytes : Nat]
  PROVE  Npages(b) \in Nat
<1>1. b.page * PAGE_SIZE + b.nbytes - 1 \in Int
  BY VirtMemAssumption
<1>2. (b.page * PAGE_SIZE + b.nbytes - 1) % UINT \in 0 .. (UINT - 1)
  BY <1>1, Quota, Zenon
<1>3. (b.page * PAGE_SIZE + b.nbytes - 1) % UINT \in Nat
  BY <1>2, VirtMemAssumption
<1>4. end_page(b) \in Nat
  BY <1>3, CeilDiv, VirtMemAssumption, Zenon DEF end_page
<1> QED BY <1>4 DEF Npages

\* vfree of a block that the process holds.
LEMMA VFreeInv ==
  ASSUME IInv, InUser, NEW b \in held[currpid], kernel_service_free(b)
  PROVE  IInv' /\ halted' # "assertion"
<1> DEFINE P == {Cur(v) : v \in FreedPages(b)}
           n == (n_free_vpages + Npages(b)) % UINT
<1>1. /\ TypeOK /\ MapsConsistent /\ currpid \in Procs /\ halted = "no" /\ req[currpid] = 0
      /\ tbl[currpid] \in Tables /\ b \in [page : Nat, nbytes : Nat] /\ b.page > 0
  BY DEF IInv, TypeOK, ProcInv, InUser, Running
<1>2. P \in SUBSET Pages
  BY <1>1 DEF FreedPages, Cur, Pages
<1>3. FreeAsserts(P)
  BY <1>1, <1>2, FreeAssertsHold
<1>4. CASE Halt("Illegal value of n_free_vpages")
  <2>1. IInv'
    BY <1>4, HaltInv DEF Reasons
  <2> QED BY <1>4, <2>1 DEF Halt
<1>5. CASE ~ Halt("Illegal value of n_free_vpages")
  <2>1. /\ FreeVPages(P) /\ n_free_vpages' = n
        /\ vfree' = [vfree EXCEPT ![currpid] = @ + Npages(b)]
        /\ held' = [held EXCEPT ![currpid] = @ \ {b}]
        /\ tlb' = Flushed
        /\ UNCHANGED <<pdptlist, hsize, vmax, req, created, tbl, currpid, halted>>
    BY <1>3, <1>5 DEF kernel_service_free
  <2>2. /\ MapsConsistent'
        /\ pt' \in [Pages -> PTE]
        /\ ptmap' \in [FFS -> Pages \union {NULL}]
        /\ ffs2swapmap' \in [FFS -> Swap \union {-1}]
        /\ swap2ffsmap' \in [Swap -> Pages \union {NULL}]
        /\ ffslist' \subseteq FFS /\ swaplist' \subseteq Swap /\ vstacklist' \subseteq VStack
        /\ mem' \in [Frames -> Pages \union {Junk}] /\ written' \subseteq Pages
        /\ \A r \in Pages : r \in P => ~ Live(r)'
        /\ \A r \in Pages : r \notin P => pt'[r] = pt[r]
        /\ SwapReached' /\ StackReached'
    BY <1>1, <1>2, <2>1, FreeMaps DEF IInv, NoLeak
  <2>3. TypeOK'
    <3>1. Npages(b) \in Nat
      BY <1>1, NpagesNat
    <3>2. n \in 0 .. (UINT - 1)
      BY <1>1, <3>1, Quota DEF TypeOK
    <3>3. vfree' \in [Procs -> Int] /\ held' \in [Procs -> SUBSET [page : Nat, nbytes : Nat]]
      BY <1>1, <2>1, <3>1 DEF TypeOK
    <3> QED BY <1>1, <2>1, <2>2, <3>2, <3>3, FlushedType DEF TypeOK
  <2>4. TableInv'
    BY <2>1, <2>2 DEF IInv, TableInv, Live
  <2>5. StackResident'
    <3>1. \A p \in Procs : tbl[p] # NULL => <<tbl[p], 0>> \in Pages /\ <<tbl[p], 0>> \notin P
      BY <1>1, VirtMemAssumption DEF TypeOK, Pages, VPages, Cur, FreedPages
    <3> QED BY <2>1, <2>2, <3>1 DEF IInv, StackResident
  <2>6. ProcInv'
    <3>1. \A p \in Procs : held'[p] \subseteq held[p] /\ (p # currpid => vfree'[p] = vfree[p])
      BY <1>1, <2>1 DEF TypeOK
    <3> QED BY <1>1, <2>1, <3>1 DEF IInv, ProcInv
  <2>7. NoLeak'
    BY <2>1, <2>2 DEF IInv, NoLeak, TablesReached
  <2> QED BY <1>1, <2>1, <2>2, <2>3, <2>4, <2>5, <2>6, <2>7 DEF IInv
<1> QED BY <1>4, <1>5

\* kill of a process that exists.
LEMMA KillInv ==
  ASSUME IInv, NEW p \in Procs, kill(p)
  PROVE  IInv' /\ halted' # "assertion"
<1> DEFINE P == freevmem(tbl[p])
           n == (n_free_vpages + hsize[p] - vfree[p]) % UINT
<1>1. /\ TypeOK /\ MapsConsistent /\ halted = "no" /\ req[p] = 0
      /\ tbl[p] \in Tables /\ tbl[p] # NULL
  BY DEF IInv, TypeOK, kill, Running
<1>2. P \in SUBSET Pages
  BY DEF freevmem
<1>3. FreeAsserts(P)
  BY <1>1, <1>2, FreeAssertsHold
<1>4. CASE Halt("Illegal value of n_free_vpages")
  <2>1. IInv'
    BY <1>4, HaltInv DEF Reasons
  <2> QED BY <1>4, <2>1 DEF Halt
<1>5. CASE ~ Halt("Illegal value of n_free_vpages")
  <2>1. /\ FreeVPages(P) /\ n_free_vpages' = n
        /\ pdptlist' = pdptlist \union {tbl[p]}
        /\ tbl' = [tbl EXCEPT ![p] = NULL]
        /\ held' = [held EXCEPT ![p] = {}]
        /\ hsize' = [hsize EXCEPT ![p] = 0]
        /\ vfree' = [vfree EXCEPT ![p] = 0]
        /\ vmax' = [vmax EXCEPT ![p] = 0]
        /\ currpid' = NULLPROC
        /\ tlb' = Flushed
        /\ UNCHANGED <<req, created, halted>>
    BY <1>3, <1>5 DEF kill
  <2>2. /\ MapsConsistent'
        /\ pt' \in [Pages -> PTE]
        /\ ptmap' \in [FFS -> Pages \union {NULL}]
        /\ ffs2swapmap' \in [FFS -> Swap \union {-1}]
        /\ swap2ffsmap' \in [Swap -> Pages \union {NULL}]
        /\ ffslist' \subseteq FFS /\ swaplist' \subseteq Swap /\ vstacklist' \subseteq VStack
        /\ mem' \in [Frames -> Pages \union {Junk}] /\ written' \subseteq Pages
        /\ \A r \in Pages : r \in P => ~ Live(r)'
        /\ \A r \in Pages : r \notin P => pt'[r] = pt[r]
        /\ SwapReached' /\ StackReached'
    BY <1>1, <1>2, <2>1, FreeMaps DEF IInv, NoLeak
  <2>3. TypeOK'
    <3>1. n \in 0 .. (UINT - 1)
      BY <1>1, Quota DEF TypeOK
    <3>2. /\ vfree' \in [Procs -> Int] /\ held' \in [Procs -> SUBSET [page : Nat, nbytes : Nat]]
          /\ hsize' \in [Procs -> Nat] /\ vmax' \in [Procs -> Nat]
          /\ tbl' \in [Procs -> Tables \union {NULL}] /\ pdptlist' \subseteq Tables
      BY <1>1, <2>1 DEF TypeOK
    <3> QED BY <1>1, <2>1, <2>2, <3>1, <3>2, FlushedType DEF TypeOK
  <2>4. \A r \in Procs : /\ tbl'[r] # NULL => /\ r # p /\ tbl'[r] = tbl[r]
                                              /\ vmax'[r] = vmax[r] /\ tbl[r] # tbl[p]
                         /\ r # p => /\ tbl'[r] = tbl[r] /\ vmax'[r] = vmax[r]
                                     /\ vfree'[r] = vfree[r] /\ held'[r] = held[r]
    BY <1>1, <2>1 DEF IInv, TypeOK, TableInv
  <2>5. TableInv'
    <3>1. ASSUME NEW r \in Procs, tbl'[r] # NULL
          PROVE  /\ tbl'[r] \notin pdptlist' /\ vmax'[r] > 0
                 /\ \A x \in Procs : x # r => tbl'[x] # tbl'[r]
      BY <3>1, <2>1, <2>4, <1>1 DEF IInv, TypeOK, TableInv
    <3>2. ASSUME NEW q \in Pages, Live(q)' PROVE \E r \in Procs : tbl'[r] = q[1] /\ q[2] < vmax'[r]
      <4>1. q \notin P /\ Live(q)
        BY <3>2, <2>2 DEF Live
      <4>2. PICK r \in Procs : tbl[r] = q[1] /\ q[2] < vmax[r]
        BY <4>1 DEF IInv, TableInv
      <4>3. r # p
        BY <4>1, <4>2 DEF freevmem, Live
      <4> QED BY <4>2, <4>3, <2>4
    <3> QED BY <3>1, <3>2 DEF TableInv
  <2>6. StackResident'
    <3>1. \A r \in Procs : tbl'[r] # NULL => <<tbl[r], 0>> \in Pages /\ <<tbl[r], 0>> \notin P
      <4>1. SUFFICES ASSUME NEW r \in Procs, tbl'[r] # NULL
            PROVE  <<tbl[r], 0>> \in Pages /\ <<tbl[r], 0>> \notin P
        OBVIOUS
      <4>2. tbl[r] \in Tables /\ tbl[r] # tbl[p] /\ 0 \in VPages
        BY <2>4, <4>1, <1>1, VirtMemAssumption DEF TypeOK, VPages
      <4> QED BY <4>2 DEF Pages, freevmem
    <3>2. SUFFICES ASSUME NEW r \in Procs, NEW x, x = tbl'[r], x # NULL
          PROVE  pt'[<<x, 0>>].pres /\ pt'[<<x, 0>>].base \in VStack
      BY DEF StackResident
    <3>3. r # p /\ x = tbl[r] /\ pt'[<<x, 0>>] = pt[<<x, 0>>]
      BY <2>2, <2>4, <3>1, <3>2
    <3> QED BY <3>2, <3>3 DEF IInv, StackResident
  <2>7. ProcInv'
    <3>1. held'[p] = {} /\ NULLPROC \notin Procs
      BY <1>1, <2>1, VirtMemAssumption DEF TypeOK
    <3> QED BY <1>1, <2>1, <2>4, <3>1 DEF IInv, ProcInv
  <2>8. TablesReached'
    <3>1. \A r \in Procs : r # p => tbl'[r] = tbl[r]
      BY <2>4
    <3> QED BY <2>1, <3>1 DEF IInv, NoLeak, TablesReached
  <2> QED BY <1>1, <2>1, <2>2, <2>3, <2>5, <2>6, <2>7, <2>8 DEF IInv, NoLeak
<1> QED BY <1>4, <1>5

-----------------------------------------------------------------------------
\* Steps that write page table entries of pages that have no frame, or that
\* only touch dirty bits, keep the maps consistent.
SameFrames(P) ==
  /\ \A q \in Pages : q \notin P => /\ pt'[q].base = pt[q].base
                                    /\ pt'[q].pres <=> pt[q].pres
                                    /\ pt'[q].isvmalloc <=> pt[q].isvmalloc
                                    /\ pt'[q].isswapped <=> pt[q].isswapped
                                    /\ pt'[q].already_swapped <=> pt[q].already_swapped
  /\ \A q \in Pages : q \in P => /\ ~ Live(q) /\ ~ pt'[q].pres /\ ~ pt'[q].isswapped
                                 /\ ~ pt'[q].already_swapped

\* Such steps change neither the maps nor which pages are live.
LEMMA SameFramesMaps ==
  ASSUME TypeOK, MapsConsistent, NEW P \in SUBSET Pages, SameFrames(P),
         UNCHANGED <<maps, ffslist, swaplist, vstacklist>>
  PROVE  /\ MapsConsistent' /\ \A q \in Pages : Live(q)' <=> Live(q)
         /\ SwapReached /\ StackReached => SwapReached' /\ StackReached'
<1> USE DEF maps
<1>1. \A q \in Pages : Live(q)' <=> Live(q)
  BY DEF SameFrames, Live
<1>2. \A q \in Pages : Live(q) => q \notin P
  BY DEF SameFrames
<1>3. FfsInv'
  <2>1. \A f \in FFS : ptmap[f] # NULL => ptmap[f] \in Pages /\ ptmap[f] \notin P
    BY <1>2 DEF TypeOK, MapsConsistent, FfsInv, Live
  <2> QED BY <2>1 DEF MapsConsistent, FfsInv, SameFrames
<1>4. SwapInv'
  <2>1. \A s \in Swap : swap2ffsmap[s] # NULL => swap2ffsmap[s] \in Pages /\ swap2ffsmap[s] \notin P
    BY <1>2 DEF TypeOK, MapsConsistent, SwapInv, Live
  <2> QED BY <2>1 DEF MapsConsistent, SwapInv, SameFrames
<1>5. PageInv'
  BY <1>1, <1>2 DEF MapsConsistent, PageInv, SameFrames, Live
<1>6. NoSharing'
  BY <1>1, <1>2 DEF MapsConsistent, NoSharing, SameFrames
<1>7. SwapReached => SwapReached'
  BY <1>2 DEF SwapReached, SameFrames, Live
<1>8. StackReached => StackReached'
  BY <1>2 DEF StackReached, SameFrames, Live
<1> QED BY <1>1, <1>3, <1>4, <1>5, <1>6, <1>7, <1>8 DEF MapsConsistent

\* The service of vmalloc, which marks the pages from vmax on.
LEMMA MallocInv ==
  ASSUME IInv, NoWrap, kernel_service_malloc
  PROVE  IInv' /\ halted' # "assertion"
<1> DEFINE p == currpid
           n == ceil_div(req[p], PAGE_SIZE)
           new == {Cur(v) : v \in {x \in VPages : vmax[p] <= x /\ x < vmax[p] + n}}
           b == [page |-> vmax[p], nbytes |-> req[p]]
<1>1. /\ TypeOK /\ MapsConsistent /\ p \in Procs /\ halted = "no" /\ req[p] \in Sizes
      /\ req[p] \in Nat /\ tbl[p] \in Tables /\ tbl[p] # NULL
      /\ n <= vfree[p] /\ vmax[p] \in Nat /\ vmax[p] > 0
  BY DEF IInv, TypeOK, ProcInv, TableInv, Running, kernel_service_malloc
<1>2. n \in Nat /\ req[p] <= n * PAGE_SIZE
  BY <1>1, CeilDiv, VirtMemAssumption DEF NoWrap
<1>3. /\ pt' = [q \in Pages |-> IF q \in new THEN HeapPTE ELSE pt[q]]
      /\ held' = [held EXCEPT ![p] = @ \union {b}]
      /\ vmax' = [vmax EXCEPT ![p] = @ + n]
      /\ vfree' = [vfree EXCEPT ![p] = @ - n]
      /\ n_free_vpages' = (n_free_vpages - n) % UINT
      /\ req' = [req EXCEPT ![p] = 0]
      /\ tlb' = Flushed
      /\ UNCHANGED <<maps, lists, hsize, created, tbl, currpid, mem, halted, written>>
  <2>1. ~ (n > vfree[p])
    BY <1>1, <1>2 DEF TypeOK
  <2> QED BY <2>1 DEF kernel_service_malloc
<1>4. new \in SUBSET Pages
  BY <1>1 DEF Cur, Pages
<1>5. \A q \in new : ~ Live(q)
  <2>1. ASSUME NEW x \in VPages, vmax[p] <= x, Live(Cur(x)) PROVE FALSE
    <3>1. Cur(x) \in Pages /\ Cur(x)[1] = tbl[p] /\ Cur(x)[2] = x
      BY <1>1 DEF Cur, Pages
    <3>2. PICK r \in Procs : tbl[r] = tbl[p] /\ x < vmax[r]
      BY <2>1, <3>1 DEF IInv, TableInv
    <3>3. r = p
      BY <1>1, <3>2 DEF IInv, TableInv
    <3> QED BY <1>1, <2>1, <3>2, <3>3, VirtMemAssumption DEF VPages
  <2> QED BY <2>1
<1>6. SameFrames(new)
  <2>1. ~ HeapPTE.pres /\ ~ HeapPTE.isswapped /\ ~ HeapPTE.already_swapped
    BY DEF HeapPTE, ZeroPTE
  <2> QED BY <2>1, <1>3, <1>4, <1>5 DEF SameFrames
<1>7. MapsConsistent' /\ NoLeak' /\ \A q \in Pages : Live(q)' <=> Live(q)
  BY <1>1, <1>3, <1>4, <1>6, SameFramesMaps DEF lists, IInv, NoLeak, TablesReached
<1>8. TypeOK'
  <2>1. HeapPTE \in PTE
    <3>1. ZeroPTE \in PTE
      BY VirtMemAssumption DEF ZeroPTE, PTE
    <3> QED BY <3>1 DEF HeapPTE, PTE
  <2>2. pt' \in [Pages -> PTE]
    BY <1>1, <1>3, <2>1 DEF TypeOK
  <2>3. n_free_vpages' \in 0 .. (UINT - 1)
    BY <1>1, <1>2, <1>3, Quota DEF TypeOK
  <2>4. /\ held' \in [Procs -> SUBSET [page : Nat, nbytes : Nat]]
        /\ vmax' \in [Procs -> Nat] /\ vfree' \in [Procs -> Int] /\ req' \in [Procs -> Nat]
    BY <1>1, <1>2, <1>3 DEF TypeOK
  <2> QED BY <1>1, <1>3, <2>2, <2>3, <2>4, FlushedType DEF TypeOK, maps, lists
<1>9. \A r \in Procs : /\ vmax'[r] >= vmax[r] /\ vmax[r] \in Nat /\ vmax'[r] \in Nat
                       /\ r # p => /\ vmax'[r] = vmax[r] /\ held'[r] = held[r]
                                   /\ vfree'[r] = vfree[r] /\ req'[r] = req[r]
  BY <1>1, <1>2, <1>3 DEF TypeOK
<1>10. TableInv'
  <2>1. \A q \in Pages : q[2] \in Nat
    BY VirtMemAssumption DEF Pages, VPages
  <2> QED BY <1>3, <1>7, <1>9, <2>1 DEF IInv, TableInv, lists
<1>11. StackResident'
  <2>1. \A r \in Procs : tbl[r] # NULL => <<tbl[r], 0>> \in Pages
    BY <1>1, VirtMemAssumption DEF TypeOK, Pages, VPages
  <2>2. \A q \in Pages : Live(q) => pt'[q] = pt[q]
    BY <1>3, <1>5
  <2> QED BY <1>3, <2>1, <2>2 DEF IInv, StackResident, Live
<1>12. ProcInv'
  <2>1. \A v \in BlockPages(b) : v < vmax[p] + n
    <3>1. SUFFICES ASSUME NEW v \in VPages, v * PAGE_SIZE < vmax[p] * PAGE_SIZE + req[p]
          PROVE  v < vmax[p] + n
      BY DEF BlockPages
    <3>2. v \in Nat /\ vmax[p] + n \in Nat
      BY <1>1, <1>2, VirtMemAssumption DEF VPages
    <3>3. (vmax[p] + n) * PAGE_SIZE = vmax[p] * PAGE_SIZE + n * PAGE_SIZE
      BY <1>1, <1>2, VirtMemAssumption
    <3>4. v * PAGE_SIZE < (vmax[p] + n) * PAGE_SIZE
      BY <1>1, <1>2, <3>1, <3>2, <3>3, VirtMemAssumption
    <3> QED BY <3>2, <3>4, MulMono, VirtMemAssumption
  <2>2. vmax'[p] = vmax[p] + n /\ held'[p] = held[p] \union {b} /\ req'[p] = 0
    BY <1>1, <1>3 DEF TypeOK
  <2>3. \A x \in held'[p] : /\ tbl[p] # NULL /\ x.page > 0
                            /\ \A v \in BlockPages(x) : v < vmax'[p]
    <3>1. ASSUME NEW x \in held[p] PROVE \A v \in BlockPages(x) : v < vmax'[p]
      BY <1>1, <1>9 DEF IInv, ProcInv, BlockPages, VPages
    <3> QED BY <1>1, <2>1, <2>2, <3>1 DEF IInv, ProcInv
  <2> QED BY <1>1, <1>3, <1>9, <2>2, <2>3 DEF IInv, ProcInv, BlockPages
<1> QED BY <1>1, <1>3, <1>7, <1>8, <1>10, <1>11, <1>12 DEF IInv

\* vcreate, which takes a table and a stack frame.
LEMMA CreateInv ==
  ASSUME IInv, NEW p \in Procs, vcreate(p)
  PROVE  IInv' /\ halted' # "assertion"
<1>1. TypeOK /\ MapsConsistent /\ halted = "no" /\ tbl[p] = NULL
  BY DEF IInv, vcreate, Running
<1>2. ASSUME NEW why \in {"Out of pdpt memory", "Out of virtual stack memory"}, Halt(why)
      PROVE  IInv' /\ halted' # "assertion"
  <2>1. IInv'
    BY <1>2, HaltInv DEF Reasons
  <2> QED BY <1>2, <2>1 DEF Halt
<1>3. ASSUME NEW t \in Tables, NEW f \in VStack,
             Lowest(t, pdptlist), Lowest(f, vstacklist),
             pdptlist' = pdptlist \ {t}, vstacklist' = vstacklist \ {f},
             tbl' = [tbl EXCEPT ![p] = t],
             pt' = [CreateTable(t) EXCEPT ![<<t, 0>>] = StackPTE(f)],
             mem' = [mem EXCEPT ![f] = <<t, 0>>],
             written' = written \union {<<t, 0>>},
             hsize' = [hsize EXCEPT ![p] = HeapOf[p]],
             vfree' = [vfree EXCEPT ![p] = HeapOf[p]],
             vmax' = [vmax EXCEPT ![p] = 1],
             created' = created + 1,
             UNCHANGED <<maps, ffslist, swaplist, n_free_vpages, req, currpid,
                         tlb, halted, held>>
      PROVE  IInv' /\ halted' # "assertion"
  <2> DEFINE k == <<t, 0>>
  <2>1. k \in Pages /\ k[1] = t /\ k[2] = 0 /\ t \in pdptlist /\ f \in vstacklist /\ t # NULL
    BY <1>3, VirtMemAssumption DEF Pages, VPages, Lowest
  <2>2. \A q \in Pages : q[1] = t => ~ Live(q)
    BY <2>1 DEF IInv, TableInv
  <2>3. /\ StackPTE(f) \in PTE /\ StackPTE(f).pres /\ StackPTE(f).base = f
        /\ ~ StackPTE(f).isvmalloc /\ ~ StackPTE(f).isswapped /\ ~ StackPTE(f).already_swapped
    BY Regions, VirtMemAssumption DEF StackPTE, ZeroPTE, PTE
  <2>4. /\ pt' \in [Pages -> PTE] /\ pt'[k] = StackPTE(f)
        /\ \A q \in Pages : q # k => pt'[q] = pt[q]
    BY <1>1, <1>3, <2>1, <2>3 DEF TypeOK, CreateTable
  <2>5. ~ Live(k) /\ \A q \in Pages : pt[q].pres => pt[q].base # f
    BY <2>1, <2>2, <1>1, Regions DEF MapsConsistent, PageInv
  <2>6. MapsConsistent'
    <3>1. FfsInv'
      <4>1. \A g \in FFS : ptmap[g] # NULL => ptmap[g] \in Pages /\ ptmap[g] # k
        BY <1>1, <2>5 DEF TypeOK, MapsConsistent, FfsInv, Live
      <4> QED BY <1>1, <1>3, <2>4, <4>1 DEF MapsConsistent, FfsInv, maps
    <3>2. SwapInv'
      <4>1. \A s \in Swap : swap2ffsmap[s] # NULL => swap2ffsmap[s] \in Pages /\ swap2ffsmap[s] # k
        BY <1>1, <2>5 DEF TypeOK, MapsConsistent, SwapInv, Live
      <4> QED BY <1>1, <1>3, <2>4, <4>1 DEF MapsConsistent, SwapInv, maps
    <3>3. PageInv'
      BY <1>1, <1>3, <2>3, <2>4, <2>5, Regions DEF MapsConsistent, PageInv, Live, maps
    <3>4. NoSharing'
      <4>1. \A q \in Pages : q # k /\ Live(q)' => Live(q) /\ pt'[q].base = pt[q].base /\ pt[q].base # f
        BY <1>1, <2>4, <2>5, Regions DEF Live, MapsConsistent, PageInv
      <4> QED BY <1>1, <2>3, <2>4, <4>1 DEF MapsConsistent, NoSharing
    <3> QED BY <3>1, <3>2, <3>3, <3>4 DEF MapsConsistent
  <2>7. TypeOK'
    <3>1. /\ tbl' \in [Procs -> Tables \union {NULL}] /\ hsize' \in [Procs -> Nat]
          /\ vfree' \in [Procs -> Int] /\ vmax' \in [Procs -> Nat] /\ created' \in Nat
      <4>1. HeapOf[p] \in Nat
        BY VirtMemAssumption
      <4>2. tbl' \in [Procs -> Tables \union {NULL}]
        BY <1>1, <1>3 DEF TypeOK
      <4>3. hsize' \in [Procs -> Nat]
        BY <1>1, <1>3, <4>1 DEF TypeOK
      <4>4. vfree' \in [Procs -> Int]
        BY <1>1, <1>3, <4>1 DEF TypeOK
      <4>5. vmax' \in [Procs -> Nat] /\ created' \in Nat
        BY <1>1, <1>3 DEF TypeOK
      <4> QED BY <4>2, <4>3, <4>4, <4>5
    <3>2. mem' \in [Frames -> Pages \union {Junk}] /\ written' \subseteq Pages
      BY <1>1, <1>3, <2>1, Regions DEF TypeOK
    <3> QED BY <1>1, <1>3, <2>4, <3>1, <3>2 DEF TypeOK, maps
  <2>8. /\ tbl'[p] = t /\ vmax'[p] = 1
        /\ \A r \in Procs : r # p => /\ tbl'[r] = tbl[r] /\ vmax'[r] = vmax[r]
                                     /\ vfree'[r] = vfree[r] /\ tbl[r] # t
    BY <1>1, <1>3, <2>1 DEF IInv, TypeOK, TableInv
  <2>9. TableInv'
    <3>1. ASSUME NEW r \in Procs, tbl'[r] # NULL
          PROVE  /\ tbl'[r] \notin pdptlist' /\ vmax'[r] > 0
                 /\ \A x \in Procs : x # r => tbl'[x] # tbl'[r]
      BY <1>3, <2>1, <2>8, <3>1 DEF IInv, TableInv
    <3>2. ASSUME NEW q \in Pages, Live(q)' PROVE \E r \in Procs : tbl'[r] = q[1] /\ q[2] < vmax'[r]
      <4>1. CASE q = k
        BY <2>1, <2>8, <4>1
      <4>2. CASE q # k
        <5>1. Live(q)
          BY <2>4, <3>2, <4>2 DEF Live
        <5>2. PICK r \in Procs : tbl[r] = q[1] /\ q[2] < vmax[r]
          BY <5>1 DEF IInv, TableInv
        <5>3. r # p
          BY <1>1, <5>2, VirtMemAssumption DEF Pages
        <5> QED BY <5>2, <5>3, <2>8
      <4> QED BY <4>1, <4>2
    <3> QED BY <3>1, <3>2 DEF TableInv
  <2>10. StackResident'
    <3>1. \A r \in Procs : r # p /\ tbl[r] # NULL => <<tbl[r], 0>> \in Pages /\ <<tbl[r], 0>> # k
      <4>1. 0 \in VPages
        BY VirtMemAssumption DEF VPages
      <4> QED BY <1>1, <2>8, <4>1 DEF TypeOK, Pages
    <3>2. SUFFICES ASSUME NEW r \in Procs, NEW x, x = tbl'[r], x # NULL
          PROVE  pt'[<<x, 0>>].pres /\ pt'[<<x, 0>>].base \in VStack
      BY DEF StackResident
    <3>3. CASE r = p
      BY <3>2, <3>3, <2>3, <2>4, <2>8, <1>3
    <3>4. CASE r # p
      BY <3>1, <3>2, <3>4, <2>4, <2>8 DEF IInv, StackResident
    <3> QED BY <3>3, <3>4
  <2>11. ProcInv'
    <3>1. held[p] = {} /\ req[p] = 0 /\ currpid # p
      BY <1>1 DEF IInv, ProcInv, TypeOK
    <3> QED BY <1>1, <1>3, <2>8, <3>1 DEF IInv, ProcInv, BlockPages
  <2>12. NoLeak'
    <3>1. \A q \in Pages : Live(q) => q # k /\ pt'[q] = pt[q]
      BY <2>4, <2>5
    <3>2. SwapReached'
      BY <1>3, <3>1 DEF IInv, NoLeak, SwapReached, Live, maps
    <3>3. StackReached'
      BY <1>3, <2>1, <2>3, <2>4, <3>1 DEF IInv, NoLeak, StackReached, Live
    <3>4. TablesReached'
      <4>1. \A r \in Procs : tbl[r] \in Tables => r # p
        BY <1>1, VirtMemAssumption
      <4> QED BY <1>3, <2>8, <4>1 DEF IInv, NoLeak, TablesReached
    <3> QED BY <3>2, <3>3, <3>4 DEF NoLeak
  <2> QED BY <1>1, <1>3, <2>6, <2>7, <2>9, <2>10, <2>11, <2>12 DEF IInv
<1> QED BY <1>2, <1>3 DEF vcreate

-----------------------------------------------------------------------------
\* An access without a fault changes at most a dirty bit.
LEMMA HitInv ==
  ASSUME IInv, InUser, NEW v \in VPages, Read(v) \/ Write(v)
  PROVE  IInv' /\ halted' # "assertion"
<1> DEFINE q == Cur(v)
           t == Translation(v)
<1>1. q \in Pages /\ currpid \in Procs /\ TypeOK /\ MapsConsistent /\ halted = "no"
  BY DEF IInv, ProcInv, TypeOK, InUser, Running, Cur, Pages
<1>2. t \in [v : VPages, base : 0 .. (F + S + VS), dirty : BOOLEAN]
  <2>1. pt[q].base \in 0 .. (F + S + VS) /\ pt[q].dirty \in BOOLEAN
    BY <1>1 DEF TypeOK, PTE
  <2>2. CASE Cached(v)
    BY <1>1, <2>2 DEF TypeOK, Translation
  <2>3. CASE ~ Cached(v)
    BY <2>1, <2>3 DEF Translation
  <2> QED BY <2>2, <2>3
<1>3. /\ pt' \in [Pages -> PTE] /\ SameFrames({})
      /\ mem' \in [Frames -> Pages \union {Junk}] /\ written' \subseteq Pages
      /\ tlb' \in [v : VPages, base : 0 .. (F + S + VS), dirty : BOOLEAN]
      /\ UNCHANGED <<maps, lists, account, tbl, currpid, halted, held>>
  <2>1. CASE Read(v)
    BY <1>1, <1>2, <2>1 DEF Read, SameFrames, TypeOK
  <2>2. CASE Write(v)
    <3>1. pt' = pt \/ pt' = [pt EXCEPT ![q].dirty = TRUE]
      BY <2>2 DEF Write
    <3>2. pt' \in [Pages -> PTE] /\ SameFrames({})
      <4>1. CASE pt' = pt
        BY <1>1, <4>1 DEF SameFrames, TypeOK
      <4>2. CASE pt' = [pt EXCEPT ![q].dirty = TRUE]
        <5>1. pt[q] \in PTE /\ pt \in [Pages -> PTE]
          BY <1>1 DEF TypeOK
        <5>2. [pt[q] EXCEPT !.dirty = TRUE] \in PTE
          BY <5>1 DEF PTE
        <5> QED BY <1>1, <4>2, <5>1, <5>2 DEF SameFrames, PTE
      <4> QED BY <3>1, <4>1, <4>2
    <3>3. mem' \in [Frames -> Pages \union {Junk}] /\ written' \subseteq Pages
      BY <1>1, <2>2 DEF Write, TypeOK
    <3>4. tlb' = [t EXCEPT !.dirty = TRUE]
      BY <2>2 DEF Write
    <3>5. tlb' \in [v : VPages, base : 0 .. (F + S + VS), dirty : BOOLEAN]
      BY <3>4, <1>2
    <3> QED BY <2>2, <3>2, <3>3, <3>5 DEF Write
  <2> QED BY <2>1, <2>2
<1>4. MapsConsistent' /\ NoLeak' /\ \A r \in Pages : Live(r)' <=> Live(r)
  BY <1>1, <1>3, SameFramesMaps DEF lists, IInv, NoLeak, TablesReached
<1>5. TypeOK'
  BY <1>1, <1>3 DEF TypeOK, maps, lists, account
<1>6. TableInv'
  BY <1>3, <1>4 DEF IInv, TableInv, lists, account
<1>7. StackResident'
  <2>1. \A p \in Procs : tbl[p] # NULL => <<tbl[p], 0>> \in Pages
    BY <1>1, VirtMemAssumption DEF TypeOK, Pages, VPages
  <2> QED BY <1>3, <2>1 DEF IInv, StackResident, SameFrames
<1>8. ProcInv'
  BY <1>3 DEF IInv, ProcInv, account
<1> QED BY <1>1, <1>3, <1>4, <1>5, <1>6, <1>7, <1>8 DEF IInv

\* What a process owns lies below its vmax.
LEMMA OwnedBelow ==
  ASSUME IInv, InUser, NEW v \in Owned(currpid)
  PROVE  v \in VPages /\ v < vmax[currpid]
<1>1. currpid \in Procs /\ tbl[currpid] # NULL /\ vmax[currpid] > 0
  BY DEF IInv, ProcInv, TableInv, InUser
<1>2. CASE v = 0
  BY <1>1, <1>2, VirtMemAssumption DEF VPages
<1>3. CASE \E b \in held[currpid] : v \in BlockPages(b)
  BY <1>1, <1>3 DEF IInv, ProcInv, BlockPages
<1> QED BY <1>2, <1>3 DEF Owned

\* The check of vmalloc, which promises a request that fits the process quota.
LEMMA VmallocInv ==
  ASSUME IInv, NEW nbytes \in Sizes, vmalloc(nbytes)
  PROVE  IInv' /\ halted' # "assertion"
<1>1. /\ currpid \in Procs /\ halted = "no" /\ tbl[currpid] # NULL
      /\ ceil_div(nbytes, PAGE_SIZE) <= vfree[currpid] /\ nbytes \in Nat
      /\ req' = [req EXCEPT ![currpid] = nbytes]
      /\ UNCHANGED <<pt, maps, lists, n_free_vpages, hsize, vfree, vmax, created,
                     tbl, currpid, tlb, mem, halted, held, written>>
  BY VirtMemAssumption DEF IInv, ProcInv, vmalloc, InUser, Running
<1>2. TypeOK'
  BY <1>1 DEF IInv, TypeOK, maps, lists
<1>3. MapsConsistent' /\ NoLeak'
  <2>1. SameFrames({})
    BY <1>1 DEF SameFrames
  <2> QED BY <1>1, <2>1, SameFramesMaps DEF IInv, lists, NoLeak, TablesReached
<1>4. TableInv' /\ StackResident'
  BY <1>1 DEF IInv, TableInv, StackResident, Live, lists
<1>5. ProcInv'
  <2>1. \A p \in Procs : req'[p] = IF p = currpid THEN nbytes ELSE req[p]
    BY <1>1 DEF IInv, TypeOK
  <2> QED BY <1>1, <2>1 DEF IInv, ProcInv, BlockPages
<1> QED BY <1>1, <1>2, <1>3, <1>4, <1>5 DEF IInv

\* A context switch runs a process that exists.
LEMMA ReschedInv ==
  ASSUME IInv, NEW p \in Procs \union {NULLPROC}, resched(p)
  PROVE  IInv' /\ halted' # "assertion"
<1>1. /\ halted = "no" /\ (p \in Procs => tbl[p] # NULL) /\ currpid' = p /\ tlb' = Flushed
      /\ UNCHANGED <<pt, maps, lists, account, tbl, mem, halted, held, written>>
  BY DEF resched, Running
<1>2. TypeOK'
  BY <1>1, FlushedType DEF IInv, TypeOK, maps, lists, account
<1>3. MapsConsistent' /\ NoLeak'
  <2>1. SameFrames({})
    BY <1>1 DEF SameFrames
  <2> QED BY <1>1, <2>1, SameFramesMaps DEF IInv, lists, NoLeak, TablesReached
<1>4. TableInv' /\ StackResident' /\ ProcInv'
  BY <1>1 DEF IInv, TableInv, StackResident, ProcInv, Live, lists, account, BlockPages
<1> QED BY <1>1, <1>2, <1>3, <1>4 DEF IInv

\* The boot state: every frame is free and no page table entry is set.
LEMMA InitInv ==
  ASSUME Init
  PROVE  IInv /\ halted # "assertion"
<1>1. ZeroPTE \in PTE /\ ~ ZeroPTE.pres /\ ~ ZeroPTE.isswapped /\ ~ ZeroPTE.already_swapped
  BY VirtMemAssumption DEF ZeroPTE, PTE
<1>2. \A q \in Pages : pt[q] = ZeroPTE
  BY DEF Init
<1>3. TypeOK
  <2>1. pt \in [Pages -> PTE]
    BY <1>1 DEF Init
  <2>2. n_free_vpages \in 0 .. (UINT - 1)
    BY VirtMemAssumption DEF Init
  <2> QED BY <2>1, <2>2, FlushedType, VirtMemAssumption DEF Init, TypeOK, Junk
<1>4. MapsConsistent
  BY <1>1, <1>2 DEF Init, MapsConsistent, FfsInv, SwapInv, PageInv, NoSharing, Live
<1>5. TableInv /\ StackResident /\ ProcInv
  BY <1>1, <1>2, VirtMemAssumption DEF Init, TableInv, StackResident, ProcInv, Live
<1>6. NoLeak
  BY DEF Init, NoLeak, SwapReached, StackReached, TablesReached
<1> QED BY <1>3, <1>4, <1>5, <1>6 DEF Init, IInv

\* Every step of the system keeps the inductive invariant.
LEMMA NextInv ==
  ASSUME NoWrap, IInv, halted # "assertion", [Next]_vars
  PROVE  IInv' /\ halted' # "assertion"
<1>1. CASE UNCHANGED vars
  BY <1>1 DEF vars, IInv, maps, lists, account, TypeOK, MapsConsistent, FfsInv, SwapInv,
              PageInv, NoSharing, NoLeak, SwapReached, StackReached, TablesReached, TableInv,
              StackResident, ProcInv, Live, BlockPages
<1>2. ASSUME NEW p \in Procs, vcreate(p) PROVE IInv' /\ halted' # "assertion"
  BY <1>2, CreateInv
<1>3. ASSUME NEW p \in Procs, kill(p) PROVE IInv' /\ halted' # "assertion"
  BY <1>3, KillInv
<1>4. ASSUME NEW p \in Procs \union {NULLPROC}, resched(p) PROVE IInv' /\ halted' # "assertion"
  BY <1>4, ReschedInv
<1>5. ASSUME NEW nbytes \in Sizes, vmalloc(nbytes) PROVE IInv' /\ halted' # "assertion"
  BY <1>5, VmallocInv
<1>6. CASE kernel_service_malloc
  BY <1>6, MallocInv
<1>7. CASE VFree
  BY <1>7, VFreeInv DEF VFree
<1>8. CASE OwnAccess
  <2>1. PICK v \in Owned(currpid) : InUser /\ Access(v)
    BY <1>8 DEF OwnAccess
  <2>2. v \in VPages /\ v < vmax[currpid]
    BY <2>1, OwnedBelow
  <2> QED BY <2>1, <2>2, HitInv, HandlerInv DEF Access
<1> QED BY <1>1, <1>2, <1>3, <1>4, <1>5, <1>6, <1>7, <1>8 DEF Next, Halted, Idle

-----------------------------------------------------------------------------
\* The page fault handler leaves the machine halted, or has found a frame for
\* the page: every other page keeps what it had, in memory or in swap, and no
\* page moves to a stack frame.
LEMMA HandlerPages ==
  ASSUME TypeOK, MapsConsistent, NEW v \in VPages, Cur(v) \in Pages, pagefault_handler(v)
  PROVE  \/ \E why \in {"assertion", "SEGMENTATION FAULT", "Out of swappable memory"} :
              /\ Halt(why)
              /\ why = "SEGMENTATION FAULT" => ~ InUse(Cur(v))
              /\ why = "Out of swappable memory" => MemoryStuck /\ ~ Live(Cur(v))
         \/ /\ UNCHANGED <<pdptlist, account, tbl, currpid, halted, held, written>>
            /\ \A r \in Pages : /\ Live(r)' => Live(r) \/ r = Cur(v)
                                /\ InUse(r)' <=> InUse(r)
                                /\ pt'[r].pres /\ pt'[r].base \in VStack => pt[r].pres /\ pt[r].base \in VStack
<1> DEFINE q == Cur(v)
           Kept == /\ UNCHANGED <<pdptlist, account, tbl, currpid, halted, held, written>>
                   /\ \A r \in Pages : /\ Live(r)' => Live(r) \/ r = q
                                       /\ InUse(r)' <=> InUse(r)
                                       /\ pt'[r].pres /\ pt'[r].base \in VStack => pt[r].pres /\ pt[r].base \in VStack
<1>1. q \in Pages /\ ~ pt[q].pres /\ pt[q] \in PTE /\ pt \in [Pages -> PTE]
  BY DEF pagefault_handler, Mapped, TypeOK
<1>2. CASE ~ pt[q].isvmalloc /\ ~ pt[q].isswapped /\ Halt("SEGMENTATION FAULT")
  BY <1>1, <1>2 DEF InUse, Live
<1>3. ASSUME NEW f \in FFS, FaultingIn(q, f) PROVE Halt("assertion") \/ Kept
  <2>1. CASE /\ pt' = [pt EXCEPT ![q] = BroughtIn(@, f)]
             /\ UNCHANGED <<pdptlist, account, tbl, currpid, halted, held, written>>
    <3>1. /\ pt'[q].pres /\ pt'[q].base = f /\ \A r \in Pages : r # q => pt'[r] = pt[r]
      BY <1>1, <2>1 DEF BroughtIn, PTE
    <3>2. InUse(q) /\ f \notin VStack
      BY <1>1, <1>3, Regions DEF FaultingIn, InUse, Live, PTE
    <3> QED BY <2>1, <3>1, <3>2 DEF InUse, Live
  <2> QED BY <1>3, <2>1 DEF FaultingIn, FaultIn
<1>4. ASSUME NEW f \in FFS, NEW s \in Swap, NEW c \in Pages \union {NULL}, Exchanging(q, f, s, c)
      PROVE  Kept
  <2> DEFINE w == ptmap[f]
  <2>1. ExchangeEffect(q, f, s, c)
    BY <1>1, <1>4, ExchangeDoes
  <2>2. /\ w \in Pages /\ w # q /\ pt[w].pres /\ pt[w] \in PTE
        /\ c # NULL => c \in Pages /\ c # q /\ c # w /\ pt[c].pres /\ pt[c] \in PTE
        /\ \A r \in Pages : pt'[r] = IF r = q THEN BroughtIn(pt[q], f)
                                     ELSE IF r = w THEN Evicted(pt[w], s)
                                     ELSE IF r = c THEN Collected(pt[c])
                                     ELSE pt[r]
    BY <2>1 DEF ExchangeEffect
  <2>3. f \in 0 .. (F + S + VS) /\ s \in 0 .. (F + S + VS) /\ f \notin VStack
    BY Regions
  <2>4. InUse(q) /\ UNCHANGED <<pdptlist, account, tbl, currpid, halted, held, written>>
    <3>1. InUse(q)
      BY <1>1, <1>4 DEF Exchanging, InUse, Live, PTE
    <3> QED BY <1>4, <3>1 DEF Exchanging, Exchange
  <2>5. pt'[q].pres /\ pt'[q].base = f
    BY <1>1, <2>2, <2>3, BroughtInOps
  <2>6. pt'[w].isswapped /\ ~ pt'[w].pres
    BY <2>2, <2>3, EvictedOps
  <2>7. c # NULL => pt'[c].pres /\ pt'[c].base = pt[c].base
    BY <2>2, CollectedOps
  <2>8. \A r \in Pages : r # q /\ r # w /\ r # c => pt'[r] = pt[r]
    BY <2>2
  <2> SUFFICES ASSUME NEW r \in Pages
               PROVE  /\ Live(r)' => Live(r) \/ r = q
                      /\ InUse(r)' <=> InUse(r)
                      /\ pt'[r].pres /\ pt'[r].base \in VStack => pt[r].pres /\ pt[r].base \in VStack
    BY <2>4
  <2>9. CASE r = q
    BY <2>3, <2>4, <2>5, <2>9 DEF InUse, Live
  <2>10. CASE r = w
    BY <2>2, <2>6, <2>10 DEF InUse, Live
  <2>11. CASE r = c /\ c # NULL
    BY <2>2, <2>7, <2>11 DEF InUse, Live
  <2>12. CASE r # q /\ r # w /\ r # c
    BY <2>8, <2>12 DEF InUse, Live
  <2> QED BY <2>9, <2>10, <2>11, <2>12, VirtMemAssumption
<1>5. ASSUME NEW f \in FFS, InPlaceExchange(q, f) PROVE Kept
  <2> DEFINE w == ptmap[f]
             s == pt[q].base
  <2>1. w \in Pages /\ pt[w].pres /\ w # q /\ pt[q].isswapped
    BY <1>1, <1>5 DEF InPlaceExchange, TypeOK, MapsConsistent, FfsInv
  <2>2. /\ pt' = [pt EXCEPT ![w] = Evicted(@, s), ![q] = InPlace(@, f)]
        /\ UNCHANGED <<lists, account, tbl, currpid, halted, held, written>>
    BY <1>5 DEF InPlaceExchange
  <2>3. Collected(pt[q]) \in PTE
    BY <1>1, CollectedOps
  <2>4. pt'[q].pres /\ pt'[q].base = f /\ f \notin VStack
    BY <1>1, <2>1, <2>2, <2>3, Regions DEF BroughtIn, InPlace, PTE
  <2>5. /\ pt'[w].isswapped /\ ~ pt'[w].pres
        /\ \A r \in Pages : r # q /\ r # w => pt'[r] = pt[r]
    BY <1>1, <2>1, <2>2 DEF Evicted, PTE
  <2> QED BY <2>1, <2>2, <2>4, <2>5 DEF InUse, Live, lists
<1>6. CASE Halt("Out of swappable memory") /\ MemoryStuck /\ ~ pt[q].isswapped
  BY <1>1, <1>6 DEF Live
<1> QED BY <1>1, <1>2, <1>3, <1>4, <1>5, <1>6, HandlerCases

-----------------------------------------------------------------------------
(***************************************************************************)
(* Wild pointers.  As long as no process has died, no page table was used  *)
(* before, and what an access may fault in lies below the vmax of a        *)
(* process.                                                                *)
(***************************************************************************)

\* A wild pointer of the running process: it hits a page that is resident, or
\* the handler brings in a page that is in use, or the machine halts.
LEMMA StrayInv ==
  ASSUME IInv, ReuseInv, NoTableReused, StrayAccess
  PROVE  IInv' /\ halted' # "assertion"
<1>1. PICK v \in VPages \ Owned(currpid) : InUser /\ Access(v)
  BY DEF StrayAccess
<1>2. /\ currpid \in Procs /\ tbl[currpid] # NULL /\ Cur(v) \in Pages /\ v \in VPages
      /\ TypeOK /\ MapsConsistent /\ TableInv
  BY <1>1 DEF IInv, ProcInv, TypeOK, InUser, Cur, Pages
<1>3. CASE Read(v) \/ Write(v)
  BY <1>1, <1>2, <1>3, HitInv
<1>4. CASE pagefault_handler(v) /\ InUse(Cur(v))
  <2>1. PICK p \in Procs : tbl[p] = tbl[currpid] /\ v < vmax[p]
    BY <1>2, <1>4 DEF ReuseInv, Cur
  <2>2. p = currpid
    BY <1>2, <2>1 DEF TableInv
  <2> QED BY <1>1, <1>2, <1>4, <2>1, <2>2, HandlerInv
<1>5. CASE pagefault_handler(v) /\ ~ InUse(Cur(v))
  <2>1. Halt("SEGMENTATION FAULT")
    <3>1. pt[Cur(v)] \in PTE
      BY <1>2 DEF TypeOK
    <3> QED BY <1>5, <3>1 DEF pagefault_handler, InUse, Live, PTE
  <2>2. IInv'
    BY <2>1, HaltInv DEF Reasons
  <2> QED BY <2>1, <2>2 DEF Halt
<1> QED BY <1>1, <1>3, <1>4, <1>5 DEF Access

\* Steps that create and kill nobody, and mark no page that is not below vmax.
LEMMA SameTables ==
  ASSUME ReuseInv, TypeOK, UNCHANGED <<tbl, created>>,
         \A p \in Procs : vmax'[p] \in Nat /\ vmax[p] <= vmax'[p],
         \A q \in Pages : InUse(q)' => \/ InUse(q)
                                       \/ \E p \in Procs : tbl[p] = q[1] /\ q[2] < vmax'[p]
  PROVE  ReuseInv'
<1>1. Alive' = Alive /\ (NoTableReused' <=> NoTableReused)
  BY DEF Alive, NoTableReused
<1>2. ASSUME NoTableReused, NEW q \in Pages, InUse(q)'
      PROVE  \E p \in Procs : tbl[p] = q[1] /\ q[2] < vmax'[p]
  <2>1. CASE InUse(q)
    <3>1. PICK p \in Procs : tbl[p] = q[1] /\ q[2] < vmax[p]
      BY <1>2, <2>1 DEF ReuseInv
    <3>2. q[2] \in Nat /\ vmax[p] \in Nat /\ vmax'[p] \in Nat /\ vmax[p] <= vmax'[p]
      BY VirtMemAssumption DEF Pages, VPages, TypeOK
    <3> QED BY <3>1, <3>2
  <2> QED BY <1>2, <2>1
<1> QED BY <1>1, <1>2 DEF ReuseInv

\* Steps that leave page table entries and sizes alone.
LEMMA SameMarks ==
  ASSUME ReuseInv, TypeOK, UNCHANGED <<pt, tbl, vmax, created>>
  PROVE  ReuseInv'
<1>1. \A q \in Pages : InUse(q)' => InUse(q)
  BY DEF InUse, Live
<1>2. \A p \in Procs : vmax'[p] \in Nat /\ vmax[p] <= vmax'[p]
  BY DEF TypeOK
<1> QED BY <1>1, <1>2, SameTables

\* vcreate takes a table that no process had before, or has left nothing in.
LEMMA CreateReuse ==
  ASSUME IInv, ReuseInv, NEW p \in Procs, vcreate(p)
  PROVE  ReuseInv' /\ (NoTableReused' => NoTableReused)
<1>1. TypeOK /\ TableInv /\ tbl[p] = NULL
  BY DEF IInv, vcreate
<1>2. CASE Halt("Out of pdpt memory") \/ Halt("Out of virtual stack memory")
  BY <1>1, <1>2, SameMarks DEF Halt, account, NoTableReused
<1>3. ASSUME NEW t \in Tables, NEW f \in VStack, Lowest(t, pdptlist),
             tbl' = [tbl EXCEPT ![p] = t],
             pt' = [CreateTable(t) EXCEPT ![<<t, 0>>] = StackPTE(f)],
             vmax' = [vmax EXCEPT ![p] = 1],
             created' = created + 1
      PROVE  ReuseInv' /\ (NoTableReused' => NoTableReused)
  <2>1. /\ tbl'[p] = t /\ vmax'[p] = 1 /\ t # NULL
        /\ \A r \in Procs : r # p => tbl'[r] = tbl[r] /\ vmax'[r] = vmax[r]
    BY <1>1, <1>3, VirtMemAssumption DEF TypeOK
  <2>2. Alive' = Alive \union {p} /\ p \notin Alive
    BY <1>1, <2>1 DEF Alive
  <2>3. IsFiniteSet(Alive') /\ Cardinality(Alive') = Cardinality(Alive) + 1
    BY <2>2, FS_AddElement DEF ReuseInv
  <2>4. Cardinality(Alive) \in Nat /\ Cardinality(Alive) <= created /\ created \in Nat
    BY <1>1, FS_CardinalityType DEF ReuseInv, TypeOK
  <2>5. Cardinality(Alive') <= created' /\ (NoTableReused' => NoTableReused)
    <3>1. NoTableReused' <=> created' = Cardinality(Alive')
      BY DEF NoTableReused, Alive
    <3>2. NoTableReused <=> created = Cardinality(Alive)
      BY DEF NoTableReused, Alive
    <3> QED BY <1>3, <2>3, <2>4, <3>1, <3>2
  <2>6. ASSUME NoTableReused, NEW q \in Pages, InUse(q)'
        PROVE  \E r \in Procs : tbl'[r] = q[1] /\ q[2] < vmax'[r]
    <3>1. CASE q = <<t, 0>>
      BY <2>1, <3>1
    <3>2. CASE q # <<t, 0>>
      <4>1. InUse(q)
        BY <1>1, <1>3, <2>6, <3>2 DEF TypeOK, CreateTable, InUse, Live
      <4>2. PICK r \in Procs : tbl[r] = q[1] /\ q[2] < vmax[r]
        BY <2>6, <4>1 DEF ReuseInv
      <4>3. r # p
        BY <1>1, <4>2, VirtMemAssumption DEF Pages
      <4> QED BY <2>1, <4>2, <4>3
    <3> QED BY <3>1, <3>2
  <2> QED BY <2>3, <2>5, <2>6 DEF ReuseInv
<1> QED BY <1>2, <1>3 DEF vcreate

\* After kill a page table may be used again.
LEMMA KillReuse ==
  ASSUME IInv, ReuseInv, NEW p \in Procs, kill(p)
  PROVE  ReuseInv' /\ (NoTableReused' => UNCHANGED <<pt, tbl, held, created>>)
<1>1. TypeOK /\ tbl[p] # NULL
  BY DEF IInv, kill
<1>2. CASE Halt("assertion") \/ Halt("Illegal value of n_free_vpages")
  BY <1>1, <1>2, SameMarks DEF Halt, account
<1>3. CASE tbl' = [tbl EXCEPT ![p] = NULL] /\ created' = created
  <2>1. tbl'[p] = NULL /\ \A r \in Procs : r # p => tbl'[r] = tbl[r]
    BY <1>1, <1>3 DEF TypeOK
  <2>2. Alive' = Alive \ {p} /\ p \in Alive
    BY <1>1, <2>1 DEF Alive
  <2>3. IsFiniteSet(Alive') /\ Cardinality(Alive') = Cardinality(Alive) - 1
    BY <2>2, FS_RemoveElement DEF ReuseInv
  <2>4. Cardinality(Alive) \in Nat /\ Cardinality(Alive) <= created /\ created \in Nat
    BY <1>1, FS_CardinalityType DEF ReuseInv, TypeOK
  <2>5. Cardinality(Alive') <= created' /\ created' # Cardinality(Alive')
    BY <1>3, <2>3, <2>4
  <2>6. ~ NoTableReused'
    BY <2>5 DEF NoTableReused, Alive
  <2> QED BY <2>3, <2>5, <2>6 DEF ReuseInv
<1> QED BY <1>2, <1>3 DEF kill

\* The service of vmalloc marks pages below the new vmax.
LEMMA MallocReuse ==
  ASSUME NoWrap, IInv, ReuseInv, NEW p \in Procs, p = currpid, kernel_service_malloc
  PROVE  ReuseInv'
<1> DEFINE n == ceil_div(req[p], PAGE_SIZE)
           new == {Cur(v) : v \in {w \in VPages : vmax[p] <= w /\ w < vmax[p] + n}}
<1>1. TypeOK /\ req[p] \in Nat /\ req[p] \in Sizes /\ vmax[p] \in Nat
  BY DEF IInv, ProcInv, TypeOK, kernel_service_malloc
<1>2. n \in Nat
  BY <1>1, CeilDiv, VirtMemAssumption DEF NoWrap
<1>3. CASE Halt("assertion")
  BY <1>1, <1>3, SameMarks DEF Halt, account
<1>4. CASE /\ pt' = [q \in Pages |-> IF q \in new THEN HeapPTE ELSE pt[q]]
           /\ vmax' = [vmax EXCEPT ![p] = @ + n]
           /\ UNCHANGED <<created, tbl>>
  <2>1. vmax'[p] = vmax[p] + n /\ \A r \in Procs : r # p => vmax'[r] = vmax[r]
    BY <1>1, <1>4 DEF TypeOK
  <2>2. \A r \in Procs : vmax'[r] \in Nat /\ vmax[r] <= vmax'[r]
    BY <1>1, <1>2, <2>1 DEF TypeOK
  <2>3. ASSUME NEW q \in Pages, InUse(q)'
        PROVE  InUse(q) \/ \E r \in Procs : tbl[r] = q[1] /\ q[2] < vmax'[r]
    <3>1. CASE q \in new
      BY <1>4, <2>1, <3>1 DEF Cur
    <3>2. CASE q \notin new
      BY <1>4, <2>3, <3>2 DEF InUse, Live
    <3> QED BY <3>1, <3>2
  <2> QED BY <1>1, <1>4, <2>2, <2>3, SameTables
<1> QED BY <1>3, <1>4 DEF kernel_service_malloc

\* vfree only takes pages away.
LEMMA FreeReuse ==
  ASSUME IInv, ReuseInv, NEW b \in held[currpid], InUser, kernel_service_free(b)
  PROVE  ReuseInv'
<1> DEFINE P == {Cur(v) : v \in FreedPages(b)}
<1>1. TypeOK
  BY DEF IInv
<1>2. CASE Halt("assertion") \/ Halt("Illegal value of n_free_vpages")
  BY <1>1, <1>2, SameMarks DEF Halt, account
<1>3. CASE /\ pt' = [q \in Pages |-> IF q \in P THEN ZeroPTE ELSE pt[q]]
           /\ UNCHANGED <<tbl, vmax, created>>
  <2>1. \A q \in Pages : InUse(q)' => InUse(q)
    BY <1>3 DEF InUse, Live, ZeroPTE
  <2>2. \A p \in Procs : vmax'[p] \in Nat /\ vmax[p] <= vmax'[p]
    BY <1>1, <1>3 DEF TypeOK
  <2> QED BY <1>1, <1>3, <2>1, <2>2, SameTables
<1> QED BY <1>2, <1>3 DEF kernel_service_free, FreeVPages

\* An access puts no page into use, and brings in no page but its own.
LEMMA AccessMarks ==
  ASSUME IInv, InUser, NEW v \in VPages, Access(v)
  PROVE  /\ UNCHANGED <<tbl, account, held>>
         /\ \A q \in Pages : /\ Live(q)' => Live(q) \/ q = Cur(v)
                             /\ InUse(q)' <=> InUse(q)
<1>1. Cur(v) \in Pages /\ TypeOK /\ MapsConsistent
  BY DEF IInv, ProcInv, TypeOK, InUser, Cur, Pages
<1>2. CASE pagefault_handler(v)
  <2>1. CASE \E why \in {"assertion", "SEGMENTATION FAULT", "Out of swappable memory"} : Halt(why)
    BY <2>1 DEF Halt, InUse, Live
  <2> QED BY <1>1, <1>2, <2>1, HandlerPages
<1>3. CASE Read(v) \/ Write(v)
  <2>1. UNCHANGED <<account, tbl, held>> /\ (pt' = pt \/ pt' = [pt EXCEPT ![Cur(v)].dirty = TRUE])
    BY <1>3 DEF Read, Write
  <2>2. CASE pt' = pt
    BY <2>1, <2>2 DEF InUse, Live
  <2>3. CASE pt' = [pt EXCEPT ![Cur(v)].dirty = TRUE]
    <3>1. /\ pt'[Cur(v)] = [pt[Cur(v)] EXCEPT !.dirty = TRUE] /\ pt[Cur(v)] \in PTE
          /\ \A r \in Pages : r # Cur(v) => pt'[r] = pt[r]
      BY <1>1, <2>3 DEF TypeOK
    <3> QED BY <2>1, <3>1 DEF InUse, Live, PTE
  <2> QED BY <2>1, <2>2, <2>3
<1> QED BY <1>2, <1>3 DEF Access

\* So it keeps what is in use below the vmax of its process.
LEMMA AccessReuse ==
  ASSUME IInv, ReuseInv, InUser, NEW v \in VPages, Access(v)
  PROVE  ReuseInv'
<1>1. TypeOK
  BY DEF IInv
<1>2. UNCHANGED <<tbl, account>> /\ \A q \in Pages : InUse(q)' => InUse(q)
  BY AccessMarks
<1>3. \A p \in Procs : vmax'[p] \in Nat /\ vmax[p] <= vmax'[p]
  BY <1>1, <1>2 DEF TypeOK, account
<1> QED BY <1>1, <1>2, <1>3, SameTables DEF account

\* Every step, wild accesses included, keeps what ReuseInv says.
LEMMA NextReuse ==
  ASSUME NoWrap, IInv, ReuseInv, [AnyNext]_vars
  PROVE  ReuseInv'
<1>1. TypeOK
  BY DEF IInv
<1>2. CASE UNCHANGED vars
  BY <1>1, <1>2, SameMarks DEF vars, account
<1>3. ASSUME NEW p \in Procs \union {NULLPROC}, resched(p) PROVE ReuseInv'
  BY <1>1, <1>3, SameMarks DEF resched, account
<1>4. ASSUME NEW nbytes \in Sizes, vmalloc(nbytes) PROVE ReuseInv'
  BY <1>1, <1>4, SameMarks DEF vmalloc
<1>5. CASE kernel_service_malloc
  <2>1. currpid \in Procs
    BY <1>5 DEF kernel_service_malloc
  <2> QED BY <1>5, <2>1, MallocReuse
<1>6. CASE VFree
  BY <1>6, FreeReuse DEF VFree
<1>7. CASE OwnAccess
  BY <1>7, OwnedBelow, AccessReuse DEF OwnAccess
<1>8. CASE StrayAccess
  BY <1>8, AccessReuse DEF StrayAccess
<1> QED BY <1>2, <1>3, <1>4, <1>5, <1>6, <1>7, <1>8, CreateReuse, KillReuse
        DEF AnyNext, Next, Halted, Idle

\* Programs without wild pointers are among those that may have them, so that
\* what is proved of StraySpec holds of Spec (OwnAccess, StrayAccess).
THEOREM StraysIncluded == Spec => StraySpec
<1>1. [Next]_vars => [Next \/ (NoTableReused /\ StrayAccess)]_vars
  OBVIOUS
<1> QED BY <1>1, PTL DEF Spec, StraySpec

\* The inductive invariant holds in every reachable state of a system whose
\* requests do not make ceil_div wrap around, also when its programs have wild
\* pointers (pagefault_handler, vmalloc, vfree, vcreate, kill).
THEOREM Inductive ==
  ASSUME NoWrap
  PROVE  StraySpec => [](IInv /\ ReuseInv /\ halted # "assertion")
<1> DEFINE I == IInv /\ ReuseInv /\ halted # "assertion"
<1>1. Init => I
  <2>1. SUFFICES ASSUME Init PROVE I
    OBVIOUS
  <2>2. Alive = {} /\ created = 0 /\ \A q \in Pages : ~ InUse(q)
    BY <2>1 DEF Init, Alive, InUse, Live, ZeroPTE
  <2>3. ReuseInv
    BY <2>2, FS_EmptySet DEF ReuseInv
  <2> QED BY <2>1, <2>3, InitInv
<1>2. I /\ [Next \/ (NoTableReused /\ StrayAccess)]_vars => I'
  <2>1. SUFFICES ASSUME I, [AnyNext]_vars PROVE I'
    BY DEF AnyNext
  <2>2. ReuseInv'
    BY <2>1, NextReuse
  <2>3. IInv' /\ halted' # "assertion"
    BY <2>1, NextInv, StrayInv DEF AnyNext
  <2> QED BY <2>2, <2>3
<1> QED BY <1>1, <1>2, PTL DEF StraySpec

\* Every variable of the paging code keeps its type: in particular no map,
\* list or page table entry ever names a frame outside its region.
THEOREM Typing ==
  ASSUME NoWrap
  PROVE  StraySpec => []TypeOK
<1>1. IInv /\ ReuseInv /\ halted # "assertion" => TypeOK
  BY DEF IInv
<1> QED BY <1>1, Inductive, PTL

\* For any number of processes, frames and pages: faults, evictions, garbage
\* collected and in-place swaps, vfree and kill keep ptmap, ffs2swapmap,
\* swap2ffsmap, the free lists and the page table entries in agreement, and
\* no frame has two owners.
THEOREM FramesConsistent ==
  ASSUME NoWrap
  PROVE  StraySpec => []MapsConsistent
<1>1. IInv /\ ReuseInv /\ halted # "assertion" => MapsConsistent
  BY DEF IInv
<1> QED BY <1>1, Inductive, PTL

\* For any number of processes, frames and pages: every swap frame, stack
\* frame and page table that is not on its free list is reachable from a live
\* page or a process, so that free_vpage and freevmem will return it.
THEOREM FramesReachable ==
  ASSUME NoWrap
  PROVE  StraySpec => []NoLeak
<1>1. IInv /\ ReuseInv /\ halted # "assertion" => NoLeak
  BY DEF IInv
<1> QED BY <1>1, Inductive, PTL

\* Page tables are private, and one that is free describes no frame, so that
\* a process that gets it later cannot reach another's memory through it.
THEOREM TablesPrivate ==
  ASSUME NoWrap
  PROVE  StraySpec => []TableInv
<1>1. IInv /\ ReuseInv /\ halted # "assertion" => TableInv
  BY DEF IInv
<1> QED BY <1>1, Inductive, PTL

\* The stack of a process is never swapped out and never freed under it.
THEOREM StacksResident ==
  ASSUME NoWrap
  PROVE  StraySpec => []StackResident
<1>1. IInv /\ ReuseInv /\ halted # "assertion" => StackResident
  BY DEF IInv
<1> QED BY <1>1, Inductive, PTL

\* None of the ASSERTs of pagefault_handler, free_vpage and
\* kernel_service_malloc about the state of the maps can fire.
THEOREM AssertionsHold ==
  ASSUME NoWrap
  PROVE  StraySpec => []NoAssertionFires
<1>1. IInv /\ ReuseInv /\ halted # "assertion" => NoAssertionFires
  BY DEF NoAssertionFires
<1> QED BY <1>1, Inductive, PTL

-----------------------------------------------------------------------------
(* What VirtMem promises to the processes: no cached translation is stale, *)
(* what a process owns it can reach, what it does not own it cannot, and   *)
(* the memory it sees holds what it wrote last, so that every process sees *)
(* the private memory of AddressSpace.  Then the sizes: the quota counters *)
(* count the heap pages in use, and a machine whose regions are large      *)
(* enough for its quotas neither halts nor loses data.                     *)
(*                                                                         *)
(* Each invariant is added to IInv.  As before, there is one step per      *)
(* action, and programs may have wild pointers (StraySpec).                *)

\* The steps of the running process that the page fault handler serves change
\* what is cached to nothing, unless the machine halts.
LEMMA HandlerFlushes ==
  ASSUME NEW v \in VPages, pagefault_handler(v)
  PROVE  (\E why \in Reasons : Halt(why)) \/ tlb' = Flushed
<1> DEFINE q == Cur(v)
<1>1. ASSUME NEW f \in FFS, NEW s, NEW tables, NEW ftsm, Exchange(q, f, s, tables, ftsm)
      PROVE  tlb' = Flushed
  BY <1>1 DEF Exchange, FlushTLB
<1>2. ASSUME NEW f \in FFS, FaultIn(q, f) PROVE Halt("assertion") \/ tlb' = Flushed
  BY <1>2 DEF FaultIn, FlushTLB
<1>3. ASSUME NEW f \in FFS, \/ EvictToOwn(q, f)
                            \/ \E s \in Swap : EvictToNew(q, f, s)
                            \/ \E s \in Swap : EvictToCollected(q, f, s)
      PROVE  Halt("assertion") \/ tlb' = Flushed
  BY <1>1, <1>3 DEF EvictToOwn, EvictToNew, EvictToCollected
<1>4. ASSUME NEW f \in FFS, EvictInPlace(q, f)
      PROVE  Halt("assertion") \/ Halt("Out of swappable memory") \/ tlb' = Flushed
  BY <1>4 DEF EvictInPlace, FlushTLB
<1> QED BY <1>2, <1>3, <1>4 DEF pagefault_handler, Reasons

\* What a process has cached agrees with its page table after every step.
LEMMA CachedStep ==
  ASSUME IInv, TLBCoherent, [AnyNext]_vars
  PROVE  TLBCoherent'
<1>1. CASE tlb' = Flushed
  BY <1>1 DEF TLBCoherent, Cached, Flushed
<1>2. CASE UNCHANGED <<pt, tbl, currpid, tlb>>
  BY <1>2 DEF TLBCoherent, Cached, Cur
<1>3. ASSUME NEW p \in Procs, vcreate(p) PROVE TLBCoherent'
  <2>1. CASE \E why \in Reasons : Halt(why)
    BY <2>1, <1>2 DEF Halt
  <2>2. CASE UNCHANGED <<currpid, tlb>>
    <3>1. currpid \notin Procs
      BY <1>3, VirtMemAssumption DEF vcreate
    <3> QED BY <2>2, <3>1 DEF TLBCoherent, Cached
  <2> QED BY <1>3, <2>1, <2>2 DEF vcreate, Reasons
<1>4. ASSUME NEW p \in Procs, kill(p) PROVE TLBCoherent'
  <2>1. Halt("assertion") \/ Halt("Illegal value of n_free_vpages") \/ tlb' = Flushed
    BY <1>4 DEF kill
  <2> QED BY <2>1, <1>1, <1>2 DEF Halt
<1>5. ASSUME NEW p \in Procs \union {NULLPROC}, resched(p) PROVE TLBCoherent'
  BY <1>1, <1>5 DEF resched
<1>6. ASSUME NEW nbytes \in Sizes, vmalloc(nbytes) PROVE TLBCoherent'
  BY <1>2, <1>6 DEF vmalloc
<1>7. CASE kernel_service_malloc
  <2>1. Halt("assertion") \/ tlb' = Flushed
    BY <1>7 DEF kernel_service_malloc
  <2> QED BY <2>1, <1>1, <1>2 DEF Halt
<1>8. CASE VFree
  <2>1. Halt("assertion") \/ Halt("Illegal value of n_free_vpages") \/ tlb' = Flushed
    BY <1>8 DEF VFree, kernel_service_free
  <2> QED BY <2>1, <1>1, <1>2 DEF Halt
<1>9. ASSUME InUser, NEW v \in VPages, Access(v) PROVE TLBCoherent'
  <2>1. v \in VPages /\ currpid \in Procs /\ Cur(v) \in Pages /\ pt[Cur(v)] \in PTE
    BY <1>9 DEF IInv, ProcInv, TypeOK, InUser, Cur, Pages
  <2> DEFINE q == Cur(v)
             t == Translation(v)
  <2>2. CASE pagefault_handler(v)
    BY <2>1, <2>2, <1>1, <1>2, HandlerFlushes DEF Halt
  <2>3. Mapped(v) => pt[q].pres /\ pt[q].base = t.base /\ t.v = v /\ (t.dirty => pt[q].dirty)
    BY <2>1 DEF Mapped, Translation, Cached, TLBCoherent
  <2>4. CASE Read(v)
    <3>1. Mapped(v) /\ tlb' = t /\ UNCHANGED <<pt, tbl, currpid>>
      BY <2>4 DEF Read
    <3> QED BY <2>1, <2>3, <3>1 DEF TLBCoherent, Cached, Cur
  <2>5. CASE Write(v)
    <3>1. /\ Mapped(v) /\ tlb' = [t EXCEPT !.dirty = TRUE] /\ UNCHANGED <<tbl, currpid>>
          /\ pt' = IF t.dirty THEN pt ELSE [pt EXCEPT ![q].dirty = TRUE]
      BY <2>5 DEF Write
    <3>2. tlb'.v = v /\ tlb'.base = t.base
      <4>1. CASE Cached(v)
        BY <3>1, <2>3, <4>1 DEF IInv, TypeOK, Translation
      <4>2. CASE ~ Cached(v)
        BY <3>1, <4>2 DEF Translation
      <4> QED BY <4>1, <4>2
    <3>3. pt'[q].pres /\ pt'[q].base = t.base /\ pt'[q].dirty
      BY <2>1, <2>3, <3>1 DEF IInv, TypeOK, PTE
    <3> QED BY <2>1, <3>1, <3>2, <3>3 DEF TLBCoherent, Cached, Cur
  <2> QED BY <1>9, <2>2, <2>4, <2>5 DEF Access
<1>10. CASE UNCHANGED vars
  BY <1>2, <1>10 DEF vars
<1>11. CASE OwnAccess
  BY <1>9, <1>11, OwnedBelow DEF OwnAccess
<1>12. CASE StrayAccess
  BY <1>9, <1>12 DEF StrayAccess
<1> QED BY <1>3, <1>4, <1>5, <1>6, <1>7, <1>8, <1>10, <1>11, <1>12 DEF AnyNext, Next, Halted, Idle

\* No translation that the processor has cached outlives the page table entry
\* it was loaded from: every change of an entry and every context switch is
\* followed by a flush before the process runs on.
THEOREM NoStaleTranslation ==
  ASSUME NoWrap
  PROVE  StraySpec => []TLBCoherent
<1>1. Init => TLBCoherent
  BY DEF Init, TLBCoherent, Cached, Flushed
<1>2. (IInv /\ ReuseInv /\ halted # "assertion") /\ TLBCoherent
        /\ [Next \/ (NoTableReused /\ StrayAccess)]_vars => TLBCoherent'
  BY CachedStep DEF AnyNext
<1> QED BY <1>1, <1>2, Inductive, PTL DEF StraySpec

-----------------------------------------------------------------------------
\* No address of a page below V, nor the rounding up of one, wraps around.
AddressesFit == (V + 1) * PAGE_SIZE <= UINT

\* No block ends one byte into a page.
NoByteInLastPage == PAGE_SIZE > 1 /\ \A n \in Sizes : n % PAGE_SIZE # 1

\* Multiples of a page size that differ are at least a page apart.
LEMMA Apart ==
  ASSUME NEW v \in Nat, NEW w \in Nat, NEW b \in Nat \ {0}, v < w
  PROVE  v * b + b <= w * b
<1>1. PICK d \in Nat : w = v + 1 + d
  <2>1. w - v - 1 \in Nat /\ w = v + 1 + (w - v - 1)
    OBVIOUS
  <2> QED BY <2>1
<1>2. w * b = v * b + b + d * b
  BY <1>1
<1>3. d * b >= 0
  OBVIOUS
<1> QED BY <1>2, <1>3

\* The remainder of a small number.
LEMMA SmallMod ==
  ASSUME NEW a \in Nat, NEW b \in Nat \ {0}, a < b
  PROVE  a % b = a
<1>1. a \div b \in Int /\ a % b \in 0 .. (b - 1) /\ a = b * (a \div b) + (a % b)
  BY DivNat
<1>2. CASE a \div b >= 1
  <2>1. b * (a \div b) >= b
    <3>1. a \div b \in Nat /\ 0 < a \div b
      BY <1>1, <1>2
    <3>2. 0 * b + b <= (a \div b) * b
      BY <3>1, Apart
    <3> QED BY <3>1, <3>2
  <2> QED BY <1>1, <2>1
<1>3. CASE a \div b <= -1
  <2>1. -(a \div b) \in Nat /\ 0 < -(a \div b)
    BY <1>1, <1>3
  <2>2. 0 * b + b <= (-(a \div b)) * b
    BY <2>1, Apart
  <2>3. b * (a \div b) = -((-(a \div b)) * b)
    BY <1>1
  <2> QED BY <1>1, <2>2, <2>3
<1>4. CASE a \div b = 0
  BY <1>1, <1>4
<1> QED BY <1>1, <1>2, <1>3, <1>4

\* vfree frees no page beyond the block, nor beyond V; and all of the block,
\* unless the block ends one byte into a page.
LEMMA BlockFreed ==
  ASSUME AddressesFit, NEW b \in [page : Nat, nbytes : Nat \ {0}],
         b.page * PAGE_SIZE + b.nbytes <= V * PAGE_SIZE
  PROVE  /\ end_page(b) \in 0 .. V
         /\ FreedPages(b) \subseteq BlockPages(b)
         /\ PAGE_SIZE > 1 /\ b.nbytes % PAGE_SIZE # 1 => BlockPages(b) \subseteq FreedPages(b)
<1> DEFINE A == b.page * PAGE_SIZE + b.nbytes - 1
           e == end_page(b)
<1>1. PAGE_SIZE \in Nat \ {0} /\ UINT \in Nat \ {0} /\ V \in Nat
  BY VirtMemAssumption
<1>2. A \in Nat /\ A + PAGE_SIZE < UINT /\ A < UINT
  <2>1. b.page * PAGE_SIZE \in Nat /\ b.nbytes \in Nat \ {0}
    BY <1>1
  <2>2. (V + 1) * PAGE_SIZE = V * PAGE_SIZE + PAGE_SIZE /\ V * PAGE_SIZE \in Nat
    BY <1>1
  <2> QED BY <1>1, <2>1, <2>2 DEF AddressesFit
<1>3. e = IF A % PAGE_SIZE = 0 THEN A \div PAGE_SIZE ELSE (A + PAGE_SIZE) \div PAGE_SIZE
  <2> HIDE DEF A
  <2>1. A + PAGE_SIZE \in Nat
    BY <1>1, <1>2
  <2>2. A % UINT = A
    BY <1>1, <1>2, SmallMod, Zenon
  <2>3. (A + PAGE_SIZE) % UINT = A + PAGE_SIZE
    BY <1>1, <1>2, <2>1, SmallMod, Zenon
  <2>4. e = ceil_div(A % UINT, PAGE_SIZE)
    BY DEF end_page, A
  <2> QED BY <2>2, <2>3, <2>4 DEF ceil_div
<1> HIDE DEF A
<1>4. /\ A \div PAGE_SIZE \in Nat /\ A % PAGE_SIZE \in 0 .. (PAGE_SIZE - 1)
      /\ A = (A \div PAGE_SIZE) * PAGE_SIZE + (A % PAGE_SIZE)
  <2>0. A \in Int
    BY <1>2
  <2>1. /\ A \div PAGE_SIZE \in Int /\ A % PAGE_SIZE \in 0 .. (PAGE_SIZE - 1)
        /\ A = PAGE_SIZE * (A \div PAGE_SIZE) + (A % PAGE_SIZE)
    BY <1>1, <2>0, DivNat, Zenon
  <2>2. A \div PAGE_SIZE \in Nat
    BY <1>1, <1>2
  <2> QED BY <1>1, <2>1, <2>2
<1>5. /\ (A + PAGE_SIZE) \div PAGE_SIZE \in Nat
      /\ \E r \in 0 .. (PAGE_SIZE - 1) :
           A + PAGE_SIZE = ((A + PAGE_SIZE) \div PAGE_SIZE) * PAGE_SIZE + r
  <2>0. A + PAGE_SIZE \in Int
    BY <1>1, <1>2
  <2>1. /\ (A + PAGE_SIZE) % PAGE_SIZE \in 0 .. (PAGE_SIZE - 1)
        /\ (A + PAGE_SIZE) \div PAGE_SIZE \in Int
        /\ A + PAGE_SIZE = PAGE_SIZE * ((A + PAGE_SIZE) \div PAGE_SIZE) + ((A + PAGE_SIZE) % PAGE_SIZE)
    BY <1>1, <2>0, DivNat, Zenon
  <2>2. (A + PAGE_SIZE) \div PAGE_SIZE \in Nat
    BY <1>1, <1>2
  <2> QED BY <1>1, <2>1, <2>2
<1>6. e \in Nat
  BY <1>3, <1>4, <1>5
<1>7. \A v \in Nat : v < e => v * PAGE_SIZE <= A
  <2>1. SUFFICES ASSUME NEW v \in Nat, v < e PROVE v * PAGE_SIZE <= A
    OBVIOUS
  <2>2. v * PAGE_SIZE + PAGE_SIZE <= e * PAGE_SIZE
    BY <1>1, <1>6, <2>1, Apart
  <2>3. v * PAGE_SIZE \in Nat /\ e * PAGE_SIZE \in Nat
    BY <1>1, <1>6, <2>1
  <2>4. e * PAGE_SIZE <= A + PAGE_SIZE
    <3>1. CASE A % PAGE_SIZE = 0
      BY <1>1, <1>2, <1>3, <1>4, <3>1
    <3>2. CASE A % PAGE_SIZE # 0
      BY <1>1, <1>2, <1>3, <1>5, <3>2
    <3> QED BY <3>1, <3>2
  <2> QED BY <1>1, <1>2, <2>2, <2>3, <2>4
<1>8. A = b.page * PAGE_SIZE + b.nbytes - 1 /\ b.page * PAGE_SIZE \in Nat
  BY <1>1 DEF A
<1>9. FreedPages(b) \subseteq BlockPages(b)
  <2>1. SUFFICES ASSUME NEW v \in VPages, v < e
        PROVE  v * PAGE_SIZE < b.page * PAGE_SIZE + b.nbytes
    BY DEF FreedPages, BlockPages
  <2>2. v * PAGE_SIZE <= A /\ v * PAGE_SIZE \in Nat
    BY <1>1, <1>7, <2>1 DEF VPages
  <2> QED BY <1>2, <1>8, <2>2
<1>10. ASSUME PAGE_SIZE > 1, b.nbytes % PAGE_SIZE # 1 PROVE A % PAGE_SIZE # 0
  <2>1. SUFFICES ASSUME A % PAGE_SIZE = 0 PROVE FALSE
    OBVIOUS
  <2> DEFINE k == A \div PAGE_SIZE
             d == b.nbytes \div PAGE_SIZE
             r == b.nbytes % PAGE_SIZE
  <2>2. k \in Nat /\ A = k * PAGE_SIZE
    BY <1>1, <1>4, <2>1
  <2>3. d \in Int /\ r \in 0 .. (PAGE_SIZE - 1) /\ b.nbytes = PAGE_SIZE * d + r
    <3>1. b.nbytes \in Int
      OBVIOUS
    <3> QED BY <1>1, <3>1, DivNat, Zenon
  <2>4. d \in Nat
    BY <1>1
  <2> HIDE DEF k, d, r
  <2>5. k * PAGE_SIZE + 1 = (b.page + d) * PAGE_SIZE + r
    <3>1. (b.page + d) * PAGE_SIZE = b.page * PAGE_SIZE + PAGE_SIZE * d
      BY <1>1, <2>4
    <3>2. PAGE_SIZE * d \in Nat /\ k * PAGE_SIZE \in Nat
      BY <1>1, <2>2, <2>4
    <3> QED BY <1>1, <1>2, <1>8, <2>2, <2>3, <3>1, <3>2
  <2>6. k * PAGE_SIZE \in Nat /\ (b.page + d) * PAGE_SIZE \in Nat /\ b.page + d \in Nat
    BY <1>1, <2>2, <2>4
  <2>7. CASE k < b.page + d
    <3>1. k * PAGE_SIZE + PAGE_SIZE <= (b.page + d) * PAGE_SIZE
      BY <1>1, <2>2, <2>6, <2>7, Apart
    <3> QED BY <1>1, <1>10, <2>3, <2>5, <2>6, <3>1
  <2>8. CASE b.page + d < k
    <3>1. (b.page + d) * PAGE_SIZE + PAGE_SIZE <= k * PAGE_SIZE
      BY <1>1, <2>2, <2>6, <2>8, Apart
    <3> QED BY <1>1, <1>10, <2>3, <2>5, <2>6, <3>1
  <2>9. CASE k = b.page + d
    BY <1>1, <1>10, <2>3, <2>5, <2>6, <2>9 DEF r
  <2> QED BY <2>2, <2>6, <2>7, <2>8, <2>9
<1>11. ASSUME PAGE_SIZE > 1, b.nbytes % PAGE_SIZE # 1 PROVE BlockPages(b) \subseteq FreedPages(b)
  <2>1. SUFFICES ASSUME NEW v \in VPages, v * PAGE_SIZE < b.page * PAGE_SIZE + b.nbytes
        PROVE  v < e
    BY DEF FreedPages, BlockPages
  <2>2. v \in Nat /\ v * PAGE_SIZE \in Nat /\ v * PAGE_SIZE <= A
    BY <1>1, <1>2, <1>8, <2>1 DEF VPages
  <2>3. e = (A + PAGE_SIZE) \div PAGE_SIZE
    BY <1>3, <1>10, <1>11
  <2>4. A + PAGE_SIZE < e * PAGE_SIZE + PAGE_SIZE /\ e * PAGE_SIZE \in Nat
    BY <1>1, <1>2, <1>5, <1>6, <2>3
  <2>5. v * PAGE_SIZE < e * PAGE_SIZE
    BY <1>1, <1>2, <2>2, <2>4
  <2> QED BY <1>1, <1>6, <2>2, <2>5, MulMono
<1>12. e \in 0 .. V
  <2>1. SUFFICES ASSUME V < e PROVE FALSE
    BY <1>1, <1>6
  <2>2. V * PAGE_SIZE <= A /\ V * PAGE_SIZE \in Nat
    BY <1>1, <1>7, <2>1
  <2> QED BY <1>2, <1>8, <2>2
<1> QED BY <1>9, <1>11, <1>12

-----------------------------------------------------------------------------
\* The blocks of a process lie below V, those of one process do not overlap,
\* and a request that passed the check of vmalloc still fits below V.
BlockInv ==
  /\ \A p \in Procs : req[p] # 0 => vmax[p] + ceil_div(req[p], PAGE_SIZE) <= V
  /\ \A p \in Procs : \A b \in held[p] :
       /\ b.nbytes \in Sizes \ {0}
       /\ b.page * PAGE_SIZE + b.nbytes <= V * PAGE_SIZE
  /\ \A p \in Procs : \A b, c \in held[p] : b # c => BlockPages(b) \cap BlockPages(c) = {}

\* A page that a process owns is in memory, in swap, or may be faulted in.
OwnedInUse ==
  \A p \in Procs : tbl[p] # NULL => \A v \in Owned(p) : InUse(<<tbl[p], v>>)

OwnInv == BlockInv /\ OwnedInUse

\* Nothing but owned pages is backed by a frame, where vfree frees all of a
\* block.
Confined == NoByteInLastPage => OnlyOwnedLive

\* And nothing else may be faulted in, until a process gets a page table that
\* another one used.
OnlyOwnedInUse ==
  \A p \in Procs : tbl[p] # NULL => \A v \in VPages \ Owned(p) : ~ InUse(<<tbl[p], v>>)
Unmarked == NoByteInLastPage /\ NoTableReused => OnlyOwnedInUse

\* What every process owns is a page of its table below its vmax.
LEMMA OwnedPages ==
  ASSUME IInv, NEW p \in Procs, tbl[p] # NULL
  PROVE  Owned(p) \subseteq VPages /\ \A v \in Owned(p) : v < vmax[p] /\ <<tbl[p], v>> \in Pages
<1>1. vmax[p] > 0 /\ tbl[p] \in Tables
  BY DEF IInv, TypeOK, TableInv
<1>2. ASSUME NEW v \in Owned(p) PROVE v \in VPages /\ v < vmax[p]
  <2>1. CASE v = 0
    BY <1>1, <2>1, VirtMemAssumption DEF VPages
  <2>2. CASE \E b \in held[p] : v \in BlockPages(b)
    BY <2>2 DEF IInv, ProcInv, BlockPages
  <2> QED BY <1>2, <2>1, <2>2 DEF Owned
<1> QED BY <1>1, <1>2 DEF Pages

\* Steps that hand out and take back nothing, and revive at most one page,
\* that the running process owns.
LEMMA SameOwners ==
  ASSUME IInv, OwnInv, Confined, UNCHANGED <<tbl, held>>,
         \A r \in Pages : InUse(r) => InUse(r)',
         NoByteInLastPage =>
           \A r \in Pages : Live(r)' => \/ Live(r)
                                        \/ \E v \in Owned(currpid) : currpid \in Procs /\ r = Cur(v)
  PROVE  OwnedInUse' /\ Confined'
<1>1. \A p \in Procs : Owned(p)' = Owned(p)
  BY DEF Owned, BlockPages
<1>2. OwnedInUse'
  BY <1>1, OwnedPages DEF OwnInv, OwnedInUse
<1>3. NoByteInLastPage /\ OnlyOwnedLive => OnlyOwnedLive'
  <2>1. SUFFICES ASSUME NoByteInLastPage, OnlyOwnedLive, NEW p \in Procs, tbl[p] # NULL,
                        NEW v \in VPages \ Owned(p), Live(<<tbl[p], v>>)'
        PROVE  FALSE
    BY <1>1 DEF OnlyOwnedLive
  <2>2. <<tbl[p], v>> \in Pages
    BY <2>1 DEF IInv, TypeOK, Pages
  <2>3. PICK u \in Owned(currpid) : currpid \in Procs /\ <<tbl[p], v>> = Cur(u)
    BY <2>1, <2>2 DEF OnlyOwnedLive
  <2>4. currpid = p /\ u = v
    BY <2>1, <2>3 DEF Cur, IInv, TableInv
  <2> QED BY <2>1, <2>3, <2>4
<1> QED BY <1>2, <1>3 DEF Confined, NoByteInLastPage

\* Such steps keep the blocks as well when no request changes.
LEMMA SameBlocks ==
  ASSUME BlockInv, UNCHANGED <<held, vmax, req>>
  PROVE  BlockInv'
BY DEF BlockInv, BlockPages

\* An access of the running process to a page it owns is never a segmentation
\* fault.
LEMMA AccessOwn ==
  ASSUME IInv, OwnInv, Confined, OwnAccess
  PROVE  OwnInv' /\ Confined' /\ halted' # "SEGMENTATION FAULT"
<1>1. PICK v \in Owned(currpid) : InUser /\ Access(v) /\ halted = "no"
  BY DEF OwnAccess, InUser, Running
<1>2. /\ v \in VPages /\ currpid \in Procs /\ tbl[currpid] # NULL /\ Cur(v) \in Pages
      /\ TypeOK /\ MapsConsistent
  BY <1>1, OwnedBelow DEF IInv, ProcInv, TypeOK, InUser, Cur, Pages
<1>3. InUse(Cur(v))
  BY <1>1, <1>2 DEF OwnInv, OwnedInUse, Cur
<1>4. CASE pagefault_handler(v)
  <2>1. CASE \E why \in {"assertion", "SEGMENTATION FAULT", "Out of swappable memory"} :
               Halt(why) /\ (why = "SEGMENTATION FAULT" => ~ InUse(Cur(v)))
    <3>1. UNCHANGED <<pt, held, account, tbl>> /\ halted' # "SEGMENTATION FAULT"
      BY <2>1, <1>3 DEF Halt
    <3>2. \A r \in Pages : (InUse(r)' <=> InUse(r)) /\ (Live(r)' <=> Live(r))
      BY <3>1 DEF InUse, Live
    <3> QED BY <3>1, <3>2, SameOwners, SameBlocks DEF OwnInv, account
  <2>2. CASE /\ UNCHANGED <<pdptlist, account, tbl, currpid, halted, held, written>>
             /\ \A r \in Pages : /\ Live(r)' => Live(r) \/ r = Cur(v)
                                 /\ InUse(r)' <=> InUse(r)
    BY <1>1, <1>2, <2>2, SameOwners, SameBlocks DEF OwnInv, account
  <2> QED BY <1>2, <1>4, <2>1, <2>2, HandlerPages
<1>5. CASE Read(v) \/ Write(v)
  <2>1. UNCHANGED <<held, account, tbl, halted>> /\ (pt' = pt \/ pt' = [pt EXCEPT ![Cur(v)].dirty = TRUE])
    BY <1>5 DEF Read, Write
  <2>2. \A r \in Pages : (InUse(r)' <=> InUse(r)) /\ (Live(r)' <=> Live(r))
    <3>1. CASE pt' = pt
      BY <3>1 DEF InUse, Live
    <3>2. CASE pt' = [pt EXCEPT ![Cur(v)].dirty = TRUE]
      <4>1. /\ pt'[Cur(v)] = [pt[Cur(v)] EXCEPT !.dirty = TRUE] /\ pt[Cur(v)] \in PTE
            /\ \A r \in Pages : r # Cur(v) => pt'[r] = pt[r]
        BY <1>2, <3>2 DEF TypeOK
      <4> QED BY <4>1 DEF InUse, Live, PTE
    <3> QED BY <2>1, <3>1, <3>2
  <2> QED BY <1>1, <2>1, <2>2, SameOwners, SameBlocks DEF OwnInv, account
<1> QED BY <1>1, <1>4, <1>5 DEF Access

\* The service of vmalloc hands out pages that nobody owned.
LEMMA MallocOwn ==
  ASSUME NoWrap, IInv, OwnInv, Confined, NEW p \in Procs, p = currpid, kernel_service_malloc
  PROVE  OwnInv' /\ Confined' /\ halted' = halted
<1> DEFINE n == ceil_div(req[p], PAGE_SIZE)
           new == {Cur(v) : v \in {w \in VPages : vmax[p] <= w /\ w < vmax[p] + n}}
           b == [page |-> vmax[p], nbytes |-> req[p]]
<1>1. /\ p \in Procs /\ TypeOK /\ tbl[p] # NULL /\ tbl[p] \in Tables
      /\ req[p] \in Sizes \ {0} /\ req[p] \in Nat \ {0} /\ n <= vfree[p]
      /\ vmax[p] \in Nat \ {0}
      /\ vmax[p] + n <= V
  BY VirtMemAssumption DEF IInv, ProcInv, TypeOK, TableInv, OwnInv, BlockInv, kernel_service_malloc
<1>2. n \in Nat /\ req[p] <= n * PAGE_SIZE
  BY <1>1, CeilDiv, VirtMemAssumption DEF NoWrap
<1>3. /\ pt' = [q \in Pages |-> IF q \in new THEN HeapPTE ELSE pt[q]]
      /\ held' = [held EXCEPT ![p] = @ \union {b}]
      /\ vmax' = [vmax EXCEPT ![p] = @ + n]
      /\ req' = [req EXCEPT ![p] = 0]
      /\ UNCHANGED <<maps, lists, hsize, created, tbl, currpid, mem, halted, written>>
  <2>1. ~ (n > vfree[p])
    BY <1>1, <1>2 DEF TypeOK
  <2> QED BY <2>1 DEF kernel_service_malloc
<1>4. /\ held'[p] = held[p] \union {b} /\ req'[p] = 0 /\ vmax'[p] = vmax[p] + n
      /\ \A r \in Procs : r # p => held'[r] = held[r] /\ vmax'[r] = vmax[r] /\ req'[r] = req[r]
      /\ b.page = vmax[p] /\ b.nbytes = req[p]
  BY <1>1, <1>3 DEF TypeOK
<1>5. (vmax[p] + n) * PAGE_SIZE = vmax[p] * PAGE_SIZE + n * PAGE_SIZE
  BY <1>1, <1>2, VirtMemAssumption
<1>6. /\ vmax[p] * PAGE_SIZE \in Nat /\ n * PAGE_SIZE \in Nat
      /\ (vmax[p] + n) * PAGE_SIZE \in Nat /\ V * PAGE_SIZE \in Nat
  BY <1>1, <1>2, VirtMemAssumption
<1>7. vmax[p] * PAGE_SIZE + req[p] <= V * PAGE_SIZE
  <2>1. (vmax[p] + n) * PAGE_SIZE <= V * PAGE_SIZE
    <3>1. CASE vmax[p] + n = V
      BY <3>1, <1>6
    <3>2. CASE vmax[p] + n < V
      <4>1. (vmax[p] + n) * PAGE_SIZE + PAGE_SIZE <= V * PAGE_SIZE
        BY <1>1, <1>2, <3>2, Apart, VirtMemAssumption
      <4> QED BY <4>1, <1>6, VirtMemAssumption
    <3> QED BY <1>1, <1>2, <3>1, <3>2, VirtMemAssumption
  <2> QED BY <1>1, <1>2, <1>5, <1>6, <2>1
<1>8. \A v \in BlockPages(b) : v \in VPages /\ vmax[p] <= v /\ v < vmax[p] + n
  <2>1. SUFFICES ASSUME NEW v \in VPages, v * PAGE_SIZE < vmax[p] * PAGE_SIZE + req[p], vmax[p] <= v
        PROVE  v < vmax[p] + n
    BY <1>4 DEF BlockPages
  <2>2. v \in Nat /\ vmax[p] + n \in Nat /\ v * PAGE_SIZE \in Nat
    BY <1>1, <1>2, VirtMemAssumption DEF VPages
  <2>3. v * PAGE_SIZE < (vmax[p] + n) * PAGE_SIZE
    BY <1>1, <1>2, <1>5, <1>6, <2>1, <2>2
  <2> QED BY <2>2, <2>3, MulMono, VirtMemAssumption
<1>9. \A c \in held[p] : \A v \in BlockPages(c) : v \in VPages /\ v < vmax[p]
  BY <1>1 DEF IInv, ProcInv, BlockPages
<1> HIDE DEF b, n, new
<1>10. BlockInv'
  <2>1. \A c \in held[p] : BlockPages(c) \cap BlockPages(b) = {}
    BY <1>1, <1>8, <1>9, VirtMemAssumption DEF VPages
  <2>2. ASSUME NEW r \in Procs, req'[r] # 0
        PROVE  vmax'[r] + ceil_div(req'[r], PAGE_SIZE) <= V
    BY <2>2, <1>4 DEF OwnInv, BlockInv
  <2>3. ASSUME NEW r \in Procs, NEW c \in held'[r]
        PROVE  c.nbytes \in Sizes \ {0} /\ c.page * PAGE_SIZE + c.nbytes <= V * PAGE_SIZE
    BY <1>1, <1>4, <1>7 DEF OwnInv, BlockInv
  <2>4. ASSUME NEW r \in Procs, NEW c \in held'[r], NEW d \in held'[r], c # d
        PROVE  BlockPages(c) \cap BlockPages(d) = {}
    BY <2>1, <2>4, <1>4 DEF OwnInv, BlockInv
  <2> QED BY <2>2, <2>3, <2>4 DEF BlockInv, BlockPages
<1>11. /\ Owned(p)' = Owned(p) \union BlockPages(b)
       /\ \A r \in Procs : r # p => Owned(r)' = Owned(r)
  BY <1>4 DEF Owned, BlockPages
<1>12. /\ \A q \in Pages : q \in new => pt'[q].isvmalloc /\ ~ pt'[q].pres /\ ~ pt'[q].isswapped
       /\ \A q \in Pages : q \notin new => pt'[q] = pt[q]
  BY <1>3 DEF HeapPTE, ZeroPTE
<1>13. \A v \in BlockPages(b) : <<tbl[p], v>> \in new /\ <<tbl[p], v>> \in Pages
  BY <1>1, <1>8 DEF new, Cur, Pages
<1>14. OwnedInUse'
  <2>1. SUFFICES ASSUME NEW r \in Procs, tbl[r] # NULL, NEW v \in Owned(r)'
        PROVE  InUse(<<tbl[r], v>>)'
    BY <1>3 DEF OwnedInUse
  <2>2. CASE r = p /\ v \in BlockPages(b)
    BY <2>2, <1>12, <1>13, <1>3 DEF InUse
  <2>3. CASE v \in Owned(r)
    <3>1. InUse(<<tbl[r], v>>) /\ <<tbl[r], v>> \in Pages
      BY <2>1, <2>3, OwnedPages DEF OwnInv, OwnedInUse
    <3>2. CASE <<tbl[r], v>> \in new
      BY <3>1, <3>2, <1>12, <1>3 DEF InUse
    <3>3. CASE <<tbl[r], v>> \notin new
      BY <3>1, <3>3, <1>12, <1>3 DEF InUse, Live
    <3> QED BY <3>2, <3>3
  <2> QED BY <2>1, <2>2, <2>3, <1>11
<1>15. OnlyOwnedLive => OnlyOwnedLive'
  <2>1. \A r \in Procs : Owned(r) \subseteq Owned(r)'
    BY <1>11
  <2>2. \A q \in Pages : Live(q)' => Live(q)
    BY <1>12 DEF Live
  <2>3. \A r \in Procs, v \in VPages : tbl[r] # NULL => <<tbl[r], v>> \in Pages
    BY <1>1 DEF TypeOK, Pages
  <2> QED BY <1>3, <2>1, <2>2, <2>3 DEF OnlyOwnedLive
<1> QED BY <1>3, <1>10, <1>14, <1>15 DEF OwnInv, Confined, NoByteInLastPage

\* vfree takes every page of the block away, and no page of another block.
LEMMA VFreeOwn ==
  ASSUME AddressesFit, IInv, OwnInv, Confined, InUser, NEW p \in Procs, p = currpid,
         NEW b \in held[p], kernel_service_free(b)
  PROVE  OwnInv' /\ Confined' /\ halted' # "SEGMENTATION FAULT"
<1> DEFINE P == {Cur(v) : v \in FreedPages(b)}
<1>1. /\ TypeOK /\ MapsConsistent /\ p \in Procs /\ halted = "no" /\ tbl[p] \in Tables /\ tbl[p] # NULL
      /\ b \in [page : Nat, nbytes : Nat \ {0}] /\ b.page > 0 /\ b.nbytes \in Sizes
      /\ b.page * PAGE_SIZE + b.nbytes <= V * PAGE_SIZE
  <2>1. /\ TypeOK /\ MapsConsistent /\ p \in Procs /\ halted = "no" /\ tbl[p] \in Tables /\ tbl[p] # NULL
        /\ b \in [page : Nat, nbytes : Nat] /\ b.page > 0
    BY DEF IInv, TypeOK, ProcInv, InUser, Running
  <2>2. b.nbytes \in Sizes \ {0} /\ b.page * PAGE_SIZE + b.nbytes <= V * PAGE_SIZE
    BY <2>1 DEF OwnInv, BlockInv
  <2>3. b \in [page : Nat, nbytes : Nat \ {0}]
    BY <2>1, <2>2
  <2> QED BY <2>1, <2>2, <2>3
<1>2. FreeAsserts(P)
  <2>1. P \in SUBSET Pages
    BY <1>1 DEF FreedPages, Cur, Pages
  <2> QED BY <1>1, <2>1, FreeAssertsHold
<1>3. CASE Halt("Illegal value of n_free_vpages")
  <2>1. UNCHANGED <<pt, held, account, tbl>> /\ halted' # "SEGMENTATION FAULT"
    BY <1>3 DEF Halt
  <2>2. \A r \in Pages : (InUse(r)' <=> InUse(r)) /\ (Live(r)' <=> Live(r))
    BY <2>1 DEF InUse, Live
  <2> QED BY <2>1, <2>2, SameOwners, SameBlocks DEF OwnInv, account
<1>4. CASE ~ Halt("Illegal value of n_free_vpages")
  <2>1. /\ pt' = [q \in Pages |-> IF q \in P THEN ZeroPTE ELSE pt[q]]
        /\ held' = [held EXCEPT ![p] = @ \ {b}]
        /\ UNCHANGED <<vmax, req, tbl, halted>>
    BY <1>2, <1>4 DEF kernel_service_free, FreeVPages
  <2>2. held'[p] = held[p] \ {b} /\ \A r \in Procs : r # p => held'[r] = held[r]
    BY <1>1, <2>1 DEF TypeOK
  <2>3. /\ FreedPages(b) \subseteq BlockPages(b)
        /\ NoByteInLastPage => BlockPages(b) \subseteq FreedPages(b)
    BY <1>1, BlockFreed DEF NoByteInLastPage
  <2>4. BlockInv'
    BY <2>1, <2>2 DEF OwnInv, BlockInv, BlockPages
  <2>5. /\ Owned(p)' \subseteq Owned(p) /\ Owned(p) \subseteq Owned(p)' \union BlockPages(b)
        /\ Owned(p)' \cap BlockPages(b) = {}
        /\ \A r \in Procs : r # p => Owned(r)' = Owned(r)
    <3>1. 0 \notin BlockPages(b)
      BY <1>1 DEF BlockPages
    <3>2. \A c \in held[p] : c # b => BlockPages(c) \cap BlockPages(b) = {}
      BY <1>1 DEF OwnInv, BlockInv
    <3> QED BY <2>2, <3>1, <3>2 DEF Owned, BlockPages
  <2>6. \A r \in Procs, v \in VPages : tbl[r] # NULL =>
           /\ <<tbl[r], v>> \in Pages
           /\ <<tbl[r], v>> \in P <=> r = p /\ v \in FreedPages(b)
    BY <1>1 DEF IInv, TypeOK, TableInv, Cur, Pages, FreedPages
  <2>7. \A q \in Pages : /\ q \in P => ~ Live(q)'
                         /\ q \notin P => pt'[q] = pt[q]
    BY <2>1 DEF Live, ZeroPTE
  <2>8. OwnedInUse'
    <3>1. SUFFICES ASSUME NEW r \in Procs, tbl[r] # NULL, NEW v \in Owned(r)'
          PROVE  InUse(<<tbl[r], v>>)'
      BY <2>1 DEF OwnedInUse
    <3>2. v \in Owned(r) /\ v \in VPages /\ <<tbl[r], v>> \notin P
      BY <3>1, <2>3, <2>5, <2>6, OwnedPages
    <3> QED BY <3>1, <3>2, <2>6, <2>7, <2>1 DEF InUse, Live, OwnInv, OwnedInUse
  <2>9. ASSUME NoByteInLastPage, OnlyOwnedLive PROVE OnlyOwnedLive'
    <3>1. SUFFICES ASSUME NEW r \in Procs, tbl[r] # NULL, NEW v \in VPages \ Owned(r)'
          PROVE  ~ Live(<<tbl[r], v>>)'
      BY <2>1 DEF OnlyOwnedLive
    <3>2. CASE <<tbl[r], v>> \in P
      BY <3>1, <3>2, <2>6, <2>7, <2>1
    <3>3. CASE <<tbl[r], v>> \notin P
      <4>1. v \notin Owned(r)
        BY <3>1, <3>3, <2>3, <2>5, <2>6, <2>9
      <4> QED BY <3>1, <3>3, <4>1, <2>6, <2>7, <2>9, <2>1 DEF OnlyOwnedLive, Live
    <3> QED BY <3>2, <3>3
  <2> QED BY <1>1, <2>1, <2>4, <2>8, <2>9 DEF OwnInv, Confined, NoByteInLastPage
<1> QED BY <1>3, <1>4

\* kill frees every page of its process, and no page of another.
LEMMA KillOwn ==
  ASSUME IInv, OwnInv, Confined, NEW p \in Procs, kill(p)
  PROVE  OwnInv' /\ Confined' /\ halted' # "SEGMENTATION FAULT"
<1> DEFINE P == freevmem(tbl[p])
<1>1. /\ TypeOK /\ MapsConsistent /\ halted = "no" /\ tbl[p] \in Tables /\ tbl[p] # NULL
      /\ P \in SUBSET Pages
  BY DEF IInv, TypeOK, kill, Running, freevmem
<1>2. FreeAsserts(P)
  BY <1>1, FreeAssertsHold
<1>3. CASE Halt("Illegal value of n_free_vpages")
  <2>1. UNCHANGED <<pt, held, account, tbl>> /\ halted' # "SEGMENTATION FAULT"
    BY <1>3 DEF Halt
  <2>2. \A r \in Pages : (InUse(r)' <=> InUse(r)) /\ (Live(r)' <=> Live(r))
    BY <2>1 DEF InUse, Live
  <2> QED BY <2>1, <2>2, SameOwners, SameBlocks DEF OwnInv, account
<1>4. CASE ~ Halt("Illegal value of n_free_vpages")
  <2>1. /\ pt' = [q \in Pages |-> IF q \in P THEN ZeroPTE ELSE pt[q]]
        /\ held' = [held EXCEPT ![p] = {}]
        /\ vmax' = [vmax EXCEPT ![p] = 0]
        /\ tbl' = [tbl EXCEPT ![p] = NULL]
        /\ UNCHANGED <<req, halted>>
    BY <1>2, <1>4 DEF kill, FreeVPages
  <2>2. /\ held'[p] = {} /\ tbl'[p] = NULL /\ req[p] = 0
        /\ \A r \in Procs : r # p => held'[r] = held[r] /\ vmax'[r] = vmax[r] /\ tbl'[r] = tbl[r]
    BY <1>1, <2>1 DEF TypeOK, kill
  <2>3. BlockInv'
    <3>1. ASSUME NEW r \in Procs, req'[r] # 0 PROVE vmax'[r] + ceil_div(req'[r], PAGE_SIZE) <= V
      BY <3>1, <2>1, <2>2 DEF OwnInv, BlockInv
    <3>2. ASSUME NEW r \in Procs PROVE held'[r] \subseteq held[r]
      BY <2>2
    <3> QED BY <3>1, <3>2 DEF OwnInv, BlockInv, BlockPages
  <2>4. \A r \in Procs : r # p => Owned(r)' = Owned(r)
    BY <2>2 DEF Owned, BlockPages
  <2>5. ASSUME NEW r \in Procs, tbl'[r] # NULL, NEW v \in VPages
        PROVE  /\ r # p /\ tbl'[r] = tbl[r] /\ <<tbl[r], v>> \in Pages
               /\ pt'[<<tbl[r], v>>] = pt[<<tbl[r], v>>]
    <3>1. r # p /\ tbl'[r] = tbl[r] /\ tbl[r] # tbl[p] /\ <<tbl[r], v>> \in Pages
      BY <1>1, <2>2, <2>5 DEF IInv, TypeOK, TableInv, Pages
    <3>2. <<tbl[r], v>> \notin P
      BY <3>1 DEF freevmem
    <3> QED BY <2>1, <3>1, <3>2
  <2>6. OwnedInUse'
    <3>1. SUFFICES ASSUME NEW r \in Procs, tbl'[r] # NULL, NEW v \in Owned(r)'
          PROVE  InUse(<<tbl[r], v>>)'
      BY <2>5, <2>2 DEF OwnedInUse
    <3>2. r # p /\ tbl[r] # NULL /\ v \in Owned(r)
      BY <3>1, <2>2, <2>4
    <3>3. v \in VPages /\ InUse(<<tbl[r], v>>)
      BY <3>2, OwnedPages DEF OwnInv, OwnedInUse
    <3> QED BY <3>1, <3>3, <2>5 DEF InUse, Live
  <2>7. OnlyOwnedLive => OnlyOwnedLive'
    <3>1. SUFFICES ASSUME OnlyOwnedLive, NEW r \in Procs, NEW x, x = tbl'[r], x # NULL,
                          NEW v \in VPages \ Owned(r)'
          PROVE  ~ pt'[<<x, v>>].pres /\ ~ pt'[<<x, v>>].isswapped
      BY DEF OnlyOwnedLive, Live
    <3>2. r # p /\ x = tbl[r] /\ v \notin Owned(r) /\ v \in VPages
      BY <3>1, <2>2, <2>4
    <3>3. pt'[<<x, v>>] = pt[<<x, v>>]
      BY <3>1, <3>2, <2>5
    <3>4. ~ Live(<<x, v>>)
      BY <3>1, <3>2 DEF OnlyOwnedLive
    <3> QED BY <3>3, <3>4 DEF Live
  <2> QED BY <1>1, <2>1, <2>3, <2>6, <2>7 DEF OwnInv, Confined, NoByteInLastPage
<1> QED BY <1>3, <1>4

\* A new process owns its stack page.
LEMMA CreateOwn ==
  ASSUME IInv, OwnInv, Confined, NEW p \in Procs, vcreate(p)
  PROVE  OwnInv' /\ Confined' /\ halted' # "SEGMENTATION FAULT"
<1>1. TypeOK /\ halted = "no" /\ tbl[p] = NULL /\ req[p] = 0 /\ held[p] = {}
  BY DEF IInv, ProcInv, TypeOK, vcreate, Running
<1>2. CASE Halt("Out of pdpt memory") \/ Halt("Out of virtual stack memory")
  <2>1. UNCHANGED <<pt, held, account, tbl>> /\ halted' # "SEGMENTATION FAULT"
    BY <1>2 DEF Halt
  <2>2. \A r \in Pages : (InUse(r)' <=> InUse(r)) /\ (Live(r)' <=> Live(r))
    BY <2>1 DEF InUse, Live
  <2> QED BY <2>1, <2>2, SameOwners, SameBlocks DEF OwnInv, account
<1>3. ASSUME NEW t \in Tables, NEW f \in VStack, Lowest(t, pdptlist),
             tbl' = [tbl EXCEPT ![p] = t],
             pt' = [CreateTable(t) EXCEPT ![<<t, 0>>] = StackPTE(f)],
             vmax' = [vmax EXCEPT ![p] = 1],
             UNCHANGED <<req, halted, held>>
      PROVE  OwnInv' /\ Confined' /\ halted' # "SEGMENTATION FAULT"
  <2> DEFINE k == <<t, 0>>
  <2>1. k \in Pages /\ t \in pdptlist /\ t # NULL
    BY <1>3, VirtMemAssumption DEF Pages, VPages, Lowest
  <2>2. \A q \in Pages : q[1] = t => ~ Live(q)
    BY <2>1 DEF IInv, TableInv
  <2>3. /\ pt'[k].pres /\ \A q \in Pages : q # k => pt'[q] = pt[q]
    BY <1>1, <1>3, <2>1 DEF TypeOK, CreateTable, StackPTE, ZeroPTE
  <2>4. /\ tbl'[p] = t /\ Owned(p) = {0}
        /\ \A r \in Procs : r # p => tbl'[r] = tbl[r] /\ vmax'[r] = vmax[r] /\ tbl[r] # t
    BY <1>1, <1>3, <2>1 DEF IInv, TypeOK, TableInv, Owned
  <2>5. \A r \in Procs : Owned(r)' = Owned(r)
    BY <1>3 DEF Owned, BlockPages
  <2>6. BlockInv'
    BY <1>1, <1>3, <2>4 DEF OwnInv, BlockInv, BlockPages
  <2>7. ASSUME NEW r \in Procs, r # p, tbl[r] # NULL, NEW v \in VPages
        PROVE  <<tbl[r], v>> \in Pages /\ pt'[<<tbl[r], v>>] = pt[<<tbl[r], v>>]
    BY <1>1, <2>3, <2>4, <2>7 DEF TypeOK, Pages
  <2>8. OwnedInUse'
    <3>1. SUFFICES ASSUME NEW r \in Procs, NEW x, x = tbl'[r], x # NULL, NEW v \in Owned(r)
          PROVE  pt'[<<x, v>>].pres \/ pt'[<<x, v>>].isswapped \/ pt'[<<x, v>>].isvmalloc
      BY <2>5 DEF OwnedInUse, InUse, Live
    <3>2. CASE r = p
      BY <3>1, <3>2, <2>3, <2>4
    <3>3. CASE r # p
      <4>1. x = tbl[r] /\ v \in VPages /\ InUse(<<x, v>>)
        BY <3>1, <3>3, <2>4, OwnedPages DEF OwnInv, OwnedInUse
      <4> QED BY <3>1, <3>3, <4>1, <2>7 DEF InUse, Live
    <3> QED BY <3>2, <3>3
  <2>9. OnlyOwnedLive => OnlyOwnedLive'
    <3>1. SUFFICES ASSUME OnlyOwnedLive, NEW r \in Procs, NEW x, x = tbl'[r], x # NULL,
                          NEW v \in VPages \ Owned(r)
          PROVE  ~ pt'[<<x, v>>].pres /\ ~ pt'[<<x, v>>].isswapped
      BY <2>5 DEF OnlyOwnedLive, Live
    <3>2. CASE r = p
      <4>1. x = t /\ v # 0 /\ <<t, v>> \in Pages
        BY <3>1, <3>2, <2>4, VirtMemAssumption DEF Pages
      <4> QED BY <4>1, <2>2, <2>3 DEF Live
    <3>3. CASE r # p
      BY <3>1, <3>3, <2>4, <2>7 DEF OnlyOwnedLive, Live
    <3> QED BY <3>2, <3>3
  <2> QED BY <1>1, <1>3, <2>6, <2>8, <2>9 DEF OwnInv, Confined, NoByteInLastPage
<1> QED BY <1>2, <1>3 DEF vcreate

\* The check of vmalloc leaves room below V for the request.
LEMMA VmallocOwn ==
  ASSUME IInv, OwnInv, Confined, NEW nbytes \in Sizes, vmalloc(nbytes)
  PROVE  OwnInv' /\ Confined' /\ halted' = halted
<1>1. /\ currpid \in Procs /\ vmax[currpid] + ceil_div(nbytes, PAGE_SIZE) <= V
      /\ req' = [req EXCEPT ![currpid] = nbytes]
      /\ UNCHANGED <<pt, vmax, tbl, halted, held>>
  BY DEF vmalloc, InUser
<1>2. \A r \in Pages : (InUse(r)' <=> InUse(r)) /\ (Live(r)' <=> Live(r))
  BY <1>1 DEF InUse, Live
<1>3. BlockInv'
  <2>1. \A p \in Procs : req'[p] = IF p = currpid THEN nbytes ELSE req[p]
    BY <1>1 DEF IInv, TypeOK
  <2> QED BY <1>1, <2>1 DEF OwnInv, BlockInv, BlockPages
<1> QED BY <1>1, <1>2, <1>3, SameOwners DEF OwnInv

\* Every step keeps what processes own apart, and owned pages in use.
LEMMA NextOwn ==
  ASSUME NoWrap, AddressesFit, IInv, OwnInv, Confined, [Next]_vars
  PROVE  /\ OwnInv' /\ Confined'
         /\ halted # "SEGMENTATION FAULT" => halted' # "SEGMENTATION FAULT"
<1> DEFINE NoFault == halted # "SEGMENTATION FAULT" => halted' # "SEGMENTATION FAULT"
<1>1. CASE UNCHANGED <<pt, tbl, held, vmax, req, halted>>
  <2>1. \A r \in Pages : (InUse(r)' <=> InUse(r)) /\ (Live(r)' <=> Live(r))
    BY <1>1 DEF InUse, Live
  <2> QED BY <1>1, <2>1, SameOwners, SameBlocks DEF OwnInv
<1>2. CASE UNCHANGED vars
  BY <1>1, <1>2 DEF vars, account
<1>3. ASSUME NEW p \in Procs \union {NULLPROC}, resched(p)
      PROVE OwnInv' /\ Confined' /\ NoFault
  BY <1>1, <1>3 DEF resched, account
<1>4. CASE kernel_service_malloc
  <2>1. currpid \in Procs
    BY <1>4 DEF kernel_service_malloc
  <2> QED BY <2>1, <1>4, MallocOwn
<1>5. CASE VFree
  <2>1. PICK b \in held[currpid] : InUser /\ kernel_service_free(b)
    BY <1>5 DEF VFree
  <2>2. currpid \in Procs
    BY <2>1 DEF InUser
  <2> QED BY <2>1, <2>2, VFreeOwn
<1> QED BY <1>2, <1>3, <1>4, <1>5, KillOwn, CreateOwn, VmallocOwn, AccessOwn DEF Next, Halted, Idle

-----------------------------------------------------------------------------
(***************************************************************************)
(* Wild pointers.  They find nothing to fault in as long as every page in  *)
(* use is owned, which the marks that kill leaves in a page table end.     *)
(***************************************************************************)

\* ceil_div gives no page too many.
LEMMA CeilTight ==
  ASSUME NEW a \in Nat \ {0}, NEW b \in Nat \ {0}, a + b < UINT
  PROVE  ceil_div(a, b) * b < a + b
<1>1. /\ a \div b \in Nat /\ a % b \in 0 .. (b - 1) /\ a = b * (a \div b) + (a % b)
  <2>1. a \in Int /\ a \div b \in Nat
    OBVIOUS
  <2> QED BY <2>1, DivNat
<1>2. CASE a % b = 0
  BY <1>1, <1>2 DEF ceil_div
<1>3. CASE a % b # 0
  <2> DEFINE k == (a + b) \div b
             d == a \div b
  <2>1. k \in Nat /\ (a + b) % b \in 0 .. (b - 1) /\ a + b = b * k + ((a + b) % b)
    <3>1. a + b \in Int
      OBVIOUS
    <3>2. k \in Nat
      OBVIOUS
    <3> QED BY <3>1, <3>2, DivNat
  <2>2. ceil_div(a, b) = k
    BY <1>3, SmallMod, VirtMemAssumption DEF ceil_div
  <2> HIDE DEF k, d
  <2>3. k * b <= a + b /\ k * b \in Nat
    BY <2>1
  <2>4. k * b # a + b
    <3>1. SUFFICES ASSUME k * b = a + b PROVE FALSE
      OBVIOUS
    <3>2. d \in Nat /\ a = d * b + (a % b) /\ d * b \in Nat
      BY <1>1 DEF d
    <3>3. CASE k <= d + 1
      <4>1. (d + 1) * b = d * b + b
        BY <3>2
      <4>2. k = d + 1 \/ k * b + b <= (d + 1) * b
        BY <2>1, <3>2, <3>3, Apart
      <4> QED BY <1>1, <1>3, <2>3, <3>1, <3>2, <4>1, <4>2
    <3>4. CASE d + 1 < k
      <4>1. (d + 1) * b + b <= k * b
        BY <2>1, <3>2, <3>4, Apart
      <4>2. (d + 1) * b = d * b + b
        BY <3>2
      <4> QED BY <1>1, <2>3, <3>1, <3>2, <4>1, <4>2
    <3> QED BY <2>1, <3>2, <3>3, <3>4
  <2> QED BY <2>2, <2>3, <2>4
<1> QED BY <1>1, <1>2, <1>3

\* Steps that hand out and take back nothing, and mark no page.
LEMMA SameUnmarked ==
  ASSUME IInv, Unmarked, UNCHANGED <<tbl, held, created>>, \A r \in Pages : InUse(r)' => InUse(r)
  PROVE  Unmarked'
<1>1. \A p \in Procs : Owned(p)' = Owned(p)
  BY DEF Owned, BlockPages
<1>2. NoTableReused' <=> NoTableReused
  BY DEF NoTableReused
<1>3. \A p \in Procs, v \in VPages : tbl[p] # NULL => <<tbl[p], v>> \in Pages
  BY DEF IInv, TypeOK, Pages
<1>4. OnlyOwnedInUse => OnlyOwnedInUse'
  BY <1>1, <1>3 DEF OnlyOwnedInUse
<1> QED BY <1>2, <1>4 DEF Unmarked, NoByteInLastPage

\* The service of vmalloc marks only pages of the new block.
LEMMA MallocUnmarked ==
  ASSUME NoWrap, IInv, Unmarked, NEW p \in Procs, p = currpid, kernel_service_malloc
  PROVE  Unmarked'
<1> DEFINE n == ceil_div(req[p], PAGE_SIZE)
           new == {Cur(v) : v \in {w \in VPages : vmax[p] <= w /\ w < vmax[p] + n}}
           b == [page |-> vmax[p], nbytes |-> req[p]]
<1>1. /\ p \in Procs /\ TypeOK /\ TableInv /\ tbl[p] # NULL
      /\ req[p] \in Nat \ {0} /\ req[p] + PAGE_SIZE < UINT /\ vmax[p] \in Nat
  BY VirtMemAssumption DEF IInv, ProcInv, TypeOK, NoWrap, kernel_service_malloc
<1>2. n \in Nat /\ n * PAGE_SIZE < req[p] + PAGE_SIZE
  BY <1>1, CeilDiv, CeilTight, VirtMemAssumption
<1>3. CASE Halt("assertion")
  BY <1>3, SameUnmarked DEF Halt, account, InUse, Live
<1>4. CASE /\ pt' = [q \in Pages |-> IF q \in new THEN HeapPTE ELSE pt[q]]
           /\ held' = [held EXCEPT ![p] = @ \union {b}]
           /\ UNCHANGED <<created, tbl>>
  <2>1. ASSUME NEW w \in VPages, vmax[p] <= w, w < vmax[p] + n
        PROVE  w \in BlockPages(b)
    <3>1. w \in Nat /\ w * PAGE_SIZE \in Nat /\ (vmax[p] + n) * PAGE_SIZE \in Nat
      BY <1>1, <1>2, VirtMemAssumption DEF VPages
    <3>2. w * PAGE_SIZE + PAGE_SIZE <= (vmax[p] + n) * PAGE_SIZE
      BY <1>1, <1>2, <2>1, <3>1, Apart, VirtMemAssumption
    <3>3. /\ (vmax[p] + n) * PAGE_SIZE = vmax[p] * PAGE_SIZE + n * PAGE_SIZE
          /\ vmax[p] * PAGE_SIZE \in Nat /\ n * PAGE_SIZE \in Nat
      BY <1>1, <1>2, VirtMemAssumption
    <3>4. w * PAGE_SIZE < vmax[p] * PAGE_SIZE + req[p]
      BY <1>1, <1>2, <3>1, <3>2, <3>3, VirtMemAssumption
    <3> QED BY <2>1, <3>4 DEF BlockPages
  <2> HIDE DEF n
  <2>2. /\ \A r \in Procs : Owned(r) \subseteq Owned(r)'
        /\ BlockPages(b) \subseteq Owned(p)'
    <3>1. held'[p] = held[p] \union {b} /\ \A r \in Procs : r # p => held'[r] = held[r]
      BY <1>1, <1>4 DEF TypeOK
    <3>2. \A r \in Procs : held[r] \subseteq held'[r]
      BY <3>1
    <3> HIDE DEF b
    <3> QED BY <3>1, <3>2 DEF Owned, BlockPages
  <2>3. NoTableReused' <=> NoTableReused
    BY <1>4 DEF NoTableReused
  <2>4. ASSUME OnlyOwnedInUse, NEW r \in Procs, tbl[r] # NULL, NEW v \in VPages \ Owned(r)'
        PROVE  ~ InUse(<<tbl[r], v>>)'
    <3>1. <<tbl[r], v>> \in Pages /\ ~ InUse(<<tbl[r], v>>)
      BY <1>1, <2>2, <2>4 DEF TypeOK, Pages, OnlyOwnedInUse
    <3>2. <<tbl[r], v>> \notin new
      <4>1. SUFFICES ASSUME <<tbl[r], v>> \in new PROVE FALSE
        OBVIOUS
      <4>2. r = p /\ vmax[p] <= v /\ v < vmax[p] + n
        BY <1>1, <2>4, <4>1 DEF TableInv, Cur
      <4> QED BY <2>1, <2>2, <2>4, <4>2
    <3> QED BY <1>4, <3>1, <3>2 DEF InUse, Live
  <2> QED BY <1>4, <2>3, <2>4 DEF Unmarked, OnlyOwnedInUse, NoByteInLastPage
<1> QED BY <1>3, <1>4 DEF kernel_service_malloc

\* vfree leaves no mark on the pages of the block.
LEMMA VFreeUnmarked ==
  ASSUME AddressesFit, IInv, OwnInv, Unmarked, InUser, NEW p \in Procs, p = currpid,
         NEW b \in held[p], kernel_service_free(b)
  PROVE  Unmarked'
<1> DEFINE P == {Cur(v) : v \in FreedPages(b)}
<1>1. /\ TypeOK /\ TableInv /\ tbl[p] # NULL /\ b \in [page : Nat, nbytes : Nat \ {0}]
      /\ b.nbytes \in Sizes /\ b.page * PAGE_SIZE + b.nbytes <= V * PAGE_SIZE
  <2>1. /\ TypeOK /\ TableInv /\ tbl[p] # NULL /\ b \in [page : Nat, nbytes : Nat]
    BY DEF IInv, TypeOK, ProcInv, InUser
  <2>2. b.nbytes \in Sizes \ {0} /\ b.page * PAGE_SIZE + b.nbytes <= V * PAGE_SIZE
    BY <2>1 DEF OwnInv, BlockInv
  <2>3. b \in [page : Nat, nbytes : Nat \ {0}]
    BY <2>1, <2>2
  <2> QED BY <2>1, <2>2, <2>3
<1>2. CASE Halt("assertion") \/ Halt("Illegal value of n_free_vpages")
  BY <1>2, SameUnmarked DEF Halt, account, InUse, Live
<1>3. CASE /\ pt' = [q \in Pages |-> IF q \in P THEN ZeroPTE ELSE pt[q]]
           /\ held' = [held EXCEPT ![p] = @ \ {b}]
           /\ UNCHANGED <<created, tbl>>
  <2>1. NoByteInLastPage => BlockPages(b) \subseteq FreedPages(b)
    BY <1>1, BlockFreed DEF NoByteInLastPage
  <2>2. /\ Owned(p) \subseteq Owned(p)' \union BlockPages(b)
        /\ \A r \in Procs : r # p => Owned(r)' = Owned(r)
    <3>1. held'[p] = held[p] \ {b} /\ \A r \in Procs : r # p => held'[r] = held[r]
      BY <1>1, <1>3 DEF TypeOK
    <3> QED BY <3>1 DEF Owned, BlockPages
  <2>3. NoTableReused' <=> NoTableReused
    BY <1>3 DEF NoTableReused
  <2>4. ASSUME NoByteInLastPage, OnlyOwnedInUse,
               NEW r \in Procs, tbl[r] # NULL, NEW v \in VPages \ Owned(r)'
        PROVE  ~ InUse(<<tbl[r], v>>)'
    <3>1. <<tbl[r], v>> \in Pages
      BY <1>1, <2>4 DEF TypeOK, Pages
    <3>2. CASE <<tbl[r], v>> \in P
      BY <1>3, <3>1, <3>2 DEF InUse, Live, ZeroPTE
    <3>3. CASE <<tbl[r], v>> \notin P
      <4>1. v \notin Owned(r)
        BY <2>1, <2>2, <2>4, <3>3 DEF Cur
      <4> QED BY <1>3, <2>4, <3>1, <3>3, <4>1 DEF OnlyOwnedInUse, InUse, Live
    <3> QED BY <3>2, <3>3
  <2> QED BY <1>3, <2>3, <2>4 DEF Unmarked, OnlyOwnedInUse, NoByteInLastPage
<1> QED BY <1>2, <1>3 DEF kernel_service_free, FreeVPages

\* A page table that nobody used has no marks.
LEMMA CreateUnmarked ==
  ASSUME IInv, ReuseInv, Unmarked, NEW p \in Procs, vcreate(p)
  PROVE  Unmarked'
<1>1. TypeOK /\ TableInv /\ tbl[p] = NULL
  BY DEF IInv, vcreate
<1>2. NoTableReused' => NoTableReused
  BY CreateReuse
<1>3. CASE Halt("Out of pdpt memory") \/ Halt("Out of virtual stack memory")
  BY <1>3, SameUnmarked DEF Halt, account, InUse, Live
<1>4. ASSUME NEW t \in Tables, NEW f \in VStack, Lowest(t, pdptlist),
             tbl' = [tbl EXCEPT ![p] = t],
             pt' = [CreateTable(t) EXCEPT ![<<t, 0>>] = StackPTE(f)],
             held' = held
      PROVE  Unmarked'
  <2>1. t \in pdptlist /\ t # NULL /\ \A r \in Procs : tbl[r] # t
    BY <1>1, <1>4, VirtMemAssumption DEF Lowest, TableInv
  <2>2. \A r \in Procs : Owned(r)' = Owned(r) /\ 0 \in Owned(r)
    BY <1>4 DEF Owned, BlockPages
  <2>3. ASSUME NoTableReused, OnlyOwnedInUse, NEW r \in Procs, NEW x \in Tables, x = tbl'[r],
               NEW v \in VPages \ Owned(r)
        PROVE  ~ InUse(<<x, v>>)'
    <3>1. <<x, v>> \in Pages /\ <<x, v>> # <<t, 0>>
      BY <2>2, <2>3 DEF Pages
    <3>2. InUse(<<x, v>>)' <=> InUse(<<x, v>>)
      BY <1>1, <1>4, <3>1 DEF TypeOK, CreateTable, InUse, Live
    <3>3. CASE r = p
      <4>1. x = t
        BY <1>1, <1>4, <2>3, <3>3 DEF TypeOK
      <4> QED BY <2>1, <2>3, <3>1, <3>2, <4>1 DEF ReuseInv
    <3>4. CASE r # p
      <4>1. tbl[r] = x /\ x # NULL
        BY <1>1, <1>4, <2>3, <3>4, VirtMemAssumption DEF TypeOK
      <4> QED BY <2>3, <3>2, <4>1 DEF OnlyOwnedInUse
    <3> QED BY <3>3, <3>4
  <2>4. \A r \in Procs : tbl'[r] # NULL => tbl'[r] \in Tables
    BY <1>1, <1>4 DEF TypeOK
  <2> QED BY <1>2, <2>2, <2>3, <2>4 DEF Unmarked, OnlyOwnedInUse, NoByteInLastPage
<1> QED BY <1>3, <1>4 DEF vcreate

\* An access marks no page.
LEMMA AccessUnmarked ==
  ASSUME IInv, Unmarked, InUser, NEW v \in VPages, Access(v)
  PROVE  Unmarked'
<1>1. /\ UNCHANGED <<tbl, held, created>> /\ \A q \in Pages : InUse(q)' => InUse(q)
  BY AccessMarks DEF account
<1> QED BY <1>1, SameUnmarked

\* Every step keeps what Unmarked says; kill only by ending what it is about.
LEMMA NextUnmarked ==
  ASSUME NoWrap, AddressesFit, IInv, ReuseInv, OwnInv, Unmarked, [AnyNext]_vars
  PROVE  Unmarked'
<1>1. CASE UNCHANGED <<pt, tbl, held, created>>
  BY <1>1, SameUnmarked DEF InUse, Live
<1>2. ASSUME NEW p \in Procs, kill(p) PROVE Unmarked'
  <2>1. CASE NoTableReused'
    BY <1>1, <1>2, <2>1, KillReuse
  <2>2. CASE ~ NoTableReused'
    BY <2>2 DEF Unmarked
  <2> QED BY <2>1, <2>2
<1>3. ASSUME NEW p \in Procs \union {NULLPROC}, resched(p) PROVE Unmarked'
  BY <1>1, <1>3 DEF resched, account
<1>4. ASSUME NEW nbytes \in Sizes, vmalloc(nbytes) PROVE Unmarked'
  BY <1>1, <1>4 DEF vmalloc
<1>5. CASE kernel_service_malloc
  <2>1. currpid \in Procs
    BY <1>5 DEF kernel_service_malloc
  <2> QED BY <1>5, <2>1, MallocUnmarked
<1>6. CASE VFree
  <2>1. PICK b \in held[currpid] : InUser /\ kernel_service_free(b)
    BY <1>6 DEF VFree
  <2> QED BY <2>1, VFreeUnmarked DEF InUser
<1>7. CASE OwnAccess
  BY <1>7, OwnedBelow, AccessUnmarked DEF OwnAccess
<1>8. CASE StrayAccess
  BY <1>8, AccessUnmarked DEF StrayAccess
<1>9. CASE UNCHANGED vars
  BY <1>1, <1>9 DEF vars, account
<1> QED BY <1>2, <1>3, <1>4, <1>5, <1>6, <1>7, <1>8, <1>9, CreateUnmarked
        DEF AnyNext, Next, Halted, Idle

\* A wild pointer brings nothing into memory that is not owned.
LEMMA StrayOwn ==
  ASSUME IInv, OwnInv, Confined, Unmarked, NoTableReused, StrayAccess
  PROVE  OwnInv' /\ Confined'
<1>1. PICK v \in VPages \ Owned(currpid) : InUser /\ Access(v)
  BY DEF StrayAccess
<1>2. /\ currpid \in Procs /\ tbl[currpid] # NULL /\ Cur(v) \in Pages /\ TypeOK /\ MapsConsistent
  BY <1>1 DEF IInv, ProcInv, TypeOK, InUser, Cur, Pages
<1>3. NoByteInLastPage => ~ InUse(Cur(v))
  BY <1>1, <1>2 DEF Unmarked, OnlyOwnedInUse, Cur
<1>4. /\ UNCHANGED <<account, tbl, held>>
      /\ \A r \in Pages : /\ Live(r)' => Live(r) \/ r = Cur(v)
                          /\ InUse(r)' <=> InUse(r)
  BY <1>1, AccessMarks
<1>5. ASSUME NoByteInLastPage, NEW r \in Pages, Live(r)' PROVE Live(r)
  <2>1. CASE r = Cur(v)
    BY <1>2, <1>3, <1>4, <1>5, <2>1 DEF InUse
  <2> QED BY <1>4, <1>5, <2>1
<1>6. OwnedInUse' /\ Confined'
  BY <1>4, <1>5, SameOwners
<1> QED BY <1>4, <1>6, SameBlocks DEF OwnInv, account

\* The invariant of what processes own, with the one of VirtMemProofs.
THEOREM Ownership ==
  ASSUME NoWrap, AddressesFit
  PROVE  StraySpec => [](OwnInv /\ Confined /\ Unmarked)
<1> DEFINE I == OwnInv /\ Confined /\ Unmarked
<1>1. Init => I
  <2>1. SUFFICES ASSUME Init PROVE I
    OBVIOUS
  <2>2. BlockInv /\ OwnedInUse /\ OnlyOwnedLive /\ OnlyOwnedInUse
    BY <2>1 DEF Init, BlockInv, OwnedInUse, OnlyOwnedLive, OnlyOwnedInUse
  <2> QED BY <2>2 DEF OwnInv, Confined, Unmarked
<1>2. (IInv /\ ReuseInv /\ halted # "assertion") /\ I
        /\ [Next \/ (NoTableReused /\ StrayAccess)]_vars => I'
  BY NextOwn, StrayOwn, NextUnmarked DEF AnyNext
<1> QED BY <1>1, <1>2, Inductive, PTL DEF StraySpec

\* Only pages a process was given are backed by a frame, whatever it allocates,
\* frees and touches.  vfree rounds the address of the last byte up to a page,
\* and so leaves the last page of a block that ends one byte into it: such
\* sizes are excluded.
THEOREM OwnedOnly ==
  ASSUME NoWrap, AddressesFit, NoByteInLastPage
  PROVE  StraySpec => []OnlyOwnedLive
<1>1. OwnInv /\ Confined /\ Unmarked => OnlyOwnedLive
  BY DEF Confined
<1> QED BY <1>1, Ownership, PTL

\* A process can use what it was given for as long as it holds it: no vfree of
\* another block, no kill of another process and no eviction makes an access to
\* its stack or to one of its blocks a segmentation fault.
THEOREM NoFaultOnOwned ==
  ASSUME NoWrap, AddressesFit
  PROVE  StraySpec => []OwnedInUse /\ [][OwnAccess => halted' # "SEGMENTATION FAULT"]_vars
<1>1. OwnInv /\ Confined /\ Unmarked => OwnedInUse
  BY DEF OwnInv
<1>2. (IInv /\ ReuseInv /\ halted # "assertion") /\ (OwnInv /\ Confined /\ Unmarked)
        /\ [Next \/ (NoTableReused /\ StrayAccess)]_vars
        => [OwnAccess => halted' # "SEGMENTATION FAULT"]_vars
  BY AccessOwn
<1> QED BY <1>1, <1>2, Inductive, Ownership, PTL DEF StraySpec

-----------------------------------------------------------------------------
(* The contents of the pages.  That what a process reads is what it wrote  *)
(* last needs that the handler never runs out of every way to write a page *)
(* out: the exchange in place leaves a page clean that has no copy in      *)
(* swap, and a later eviction may lose it.                                 *)

\* The swap frame that backs the resident page q holds its latest contents.
BackedUp(q) == pt[q].already_swapped /\ mem[ffs2swapmap[pt[q].base]] = q

\* The latest contents of a written page are where its entry says, and a
\* resident page that is clean has them in swap as well: an eviction does not
\* write a clean page out.
Backed ==
  \A q \in written :
    /\ Live(q) /\ mem[pt[q].base] = q
    /\ pt[q].pres /\ pt[q].base \in FFS /\ ~ pt[q].dirty => BackedUp(q)

\* A step that changes neither the entry of q nor the frames it is in.
LEMMA Untouched ==
  ASSUME NEW q \in Pages, pt'[q] = pt[q], Live(q) /\ mem[pt[q].base] = q,
         pt[q].pres /\ pt[q].base \in FFS /\ ~ pt[q].dirty => BackedUp(q),
         mem'[pt[q].base] = mem[pt[q].base],
         pt[q].pres /\ pt[q].base \in FFS /\ pt[q].already_swapped =>
           /\ ffs2swapmap'[pt[q].base] = ffs2swapmap[pt[q].base]
           /\ mem'[ffs2swapmap[pt[q].base]] = mem[ffs2swapmap[pt[q].base]]
  PROVE  /\ Live(q)' /\ mem'[pt'[q].base] = q
         /\ pt'[q].pres /\ pt'[q].base \in FFS /\ ~ pt'[q].dirty => BackedUp(q)'
BY DEF Live, BackedUp

\* Where a written page is, and the frame that backs it.
LEMMA WrittenFrames ==
  ASSUME TypeOK, MapsConsistent, Backed, NEW r \in written
  PROVE  /\ r \in Pages /\ r # NULL /\ pt[r].base \in Frames
         /\ pt[r].pres => /\ ~ pt[r].isswapped
                          /\ \/ pt[r].base \in FFS /\ ptmap[pt[r].base] = r
                             \/ pt[r].base \in VStack \ vstacklist
         /\ ~ pt[r].pres => pt[r].isswapped /\ pt[r].base \in Swap /\ pt[r].already_swapped
         /\ pt[r].pres /\ pt[r].base \in FFS /\ pt[r].already_swapped =>
              /\ ffs2swapmap[pt[r].base] \in Swap
              /\ swap2ffsmap[ffs2swapmap[pt[r].base]] = r
<1>1. r \in Pages /\ r # NULL /\ Live(r)
  BY VirtMemAssumption DEF TypeOK, Backed
<1>2. /\ pt[r].pres => /\ ~ pt[r].isswapped
                       /\ \/ pt[r].base \in FFS /\ ptmap[pt[r].base] = r
                          \/ pt[r].base \in VStack \ vstacklist
      /\ ~ pt[r].pres => pt[r].isswapped /\ pt[r].base \in Swap /\ pt[r].already_swapped
  BY <1>1 DEF MapsConsistent, PageInv, Live
<1>3. ASSUME pt[r].pres, pt[r].base \in FFS, pt[r].already_swapped
      PROVE  /\ ffs2swapmap[pt[r].base] \in Swap
             /\ swap2ffsmap[ffs2swapmap[pt[r].base]] = r
  <2>1. ptmap[pt[r].base] = r
    BY <1>2, <1>3, Regions
  <2>2. ffs2swapmap[pt[r].base] # -1
    BY <1>1, <1>3, <2>1 DEF MapsConsistent, FfsInv
  <2> QED BY <1>3, <2>1, <2>2 DEF TypeOK, MapsConsistent, FfsInv
<1> QED BY <1>1, <1>2, <1>3, Regions

-----------------------------------------------------------------------------
\* An eviction by which page q takes frame f of page w, which goes to s.
LEMMA ExchangeBacked ==
  ASSUME TypeOK, MapsConsistent, Backed,
         NEW q \in Pages, NEW f \in FFS, NEW s \in Swap, NEW c \in Pages \union {NULL},
         Exchanging(q, f, s, c)
  PROVE  Backed'
<1> DEFINE w == ptmap[f]
           d == pt[c].base
           swapped == pt[q].isswapped
           out == IF pt[w].dirty \/ swapped THEN Copy(mem, f, s) ELSE mem
<1>1. ExchangeEffect(q, f, s, c)
  BY ExchangeDoes
<1>2. /\ w \in Pages /\ w # q /\ pt[w].pres /\ pt[w].base = f /\ w # NULL
      /\ pt[q] \in PTE /\ pt[w] \in PTE /\ q # NULL
      /\ c # NULL => /\ c \in Pages /\ c # q /\ c # w /\ pt[c].pres /\ d \in FFS /\ d # f
                     /\ ptmap[d] = c /\ pt[c] \in PTE
      /\ \A r \in Pages : pt'[r] = IF r = q THEN BroughtIn(pt[q], f)
                                   ELSE IF r = w THEN Evicted(pt[w], s)
                                   ELSE IF r = c THEN Collected(pt[c])
                                   ELSE pt[r]
  BY <1>1 DEF ExchangeEffect
<1>3. /\ ~ pt[q].pres
      /\ \A r \in Pages : pt[r].isswapped => pt[r].base # s
      /\ swap2ffsmap[s] \in {NULL, w, c}
      /\ ffs2swapmap[f] \in {-1, s}
  BY DEF Exchanging
<1>4. /\ written' = written
      /\ mem' = IF swapped THEN Copy(out, pt[q].base, f) ELSE out
      /\ \A g \in FFS : g # f /\ (c # NULL => g # d) => ffs2swapmap'[g] = ffs2swapmap[g]
      /\ swapped => ffs2swapmap'[f] = pt[q].base
  <2> DEFINE tables == IF c = NULL THEN pt ELSE [pt EXCEPT ![c] = Collected(pt[c])]
             ftsm == IF c = NULL THEN ffs2swapmap ELSE [ffs2swapmap EXCEPT ![d] = -1]
  <2>1. Exchange(q, f, s, tables, ftsm)
    BY DEF Exchanging
  <2>2. tables[w] = pt[w]
    BY <1>2 DEF TypeOK
  <2>3. ftsm \in [FFS -> Swap \union {-1}]
    BY <1>2 DEF TypeOK
  <2>4. \A g \in FFS : (c # NULL => g # d) => ftsm[g] = ffs2swapmap[g]
    BY <1>2 DEF TypeOK
  <2> HIDE DEF tables, ftsm
  <2>5. written' = written /\ mem' = IF swapped THEN Copy(out, pt[q].base, f) ELSE out
    BY <2>1, <2>2 DEF Exchange
  <2>6. ffs2swapmap' = IF swapped THEN [ftsm EXCEPT ![f] = pt[q].base] ELSE [ftsm EXCEPT ![f] = -1]
    BY <2>1 DEF Exchange
  <2> QED BY <2>3, <2>4, <2>5, <2>6
<1>5. /\ f \in Frames /\ s \in Frames /\ f # s /\ f \notin Swap /\ s \notin FFS
      /\ mem \in [Frames -> Pages \union {Junk}]
  BY Regions DEF TypeOK
<1>6. swapped => pt[q].base \in Swap /\ pt[q].base \in Frames /\ pt[q].base # s /\ pt[q].already_swapped
  BY <1>3, Regions DEF MapsConsistent, PageInv
<1>7. /\ mem'[s] = IF pt[w].dirty \/ swapped THEN mem[f] ELSE mem[s]
      /\ swapped => mem'[f] = mem[pt[q].base] /\ mem'[pt[q].base] = mem[pt[q].base]
      /\ \A g \in Frames : g # s /\ g # f => mem'[g] = mem[g]
  <2>1. /\ out[s] = IF pt[w].dirty \/ swapped THEN mem[f] ELSE mem[s]
        /\ \A g \in Frames : g # s => out[g] = mem[g]
        /\ DOMAIN out = Frames
    BY <1>5 DEF Copy
  <2> HIDE DEF out
  <2> QED BY <1>4, <1>5, <1>6, <2>1, Regions DEF Copy
<1> SUFFICES ASSUME NEW r \in written
             PROVE  /\ Live(r)' /\ mem'[pt'[r].base] = r
                    /\ pt'[r].pres /\ pt'[r].base \in FFS /\ ~ pt'[r].dirty => BackedUp(r)'
  BY <1>4 DEF Backed
<1>8. /\ r \in Pages /\ r # NULL /\ Live(r) /\ mem[pt[r].base] = r /\ pt[r].base \in Frames
      /\ pt[r].pres /\ pt[r].base \in FFS /\ ~ pt[r].dirty => BackedUp(r)
  BY WrittenFrames DEF Backed
<1>9. CASE r = w
  <2>1. pt'[r].base = s /\ ~ pt'[r].pres /\ pt'[r].isswapped
    BY <1>2, <1>5, <1>9, EvictedOps, Regions
  <2>2. mem'[s] = r
    <3>1. CASE pt[w].dirty \/ swapped
      BY <3>1, <1>2, <1>7, <1>8, <1>9
    <3>2. CASE ~ (pt[w].dirty \/ swapped)
      <4>1. pt[w].already_swapped /\ mem[ffs2swapmap[f]] = w
        BY <3>2, <1>2, <1>8, <1>9 DEF BackedUp
      <4>2. ffs2swapmap[f] = s
        BY <4>1, <1>2, <1>3 DEF MapsConsistent, FfsInv
      <4> QED BY <3>2, <4>1, <4>2, <1>7, <1>9
    <3> QED BY <3>1, <3>2
  <2> QED BY <2>1, <2>2 DEF Live
<1>10. CASE r = q
  <2>1. swapped
    BY <1>3, <1>8, <1>10 DEF Live
  <2>2. pt'[r].base = f /\ pt'[r].pres /\ pt'[r].already_swapped
    <3>1. pt'[r] = BroughtIn(pt[q], f) /\ f \in 0 .. (F + S + VS)
      BY <1>2, <1>5, <1>8, <1>10, Regions
    <3>2. /\ BroughtIn(pt[q], f).base = f /\ BroughtIn(pt[q], f).pres
          /\ BroughtIn(pt[q], f).already_swapped <=> pt[q].already_swapped
      BY <1>2, <3>1, BroughtInOps
    <3> QED BY <3>1, <3>2, <1>6, <2>1
  <2> QED BY <2>1, <2>2, <1>4, <1>7, <1>8, <1>10 DEF Live, BackedUp
<1>11. CASE r = c
  <2>1. pt'[r].base = d /\ pt'[r].pres /\ pt'[r].dirty
    <3>1. pt'[r] = Collected(pt[r]) /\ pt[r] \in PTE
      BY <1>2, <1>8, <1>11
    <3>2. Collected(pt[r]).dirty
      BY <3>1 DEF Collected, PTE
    <3> QED BY <3>1, <3>2, <1>2, <1>8, <1>11, CollectedOps
  <2> QED BY <2>1, <1>2, <1>5, <1>7, <1>8, <1>11 DEF Live
<1>12. CASE r # w /\ r # q /\ r # c
  <2>1. pt'[r] = pt[r]
    BY <1>2, <1>8, <1>12
  <2>2. pt[r].base # f /\ pt[r].base # s
    <3>1. pt[r].base # f
      BY <1>2, <1>8, <1>12 DEF MapsConsistent, NoSharing, Live
    <3>2. pt[r].base # s
      BY <1>3, <1>8, Regions, WrittenFrames
    <3> QED BY <3>1, <3>2
  <2>3. ASSUME pt[r].pres, pt[r].base \in FFS, pt[r].already_swapped
        PROVE  /\ ffs2swapmap'[pt[r].base] = ffs2swapmap[pt[r].base]
               /\ mem'[ffs2swapmap[pt[r].base]] = mem[ffs2swapmap[pt[r].base]]
    <3>1. /\ ffs2swapmap[pt[r].base] \in Swap /\ swap2ffsmap[ffs2swapmap[pt[r].base]] = r
          /\ ptmap[pt[r].base] = r
      BY <2>3, WrittenFrames, Regions
    <3>2. c # NULL => pt[r].base # d
      BY <1>2, <1>12, <3>1
    <3>3. ffs2swapmap[pt[r].base] # s
      BY <1>3, <1>8, <1>12, <3>1
    <3> QED BY <1>4, <1>5, <1>7, <2>2, <2>3, <3>1, <3>2, <3>3, Regions
  <2> QED BY <1>7, <1>8, <2>1, <2>2, <2>3, Untouched
<1> QED BY <1>9, <1>10, <1>11, <1>12

\* A fault that finds a free frame.
LEMMA FaultInBacked ==
  ASSUME TypeOK, MapsConsistent, Backed, NEW q \in Pages, NEW f \in FFS, FaultingIn(q, f)
  PROVE  Backed'
<1> DEFINE swapped == pt[q].isswapped
<1>1. /\ ~ pt[q].pres /\ f \in ffslist /\ ptmap[f] = NULL
      /\ pt[q] \in PTE /\ f \in Frames /\ f \notin Swap /\ f \notin VStack
      /\ mem \in [Frames -> Pages \union {Junk}]
  BY Regions DEF FaultingIn, TypeOK, MapsConsistent, FfsInv
<1>2. /\ pt' = [pt EXCEPT ![q] = BroughtIn(@, f)] /\ written' = written
      /\ swapped => /\ mem' = Copy(mem, pt[q].base, f)
                    /\ ffs2swapmap' = [ffs2swapmap EXCEPT ![f] = pt[q].base]
      /\ ~ swapped => UNCHANGED <<mem, ffs2swapmap>>
  <2>1. ffs2swapmap[f] = -1
    BY <1>1 DEF MapsConsistent, FfsInv
  <2>2. swapped => swap2ffsmap[pt[q].base] = NULL
    BY DEF MapsConsistent, PageInv
  <2> QED BY <1>1, <2>1, <2>2 DEF FaultingIn, FaultIn
<1>3. swapped => /\ pt[q].base \in Swap /\ pt[q].base \in Frames /\ pt[q].already_swapped
                 /\ mem'[f] = mem[pt[q].base] /\ ffs2swapmap'[f] = pt[q].base
                 /\ mem'[pt[q].base] = mem[pt[q].base]
  <2>1. swapped => pt[q].base \in Swap /\ pt[q].base \in Frames /\ pt[q].already_swapped
    BY Regions DEF MapsConsistent, PageInv
  <2> QED BY <1>1, <1>2, <2>1 DEF TypeOK, Copy
<1>4. /\ \A g \in Frames : g # f => mem'[g] = mem[g]
      /\ \A g \in FFS : g # f => ffs2swapmap'[g] = ffs2swapmap[g]
  BY <1>1, <1>2 DEF TypeOK, Copy
<1> SUFFICES ASSUME NEW r \in written
             PROVE  /\ Live(r)' /\ mem'[pt'[r].base] = r
                    /\ pt'[r].pres /\ pt'[r].base \in FFS /\ ~ pt'[r].dirty => BackedUp(r)'
  BY <1>2 DEF Backed
<1>5. /\ r \in Pages /\ r # NULL /\ Live(r) /\ mem[pt[r].base] = r /\ pt[r].base \in Frames
      /\ pt[r].pres /\ pt[r].base \in FFS /\ ~ pt[r].dirty => BackedUp(r)
  BY WrittenFrames DEF Backed
<1>6. CASE r = q
  <2>1. swapped
    BY <1>1, <1>5, <1>6 DEF Live
  <2>2. pt'[q] = BroughtIn(pt[q], f)
    BY <1>2 DEF TypeOK
  <2>3. pt'[r].base = f /\ pt'[r].pres /\ pt'[r].already_swapped
    BY <1>1, <1>3, <1>6, <2>1, <2>2, BroughtInOps, Regions
  <2> QED BY <1>3, <1>5, <1>6, <2>1, <2>3 DEF Live, BackedUp
<1>7. CASE r # q
  <2>1. pt'[r] = pt[r] /\ pt[r].base # f
    BY <1>1, <1>2, <1>5, <1>7, WrittenFrames DEF TypeOK
  <2>2. pt[r].pres /\ pt[r].base \in FFS /\ pt[r].already_swapped =>
          /\ ffs2swapmap[pt[r].base] \in Frames /\ ffs2swapmap[pt[r].base] # f
    BY <1>1, WrittenFrames, Regions
  <2> QED BY <1>4, <1>5, <2>1, <2>2, Untouched
<1> QED BY <1>6, <1>7

\* The page fault handler, unless it has to exchange pages in place.
LEMMA HandlerBacked ==
  ASSUME TypeOK, MapsConsistent, Backed, ~ MemoryStuck,
         NEW v \in VPages, Cur(v) \in Pages, pagefault_handler(v)
  PROVE  Backed'
<1>1. ASSUME NEW why, Halt(why) PROVE Backed'
  BY <1>1 DEF Halt, maps, Backed, Live, BackedUp
<1>2. ASSUME NEW f \in FFS PROVE ~ InPlaceExchange(Cur(v), f)
  BY DEF InPlaceExchange, MemoryStuck
<1> QED BY <1>1, <1>2, HandlerCases, FaultInBacked, ExchangeBacked

\* An access that hits: a store puts the new contents where the entry says and
\* makes every other copy worthless.
LEMMA HitBacked ==
  ASSUME TypeOK, MapsConsistent, Backed, TLBCoherent, currpid \in Procs,
         NEW v \in VPages, Cur(v) \in Pages, Read(v) \/ Write(v)
  PROVE  Backed'
<1> DEFINE q == Cur(v)
           t == Translation(v)
<1>1. CASE Read(v)
  BY <1>1 DEF Read, maps, Backed, Live, BackedUp
<1>2. CASE Write(v)
  <2>1. /\ mem' = [g \in Frames |-> IF g = t.base THEN q ELSE IF mem[g] = q THEN Junk ELSE mem[g]]
        /\ written' = written \union {q} /\ UNCHANGED maps
        /\ pt' = IF t.dirty THEN pt ELSE [pt EXCEPT ![q].dirty = TRUE]
        /\ Mapped(v)
    BY <1>2 DEF Write
  <2>2. pt[q].pres /\ pt[q].base = t.base /\ (t.dirty => pt[q].dirty)
    BY <2>1 DEF Mapped, Translation, Cached, TLBCoherent
  <2>3. t.base \in Frames /\ t.base \notin Swap /\ pt[q] \in PTE
    BY <2>2, Regions DEF TypeOK, MapsConsistent, PageInv
  <2>4. pt'[q].pres /\ pt'[q].base = t.base /\ pt'[q].dirty
    BY <2>1, <2>2, <2>3 DEF TypeOK, PTE
  <2> SUFFICES ASSUME NEW r \in written'
               PROVE  /\ Live(r)' /\ mem'[pt'[r].base] = r
                      /\ pt'[r].pres /\ pt'[r].base \in FFS /\ ~ pt'[r].dirty => BackedUp(r)'
    BY DEF Backed
  <2>5. CASE r = q
    BY <2>1, <2>3, <2>4, <2>5 DEF Live
  <2>6. CASE r # q
    <3>1. /\ r \in written /\ r \in Pages /\ r # NULL /\ Live(r) /\ mem[pt[r].base] = r
          /\ pt[r].base \in Frames
          /\ pt[r].pres /\ pt[r].base \in FFS /\ ~ pt[r].dirty => BackedUp(r)
      BY <2>1, <2>6, WrittenFrames DEF Backed
    <3>2. pt'[r] = pt[r] /\ ffs2swapmap' = ffs2swapmap
      BY <2>1, <2>6, <3>1 DEF TypeOK, maps
    <3>3. pt[r].base # t.base
      BY <2>2, <2>6, <3>1 DEF MapsConsistent, NoSharing, Live
    <3>4. mem'[pt[r].base] = r
      BY <2>1, <2>6, <3>1, <3>3
    <3>5. ASSUME BackedUp(r), pt[r].pres, pt[r].base \in FFS PROVE BackedUp(r)'
      <4>1. ffs2swapmap[pt[r].base] \in Swap /\ ffs2swapmap[pt[r].base] \in Frames
        BY <3>1, <3>5, WrittenFrames, Regions DEF BackedUp
      <4> QED BY <2>1, <2>3, <2>6, <3>1, <3>2, <3>5, <4>1 DEF BackedUp
    <3> QED BY <3>1, <3>2, <3>4, <3>5 DEF Live
  <2> QED BY <2>5, <2>6
<1> QED BY <1>1, <1>2

-----------------------------------------------------------------------------
\* free_vpage takes no written page but those it frees.
LEMMA FreeBacked ==
  ASSUME TypeOK, MapsConsistent, Backed, NEW P \in SUBSET Pages, FreeVPages(P)
  PROVE  Backed'
<1> DEFINE ffs == {pt[q].base : q \in Resident(P)}
<1>1. /\ ffs2swapmap' = [f \in FFS |-> IF f \in ffs THEN -1 ELSE ffs2swapmap[f]]
      /\ pt' = [q \in Pages |-> IF q \in P THEN ZeroPTE ELSE pt[q]]
      /\ mem' = [f \in Frames |-> IF mem[f] \in P THEN Junk ELSE mem[f]]
      /\ written' = written \ P
  BY DEF FreeVPages
<1> SUFFICES ASSUME NEW r \in written, r \notin P
             PROVE  /\ Live(r)' /\ mem'[pt'[r].base] = r
                    /\ pt'[r].pres /\ pt'[r].base \in FFS /\ ~ pt'[r].dirty => BackedUp(r)'
  BY <1>1 DEF Backed
<1>2. /\ r \in Pages /\ r # NULL /\ Live(r) /\ mem[pt[r].base] = r /\ pt[r].base \in Frames
      /\ pt[r].pres /\ pt[r].base \in FFS /\ ~ pt[r].dirty => BackedUp(r)
  BY WrittenFrames DEF Backed
<1>3. pt'[r] = pt[r] /\ mem'[pt[r].base] = r
  BY <1>1, <1>2
<1>4. pt[r].base \notin ffs
  <2>1. SUFFICES ASSUME NEW q \in Resident(P), pt[q].base = pt[r].base PROVE FALSE
    OBVIOUS
  <2>2. q \in P /\ q \in Pages /\ q # r /\ Live(q)
    BY DEF Resident, Live
  <2>3. pt[q].base # pt[r].base
    BY <1>2, <2>2, SMTT(20) DEF MapsConsistent, NoSharing
  <2> QED BY <2>1, <2>3
<1>5. ASSUME BackedUp(r), pt[r].pres, pt[r].base \in FFS PROVE BackedUp(r)'
  <2>1. ffs2swapmap[pt[r].base] \in Frames
    BY <1>5, WrittenFrames, Regions DEF BackedUp
  <2> QED BY <1>1, <1>3, <1>4, <1>5, <2>1 DEF BackedUp
<1> QED BY <1>2, <1>3, <1>5 DEF Live

\* No written page is among those that vmalloc hands out.
LEMMA MallocBacked ==
  ASSUME IInv, Backed, NEW p \in Procs, p = currpid, kernel_service_malloc
  PROVE  Backed'
<1> DEFINE n == ceil_div(req[p], PAGE_SIZE)
           new == {Cur(v) : v \in {w \in VPages : vmax[p] <= w /\ w < vmax[p] + n}}
<1>1. CASE Halt("assertion")
  BY <1>1 DEF Halt, maps, Backed, Live, BackedUp
<1>2. CASE /\ pt' = [q \in Pages |-> IF q \in new THEN HeapPTE ELSE pt[q]]
           /\ UNCHANGED <<maps, mem, written>>
  <2>1. \A r \in written : r \in Pages /\ r \notin new
    <3>1. SUFFICES ASSUME NEW r \in written, NEW w \in VPages, vmax[p] <= w, r = <<tbl[p], w>>
          PROVE  FALSE
      BY DEF IInv, TypeOK, Cur
    <3>2. r \in Pages /\ Live(r)
      BY DEF IInv, TypeOK, Backed
    <3>3. PICK u \in Procs : tbl[u] = r[1] /\ r[2] < vmax[u]
      BY <3>2 DEF IInv, TableInv
    <3>4. r[1] = tbl[p] /\ r[2] = w /\ tbl[p] # NULL
      BY <3>1 DEF IInv, ProcInv
    <3>5. u = p
      BY <3>3, <3>4 DEF IInv, TableInv
    <3>6. vmax[p] \in Nat /\ w \in Nat
      BY VirtMemAssumption DEF IInv, TypeOK, VPages
    <3> QED BY <3>1, <3>3, <3>4, <3>5, <3>6
  <2>2. \A r \in written : pt'[r] = pt[r]
    BY <1>2, <2>1
  <2> SUFFICES ASSUME NEW r \in written
               PROVE  /\ Live(r)' /\ mem'[pt'[r].base] = r
                      /\ pt'[r].pres /\ pt'[r].base \in FFS /\ ~ pt'[r].dirty => BackedUp(r)'
    BY <1>2 DEF Backed
  <2> QED BY <1>2, <2>1, <2>2, Untouched DEF maps, Backed
<1> QED BY <1>1, <1>2 DEF kernel_service_malloc

\* A new process has written its initial stack, and its table had no live page.
LEMMA CreateBacked ==
  ASSUME IInv, Backed, NEW p \in Procs, vcreate(p)
  PROVE  Backed'
<1>1. ASSUME NEW why, Halt(why) PROVE Backed'
  BY <1>1 DEF Halt, maps, Backed, Live, BackedUp
<1>2. ASSUME NEW t \in Tables, NEW f \in VStack, t \in pdptlist, f \in vstacklist,
             pt' = [CreateTable(t) EXCEPT ![<<t, 0>>] = StackPTE(f)],
             mem' = [mem EXCEPT ![f] = <<t, 0>>],
             written' = written \union {<<t, 0>>}, UNCHANGED maps
      PROVE  Backed'
  <2> DEFINE k == <<t, 0>>
  <2>1. k \in Pages /\ t # NULL /\ f \in Frames /\ f \notin FFS /\ f \notin Swap
    BY VirtMemAssumption, Regions DEF Pages, VPages
  <2>2. ~ Live(k)
    BY <1>2, <2>1 DEF IInv, TableInv
  <2>3. pt'[k].pres /\ pt'[k].base = f /\ mem'[f] = k
    BY <1>2, <2>1 DEF IInv, TypeOK, CreateTable, StackPTE, ZeroPTE
  <2>4. ASSUME NEW r \in written
        PROVE  /\ Live(r)' /\ mem'[pt'[r].base] = r
               /\ pt'[r].pres /\ pt'[r].base \in FFS /\ ~ pt'[r].dirty => BackedUp(r)'
    <3>1. /\ r \in Pages /\ Live(r) /\ mem[pt[r].base] = r /\ pt[r].base \in Frames
          /\ pt[r].pres /\ pt[r].base \in FFS /\ ~ pt[r].dirty => BackedUp(r)
      BY WrittenFrames DEF IInv, Backed
    <3>2. pt'[r] = pt[r] /\ pt[r].base # f
      BY <1>2, <2>1, <2>2, <3>1, WrittenFrames DEF IInv, CreateTable
    <3>3. pt[r].pres /\ pt[r].base \in FFS /\ pt[r].already_swapped =>
            ffs2swapmap[pt[r].base] \in Frames /\ ffs2swapmap[pt[r].base] # f
      BY <2>1, WrittenFrames, Regions DEF IInv
    <3>4. mem \in [Frames -> Pages \union {Junk}]
      BY DEF IInv, TypeOK
    <3> QED BY <1>2, <3>1, <3>2, <3>3, <3>4, Untouched DEF maps
  <2>5. /\ Live(k)' /\ mem'[pt'[k].base] = k /\ pt'[k].base \notin FFS
    BY <2>1, <2>3 DEF Live
  <2> QED BY <1>2, <2>4, <2>5 DEF Backed
<1> QED BY <1>1, <1>2 DEF vcreate, Lowest

-----------------------------------------------------------------------------
\* Every step keeps the latest contents of every page where the maps say, as
\* long as the handler has a way to evict.
LEMMA BackedStep ==
  ASSUME IInv, TLBCoherent, Backed, ~ MemoryStuck, [AnyNext]_vars
  PROVE  Backed'
<1>1. CASE UNCHANGED <<pt, maps, mem, written>>
  BY <1>1 DEF maps, Backed, Live, BackedUp
<1>2. CASE UNCHANGED vars
  BY <1>1, <1>2 DEF vars
<1>3. ASSUME NEW p \in Procs \union {NULLPROC}, resched(p) PROVE Backed'
  BY <1>1, <1>3 DEF resched
<1>4. ASSUME NEW nbytes \in Sizes, vmalloc(nbytes) PROVE Backed'
  BY <1>1, <1>4 DEF vmalloc
<1>5. CASE kernel_service_malloc
  BY <1>5, MallocBacked DEF kernel_service_malloc
<1>6. ASSUME NEW p \in Procs, kill(p) PROVE Backed'
  <2>1. CASE Halt("assertion") \/ Halt("Illegal value of n_free_vpages")
    BY <2>1, <1>1 DEF Halt
  <2>2. CASE FreeVPages(freevmem(tbl[p]))
    BY <2>2, FreeBacked DEF IInv, freevmem
  <2> QED BY <1>6, <2>1, <2>2 DEF kill
<1>7. CASE VFree
  <2>1. PICK b \in held[currpid] : InUser /\ kernel_service_free(b)
    BY <1>7 DEF VFree
  <2> DEFINE P == {Cur(v) : v \in FreedPages(b)}
  <2>2. P \in SUBSET Pages
    BY <2>1 DEF IInv, TypeOK, ProcInv, InUser, FreedPages, Cur, Pages
  <2>3. CASE Halt("assertion") \/ Halt("Illegal value of n_free_vpages")
    BY <2>3, <1>1 DEF Halt
  <2>4. CASE FreeVPages(P)
    BY <2>2, <2>4, FreeBacked DEF IInv
  <2> QED BY <2>1, <2>3, <2>4 DEF kernel_service_free
<1>8. ASSUME InUser, NEW v \in VPages, Access(v) PROVE Backed'
  <2>1. currpid \in Procs /\ Cur(v) \in Pages
    BY <1>8 DEF IInv, ProcInv, TypeOK, InUser, Cur, Pages
  <2> QED BY <1>8, <2>1, HandlerBacked, HitBacked DEF IInv, Access
<1>9. CASE OwnAccess \/ StrayAccess
  BY <1>8, <1>9, OwnedBelow DEF OwnAccess, StrayAccess
<1> QED BY <1>2, <1>3, <1>4, <1>5, <1>6, <1>7, <1>9, CreateBacked DEF AnyNext, Next, Halted, Idle

\* What is backed is what a read returns, cached or not.
LEMMA BackedData == Backed /\ TLBCoherent => DataIntegrity
BY DEF Backed, TLBCoherent, DataIntegrity

LEMMA BackedAlways ==
  ASSUME NoWrap
  PROVE  StraySpec /\ []~ MemoryStuck => []Backed
<1>1. Init => Backed
  BY DEF Init, Backed
<1>2. (IInv /\ ReuseInv /\ halted # "assertion") /\ TLBCoherent /\ ~ MemoryStuck /\ Backed
        /\ [Next \/ (NoTableReused /\ StrayAccess)]_vars => Backed'
  BY BackedStep DEF AnyNext
<1> QED BY <1>1, <1>2, Inductive, NoStaleTranslation, PTL DEF StraySpec

\* Swapping loses nothing: a page that its owner has written to is in the
\* frame its entry names, and in the frame the processor has cached for it,
\* whatever was evicted, brought in, collected or freed in between.
THEOREM ContentsKept ==
  ASSUME NoWrap
  PROVE  StraySpec /\ []~ MemoryStuck => []DataIntegrity
BY BackedAlways, BackedData, NoStaleTranslation, PTL

-----------------------------------------------------------------------------
(***************************************************************************)
(* VirtMem implements AddressSpace.                                        *)
(***************************************************************************)

\* What process p sees of its memory while no page has lost its contents.
View(p) ==
  IF tbl[p] = NULL THEN <<>>
  ELSE [v \in Owned(p) |-> IF <<tbl[p], v>> \in written THEN "latest" ELSE "blank"]

LEMMA SpaceIsView == Backed => Space = [r \in Procs |-> View(r)]
BY DEF Backed, Space, Content, View

LEMMA SpaceIsViewNext == (Backed => Space = [r \in Procs |-> View(r)])'
BY SpaceIsView, PTL

\* A process sees the same memory after a step that changes neither its page
\* table, nor its blocks, nor which of its pages were written.
LEMMA SameView ==
  ASSUME NEW r \in Procs, tbl'[r] = tbl[r], held'[r] = held[r],
         tbl[r] # NULL => \A v \in Owned(r) : <<tbl[r], v>> \in written' <=> <<tbl[r], v>> \in written
  PROVE  View(r)' = View(r)
<1>1. Owned(r)' = Owned(r)
  BY DEF Owned, BlockPages
<1> QED BY <1>1 DEF View

LEMMA SameSpace ==
  ASSUME Backed, Backed', \A r \in Procs : View(r)' = View(r)
  PROVE  UNCHANGED Space
BY SpaceIsView, SpaceIsViewNext

\* A step that changes what one process sees.
LEMMA OneView ==
  ASSUME Backed, Backed', NEW p \in Procs, \A r \in Procs : r # p => View(r)' = View(r)
  PROVE  Space' = [Space EXCEPT ![p] = View(p)'] /\ Space[p] = View(p)
BY SpaceIsView, SpaceIsViewNext

\* vcreate: a process with a filled stack page.
LEMMA CreateSpace ==
  ASSUME IInv, OwnInv, Backed, Backed', NEW p \in Procs, vcreate(p)
  PROVE  Private!Create(p) \/ UNCHANGED Space
<1>1. ASSUME NEW why, Halt(why) PROVE UNCHANGED Space
  <2>1. \A r \in Procs : View(r)' = View(r)
    BY <1>1, SameView DEF Halt
  <2> QED BY <2>1, SameSpace
<1>2. ASSUME NEW t \in Tables, t \in pdptlist, tbl' = [tbl EXCEPT ![p] = t],
             written' = written \union {<<t, 0>>}, UNCHANGED held
      PROVE  Private!Create(p)
  <2>1. tbl[p] = NULL /\ held[p] = {} /\ tbl'[p] = t /\ t # NULL /\ 0 \in VPages
    <3>1. tbl[p] = NULL /\ tbl'[p] = t
      BY <1>2 DEF vcreate, IInv, TypeOK
    <3>2. held[p] = {}
      BY <3>1 DEF IInv, ProcInv
    <3>3. t # NULL /\ 0 \in VPages
      BY VirtMemAssumption DEF VPages
    <3> QED BY <3>1, <3>2, <3>3
  <2>2. ASSUME NEW r \in Procs, r # p PROVE View(r)' = View(r)
    <3>1. tbl'[r] = tbl[r] /\ tbl[r] # t
      BY <1>2, <2>1, <2>2 DEF IInv, TypeOK, TableInv
    <3> QED BY <1>2, <2>2, <3>1, SameView
  <2>3. View(p) = <<>>
    BY <2>1 DEF View
  <2>4. View(p)' = [v \in {0} |-> "latest"]
    <3>1. Owned(p)' = {0}
      BY <1>2, <2>1 DEF Owned
    <3> QED BY <1>2, <2>1, <3>1 DEF View
  <2>5. View(p)' \in [{0} -> {"latest"}] /\ {0} # {} /\ {0} \in SUBSET VPages
    BY <2>1, <2>4
  <2>6. Space' = [Space EXCEPT ![p] = View(p)'] /\ DOMAIN Space[p] = {}
    BY <2>2, <2>3, OneView
  <2> QED BY <2>5, <2>6 DEF Private!Create, Private!Pages
<1> QED BY <1>1, <1>2 DEF vcreate, Lowest

\* kernel_service_malloc: fresh pages, that nobody has written to.
LEMMA AllocateSpace ==
  ASSUME NoWrap, IInv, OwnInv, Confined, Backed, Backed', NEW p \in Procs, p = currpid,
         kernel_service_malloc
  PROVE  Private!Allocate(p) \/ UNCHANGED Space
<1> DEFINE b == [page |-> vmax[p], nbytes |-> req[p]]
<1>1. CASE Halt("assertion")
  <2>1. \A r \in Procs : View(r)' = View(r)
    BY <1>1, SameView DEF Halt
  <2> QED BY <2>1, SameSpace
<1>2. CASE held' = [held EXCEPT ![p] = @ \union {b}] /\ UNCHANGED <<tbl, written>>
  <2>1. /\ tbl[p] # NULL /\ tbl[p] \in Tables
        /\ held'[p] = held[p] \union {b} /\ \A r \in Procs : r # p => held'[r] = held[r]
    BY <1>2 DEF IInv, ProcInv, TypeOK, kernel_service_malloc
  <2>2. \A r \in Procs : r # p => View(r)' = View(r)
    BY <1>2, <2>1, SameView
  <2>3. Owned(p)' = Owned(p) \union BlockPages(b) /\ BlockPages(b) \subseteq VPages
    <3>1. BlockPages(b) \subseteq VPages
      BY DEF BlockPages
    <3> HIDE DEF b
    <3> QED BY <2>1, <3>1 DEF Owned, BlockPages
  <2>4. ASSUME NEW v \in BlockPages(b) PROVE v \notin Owned(p) /\ <<tbl[p], v>> \notin written
    <3>1. v \in VPages /\ v \in Int /\ vmax[p] \in Int /\ ~ (v < vmax[p])
      BY <2>4, VirtMemAssumption DEF BlockPages, VPages, IInv, TypeOK
    <3>2. v \notin Owned(p)
      BY <2>1, <3>1, OwnedPages
    <3>3. <<tbl[p], v>> \in Pages
      BY <2>1, <3>1 DEF Pages
    <3>4. ~ Live(<<tbl[p], v>>)
      <4>1. SUFFICES ASSUME NEW u \in Procs, tbl[u] = tbl[p], v < vmax[u] PROVE FALSE
        BY <3>3 DEF IInv, TableInv
      <4>2. u = p
        BY <2>1, <4>1 DEF IInv, TableInv
      <4> QED BY <3>1, <4>1, <4>2
    <3> QED BY <3>2, <3>4 DEF Backed
  <2>5. Space' = [Space EXCEPT ![p] = View(p)'] /\ Space[p] = View(p)
    BY <2>2, OneView
  <2>6. /\ DOMAIN Space[p] = Owned(p)
        /\ \A v \in Owned(p) : Space[p][v] = IF <<tbl[p], v>> \in written THEN "latest" ELSE "blank"
    BY <2>1, <2>5 DEF View
  <2>7. View(p)' = [v \in Owned(p) \union BlockPages(b) |->
                      IF v \in BlockPages(b) THEN "blank" ELSE Space[p][v]]
    <3>1. View(p)' = [v \in Owned(p) \union BlockPages(b) |->
                        IF <<tbl[p], v>> \in written THEN "latest" ELSE "blank"]
      BY <1>2, <2>1, <2>3 DEF View
    <3> QED BY <2>4, <2>6, <3>1
  <2>8. BlockPages(b) \in SUBSET (VPages \ Owned(p)) /\ Owned(p) # {}
    BY <2>3, <2>4 DEF Owned
  <2> HIDE DEF b
  <2>9. /\ DOMAIN Space[p] # {} /\ BlockPages(b) \in SUBSET (VPages \ DOMAIN Space[p])
        /\ Space' = [Space EXCEPT ![p] = [v \in DOMAIN Space[p] \union BlockPages(b) |->
                                           IF v \in BlockPages(b) THEN "blank" ELSE Space[p][v]]]
    BY <2>5, <2>6, <2>7, <2>8
  <2> QED BY <2>9 DEF Private!Allocate, Private!Pages
<1> QED BY <1>1, <1>2 DEF kernel_service_malloc

\* vfree: the pages of the block, and no others.
LEMMA FreeSpace ==
  ASSUME AddressesFit, IInv, OwnInv, Backed, Backed', InUser, NEW p \in Procs, p = currpid,
         NEW b \in held[p], kernel_service_free(b)
  PROVE  Private!Release(p) \/ UNCHANGED Space
<1> DEFINE P == {Cur(v) : v \in FreedPages(b)}
<1>1. CASE Halt("assertion") \/ Halt("Illegal value of n_free_vpages")
  <2>1. \A r \in Procs : View(r)' = View(r)
    BY <1>1, SameView DEF Halt
  <2> QED BY <2>1, SameSpace
<1>2. CASE /\ written' = written \ P
           /\ held' = [held EXCEPT ![p] = @ \ {b}] /\ UNCHANGED tbl
  <2>1. /\ tbl[p] # NULL /\ tbl[p] \in Tables /\ b.page > 0
        /\ b \in [page : Nat, nbytes : Nat] /\ b.nbytes \in Sizes \ {0}
        /\ b.page * PAGE_SIZE + b.nbytes <= V * PAGE_SIZE
        /\ held'[p] = held[p] \ {b} /\ \A r \in Procs : r # p => held'[r] = held[r]
    BY <1>2 DEF IInv, ProcInv, TypeOK, OwnInv, BlockInv
  <2>2. FreedPages(b) \subseteq BlockPages(b)
    <3>1. b \in [page : Nat, nbytes : Nat \ {0}]
      BY <2>1
    <3> QED BY <2>1, <3>1, BlockFreed
  <2>3. \A r \in Procs : r # p => View(r)' = View(r)
    <3>1. SUFFICES ASSUME NEW r \in Procs, r # p PROVE View(r)' = View(r)
      OBVIOUS
    <3>2. tbl[r] # NULL => \A v \in Owned(r) : <<tbl[r], v>> \notin P
      BY <2>1, <3>1 DEF IInv, TableInv, Cur
    <3> QED BY <1>2, <2>1, <3>1, <3>2, SameView
  <2>4. Owned(p)' = Owned(p) \ BlockPages(b) /\ BlockPages(b) \subseteq Owned(p)
    <3>1. 0 \notin BlockPages(b)
      BY <2>1 DEF BlockPages
    <3>2. \A c \in held[p] : c # b => BlockPages(c) \cap BlockPages(b) = {}
      BY DEF OwnInv, BlockInv
    <3> QED BY <2>1, <3>1, <3>2 DEF Owned, BlockPages
  <2>5. Space' = [Space EXCEPT ![p] = View(p)'] /\ Space[p] = View(p)
    BY <2>3, OneView
  <2>6. /\ DOMAIN Space[p] = Owned(p)
        /\ \A v \in Owned(p) : Space[p][v] = IF <<tbl[p], v>> \in written THEN "latest" ELSE "blank"
    BY <2>1, <2>5 DEF View
  <2>7. View(p)' = [v \in Owned(p) \ BlockPages(b) |-> Space[p][v]]
    <3>1. View(p)' = [v \in Owned(p) \ BlockPages(b) |->
                        IF <<tbl[p], v>> \in written' THEN "latest" ELSE "blank"]
      BY <1>2, <2>1, <2>4 DEF View
    <3>2. \A v \in Owned(p) \ BlockPages(b) : <<tbl[p], v>> \in written' <=> <<tbl[p], v>> \in written
      BY <1>2, <2>2 DEF Cur
    <3> QED BY <2>6, <3>1, <3>2
  <2> QED BY <2>4, <2>5, <2>6, <2>7 DEF Private!Release, Private!Pages
<1> QED BY <1>1, <1>2 DEF kernel_service_free, FreeVPages

\* kill: all pages of the process.
LEMMA KillSpace ==
  ASSUME IInv, Backed, Backed', NEW p \in Procs, kill(p)
  PROVE  Private!Release(p) \/ UNCHANGED Space
<1> DEFINE P == freevmem(tbl[p])
<1>1. CASE Halt("assertion") \/ Halt("Illegal value of n_free_vpages")
  <2>1. \A r \in Procs : View(r)' = View(r)
    BY <1>1, SameView DEF Halt
  <2> QED BY <2>1, SameSpace
<1>2. CASE /\ written' = written \ P /\ tbl' = [tbl EXCEPT ![p] = NULL]
           /\ held' = [held EXCEPT ![p] = {}]
  <2>1. /\ tbl[p] # NULL /\ tbl'[p] = NULL
        /\ \A r \in Procs : r # p => held'[r] = held[r] /\ tbl'[r] = tbl[r]
    BY <1>2 DEF IInv, TypeOK, kill
  <2>2. ASSUME NEW r \in Procs, r # p PROVE View(r)' = View(r)
    <3>1. tbl[r] # NULL => \A v \in Owned(r) : <<tbl[r], v>> \notin P
      BY <2>1, <2>2 DEF IInv, TableInv, freevmem
    <3> QED BY <1>2, <2>1, <2>2, <3>1, SameView
  <2>3. Space' = [Space EXCEPT ![p] = View(p)']
    BY <2>2, OneView
  <2>4. View(p)' = <<>>
    BY <2>1 DEF View
  <2> DEFINE D == DOMAIN Space[p]
  <2>5. [v \in D \ D |-> Space[p][v]] = <<>>
    OBVIOUS
  <2> QED BY <2>3, <2>4, <2>5 DEF Private!Release, Private!Pages
<1> QED BY <1>1, <1>2 DEF kill, FreeVPages

\* An access of the running process: a store is seen by that process only, and
\* the page fault handler by nobody.
LEMMA AccessSpace ==
  ASSUME IInv, OwnInv, Backed, Backed', InUser, NEW p \in Procs, p = currpid,
         NEW v \in Owned(p), Access(v)
  PROVE  Private!Store(p) \/ UNCHANGED Space
<1>1. tbl[p] # NULL /\ v \in VPages /\ Cur(v) \in Pages /\ TypeOK /\ MapsConsistent
  BY OwnedPages DEF IInv, ProcInv, Cur
<1>2. CASE UNCHANGED <<tbl, held, written>>
  <2>1. \A r \in Procs : View(r)' = View(r)
    BY <1>2, SameView
  <2> QED BY <2>1, SameSpace
<1>3. CASE pagefault_handler(v)
  BY <1>1, <1>2, <1>3, HandlerPages DEF Halt
<1>4. CASE Read(v)
  BY <1>2, <1>4 DEF Read
<1>5. CASE Write(v)
  <2>1. UNCHANGED <<tbl, held>> /\ written' = written \union {<<tbl[p], v>>}
    BY <1>5 DEF Write, Cur
  <2>2. \A r \in Procs : r # p => View(r)' = View(r)
    <3>1. SUFFICES ASSUME NEW r \in Procs, r # p PROVE View(r)' = View(r)
      OBVIOUS
    <3>2. tbl[r] # NULL => tbl[r] # tbl[p]
      BY <1>1, <3>1 DEF IInv, TableInv
    <3> QED BY <2>1, <3>1, <3>2, SameView
  <2>3. Space' = [Space EXCEPT ![p] = View(p)'] /\ Space[p] = View(p)
    BY <2>2, OneView
  <2>4. Owned(p)' = Owned(p)
    BY <2>1 DEF Owned, BlockPages
  <2>5. View(p)' = [View(p) EXCEPT ![v] = "latest"]
    BY <1>1, <2>1, <2>4 DEF View
  <2>6. v \in DOMAIN Space[p]
    BY <1>1, <2>3 DEF View
  <2>7. Space' = [Space EXCEPT ![p][v] = "latest"]
    BY <2>3, <2>5
  <2> QED BY <2>6, <2>7 DEF Private!Store, Private!Pages
<1> QED BY <1>3, <1>4, <1>5 DEF Access

\* A wild pointer writes only where no process looks.
LEMMA StraySpace ==
  ASSUME IInv, Backed, Backed', StrayAccess
  PROVE  UNCHANGED Space
<1>1. PICK v \in VPages \ Owned(currpid) : InUser /\ Access(v)
  BY DEF StrayAccess
<1>2. currpid \in Procs /\ tbl[currpid] # NULL /\ Cur(v) \in Pages /\ TypeOK /\ MapsConsistent
  BY <1>1 DEF IInv, ProcInv, TypeOK, InUser, Cur, Pages
<1>3. UNCHANGED <<tbl, held>> /\ (written' = written \/ written' = written \union {Cur(v)})
  BY <1>1, <1>2, HandlerPages DEF Access, Read, Write, Halt
<1>4. ASSUME NEW r \in Procs, tbl[r] # NULL, NEW u \in Owned(r) PROVE <<tbl[r], u>> # Cur(v)
  BY <1>1, <1>2, <1>4 DEF IInv, TableInv, Cur
<1>5. \A r \in Procs : View(r)' = View(r)
  BY <1>3, <1>4, SameView
<1> QED BY <1>5, SameSpace

LEMMA NextSpace ==
  ASSUME NoWrap, AddressesFit, IInv, OwnInv, Confined, Backed, Backed', [AnyNext]_vars
  PROVE  [Private!Next]_Space
<1>1. CASE UNCHANGED <<tbl, held, written>>
  <2>1. \A r \in Procs : View(r)' = View(r)
    BY <1>1, SameView
  <2> QED BY <2>1, SameSpace
<1>2. CASE UNCHANGED vars
  BY <1>1, <1>2 DEF vars
<1>3. ASSUME NEW p \in Procs \union {NULLPROC}, resched(p) PROVE [Private!Next]_Space
  BY <1>1, <1>3 DEF resched, account
<1>4. ASSUME NEW nbytes \in Sizes, vmalloc(nbytes) PROVE [Private!Next]_Space
  BY <1>1, <1>4 DEF vmalloc
<1>5. CASE kernel_service_malloc
  BY <1>5, AllocateSpace DEF kernel_service_malloc, Private!Next
<1>6. CASE VFree
  BY <1>6, FreeSpace DEF VFree, InUser, Private!Next
<1>7. CASE OwnAccess
  BY <1>7, AccessSpace DEF OwnAccess, InUser, Private!Next
<1>8. ASSUME NEW p \in Procs, vcreate(p) \/ kill(p) PROVE [Private!Next]_Space
  BY <1>8, CreateSpace, KillSpace DEF Private!Next
<1> QED BY <1>2, <1>3, <1>4, <1>5, <1>6, <1>7, <1>8, StraySpace DEF AnyNext, Next, Halted, Idle

\* Every process sees a private memory of its own: creation fills its stack,
\* vmalloc adds blank pages, vfree and kill take pages back, its own stores
\* change a page, and neither the page fault handler, nor the eviction and
\* collection of frames, nor any other process is seen at all.
THEOREM PrivateMemoryKept ==
  ASSUME NoWrap, AddressesFit
  PROVE  StraySpec /\ []~ MemoryStuck => PrivateMemory
<1>1. Init => Private!Init
  BY DEF Init, Space, Private!Init
<1>2. (IInv /\ ReuseInv /\ halted # "assertion") /\ (OwnInv /\ Confined /\ Unmarked)
        /\ Backed /\ Backed' /\ [Next \/ (NoTableReused /\ StrayAccess)]_vars => [Private!Next]_Space
  BY NextSpace DEF AnyNext
<1> QED BY <1>1, <1>2, Inductive, Ownership, BackedAlways, PTL DEF StraySpec, PrivateMemory, Private!Spec


-----------------------------------------------------------------------------
(***************************************************************************)
(* The sizes.                                                              *)
(***************************************************************************)

\* Remainders: multiples of the modulus do not matter.
LEMMA ModShift ==
  ASSUME NEW x \in Int, NEW m \in Int, NEW b \in Nat \ {0}
  PROVE  (x + b * m) % b = x % b
<1> DEFINE y == x + b * m
           k == y \div b
           j == x \div b
           r == x % b
           t == y % b
<1>1. j \in Int /\ r \in 0 .. (b - 1) /\ x = b * j + r
  BY DivNat, Zenon
<1>2. k \in Int /\ t \in 0 .. (b - 1) /\ y = b * k + t
  <2>1. y \in Int
    OBVIOUS
  <2> QED BY <2>1, DivNat, Zenon
<1> HIDE DEF k, j, r, t
<1>3. b * (j + m) + r = b * k + t
  <2>1. b * (j + m) = b * j + b * m
    BY <1>1
  <2> QED BY <1>1, <1>2, <2>1
<1>4. CASE k < j + m
  <2>1. PICK d \in Nat : j + m = k + 1 + d
    <3>1. j + m - k - 1 \in Nat /\ j + m = k + 1 + (j + m - k - 1)
      BY <1>1, <1>2, <1>4
    <3> QED BY <3>1
  <2>2. b * (j + m) = b * k + b + b * d /\ b * d >= 0
    BY <1>2, <2>1
  <2>3. b * k \in Int /\ b * d \in Int
    BY <1>2, <2>1
  <2> QED BY <1>1, <1>2, <1>3, <2>2, <2>3
<1>5. CASE j + m < k
  <2>1. PICK d \in Nat : k = j + m + 1 + d
    <3>1. k - j - m - 1 \in Nat /\ k = j + m + 1 + (k - j - m - 1)
      BY <1>1, <1>2, <1>5
    <3> QED BY <3>1
  <2>2. b * k = b * (j + m) + b + b * d /\ b * d >= 0
    BY <1>1, <2>1
  <2>3. b * (j + m) \in Int /\ b * d \in Int
    BY <1>1, <2>1
  <2> QED BY <1>1, <1>2, <1>3, <2>2, <2>3
<1>6. CASE k = j + m
  BY <1>1, <1>2, <1>3, <1>6 DEF r, t
<1> QED BY <1>1, <1>2, <1>4, <1>5, <1>6

LEMMA ModAdd ==
  ASSUME NEW x \in Int, NEW y \in Int, NEW b \in Nat \ {0}
  PROVE  ((x % b) + y) % b = (x + y) % b
<1> DEFINE d == x \div b
           h == (x % b) + y
<1>1. d \in Int /\ h \in Int /\ x + y = h + b * d
  BY DivNat
<1> HIDE DEF d, h
<1>2. (h + b * d) % b = h % b
  BY <1>1, ModShift, Zenon
<1> QED BY <1>1, <1>2 DEF h

\* The pages a .. b-1 of a table: b - a pages.
LEMMA PageRange ==
  ASSUME NEW t \in Tables, NEW a \in Nat, NEW b \in Nat, a <= b, b <= V
  PROVE  LET P == {<<t, v>> : v \in {w \in VPages : a <= w /\ w < b}}
         IN  IsFiniteSet(P) /\ Cardinality(P) = b - a
<1> DEFINE I == a .. (b - 1)
           P == {<<t, v>> : v \in {w \in VPages : a <= w /\ w < b}}
           g == [v \in I |-> <<t, v>>]
<1>1. P = {<<t, v>> : v \in I}
  BY VirtMemAssumption DEF VPages
<1>2. IsFiniteSet(I) /\ Cardinality(I) = b - a
  <2>1. IsFiniteSet(I) /\ Cardinality(I) = IF a > b - 1 THEN 0 ELSE b - 1 - a + 1
    BY FS_Interval
  <2> QED BY <2>1
<1>3. g \in Bijection(I, P)
  <2>1. g \in [I -> P]
    BY <1>1
  <2>2. \A x, y \in I : g[x] = g[y] => x = y
    OBVIOUS
  <2>3. \A q \in P : \E x \in I : g[x] = q
    BY <1>1
  <2> QED BY <2>1, <2>2, <2>3 DEF Bijection, Injection, Surjection, IsInjective
<1>4. ExistsBijection(I, P)
  BY <1>3 DEF ExistsBijection
<1> QED BY <1>2, <1>4, FS_Bijection

\* There are finitely many pages.
LEMMA PagesFinite == IsFiniteSet(Pages) /\ Cardinality(Pages) = NT * V
<1>1. IsFiniteSet(Tables) /\ Cardinality(Tables) = NT
  BY FS_Interval, VirtMemAssumption DEF Tables
<1>2. IsFiniteSet(VPages) /\ Cardinality(VPages) = V
  BY FS_Interval, VirtMemAssumption DEF VPages
<1> QED BY <1>1, <1>2, FS_Product DEF Pages

-----------------------------------------------------------------------------
\* Two sets of pages that do not overlap, and a part of a set of pages.
LEMMA JoinedPages ==
  ASSUME NEW A \in SUBSET Pages, NEW B \in SUBSET Pages, A \cap B = {}
  PROVE  Cardinality(A \union B) = Cardinality(A) + Cardinality(B)
<1>1. IsFiniteSet(A) /\ IsFiniteSet(B)
  BY PagesFinite, FS_Subset
<1>2. Cardinality(A) \in Nat /\ Cardinality(B) \in Nat /\ Cardinality(A \cap B) = 0
  BY <1>1, FS_CardinalityType, FS_EmptySet
<1>3. Cardinality(A \union B) = Cardinality(A) + Cardinality(B) - Cardinality(A \cap B)
  BY <1>1, FS_Union
<1> QED BY <1>2, <1>3

\* The heap pages of different processes are different, and finite in number.
LEMMA HeapPagesFinite ==
  /\ \A p \in Procs : HeapPages(p) \subseteq Pages
  /\ AllHeapPages \subseteq Pages
  /\ \A P \in SUBSET Pages : IsFiniteSet(P) /\ Cardinality(P) \in Nat
<1>1. \A P \in SUBSET Pages : IsFiniteSet(P)
  BY PagesFinite, FS_Subset
<1>2. \A P \in SUBSET Pages : IsFiniteSet(P) /\ Cardinality(P) \in Nat
  BY <1>1, FS_CardinalityType
<1> QED BY <1>2 DEF HeapPages, AllHeapPages

LEMMA HeapPagesApart ==
  ASSUME TypeOK, TableInv, NEW p \in Procs, NEW r \in Procs, p # r
  PROVE  HeapPages(p) \cap HeapPages(r) = {}
<1>1. SUFFICES ASSUME NEW q \in Pages, q[1] = tbl[p], q[1] = tbl[r] PROVE FALSE
  BY DEF HeapPages
<1>2. q[1] # NULL
  BY VirtMemAssumption DEF Pages
<1> QED BY <1>1, <1>2 DEF TableInv

\* A process takes part in AllHeapPages with its pages, and with no others.
LEMMA AllSplit ==
  ASSUME TypeOK, TableInv, NEW p \in Procs
  PROVE  LET rest == UNION {HeapPages(r) : r \in Procs \ {p}}
         IN  /\ rest \subseteq Pages
             /\ Cardinality(AllHeapPages) = Cardinality(rest) + Cardinality(HeapPages(p))
<1> DEFINE rest == UNION {HeapPages(r) : r \in Procs \ {p}}
<1>1. rest \subseteq Pages /\ HeapPages(p) \subseteq Pages
  BY DEF HeapPages
<1>2. AllHeapPages = rest \union HeapPages(p)
  BY DEF AllHeapPages
<1>3. rest \cap HeapPages(p) = {}
  BY HeapPagesApart
<1>4. IsFiniteSet(rest) /\ IsFiniteSet(HeapPages(p))
  BY <1>1, HeapPagesFinite
<1> HIDE DEF rest
<1>5. Cardinality(rest \union HeapPages(p))
        = Cardinality(rest) + Cardinality(HeapPages(p)) - Cardinality(rest \cap HeapPages(p))
  BY <1>4, FS_Union
<1>6. Cardinality(rest \cap HeapPages(p)) = 0
  BY <1>3, FS_EmptySet
<1>7. Cardinality(rest) \in Nat /\ Cardinality(HeapPages(p)) \in Nat
  BY <1>1, HeapPagesFinite
<1> QED BY <1>1, <1>2, <1>5, <1>6, <1>7 DEF rest

LEMMA AllSplitNext ==
  ASSUME TypeOK', TableInv', NEW p \in Procs, \A r \in Procs : r # p => HeapPages(r)' = HeapPages(r)
  PROVE  LET rest == UNION {HeapPages(r) : r \in Procs \ {p}}
         IN  Cardinality(AllHeapPages)' = Cardinality(rest) + Cardinality(HeapPages(p))'
<1> DEFINE rest == UNION {HeapPages(r) : r \in Procs \ {p}}
           mine == HeapPages(p)'
<1>1. rest \subseteq Pages /\ mine \subseteq Pages
  BY DEF HeapPages
<1>2. AllHeapPages' = rest \union mine
  BY DEF AllHeapPages
<1>3. rest \cap mine = {}
  <2>1. SUFFICES ASSUME NEW r \in Procs, r # p, NEW q \in Pages, q[1] = tbl'[p], q[1] = tbl'[r]
        PROVE  FALSE
    <3>1. \A r \in Procs : r # p => HeapPages(r) = HeapPages(r)'
      OBVIOUS
    <3> QED BY <3>1 DEF HeapPages
  <2>2. q[1] # NULL
    BY VirtMemAssumption DEF Pages
  <2> QED BY <2>1, <2>2 DEF TableInv
<1>4. IsFiniteSet(rest) /\ IsFiniteSet(mine)
  BY <1>1, HeapPagesFinite
<1> HIDE DEF rest, mine
<1>5. Cardinality(rest \union mine) = Cardinality(rest) + Cardinality(mine) - Cardinality(rest \cap mine)
  BY <1>4, FS_Union
<1>6. Cardinality(rest \cap mine) = 0
  BY <1>3, FS_EmptySet
<1>7. Cardinality(rest) \in Nat /\ Cardinality(mine) \in Nat
  BY <1>1, HeapPagesFinite
<1> QED BY <1>2, <1>5, <1>6, <1>7 DEF rest, mine

\* A step that changes the heap pages of one process, and counts the change.
LEMMA QuotaStep ==
  ASSUME TypeOK, TableInv, TypeOK', TableInv', QuotaExact, NEW p \in Procs,
         \A r \in Procs : r # p => /\ HeapPages(r)' = HeapPages(r)
                                   /\ tbl'[r] = tbl[r] /\ hsize'[r] = hsize[r] /\ vfree'[r] = vfree[r],
         tbl'[p] # NULL => hsize'[p] - vfree'[p] = Cardinality(HeapPages(p))',
         n_free_vpages' = (n_free_vpages + (Cardinality(HeapPages(p)) - Cardinality(HeapPages(p))')) % UINT
  PROVE  QuotaExact'
<1> DEFINE old == Cardinality(HeapPages(p))
           new == Cardinality(HeapPages(p)')
           rest == UNION {HeapPages(r) : r \in Procs \ {p}}
           R == Cardinality(rest)
<1>1. /\ Cardinality(AllHeapPages) = R + old
      /\ Cardinality(AllHeapPages') = R + new
  BY AllSplit, AllSplitNext
<1>2. R \in Nat /\ old \in Nat /\ new \in Nat
  <2>1. rest \subseteq Pages /\ HeapPages(p) \subseteq Pages /\ HeapPages(p)' \subseteq Pages
    BY DEF HeapPages
  <2> QED BY <2>1, HeapPagesFinite
<1>3. n_free_vpages \in Int /\ UINT \in Nat \ {0}
  BY VirtMemAssumption DEF TypeOK
<1>4. (n_free_vpages + (R + old)) % UINT = MaxHeap
  BY <1>1 DEF QuotaExact
<1>5. n_free_vpages' = (n_free_vpages + (old - new)) % UINT
  OBVIOUS
<1> HIDE DEF old, new, R, rest
<1>6. (n_free_vpages' + (R + new)) % UINT = MaxHeap
  <2> DEFINE x == n_free_vpages + (old - new)
             y == R + new
  <2>1. x \in Int /\ y \in Int /\ x + y = n_free_vpages + (R + old)
    BY <1>2, <1>3
  <2>2. n_free_vpages' = x % UINT
    BY <1>5
  <2> HIDE DEF x
  <2>3. ((x % UINT) + y) % UINT = (x + y) % UINT
    BY <1>3, <2>1, ModAdd, Zenon
  <2> QED BY <2>1, <2>2, <2>3, <1>4
<1>7. \A r \in Procs : tbl'[r] # NULL => hsize'[r] - vfree'[r] = Cardinality(HeapPages(r)')
  BY <1>2 DEF QuotaExact
<1> QED BY <1>1, <1>6, <1>7 DEF QuotaExact

\* A step that changes no quota and no use of a page.
LEMMA SameQuota ==
  ASSUME QuotaExact, UNCHANGED <<tbl, vmax, hsize, vfree, n_free_vpages>>,
         \A q \in Pages : InUse(q)' <=> InUse(q)
  PROVE  QuotaExact'
<1>1. \A p \in Procs : HeapPages(p)' = HeapPages(p)
  BY DEF HeapPages
<1>2. AllHeapPages' = AllHeapPages
  BY <1>1 DEF AllHeapPages
<1> QED BY <1>1, <1>2 DEF QuotaExact

\* A step that changes no page table entry, and none of the counters.
LEMMA QuotaHalt ==
  ASSUME QuotaExact, UNCHANGED <<pt, tbl, vmax, hsize, vfree, n_free_vpages>>
  PROVE  QuotaExact'
BY SameQuota DEF InUse, Live

\* kernel_service_malloc takes the new pages off both counters.
LEMMA MallocQuota ==
  ASSUME NoWrap, IInv, IInv', OwnInv, QuotaExact, NEW p \in Procs, p = currpid, kernel_service_malloc
  PROVE  QuotaExact'
<1> DEFINE n == ceil_div(req[p], PAGE_SIZE)
           W == {w \in VPages : vmax[p] <= w /\ w < vmax[p] + n}
           new == {Cur(v) : v \in W}
<1>1. CASE Halt("assertion")
  BY <1>1, QuotaHalt DEF Halt, account
<1>2. CASE ~ Halt("assertion")
  <2>1. /\ TypeOK /\ TableInv /\ TypeOK' /\ TableInv' /\ tbl[p] \in Tables /\ tbl[p] # NULL
        /\ req[p] \in Nat \ {0} /\ vmax[p] \in Nat \ {0} /\ vfree[p] \in Int /\ hsize[p] \in Nat
        /\ vmax[p] + n <= V
    BY VirtMemAssumption DEF IInv, ProcInv, TypeOK, TableInv, OwnInv, BlockInv, kernel_service_malloc
  <2>2. n \in Nat
    BY <2>1, CeilDiv, VirtMemAssumption
  <2>3. /\ pt' = [q \in Pages |-> IF q \in new THEN HeapPTE ELSE pt[q]]
        /\ vmax' = [vmax EXCEPT ![p] = @ + n]
        /\ vfree' = [vfree EXCEPT ![p] = @ - n]
        /\ n_free_vpages' = (n_free_vpages - n) % UINT
        /\ UNCHANGED <<hsize, tbl>>
    BY <1>2 DEF kernel_service_malloc
  <2>4. /\ vmax'[p] = vmax[p] + n /\ vfree'[p] = vfree[p] - n
        /\ \A r \in Procs : r # p => vmax'[r] = vmax[r] /\ vfree'[r] = vfree[r]
    BY <2>1, <2>3 DEF TypeOK
  <2>5. new = {<<tbl[p], v>> : v \in W}
    BY DEF Cur
  <2> HIDE DEF n
  <2>6. IsFiniteSet(new) /\ Cardinality(new) = n
    <3>1. vmax[p] + n \in Nat /\ vmax[p] <= vmax[p] + n /\ (vmax[p] + n) - vmax[p] = n
      BY <2>1, <2>2
    <3>2. IsFiniteSet(new) /\ Cardinality(new) = (vmax[p] + n) - vmax[p]
      BY <2>1, <2>5, <3>1, PageRange
    <3> QED BY <3>1, <3>2
  <2>7. \A q \in Pages : /\ q \in new <=> q[1] = tbl[p] /\ vmax[p] <= q[2] /\ q[2] < vmax[p] + n
                         /\ q \in new => InUse(q)'
                         /\ q \notin new => (InUse(q)' <=> InUse(q))
    BY <2>3, <2>5 DEF Pages, InUse, Live, HeapPTE, ZeroPTE
  <2> HIDE DEF new, W
  <2>8. \A r \in Procs : r # p => HeapPages(r)' = HeapPages(r)
    <3>1. SUFFICES ASSUME NEW r \in Procs, r # p PROVE HeapPages(r)' = HeapPages(r)
      OBVIOUS
    <3>2. tbl[r] # tbl[p] \/ tbl[r] = NULL
      BY <2>1, <3>1 DEF TableInv
    <3>3. \A q \in Pages : q[1] = tbl[r] => q \notin new
      BY <2>1, <2>7, <3>2, VirtMemAssumption DEF Pages
    <3> QED BY <2>3, <2>4, <2>7, <3>1, <3>3 DEF HeapPages
  <2>9. HeapPages(p)' = HeapPages(p) \union new /\ HeapPages(p) \cap new = {}
    <3>1. new \subseteq Pages
      BY <2>1, <2>5 DEF W, Pages
    <3>2. \A q \in Pages : q[2] \in Nat
      BY VirtMemAssumption DEF Pages, VPages
    <3>3. \A q \in Pages : q \in HeapPages(p) <=> q[1] = tbl[p] /\ 0 < q[2] /\ q[2] < vmax[p] /\ InUse(q)
      BY DEF HeapPages
    <3>4. \A q \in Pages : q \in HeapPages(p)' <=> q[1] = tbl[p] /\ 0 < q[2] /\ q[2] < vmax[p] + n /\ InUse(q)'
      BY <2>3, <2>4 DEF HeapPages
    <3>5. \A q \in Pages : q \in HeapPages(p)' <=> q \in HeapPages(p) \union new
      <4>1. SUFFICES ASSUME NEW q \in Pages PROVE q \in HeapPages(p)' <=> q \in HeapPages(p) \union new
        OBVIOUS
      <4>2. CASE q \in new
        BY <2>1, <2>2, <2>7, <3>2, <3>4, <4>2
      <4>3. CASE q \notin new
        BY <2>1, <2>2, <2>7, <3>2, <3>3, <3>4, <4>3
      <4> QED BY <4>2, <4>3
    <3>6. HeapPages(p)' \subseteq Pages /\ HeapPages(p) \subseteq Pages
      BY DEF HeapPages
    <3>7. HeapPages(p) \cap new = {}
      BY <2>1, <2>7, <3>1, <3>2, <3>3
    <3> QED BY <3>1, <3>5, <3>6, <3>7
  <2>10. new \subseteq Pages /\ HeapPages(p) \subseteq Pages
    BY <2>1, <2>5 DEF W, Pages, HeapPages
  <2>11. Cardinality(HeapPages(p))' = Cardinality(HeapPages(p)) + n
    BY <2>6, <2>9, <2>10, JoinedPages
  <2>12. Cardinality(HeapPages(p)) \in Nat /\ n_free_vpages \in Int
    BY <2>1, HeapPagesFinite DEF TypeOK
  <2>13. hsize'[p] - vfree'[p] = Cardinality(HeapPages(p))'
    BY <2>1, <2>2, <2>3, <2>4, <2>11, <2>12 DEF QuotaExact
  <2>14. Cardinality(HeapPages(p)) - Cardinality(HeapPages(p))' = - n
    BY <2>2, <2>11, <2>12
  <2>15. n_free_vpages' = (n_free_vpages + (Cardinality(HeapPages(p)) - Cardinality(HeapPages(p))')) % UINT
    BY <2>2, <2>3, <2>12, <2>14
  <2> QED BY <2>1, <2>3, <2>4, <2>8, <2>13, <2>15, QuotaStep
<1> QED BY <1>1, <1>2

\* The pages that vfree of a block returns: heap pages of the process, as many
\* as its counters get back.
LEMMA FreedCount ==
  ASSUME AddressesFit, IInv, OwnInv, InUser, NEW p \in Procs, p = currpid, NEW b \in held[p]
  PROVE  LET P == {Cur(v) : v \in FreedPages(b)}
         IN  P \subseteq HeapPages(p) /\ Npages(b) \in Nat /\ Cardinality(P) = Npages(b)
<1> DEFINE P == {Cur(v) : v \in FreedPages(b)}
           n == Npages(b)
<1>1. /\ tbl[p] \in Tables /\ tbl[p] # NULL /\ b.page > 0
      /\ b \in [page : Nat, nbytes : Nat \ {0}]
      /\ b.page * PAGE_SIZE + b.nbytes <= V * PAGE_SIZE
  <2>1. /\ b \in [page : Nat, nbytes : Nat] /\ b.page > 0 /\ b.nbytes \in Sizes \ {0}
        /\ b.page * PAGE_SIZE + b.nbytes <= V * PAGE_SIZE
    BY DEF IInv, TypeOK, ProcInv, OwnInv, BlockInv
  <2>2. b \in [page : Nat, nbytes : Nat \ {0}]
    BY <2>1
  <2> QED BY <2>1, <2>2 DEF IInv, TypeOK, ProcInv
<1>2. end_page(b) \in 0 .. V /\ FreedPages(b) \subseteq BlockPages(b)
  BY <1>1, BlockFreed
<1>3. P \subseteq HeapPages(p)
  <2>1. SUFFICES ASSUME NEW v \in FreedPages(b)
        PROVE  <<tbl[p], v>> \in HeapPages(p)
    BY DEF HeapPages, Cur
  <2>2. v \in VPages /\ v \in Owned(p) /\ 0 < v
    BY <1>1, <1>2, VirtMemAssumption DEF Owned, FreedPages, VPages
  <2>3. v < vmax[p] /\ <<tbl[p], v>> \in Pages /\ InUse(<<tbl[p], v>>)
    BY <1>1, <2>2, OwnedPages DEF OwnInv, OwnedInUse
  <2> QED BY <2>2, <2>3 DEF HeapPages
<1>4. n \in Nat /\ Cardinality(P) = n
  <2>1. P = {<<tbl[p], v>> : v \in {w \in VPages : b.page <= w /\ w < end_page(b)}}
    BY DEF FreedPages, Cur
  <2>2. CASE b.page < end_page(b)
    <3>1. end_page(b) \in Nat /\ b.page <= end_page(b) /\ end_page(b) <= V /\ b.page \in Nat
      BY <1>1, <1>2, <2>2
    <3>2. Cardinality(P) = end_page(b) - b.page
      BY <1>1, <2>1, <3>1, PageRange
    <3> QED BY <2>2, <3>1, <3>2 DEF Npages
  <2>3. CASE ~ (b.page < end_page(b))
    <3>1. P = {} /\ n = 0
      BY <1>1, <1>2, <2>1, <2>3, VirtMemAssumption DEF Npages, VPages
    <3> QED BY <3>1, FS_EmptySet
  <2> QED BY <2>2, <2>3
<1> QED BY <1>3, <1>4

\* kernel_service_free gives the pages of the block back to both counters.
LEMMA FreeQuota ==
  ASSUME AddressesFit, IInv, IInv', OwnInv, QuotaExact, InUser, NEW p \in Procs, p = currpid,
         NEW b \in held[p], kernel_service_free(b)
  PROVE  QuotaExact'
<1> DEFINE P == {Cur(v) : v \in FreedPages(b)}
           n == Npages(b)
<1>1. CASE Halt("assertion") \/ Halt("Illegal value of n_free_vpages")
  BY <1>1, QuotaHalt DEF Halt, account
<1>2. CASE ~ (Halt("assertion") \/ Halt("Illegal value of n_free_vpages"))
  <2>1. /\ TypeOK /\ TableInv /\ TypeOK' /\ TableInv' /\ tbl[p] \in Tables /\ tbl[p] # NULL
        /\ vfree[p] \in Int /\ hsize[p] \in Nat /\ n_free_vpages \in Int
    BY DEF IInv, TypeOK, ProcInv
  <2>2. P \subseteq HeapPages(p) /\ n \in Nat /\ Cardinality(P) = n
    BY FreedCount
  <2>3. /\ pt' = [q \in Pages |-> IF q \in P THEN ZeroPTE ELSE pt[q]]
        /\ n_free_vpages' = (n_free_vpages + n) % UINT
        /\ vfree' = [vfree EXCEPT ![p] = @ + n]
        /\ UNCHANGED <<hsize, vmax, tbl>>
    BY <1>2 DEF kernel_service_free, FreeVPages
  <2>4. vfree'[p] = vfree[p] + n /\ \A r \in Procs : r # p => vfree'[r] = vfree[r]
    BY <2>1, <2>3 DEF TypeOK
  <2>5. P \subseteq Pages /\ \A q \in P : q[1] = tbl[p]
    BY <2>2 DEF HeapPages
  <2>6. \A q \in Pages : /\ q \in P => ~ InUse(q)'
                         /\ q \notin P => (InUse(q)' <=> InUse(q))
    BY <2>3 DEF InUse, Live, ZeroPTE
  <2> HIDE DEF P, n
  <2>7. \A r \in Procs : r # p => HeapPages(r)' = HeapPages(r)
    <3>1. SUFFICES ASSUME NEW r \in Procs, r # p PROVE HeapPages(r)' = HeapPages(r)
      OBVIOUS
    <3>2. \A q \in Pages : q[1] = tbl[r] => q \notin P
      BY <2>1, <2>5, <3>1, VirtMemAssumption DEF TableInv, Pages
    <3> QED BY <2>3, <2>6, <3>1, <3>2 DEF HeapPages
  <2>8. HeapPages(p) = HeapPages(p)' \union P /\ HeapPages(p)' \cap P = {}
    BY <2>2, <2>3, <2>6 DEF HeapPages
  <2>9. Cardinality(HeapPages(p)) = Cardinality(HeapPages(p)') + n
    <3>1. HeapPages(p)' \subseteq Pages
      BY DEF HeapPages
    <3> QED BY <2>2, <2>5, <2>8, <3>1, JoinedPages
  <2>10. Cardinality(HeapPages(p)) \in Nat /\ Cardinality(HeapPages(p)') \in Nat
    <3>1. HeapPages(p) \subseteq Pages /\ HeapPages(p)' \subseteq Pages
      BY DEF HeapPages
    <3> QED BY <3>1, HeapPagesFinite
  <2>11. hsize'[p] - vfree'[p] = Cardinality(HeapPages(p))'
    BY <2>1, <2>3, <2>4, <2>2, <2>9, <2>10 DEF QuotaExact
  <2>12. Cardinality(HeapPages(p)) - Cardinality(HeapPages(p))' = n
    BY <2>2, <2>9, <2>10
  <2>13. n_free_vpages' = (n_free_vpages + (Cardinality(HeapPages(p)) - Cardinality(HeapPages(p))')) % UINT
    BY <2>3, <2>12
  <2> QED BY <2>1, <2>3, <2>4, <2>7, <2>11, <2>13, QuotaStep
<1> QED BY <1>1, <1>2

\* kill gives back what the process had not freed.
LEMMA KillQuota ==
  ASSUME IInv, IInv', QuotaExact, NEW p \in Procs, kill(p)
  PROVE  QuotaExact'
<1> DEFINE P == freevmem(tbl[p])
<1>1. CASE Halt("assertion") \/ Halt("Illegal value of n_free_vpages")
  BY <1>1, QuotaHalt DEF Halt, account
<1>2. CASE ~ (Halt("assertion") \/ Halt("Illegal value of n_free_vpages"))
  <2>1. /\ TypeOK /\ TableInv /\ TypeOK' /\ TableInv' /\ tbl[p] \in Tables /\ tbl[p] # NULL
        /\ vfree[p] \in Int /\ hsize[p] \in Nat /\ n_free_vpages \in Int
    <3>1. tbl[p] # NULL
      BY DEF kill
    <3> QED BY <3>1 DEF IInv, TypeOK
  <2>2. /\ pt' = [q \in Pages |-> IF q \in P THEN ZeroPTE ELSE pt[q]]
        /\ n_free_vpages' = (n_free_vpages + hsize[p] - vfree[p]) % UINT
        /\ tbl' = [tbl EXCEPT ![p] = NULL]
        /\ hsize' = [hsize EXCEPT ![p] = 0]
        /\ vfree' = [vfree EXCEPT ![p] = 0]
        /\ vmax' = [vmax EXCEPT ![p] = 0]
    BY <1>2 DEF kill, FreeVPages
  <2>3. /\ tbl'[p] = NULL
        /\ \A r \in Procs : r # p => /\ tbl'[r] = tbl[r] /\ hsize'[r] = hsize[r]
                                     /\ vfree'[r] = vfree[r] /\ vmax'[r] = vmax[r]
    BY <2>1, <2>2 DEF TypeOK
  <2>4. \A r \in Procs : r # p => HeapPages(r)' = HeapPages(r)
    <3>1. SUFFICES ASSUME NEW r \in Procs, r # p PROVE HeapPages(r)' = HeapPages(r)
      OBVIOUS
    <3>2. \A q \in Pages : q[1] = tbl[r] => pt'[q] = pt[q]
      BY <2>1, <2>2, <3>1, VirtMemAssumption DEF TableInv, Pages, freevmem
    <3> QED BY <2>3, <3>1, <3>2 DEF HeapPages, InUse, Live
  <2>5. HeapPages(p)' = {}
    BY <2>3, VirtMemAssumption DEF HeapPages, Pages
  <2>6. Cardinality(HeapPages(p)') = 0
    BY <2>5, FS_EmptySet
  <2>7. Cardinality(HeapPages(p)) \in Nat
    BY HeapPagesFinite
  <2>8. hsize[p] - vfree[p] = Cardinality(HeapPages(p)) - Cardinality(HeapPages(p)')
    BY <2>1, <2>6, <2>7 DEF QuotaExact
  <2>9. n_free_vpages + hsize[p] - vfree[p] = n_free_vpages + (hsize[p] - vfree[p])
    BY <2>1
  <2> QED BY <2>1, <2>2, <2>3, <2>4, <2>8, <2>9, QuotaStep
<1> QED BY <1>1, <1>2

\* vcreate hands out no heap page.
LEMMA CreateQuota ==
  ASSUME IInv, IInv', QuotaExact, NEW p \in Procs, vcreate(p)
  PROVE  QuotaExact'
<1>1. CASE Halt("Out of pdpt memory") \/ Halt("Out of virtual stack memory")
  BY <1>1, QuotaHalt DEF Halt, account
<1>2. ASSUME NEW t \in Tables, NEW f \in VStack, Lowest(t, pdptlist),
             tbl' = [tbl EXCEPT ![p] = t],
             pt' = [CreateTable(t) EXCEPT ![<<t, 0>>] = StackPTE(f)],
             hsize' = [hsize EXCEPT ![p] = HeapOf[p]],
             vfree' = [vfree EXCEPT ![p] = HeapOf[p]],
             vmax' = [vmax EXCEPT ![p] = 1],
             n_free_vpages' = n_free_vpages
      PROVE  QuotaExact'
  <2>1. /\ TypeOK /\ TableInv /\ TypeOK' /\ TableInv' /\ tbl[p] = NULL
        /\ n_free_vpages \in 0 .. (UINT - 1) /\ HeapOf[p] \in Nat
    BY VirtMemAssumption DEF IInv, TypeOK, vcreate
  <2>2. /\ tbl'[p] = t /\ vmax'[p] = 1 /\ hsize'[p] = HeapOf[p] /\ vfree'[p] = HeapOf[p]
        /\ \A r \in Procs : r # p => /\ tbl'[r] = tbl[r] /\ hsize'[r] = hsize[r]
                                     /\ vfree'[r] = vfree[r] /\ vmax'[r] = vmax[r]
    BY <1>2, <2>1 DEF TypeOK
  <2>3. HeapPages(p) = {} /\ HeapPages(p)' = {}
    <3>1. HeapPages(p) = {}
      BY <2>1, VirtMemAssumption DEF HeapPages, Pages
    <3>2. \A q \in Pages : ~ (0 < q[2] /\ q[2] < 1)
      BY VirtMemAssumption DEF Pages, VPages
    <3> QED BY <2>2, <3>1, <3>2 DEF HeapPages
  <2>4. ASSUME NEW r \in Procs, r # p PROVE HeapPages(r)' = HeapPages(r)
    <3>1. \A q \in Pages : 0 < q[2] => pt'[q] = pt[q]
      BY <1>2, <2>1, VirtMemAssumption DEF TypeOK, CreateTable, Pages
    <3> QED BY <2>2, <2>4, <3>1 DEF HeapPages, InUse, Live
  <2>5. Cardinality(HeapPages(p)) = 0 /\ Cardinality(HeapPages(p)') = 0
    BY <2>3, FS_EmptySet
  <2>6. hsize'[p] - vfree'[p] = Cardinality(HeapPages(p)')
    BY <2>1, <2>2, <2>5
  <2>7. n_free_vpages' = (n_free_vpages + (Cardinality(HeapPages(p)) - Cardinality(HeapPages(p)'))) % UINT
    <3>1. n_free_vpages \in Nat /\ n_free_vpages < UINT /\ UINT \in Nat \ {0}
      BY <2>1, VirtMemAssumption
    <3>2. n_free_vpages % UINT = n_free_vpages
      BY <3>1, SmallMod
    <3>3. n_free_vpages + (0 - 0) = n_free_vpages
      BY <3>1
    <3> QED BY <1>2, <2>5, <3>2, <3>3
  <2> QED BY <2>1, <2>2, <2>4, <2>6, <2>7, QuotaStep
<1> QED BY <1>1, <1>2 DEF vcreate

\* Neither an access nor the handler that serves it changes what is in use.
LEMMA AccessQuota ==
  ASSUME IInv, QuotaExact, InUser, NEW v \in VPages, Access(v)
  PROVE  QuotaExact'
<1>1. UNCHANGED <<account, tbl>> /\ \A r \in Pages : InUse(r)' <=> InUse(r)
  BY AccessMarks
<1> QED BY <1>1, SameQuota DEF account

LEMMA NextQuota ==
  ASSUME NoWrap, AddressesFit, IInv, IInv', OwnInv, QuotaExact, [AnyNext]_vars
  PROVE  QuotaExact'
<1>1. CASE UNCHANGED <<pt, tbl, vmax, hsize, vfree, n_free_vpages>>
  BY <1>1, QuotaHalt
<1>2. CASE UNCHANGED vars
  BY <1>1, <1>2 DEF vars, account
<1>3. ASSUME NEW p \in Procs \union {NULLPROC}, resched(p) PROVE QuotaExact'
  BY <1>1, <1>3 DEF resched, account
<1>4. ASSUME NEW nbytes \in Sizes, vmalloc(nbytes) PROVE QuotaExact'
  BY <1>1, <1>4 DEF vmalloc
<1>5. CASE kernel_service_malloc
  <2>1. currpid \in Procs
    BY <1>5 DEF kernel_service_malloc
  <2> QED BY <2>1, <1>5, MallocQuota
<1>6. CASE VFree
  <2>1. PICK b \in held[currpid] : InUser /\ kernel_service_free(b)
    BY <1>6 DEF VFree
  <2>2. currpid \in Procs
    BY <2>1 DEF InUser
  <2> QED BY <2>1, <2>2, FreeQuota
<1>7. CASE OwnAccess \/ StrayAccess
  BY <1>7, OwnedBelow, AccessQuota DEF OwnAccess, StrayAccess
<1> QED BY <1>2, <1>3, <1>4, <1>5, <1>6, <1>7, KillQuota, CreateQuota
        DEF AnyNext, Next, Halted, Idle

\* The quota counters always account for the heap pages in use: hsize - vfree
\* of a process counts its pages, and n_free_vpages is what they leave of
\* MAX_HEAP_SIZE, as a uint32.
THEOREM QuotasExact ==
  ASSUME NoWrap, AddressesFit
  PROVE  StraySpec => []QuotaExact
<1>1. Init => QuotaExact
  <2>1. SUFFICES ASSUME Init PROVE QuotaExact
    OBVIOUS
  <2>2. \A p \in Procs : HeapPages(p) = {} /\ tbl[p] = NULL
    BY <2>1, VirtMemAssumption DEF Init, HeapPages, Pages
  <2>3. AllHeapPages = {} /\ n_free_vpages = MaxHeap
    BY <2>1, <2>2 DEF Init, AllHeapPages
  <2>4. Cardinality(AllHeapPages) = 0
    BY <2>3, FS_EmptySet
  <2>5. MaxHeap \in Nat /\ UINT \in Nat \ {0} /\ MaxHeap < UINT
    BY VirtMemAssumption
  <2>6. MaxHeap % UINT = MaxHeap /\ MaxHeap + 0 = MaxHeap
    BY <2>5, SmallMod
  <2> QED BY <2>2, <2>3, <2>4, <2>6 DEF QuotaExact
<1>2. (IInv /\ ReuseInv /\ halted # "assertion") /\ IInv' /\ (OwnInv /\ Confined /\ Unmarked)
        /\ QuotaExact /\ [Next \/ (NoTableReused /\ StrayAccess)]_vars => QuotaExact'
  BY NextQuota DEF AnyNext
<1> QED BY <1>1, <1>2, Inductive, Ownership, PTL DEF StraySpec

-----------------------------------------------------------------------------
\* The pages that the processes may ask for: page i of process p's heap size.
Reserved == {x \in Procs \X (Nat \ {0}) : x[2] <= HeapOf[x[1]]}

\* The heaps of all processes together are no larger than MAX_HEAP_SIZE, and
\* smaller than FFS and swap, that is than MAX_FSS_SIZE + MAX_SWAP_SIZE.
HeapsFit ==
  /\ IsFiniteSet(Reserved)
  /\ Cardinality(Reserved) <= MaxHeap
  /\ Cardinality(Reserved) < F + S

\* There is a page table and a stack frame for every process.
RoomForAll ==
  /\ IsFiniteSet(Procs)
  /\ Cardinality(Procs) <= NT
  /\ Cardinality(Procs) <= VS

\* A process uses no more of the heap than it was created with, and only its
\* stack page is in the stack region.
SizeInv ==
  /\ \A p \in Procs : tbl[p] # NULL => hsize[p] = HeapOf[p] /\ vfree[p] >= 0
  /\ \A q \in Pages : pt[q].pres /\ pt[q].base \in VStack => q[2] = 0

\* The heap pages in use are no more than what was reserved.
LEMMA HeapsSmall ==
  ASSUME TypeOK, TableInv, QuotaExact, SizeInv, HeapsFit
  PROVE  /\ Cardinality(AllHeapPages) \in Nat
         /\ IsFiniteSet(AllHeapPages)
         /\ Cardinality(AllHeapPages) <= MaxHeap
         /\ Cardinality(AllHeapPages) < F + S
<1> DEFINE C(p) == Cardinality(HeapPages(p))
           R == {x \in Reserved : x[2] <= C(x[1])}
           enum == [p \in Procs |-> CHOOSE g : g \in Bijection(1 .. C(p), HeapPages(p))]
           h == [x \in R |-> enum[x[1]][x[2]]]
<1>1. ASSUME NEW p \in Procs
      PROVE  /\ C(p) \in Nat /\ enum[p] \in Bijection(1 .. C(p), HeapPages(p))
             /\ C(p) <= HeapOf[p]
  <2>1. IsFiniteSet(HeapPages(p))
    BY HeapPagesFinite
  <2>2. C(p) \in Nat /\ ExistsBijection(1 .. C(p), HeapPages(p))
    BY <2>1, FS_CardinalityType
  <2>3. enum[p] \in Bijection(1 .. C(p), HeapPages(p))
    BY <2>2 DEF ExistsBijection
  <2>4. CASE tbl[p] = NULL
    <3>1. HeapPages(p) = {}
      BY <2>4, VirtMemAssumption DEF HeapPages, Pages
    <3> QED BY <2>2, <2>3, <3>1, FS_EmptySet, VirtMemAssumption
  <2>5. CASE tbl[p] # NULL
    <3>1. hsize[p] - vfree[p] = C(p) /\ hsize[p] = HeapOf[p] /\ vfree[p] >= 0
      BY <2>5 DEF QuotaExact, SizeInv
    <3> QED BY <2>2, <2>3, <3>1, VirtMemAssumption DEF TypeOK
  <2> QED BY <2>4, <2>5
<1> HIDE DEF C, enum
<1>2. h \in Surjection(R, AllHeapPages)
  <2>1. ASSUME NEW x \in R PROVE h[x] \in AllHeapPages
    <3>1. x[1] \in Procs /\ x[2] \in 1 .. C(x[1])
      BY <1>1 DEF Reserved
    <3>2. enum[x[1]][x[2]] \in HeapPages(x[1])
      BY <1>1, <3>1 DEF Bijection, Injection
    <3> QED BY <3>1, <3>2 DEF AllHeapPages
  <2>2. ASSUME NEW q \in AllHeapPages PROVE \E x \in R : h[x] = q
    <3>1. PICK p \in Procs : q \in HeapPages(p)
      BY DEF AllHeapPages
    <3>2. PICK i \in 1 .. C(p) : enum[p][i] = q
      BY <1>1, <3>1 DEF Bijection, Surjection
    <3>3. <<p, i>> \in R
      BY <1>1, <3>2, VirtMemAssumption DEF Reserved
    <3> QED BY <3>2, <3>3
  <2> QED BY <2>1, <2>2 DEF Surjection
<1>3. IsFiniteSet(R) /\ Cardinality(R) <= Cardinality(Reserved)
  BY FS_Subset DEF HeapsFit
<1>4. IsFiniteSet(AllHeapPages) /\ Cardinality(AllHeapPages) <= Cardinality(R)
  BY <1>2, <1>3, FS_Surjection
<1>5. Cardinality(AllHeapPages) \in Nat /\ Cardinality(R) \in Nat /\ Cardinality(Reserved) \in Nat
  BY <1>3, <1>4, FS_CardinalityType DEF HeapsFit
<1> QED BY <1>3, <1>4, <1>5, VirtMemAssumption DEF HeapsFit

\* n_free_vpages is what the heap pages in use leave of MAX_HEAP_SIZE.
LEMMA FreeCount ==
  ASSUME TypeOK, TableInv, QuotaExact, SizeInv, HeapsFit
  PROVE  n_free_vpages = MaxHeap - Cardinality(AllHeapPages)
<1> DEFINE n == n_free_vpages
           c == Cardinality(AllHeapPages)
<1>1. /\ n \in Nat /\ n < UINT /\ c \in Nat /\ c <= MaxHeap /\ MaxHeap \in Nat /\ MaxHeap < UINT
      /\ UINT \in Nat \ {0}
  BY HeapsSmall, VirtMemAssumption DEF TypeOK
<1>2. (n + c) % UINT = MaxHeap
  BY DEF QuotaExact
<1> HIDE DEF n, c
<1>3. CASE n + c < UINT
  <2>1. n + c \in Nat
    BY <1>1
  <2>2. (n + c) % UINT = n + c
    BY <1>1, <1>3, <2>1, SmallMod, Zenon
  <2> QED BY <1>1, <1>2, <2>2 DEF n, c
<1>4. CASE n + c >= UINT
  <2> DEFINE x == n + c - UINT
  <2>1. x \in Nat /\ x \in Int /\ 1 \in Int /\ x < UINT /\ n + c = x + UINT * 1
    BY <1>1, <1>4
  <2> HIDE DEF x
  <2>2. (x + UINT * 1) % UINT = x % UINT
    BY <1>1, <2>1, ModShift, Zenon
  <2>3. x % UINT = x
    BY <1>1, <2>1, SmallMod
  <2>4. x = MaxHeap
    BY <1>2, <2>1, <2>2, <2>3
  <2> QED BY <1>1, <2>1, <2>4
<1> QED BY <1>1, <1>3, <1>4

\* FFS and swap are never full of pages that are nowhere else: the handler
\* always finds a frame without the exchange in place.
LEMMA NeverStuck ==
  ASSUME IInv, QuotaExact, SizeInv, HeapsFit
  PROVE  ~ MemoryStuck
<1> SUFFICES ASSUME MemoryStuck PROVE FALSE
  OBVIOUS
<1> DEFINE D == 1 .. (F + S)
           h == [g \in D |-> CHOOSE q \in AllHeapPages : pt[q].base = g]
<1>1. TypeOK /\ MapsConsistent /\ SwapReached /\ TableInv /\ StackResident
  BY DEF IInv, NoLeak
<1>2. F \in Nat /\ S \in Nat /\ D = FFS \union Swap
  BY VirtMemAssumption DEF FFS, Swap
<1>3. ASSUME NEW q \in Pages, Live(q), ~ (pt[q].pres /\ pt[q].base \in VStack)
      PROVE  q \in AllHeapPages
  <2>1. PICK p \in Procs : tbl[p] = q[1] /\ q[2] < vmax[p]
    BY <1>1, <1>3 DEF TableInv
  <2>2. tbl[p] # NULL /\ q = <<tbl[p], q[2]>> /\ q[2] \in Nat
    BY <2>1, VirtMemAssumption DEF Pages, VPages
  <2>3. q[2] # 0
    BY <1>1, <1>3, <2>2 DEF StackResident
  <2>4. 0 < q[2]
    BY <2>2, <2>3
  <2> QED BY <1>3, <2>1, <2>4 DEF AllHeapPages, HeapPages, InUse
<1>4. ASSUME NEW g \in D PROVE \E q \in AllHeapPages : pt[q].base = g
  <2>1. CASE g \in FFS
    <3>1. ptmap[g] \in Pages /\ pt[ptmap[g]].pres /\ pt[ptmap[g]].base = g
      BY <1>1, <2>1 DEF MapsConsistent, FfsInv, TypeOK, MemoryStuck
    <3> QED BY <1>3, <2>1, <3>1, Regions DEF Live
  <2>2. CASE g \in Swap
    <3>1. PICK q \in Pages : \/ pt[q].isswapped /\ pt[q].base = g
                             \/ pt[q].pres /\ pt[q].base \in FFS /\ ffs2swapmap[pt[q].base] = g
      BY <1>1, <2>2 DEF SwapReached, MemoryStuck
    <3>2. ~ (pt[q].pres /\ pt[q].base \in FFS /\ ffs2swapmap[pt[q].base] = g)
      <4>1. SUFFICES ASSUME pt[q].pres, pt[q].base \in FFS, ffs2swapmap[pt[q].base] = g PROVE FALSE
        OBVIOUS
      <4>2. ptmap[pt[q].base] = q /\ g # -1 /\ q # NULL
        BY <1>1, <2>2, <4>1, Regions, VirtMemAssumption DEF MapsConsistent, PageInv
      <4>3. swap2ffsmap[g] = q
        BY <1>1, <4>1, <4>2 DEF MapsConsistent, FfsInv
      <4> QED BY <2>2, <4>1, <4>2, <4>3 DEF MemoryStuck, Candidates
    <3>3. pt[q].isswapped /\ pt[q].base = g /\ g \notin VStack
      BY <2>2, <3>1, <3>2, Regions
    <3> QED BY <1>3, <3>3 DEF Live
  <2> QED BY <1>2, <2>1, <2>2
<1>5. \A g \in D : h[g] \in AllHeapPages /\ pt[h[g]].base = g
  BY <1>4
<1> HIDE DEF h
<1>6. [g \in D |-> h[g]] \in Injection(D, AllHeapPages)
  <2>1. [g \in D |-> h[g]] \in [D -> AllHeapPages]
    BY <1>5
  <2>2. \A a, b \in D : h[a] = h[b] => a = b
    BY <1>5
  <2> QED BY <2>1, <2>2 DEF Injection, IsInjective
<1>7. Cardinality(D) = F + S
  <2>1. Cardinality(D) = IF 1 > F + S THEN 0 ELSE F + S - 1 + 1
    BY <1>2, FS_Interval
  <2> QED BY <1>2, <2>1
<1>8. IsFiniteSet(AllHeapPages) /\ Cardinality(AllHeapPages) \in Nat /\ Cardinality(AllHeapPages) < F + S
  BY <1>1, HeapsSmall
<1>9. Cardinality(D) <= Cardinality(AllHeapPages)
  BY <1>6, <1>8, FS_Injection
<1> QED BY <1>2, <1>7, <1>8, <1>9

\* vfree and kill give back pages of the process, so the counter stays within
\* MAX_HEAP_SIZE.
LEMMA CountBack ==
  ASSUME TypeOK, TableInv, QuotaExact, SizeInv, HeapsFit, NEW P, P \subseteq AllHeapPages,
         NEW k \in Nat, k = Cardinality(P)
  PROVE  (n_free_vpages + k) % UINT <= MaxHeap
<1>1. IsFiniteSet(AllHeapPages) /\ Cardinality(AllHeapPages) \in Nat
  BY HeapsSmall
<1>2. k <= Cardinality(AllHeapPages)
  BY <1>1, FS_Subset
<1>3. n_free_vpages = MaxHeap - Cardinality(AllHeapPages) /\ n_free_vpages \in Nat
  BY FreeCount, VirtMemAssumption DEF TypeOK
<1> DEFINE n == n_free_vpages + k
<1>4. n \in Nat /\ n <= MaxHeap /\ n < UINT /\ UINT \in Nat \ {0}
  BY <1>1, <1>2, <1>3, VirtMemAssumption
<1> HIDE DEF n
<1>5. n % UINT = n
  BY <1>4, SmallMod
<1> QED BY <1>4, <1>5 DEF n

\* A page table and a stack frame are free for a process that does not exist.
LEMMA RoomToCreate ==
  ASSUME IInv, SizeInv, RoomForAll, NEW p \in Procs, tbl[p] = NULL
  PROVE  pdptlist # {} /\ vstacklist # {}
<1> DEFINE Others == Procs \ {p}
<1>1. IsFiniteSet(Others) /\ Cardinality(Others) = Cardinality(Procs) - 1 /\ Cardinality(Procs) \in Nat
  BY FS_RemoveElement, FS_CardinalityType DEF RoomForAll
<1>2. TypeOK /\ TableInv /\ StackReached /\ TablesReached
  BY DEF IInv, NoLeak
<1>3. NT \in Nat /\ VS \in Nat /\ F \in Nat /\ S \in Nat
  BY VirtMemAssumption
<1>4. pdptlist # {}
  <2> SUFFICES ASSUME pdptlist = {} PROVE FALSE
    OBVIOUS
  <2> DEFINE h == [t \in Tables |-> CHOOSE r \in Others : tbl[r] = t]
  <2>1. ASSUME NEW t \in Tables PROVE \E r \in Others : tbl[r] = t
    <3>1. t # NULL
      BY VirtMemAssumption
    <3> QED BY <1>2, <3>1 DEF TablesReached
  <2>2. \A t \in Tables : h[t] \in Others /\ tbl[h[t]] = t
    BY <2>1
  <2>3. h \in [Tables -> Others]
    BY <2>1
  <2> HIDE DEF h
  <2>4. h \in Injection(Tables, Others)
    BY <2>2, <2>3 DEF Injection, IsInjective
  <2>5. Cardinality(Tables) <= Cardinality(Others)
    BY <1>1, <2>4, FS_Injection
  <2>6. Cardinality(Tables) = NT
    BY <1>3, FS_Interval DEF Tables
  <2> QED BY <1>1, <1>3, <2>5, <2>6 DEF RoomForAll
<1>5. vstacklist # {}
  <2> SUFFICES ASSUME vstacklist = {} PROVE FALSE
    OBVIOUS
  <2> DEFINE Stack(r) == pt[<<tbl[r], 0>>].base
             h == [f \in VStack |-> CHOOSE r \in Others : Stack(r) = f]
  <2>1. ASSUME NEW f \in VStack PROVE \E r \in Others : Stack(r) = f
    <3>1. PICK q \in Pages : pt[q].pres /\ pt[q].base = f
      BY <1>2, <2>1 DEF StackReached
    <3>2. q[2] = 0
      BY <2>1, <3>1 DEF SizeInv
    <3>3. PICK r \in Procs : tbl[r] = q[1]
      BY <1>2, <3>1 DEF TableInv, Live
    <3>4. q = <<tbl[r], 0>> /\ r # p
      BY <3>2, <3>3, VirtMemAssumption DEF Pages
    <3> QED BY <3>1, <3>3, <3>4
  <2>2. \A f \in VStack : h[f] \in Others /\ Stack(h[f]) = f
    BY <2>1
  <2>3. h \in [VStack -> Others]
    BY <2>1
  <2> HIDE DEF h, Stack
  <2>4. h \in Injection(VStack, Others)
    BY <2>2, <2>3 DEF Injection, IsInjective
  <2>5. Cardinality(VStack) <= Cardinality(Others)
    BY <1>1, <2>4, FS_Injection
  <2>6. Cardinality(VStack) = VS
    <3> DEFINE a == F + S + 1
               b == F + S + VS
    <3>1. a \in Int /\ b \in Int /\ VStack = a .. b
      BY <1>3 DEF VStack
    <3>2. b - a + 1 = VS /\ (a > b => VS = 0)
      BY <1>3
    <3> HIDE DEF a, b
    <3>3. Cardinality(a .. b) = IF a > b THEN 0 ELSE b - a + 1
      BY <3>1, FS_Interval
    <3> QED BY <3>1, <3>2, <3>3
  <2> QED BY <1>1, <1>3, <2>5, <2>6 DEF RoomForAll
<1> QED BY <1>4, <1>5

\* Steps that change no size and bring no page into the stack region.
LEMMA SameSizes ==
  ASSUME SizeInv, UNCHANGED <<tbl, hsize, vfree>>,
         \A q \in Pages : pt'[q].pres /\ pt'[q].base \in VStack => pt[q].pres /\ pt[q].base \in VStack
  PROVE  SizeInv'
BY DEF SizeInv

LEMMA CreateRuns ==
  ASSUME IInv, SizeInv, RoomForAll, NEW p \in Procs, halted = "no", vcreate(p)
  PROVE  SizeInv' /\ halted' = "no"
<1>1. pdptlist # {} /\ vstacklist # {} /\ tbl[p] = NULL /\ TypeOK
  BY RoomToCreate DEF vcreate, IInv
<1>2. PICK t \in Tables, f \in VStack :
        /\ tbl' = [tbl EXCEPT ![p] = t]
        /\ pt' = [CreateTable(t) EXCEPT ![<<t, 0>>] = StackPTE(f)]
        /\ hsize' = [hsize EXCEPT ![p] = HeapOf[p]]
        /\ vfree' = [vfree EXCEPT ![p] = HeapOf[p]]
        /\ halted' = halted
  BY <1>1 DEF vcreate
<1>3. /\ hsize'[p] = HeapOf[p] /\ vfree'[p] = HeapOf[p] /\ HeapOf[p] \in Nat
      /\ \A r \in Procs : r # p => tbl'[r] = tbl[r] /\ hsize'[r] = hsize[r] /\ vfree'[r] = vfree[r]
  BY <1>1, <1>2, VirtMemAssumption DEF TypeOK
<1>4. \A q \in Pages : q[2] # 0 => pt'[q] = pt[q]
  BY <1>1, <1>2 DEF TypeOK, CreateTable
<1>5. \A r \in Procs : tbl'[r] # NULL => hsize'[r] = HeapOf[r] /\ vfree'[r] >= 0
  BY <1>3 DEF SizeInv
<1>6. \A q \in Pages : pt'[q].pres /\ pt'[q].base \in VStack => q[2] = 0
  BY <1>4 DEF SizeInv
<1> QED BY <1>2, <1>5, <1>6 DEF SizeInv

LEMMA MallocRuns ==
  ASSUME IInv, SizeInv, NEW p \in Procs, p = currpid, halted = "no", kernel_service_malloc
  PROVE  SizeInv' /\ halted' = "no"
<1> DEFINE n == ceil_div(req[p], PAGE_SIZE)
<1>1. n <= vfree[p] /\ TypeOK /\ req[p] \in Nat /\ vfree[p] \in Int
  BY DEF IInv, ProcInv, TypeOK, kernel_service_malloc
<1>2. n \in Nat
  BY <1>1, CeilDiv, VirtMemAssumption
<1>3. PICK new : /\ pt' = [q \in Pages |-> IF q \in new THEN HeapPTE ELSE pt[q]]
                 /\ vfree' = [vfree EXCEPT ![p] = @ - n]
                 /\ UNCHANGED <<hsize, tbl, halted>>
  <2> HIDE DEF n
  <2>1. ~ (n > vfree[p])
    BY <1>1, <1>2
  <2> QED BY <2>1 DEF n, kernel_service_malloc
<1> HIDE DEF n
<1>4. vfree'[p] >= 0 /\ \A r \in Procs : r # p => vfree'[r] = vfree[r]
  BY <1>1, <1>2, <1>3 DEF TypeOK
<1>5. \A q \in Pages : pt'[q].pres /\ pt'[q].base \in VStack => q[2] = 0
  BY <1>3 DEF SizeInv, HeapPTE, ZeroPTE
<1> QED BY <1>3, <1>4, <1>5 DEF SizeInv

LEMMA FreeRuns ==
  ASSUME AddressesFit, IInv, OwnInv, QuotaExact, SizeInv, HeapsFit, InUser,
         NEW p \in Procs, p = currpid, NEW b \in held[p], kernel_service_free(b)
  PROVE  SizeInv' /\ halted' = "no"
<1> DEFINE P == {Cur(v) : v \in FreedPages(b)}
           n == Npages(b)
<1>1. /\ P \subseteq HeapPages(p) /\ n \in Nat /\ Cardinality(P) = n
  BY FreedCount
<1>2. /\ TypeOK /\ MapsConsistent /\ TableInv /\ P \subseteq AllHeapPages /\ P \in SUBSET Pages
      /\ vfree[p] \in Int /\ halted = "no"
  BY <1>1 DEF IInv, TypeOK, AllHeapPages, HeapPages, InUser, Running
<1>3. FreeAsserts(P)
  BY <1>2, FreeAssertsHold
<1>4. (n_free_vpages + n) % UINT <= MaxHeap /\ (n_free_vpages + n) % UINT \in Int
  <2>1. (n_free_vpages + n) % UINT <= MaxHeap
    <3> HIDE DEF P, n
    <3> QED BY <1>1, <1>2, CountBack
  <2>2. n_free_vpages + n \in Int
    BY <1>1, <1>2 DEF TypeOK
  <2> HIDE DEF n
  <2>3. (n_free_vpages + n) % UINT \in 0 .. (UINT - 1)
    BY <2>2, Quota
  <2> QED BY <2>1, <2>3
<1>5. /\ pt' = [q \in Pages |-> IF q \in P THEN ZeroPTE ELSE pt[q]]
      /\ vfree' = [vfree EXCEPT ![p] = @ + n]
      /\ UNCHANGED <<hsize, tbl, halted>>
  <2>1. ~ ((n_free_vpages + n) % UINT > MaxHeap)
    BY <1>4, VirtMemAssumption
  <2> QED BY <1>3, <2>1 DEF kernel_service_free, FreeVPages
<1> HIDE DEF P, n
<1>6. \A r \in Procs : vfree[r] >= 0 => vfree'[r] >= 0
  BY <1>1, <1>2, <1>5 DEF TypeOK
<1>7. \A q \in Pages : pt'[q].pres /\ pt'[q].base \in VStack => q[2] = 0
  BY <1>5 DEF SizeInv, ZeroPTE
<1> QED BY <1>2, <1>5, <1>6, <1>7 DEF SizeInv

LEMMA KillRuns ==
  ASSUME IInv, QuotaExact, SizeInv, HeapsFit, NEW p \in Procs, halted = "no", kill(p)
  PROVE  SizeInv' /\ halted' = "no"
<1> DEFINE P == freevmem(tbl[p])
           k == Cardinality(HeapPages(p))
<1>1. /\ TypeOK /\ MapsConsistent /\ TableInv /\ P \in SUBSET Pages /\ tbl[p] # NULL
      /\ HeapPages(p) \subseteq AllHeapPages /\ n_free_vpages \in Int
      /\ hsize[p] \in Int /\ vfree[p] \in Int
  <2>1. tbl[p] # NULL
    BY DEF kill
  <2> QED BY <2>1 DEF IInv, TypeOK, freevmem, AllHeapPages
<1>2. FreeAsserts(P)
  BY <1>1, FreeAssertsHold
<1>3. k \in Nat /\ hsize[p] - vfree[p] = k
  BY <1>1, HeapPagesFinite DEF QuotaExact
<1>4. n_free_vpages + hsize[p] - vfree[p] = n_free_vpages + k
  BY <1>1, <1>3
<1>5. (n_free_vpages + k) % UINT <= MaxHeap
  <2> HIDE DEF P
  <2> QED BY <1>1, <1>3, CountBack
<1>6. (n_free_vpages + k) % UINT \in 0 .. (UINT - 1)
  <2>1. n_free_vpages + k \in Int
    BY <1>1, <1>3
  <2> HIDE DEF k
  <2> QED BY <2>1, Quota
<1>7. /\ pt' = [q \in Pages |-> IF q \in P THEN ZeroPTE ELSE pt[q]]
      /\ tbl' = [tbl EXCEPT ![p] = NULL]
      /\ hsize' = [hsize EXCEPT ![p] = 0]
      /\ vfree' = [vfree EXCEPT ![p] = 0]
      /\ halted' = halted
  <2>1. ~ ((n_free_vpages + hsize[p] - vfree[p]) % UINT > MaxHeap)
    BY <1>4, <1>5, <1>6, VirtMemAssumption
  <2> QED BY <1>2, <2>1 DEF kill, FreeVPages
<1>8. /\ tbl'[p] = NULL
      /\ \A r \in Procs : r # p => tbl'[r] = tbl[r] /\ hsize'[r] = hsize[r] /\ vfree'[r] = vfree[r]
  BY <1>1, <1>7 DEF TypeOK
<1>9. \A r \in Procs : tbl'[r] # NULL => hsize'[r] = HeapOf[r] /\ vfree'[r] >= 0
  BY <1>8 DEF SizeInv
<1>10. \A q \in Pages : pt'[q].pres /\ pt'[q].base \in VStack => q[2] = 0
  BY <1>7 DEF SizeInv, ZeroPTE
<1> QED BY <1>7, <1>9, <1>10 DEF SizeInv

\* An access halts the machine only when it is a segmentation fault.
LEMMA AccessRuns ==
  ASSUME IInv, ReuseInv, QuotaExact, SizeInv, HeapsFit, InUser, NEW v \in VPages, Access(v),
         halted' # "assertion"
  PROVE  /\ SizeInv' /\ halted' \in {"no", "SEGMENTATION FAULT"}
         /\ InUse(Cur(v)) => halted' = "no"
<1>1. Cur(v) \in Pages /\ TypeOK /\ MapsConsistent /\ halted = "no"
  BY DEF IInv, ProcInv, TypeOK, InUser, Running, Cur, Pages
<1>2. CASE pagefault_handler(v)
  <2>1. ~ MemoryStuck
    BY NeverStuck
  <2>2. CASE Halt("SEGMENTATION FAULT") /\ ~ InUse(Cur(v))
    <3>1. UNCHANGED <<pt, account, tbl>> /\ halted' = "SEGMENTATION FAULT"
      BY <2>2 DEF Halt
    <3> QED BY <2>2, <3>1, SameSizes DEF account
  <2>3. CASE /\ UNCHANGED <<account, tbl, halted>>
             /\ \A r \in Pages : pt'[r].pres /\ pt'[r].base \in VStack => pt[r].pres /\ pt[r].base \in VStack
    BY <1>1, <2>3, SameSizes DEF account
  <2>4. ASSUME NEW why \in {"assertion", "SEGMENTATION FAULT", "Out of swappable memory"},
               Halt(why),
               why = "SEGMENTATION FAULT" => ~ InUse(Cur(v)),
               why = "Out of swappable memory" => MemoryStuck /\ ~ Live(Cur(v))
        PROVE  Halt("SEGMENTATION FAULT") /\ ~ InUse(Cur(v))
    <3>1. halted' = why
      BY <2>4 DEF Halt
    <3> QED BY <2>1, <2>4, <3>1
  <2> QED BY <1>1, <1>2, <2>2, <2>3, <2>4, HandlerPages
<1>3. CASE Read(v) \/ Write(v)
  <2>1. UNCHANGED <<account, tbl, halted>> /\ (pt' = pt \/ pt' = [pt EXCEPT ![Cur(v)].dirty = TRUE])
    BY <1>3 DEF Read, Write
  <2>2. \A r \in Pages : pt'[r].pres /\ pt'[r].base \in VStack => pt[r].pres /\ pt[r].base \in VStack
    <3>1. CASE pt' = pt
      BY <3>1
    <3>2. CASE pt' = [pt EXCEPT ![Cur(v)].dirty = TRUE]
      <4>1. /\ pt'[Cur(v)] = [pt[Cur(v)] EXCEPT !.dirty = TRUE] /\ pt[Cur(v)] \in PTE
            /\ \A r \in Pages : r # Cur(v) => pt'[r] = pt[r]
        BY <1>1, <3>2 DEF TypeOK
      <4> QED BY <4>1 DEF PTE
    <3> QED BY <2>1, <3>1, <3>2
  <2> QED BY <1>1, <2>1, <2>2, SameSizes DEF account
<1> QED BY <1>2, <1>3 DEF Access

LEMMA NextRuns ==
  ASSUME NoWrap, AddressesFit, HeapsFit, RoomForAll,
         IInv, ReuseInv, OwnInv, QuotaExact, SizeInv, halted = "no", [Next]_vars,
         halted' # "assertion"
  PROVE  SizeInv' /\ halted' = "no"
<1>1. CASE UNCHANGED <<pt, tbl, hsize, vfree, halted>>
  BY <1>1, SameSizes
<1>2. CASE UNCHANGED vars
  BY <1>1, <1>2 DEF vars, account
<1>3. ASSUME NEW p \in Procs \union {NULLPROC}, resched(p) PROVE SizeInv' /\ halted' = "no"
  BY <1>1, <1>3 DEF resched, account
<1>4. ASSUME NEW nbytes \in Sizes, vmalloc(nbytes) PROVE SizeInv' /\ halted' = "no"
  BY <1>1, <1>4 DEF vmalloc
<1>5. CASE kernel_service_malloc
  <2>1. currpid \in Procs
    BY <1>5 DEF kernel_service_malloc
  <2> QED BY <2>1, <1>5, MallocRuns
<1>6. CASE VFree
  <2>1. PICK b \in held[currpid] : InUser /\ kernel_service_free(b)
    BY <1>6 DEF VFree
  <2>2. currpid \in Procs
    BY <2>1 DEF InUser
  <2> QED BY <2>1, <2>2, FreeRuns
<1>7. CASE OwnAccess
  <2>1. PICK v \in Owned(currpid) : InUser /\ Access(v)
    BY <1>7 DEF OwnAccess
  <2>2. v \in VPages /\ InUse(Cur(v))
    BY <2>1, OwnedBelow DEF IInv, ProcInv, InUser, OwnInv, OwnedInUse, Cur
  <2> QED BY <2>1, <2>2, AccessRuns
<1> QED BY <1>2, <1>3, <1>4, <1>5, <1>6, <1>7, KillRuns, CreateRuns DEF Next, Halted, Idle

\* A halted machine stays as it is.
LEMMA StaysHalted ==
  ASSUME halted # "no", [AnyNext]_vars
  PROVE  UNCHANGED vars
<1>1. ~ InUser
  BY DEF InUser, Running
<1>2. \A p \in Procs : ~ vcreate(p) /\ ~ kill(p)
  BY DEF vcreate, kill, Running
<1>3. \A p \in Procs \union {NULLPROC} : ~ resched(p)
  BY DEF resched, Running
<1> QED BY <1>1, <1>2, <1>3
        DEF AnyNext, Next, vmalloc, kernel_service_malloc, VFree, OwnAccess, StrayAccess,
            Halted, Idle, Running

\* No step halts the machine but the segmentation fault of a wild pointer.
LEMMA AnyRuns ==
  ASSUME NoWrap, AddressesFit, HeapsFit, RoomForAll,
         IInv, ReuseInv, OwnInv, QuotaExact, SizeInv, halted \in {"no", "SEGMENTATION FAULT"},
         [AnyNext]_vars, halted' # "assertion"
  PROVE  /\ SizeInv' /\ halted' \in {"no", "SEGMENTATION FAULT"}
         /\ halted' = halted \/ (halted' = "SEGMENTATION FAULT" /\ StrayAccess)
<1>1. CASE halted # "no"
  BY <1>1, StaysHalted, SameSizes DEF vars, account
<1>2. CASE halted = "no" /\ [Next]_vars
  BY <1>2, NextRuns
<1>3. CASE StrayAccess
  BY <1>3, AccessRuns DEF StrayAccess, InUser, Running
<1> QED BY <1>1, <1>2, <1>3 DEF AnyNext

\* When the heaps of the processes fit together and every process has a table
\* and a stack frame, the machine halts only at the segmentation fault of a wild
\* pointer: no ASSERT fails, no region runs out of frames, and the counter of
\* free pages never leaves its range.
THEOREM NothingHalts ==
  ASSUME NoWrap, AddressesFit, HeapsFit, RoomForAll
  PROVE  StraySpec => [](~ MemoryStuck) /\ OnlyStraysHalt
<1> DEFINE J == SizeInv /\ halted \in {"no", "SEGMENTATION FAULT"}
<1>1. Init => J
  BY DEF Init, SizeInv, ZeroPTE
<1>2. (IInv /\ ReuseInv /\ halted # "assertion") /\ (IInv /\ ReuseInv /\ halted # "assertion")'
        /\ (OwnInv /\ Confined /\ Unmarked) /\ QuotaExact
        /\ J /\ [Next \/ (NoTableReused /\ StrayAccess)]_vars
        => J' /\ [halted' = halted \/ (halted' = "SEGMENTATION FAULT" /\ StrayAccess)]_vars
  BY AnyRuns DEF AnyNext
<1>3. (IInv /\ ReuseInv /\ halted # "assertion") /\ QuotaExact /\ J => ~ MemoryStuck
  BY NeverStuck
<1> QED BY <1>1, <1>2, <1>3, Inductive, Ownership, QuotasExact, PTL DEF StraySpec, OnlyStraysHalt

\* In particular, a machine whose programs have no wild pointers never halts.
THEOREM RunsForever ==
  ASSUME NoWrap, AddressesFit, HeapsFit, RoomForAll
  PROVE  Spec => [](halted = "no")
<1> DEFINE J == SizeInv /\ halted = "no"
<1>1. Init => J
  BY DEF Init, SizeInv, ZeroPTE
<1>2. (IInv /\ ReuseInv /\ halted # "assertion") /\ (IInv /\ ReuseInv /\ halted # "assertion")'
        /\ (OwnInv /\ Confined /\ Unmarked) /\ QuotaExact /\ J /\ [Next]_vars => J'
  BY NextRuns
<1>3. J => halted = "no"
  OBVIOUS
<1> QED BY <1>1, <1>2, <1>3, StraysIncluded, Inductive, Ownership, QuotasExact, PTL DEF Spec

\* Under the same assumptions swapping loses nothing that a process wrote.
THEOREM DataKept ==
  ASSUME NoWrap, AddressesFit, HeapsFit, RoomForAll
  PROVE  StraySpec => []DataIntegrity
BY NothingHalts, ContentsKept, PTL

\* And every process sees a private memory of its own.
THEOREM EveryMemoryPrivate ==
  ASSUME NoWrap, AddressesFit, HeapsFit, RoomForAll
  PROVE  StraySpec => PrivateMemory
BY NothingHalts, PrivateMemoryKept, PTL

=============================================================================
