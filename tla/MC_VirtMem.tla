----------------------------- MODULE MC_VirtMem -----------------------------
(***************************************************************************)
(* Instances of VirtMem for TLC.                                           *)
(***************************************************************************)
EXTENDS VirtMem

CONSTANTS p1, p2

\* Heap sizes of the two processes: unequal shares of the heap, or all of it.
HeapShares == [p \in Procs |-> IF p = p1 THEN 2 ELSE 1]
HeapAll == [p \in Procs |-> MaxHeap]

=============================================================================
