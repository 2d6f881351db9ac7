---------------------------- MODULE AddressSpace ----------------------------
(***************************************************************************)
(* What demand paging promises to the processes: every process has pages   *)
(* of its own, and a page holds what the process last stored in it.        *)
(***************************************************************************)
CONSTANTS
  Procs,    \* processes
  VPages,   \* virtual page numbers
  Vals,     \* contents
  Blank     \* contents of a page that was not written yet

VARIABLE space   \* space[p][v]: contents of page v of p; <<>> without pages

Pages(p) == DOMAIN space[p]

Init == space = [p \in Procs |-> <<>>]

\* A process comes into being with some of its pages filled.
Create(p) ==
  /\ Pages(p) = {}
  /\ \E P \in SUBSET VPages : \E c \in [P -> Vals] : P # {} /\ space' = [space EXCEPT ![p] = c]

\* It is given fresh pages.
Allocate(p) ==
  /\ Pages(p) # {}
  /\ \E P \in SUBSET (VPages \ Pages(p)) :
       space' = [space EXCEPT ![p] =
                   [v \in Pages(p) \union P |-> IF v \in P THEN Blank ELSE space[p][v]]]

\* It gives pages back, keeping the others and their contents.
Release(p) ==
  \E P \in SUBSET Pages(p) :
    space' = [space EXCEPT ![p] = [v \in Pages(p) \ P |-> space[p][v]]]

Store(p) ==
  \E v \in Pages(p), x \in Vals : space' = [space EXCEPT ![p][v] = x]

Next == \E p \in Procs : Create(p) \/ Allocate(p) \/ Release(p) \/ Store(p)

Spec == Init /\ [][Next]_space

=============================================================================
