------------------------------ MODULE MemPool -------------------------------
(***************************************************************************)
(* What a memory allocator promises: a pool of free addresses from which   *)
(* runs are taken and to which they are returned.  Which run an allocation *)
(* picks is left open; that it fails only for want of a run is not.        *)
(***************************************************************************)
EXTENDS Integers

CONSTANTS
  Region,   \* the addresses managed
  Lengths,  \* lengths that may be requested
  SYSERR

VARIABLES
  free,   \* addresses that are not allocated
  held,   \* allocated runs, as <<address, length>>
  ret     \* which call returned last, and what it returned

vars == <<free, held, ret>>

Run(a, n) == a .. (a + n - 1)

Init == free = Region /\ held = {} /\ ret = <<"get", SYSERR>>

Alloc(n) ==
  /\ n > 0
  /\ \E a \in free :
       /\ Run(a, n) \subseteq free
       /\ free' = free \ Run(a, n)
       /\ held' = held \union {<<a, n>>}
       /\ ret' = <<"get", a>>

Refuse(n) ==
  /\ n = 0 \/ \A a \in free : ~ (Run(a, n) \subseteq free)
  /\ ret' = <<"get", SYSERR>>
  /\ UNCHANGED <<free, held>>

Release(h) ==
  /\ h \in held
  /\ free' = free \union Run(h[1], h[2])
  /\ held' = held \ {h}
  /\ ret' = <<"free", h[1]>>

RejectRelease == ret' = <<"free", SYSERR>> /\ UNCHANGED <<free, held>>

Next ==
  \/ \E n \in Lengths : Alloc(n) \/ Refuse(n)
  \/ \E h \in held : Release(h)
  \/ RejectRelease

Spec == Init /\ [][Next]_vars
=============================================================================
