------------------------------- MODULE Qsort --------------------------------
(***************************************************************************)
(* The library's quicksort.  Elements are compared as qscmp does, by       *)
(* their rank; addresses count elements, so that es is 1.  An array is     *)
(* partitioned into three: lp..hp holds elements equal to the pivot, i     *)
(* walks up to lp and j down to hp.                                        *)
(***************************************************************************)
EXTENDS Integers, Sequences, FiniteSets

CONSTANTS
  Values,      \* what the elements are compared by
  MaxLen       \* of the arrays sorted

VARIABLES
  pc,          \* the label of qs1 that is reached
  given, arr,  \* the array as it was given, and as it is
  a, l,        \* the part that this call sorts, l just past its end
  i, j, lp, hp,
  frames       \* the callers: what each still has to sort after the call

vars == <<pc, given, arr, a, l, i, j, lp, hp, frames>>

Arrays == UNION {[1..n -> Values] : n \in 0..MaxLen}

\* qsort calls qs1 for the whole array.
qsort(x) ==
  /\ given = x
  /\ arr = x
  /\ a = 1
  /\ l = Len(x) + 1
  /\ pc = "start"
  /\ i = 0 /\ j = 0 /\ lp = 0 /\ hp = 0
  /\ frames = <<>>

Init == \E x \in Arrays : qsort(x)

qscmp(p, q) == arr[p] - arr[q]

\* qsexc and qstexc exchange two elements and rotate three.
qsexc(p, q) == arr' = [arr EXCEPT ![p] = arr[q], ![q] = arr[p]]
qstexc(p, q, r) == arr' = [arr EXCEPT ![p] = arr[r], ![r] = arr[q], ![q] = arr[p]]

\* A part of one element is sorted: qs1 returns to its caller, which goes on
\* with what it has left.
ShortParts == l - a <= 1
Returns ==
  /\ pc = "start" /\ ShortParts
  /\ IF frames = <<>>
     THEN pc' = "done" /\ UNCHANGED <<a, l, frames>>
     ELSE /\ a' = Head(frames).a
          /\ l' = Head(frames).l
          /\ frames' = Tail(frames)
          /\ UNCHANGED pc
  /\ UNCHANGED <<given, arr, i, j, lp, hp>>

\* The middle element is the pivot.
Starts ==
  /\ pc = "start" /\ ~ ShortParts
  /\ lp' = a + (l - a) \div 2
  /\ hp' = lp'
  /\ i' = a
  /\ j' = l - 1
  /\ pc' = "for"
  /\ UNCHANGED <<given, arr, a, l, frames>>

\* The low side: an equal element joins the middle, a smaller one stays.
LowEqual ==
  /\ pc = "for" /\ i < lp /\ qscmp(i, lp) = 0
  /\ lp' = lp - 1
  /\ qsexc(i, lp - 1)
  /\ UNCHANGED <<pc, given, a, l, i, j, hp, frames>>

LowSmaller ==
  /\ pc = "for" /\ i < lp /\ qscmp(i, lp) < 0
  /\ i' = i + 1
  /\ UNCHANGED <<pc, given, arr, a, l, j, lp, hp, frames>>

LowDone ==
  /\ pc = "for" /\ (i < lp => qscmp(i, lp) > 0)
  /\ pc' = "loop"
  /\ UNCHANGED <<given, arr, a, l, i, j, lp, hp, frames>>

\* The high side, the same way; a smaller element changes places with a larger
\* one of the low side, or moves the whole middle up.
HighEqual ==
  /\ pc = "loop" /\ j > hp /\ qscmp(hp, j) = 0
  /\ hp' = hp + 1
  /\ qsexc(hp + 1, j)
  /\ UNCHANGED <<pc, given, a, l, i, j, lp, frames>>

HighLarger ==
  /\ pc = "loop" /\ j > hp /\ qscmp(hp, j) < 0
  /\ j' = j - 1
  /\ UNCHANGED <<pc, given, arr, a, l, i, lp, hp, frames>>

MiddleUpKeepsLow == lp' = lp
MiddleUpLow == lp' = lp + 1
MiddleUp ==
  /\ pc = "loop" /\ j > hp /\ qscmp(hp, j) > 0 /\ i = lp
  /\ hp' = hp + 1
  /\ qstexc(i, hp + 1, j)
  /\ MiddleUpLow
  /\ i' = lp'
  /\ UNCHANGED <<pc, given, a, l, j, frames>>

Exchange ==
  /\ pc = "loop" /\ j > hp /\ qscmp(hp, j) > 0 /\ i # lp
  /\ qsexc(i, j)
  /\ i' = i + 1
  /\ j' = j - 1
  /\ pc' = "for"
  /\ UNCHANGED <<given, a, l, lp, hp, frames>>

\* A larger element is left on the low side only: it moves the middle down.
MiddleDown ==
  /\ pc = "loop" /\ j <= hp /\ i # lp
  /\ lp' = lp - 1
  /\ qstexc(j, lp - 1, i)
  /\ hp' = hp - 1
  /\ j' = hp - 1
  /\ pc' = "for"
  /\ UNCHANGED <<given, a, l, i, frames>>

\* Both sides done: the shorter one is sorted by a call, the other one next.
LowIsLongerNever == FALSE
LowIsLonger == lp - a >= l - hp
Recurse ==
  /\ pc = "loop" /\ j <= hp /\ i = lp
  /\ LET low == [a |-> a, l |-> lp]
         high == [a |-> hp + 1, l |-> l]
         first == IF LowIsLonger THEN high ELSE low
         next == IF LowIsLonger THEN low ELSE high
     IN /\ a' = first.a
        /\ l' = first.l
        /\ frames' = <<next>> \o frames
  /\ pc' = "start"
  /\ UNCHANGED <<given, arr, i, j, lp, hp>>

qs1 ==
  \/ Returns \/ Starts \/ LowEqual \/ LowSmaller \/ LowDone
  \/ HighEqual \/ HighLarger \/ MiddleUp \/ Exchange \/ MiddleDown \/ Recurse

Next == qs1

-----------------------------------------------------------------------------
Copies(x, v) == Cardinality({k \in DOMAIN x : x[k] = v})

\* However the exchanges of qs1 went, the array it returns is in order and holds
\* the elements it was given, equal ones as often.
SortedPermutation ==
  pc = "done" =>
    /\ \A k \in 1..(Len(arr) - 1) : arr[k] <= arr[k + 1]
    /\ \A v \in Values : Copies(arr, v) = Copies(given, v)

\* qs1 compares and exchanges elements of its own part only, and because it calls
\* itself for the shorter side, its calls nest to the logarithm of the length at
\* most: the stack of a process is enough for every array.
StaysInside ==
  /\ pc \in {"for", "loop"} => a <= i /\ i <= lp /\ lp <= hp /\ hp < l /\ hp <= j /\ j < l
  /\ frames # <<>> => 2 ^ Len(frames) <= Len(given)

=============================================================================
