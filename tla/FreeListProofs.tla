--------------------------- MODULE FreeListProofs ---------------------------
(***************************************************************************)
(* Proofs about FreeList, for every region, unit and request size: the     *)
(* list stays in address order and coalesced, no byte is lost or handed    *)
(* out twice, and the allocator implements MemPool.                        *)
(*                                                                         *)
(* The lemmas speak of any sequence of blocks, as freemem passes through   *)
(* lists that are not coalesced yet.                                       *)
(***************************************************************************)
EXTENDS FreeList, TLAPS, SequenceTheorems, WellFoundedInduction

Block == [addr : Nat, len : Nat \ {0}]

\* End of the region and of a block.
EndAddr == MinAddr + Size
End(b) == b.addr + b.len

\* The addresses that the blocks of a sequence cover.
FreeIn(s) == UNION {Bytes(s[i]) : i \in DOMAIN s}

\* A block of header granularity inside the region.
InRegion(b) ==
  /\ MinAddr <= b.addr /\ End(b) <= EndAddr
  /\ b.addr % MB = 0 /\ b.len % MB = 0

\* Blocks in address order with a gap after each, other than perhaps the one at
\* position p.
OrderedBut(s, p) ==
  \A i, j \in 1 .. Len(s) : i < j =>
    IF i = p /\ j = p + 1 THEN End(s[i]) <= s[j].addr ELSE End(s[i]) < s[j].addr

ListBut(s, p) ==
  /\ s \in Seq(Block)
  /\ \A i \in 1 .. Len(s) : InRegion(s[i])
  /\ OrderedBut(s, p)

\* Position 0 exempts no block.
IsList(s) == ListBut(s, 0)

\* The inductive invariant.
IInv ==
  /\ IsList(list)
  /\ held \subseteq [addr : MinAddr .. MaxAddr, nbytes : Requests]
  /\ \A b \in held : b.addr % MB = 0
  /\ ret \in {"get", "free"} \X ({SYSERR} \union (MinAddr .. MaxAddr))
  /\ Conserved

-----------------------------------------------------------------------------
\* A set of positions has a first and a last one.
LEMMA MinIsFirst ==
  ASSUME NEW T, T \subseteq Nat, T # {}
  PROVE  Min(T) \in T /\ \A y \in T : Min(T) <= y
<1>1. PICK x \in T : \A y \in T : ~ (<<y, x>> \in OpToRel(<, Nat))
  BY NatLessThanWellFounded, WFMin
<1>2. \A y \in T : ~ (y < x)
  BY <1>1, Zenon DEF OpToRel
<1>3. \A y \in T : x <= y
  BY <1>2
<1> QED BY <1>3 DEF Min

LEMMA MaxIsLast ==
  ASSUME NEW n \in Nat, NEW T, T \subseteq 0 .. n, T # {}
  PROVE  Max(T) \in T /\ \A y \in T : y <= Max(T)
<1> DEFINE R == {n - y : y \in T}
<1>1. R \subseteq Nat /\ R # {}
  <2>1. \A y \in T : n - y \in Nat
    OBVIOUS
  <2> QED BY <2>1
<1>2. Min(R) \in R /\ \A z \in R : Min(R) <= z
  BY <1>1, MinIsFirst
<1> HIDE DEF R
<1>3. PICK x \in T : Min(R) = n - x
  BY <1>2 DEF R
<1>4. \A y \in T : n - y \in R
  BY DEF R
<1>5. \A y \in T : y <= x
  BY <1>2, <1>3, <1>4
<1> QED BY <1>5 DEF Max

\* A multiple of a header.
LEMMA MultipleOf == \A q \in Int : (MB * q) % MB = 0 /\ (q * MB) % MB = 0
<1>1. MB \in Nat \ {0}
  BY FreeListAssumption
<1>2. \A q \in Int : (MB * q) % MB = 0
  BY <1>1
<1>3. \A q \in Int : q * MB = MB * q
  BY <1>1
<1> QED BY <1>2, <1>3

\* Multiples of a header stay multiples when they are added and subtracted.
LEMMA Multiples ==
  ASSUME NEW a \in Nat, NEW b \in Nat, a % MB = 0, b % MB = 0
  PROVE  /\ (a + b) % MB = 0
         /\ b <= a => (a - b) % MB = 0
<1>1. MB \in Nat \ {0}
  BY FreeListAssumption
<1>0. \A x \in Nat : x % MB = 0 => x \div MB \in Nat /\ x = MB * (x \div MB)
  BY <1>1
<1>2. PICK k \in Nat : a = MB * k
  BY <1>0
<1>3. PICK m \in Nat : b = MB * m
  BY <1>0
<1>4. a + b = MB * (k + m) /\ a - b = MB * (k - m)
  BY <1>1, <1>2, <1>3
<1> QED BY <1>4, MultipleOf

\* roundmb rounds up to a multiple of the header size.
LEMMA RoundMb ==
  ASSUME NEW n \in Nat
  PROVE  /\ roundmb(n) \in Nat /\ n <= roundmb(n)
         /\ roundmb(n) % MB = 0
         /\ n > 0 => roundmb(n) > 0
         /\ n = 0 => roundmb(n) = 0
<1>1. MB \in Nat \ {0}
  BY FreeListAssumption
<1> DEFINE q == (n + MB - 1) \div MB
<1>2. /\ q \in Nat /\ n + MB - 1 = MB * q + ((n + MB - 1) % MB)
      /\ (n + MB - 1) % MB \in 0 .. (MB - 1)
  BY <1>1
<1>3. roundmb(n) = q * MB
  BY DEF roundmb
<1> HIDE DEF q
<1>4. roundmb(n) \in Nat /\ n <= roundmb(n)
  BY <1>1, <1>2, <1>3
<1>5. roundmb(n) % MB = 0
  BY <1>2, <1>3, MultipleOf
<1>6. n = 0 => roundmb(n) = 0
  <2> SUFFICES ASSUME n = 0 PROVE q * MB = 0
    BY <1>3
  <2>1. MB - 1 = MB * q + ((MB - 1) % MB) /\ (MB - 1) % MB >= 0
    BY <1>2, <1>1
  <2>2. q = 0 \/ MB * q >= MB
    BY <1>1, <1>2
  <2> QED BY <1>1, <1>2, <2>1, <2>2
<1> QED BY <1>4, <1>5, <1>6

-----------------------------------------------------------------------------
\* Linking and unlinking a block.
\* t is the list s without the block at position i.
Removed(s, i, t) ==
  /\ t \in Seq(Block) /\ Len(t) = Len(s) - 1
  /\ \A j \in 1 .. (Len(s) - 1) : t[j] = IF j < i THEN s[j] ELSE s[j + 1]

LEMMA RemoveAtProperties ==
  ASSUME NEW s \in Seq(Block), NEW i \in 1 .. Len(s)
  PROVE  Removed(s, i, RemoveAt(s, i))
<1>0. Len(s) \in Nat /\ \A j \in 1 .. Len(s) : s[j] \in Block
  BY LenProperties, ElementOfSeq
<1> DEFINE a == SubSeq(s, 1, i - 1)
           b == SubSeq(s, i + 1, Len(s))
<1>1. /\ a \in Seq(Block) /\ Len(a) = i - 1
      /\ \A j \in 1 .. (i - 1) : a[j] = s[j]
  BY <1>0, SubSeqProperties
<1>2. /\ b \in Seq(Block) /\ Len(b) = Len(s) - i
      /\ \A j \in 1 .. (Len(s) - i) : b[j] = s[i + j]
  BY <1>0, SubSeqProperties
<1>3. RemoveAt(s, i) = a \o b
  BY DEF RemoveAt
<1> HIDE DEF a, b
<1>4. /\ a \o b \in Seq(Block) /\ Len(a \o b) = Len(a) + Len(b)
      /\ \A j \in 1 .. (Len(a) + Len(b)) :
           (a \o b)[j] = IF j <= Len(a) THEN a[j] ELSE b[j - Len(a)]
  BY <1>1, <1>2, ConcatProperties
<1>5. Len(a) + Len(b) = Len(s) - 1
  BY <1>0, <1>1, <1>2
<1>6. ASSUME NEW j \in 1 .. (Len(s) - 1)
      PROVE  (a \o b)[j] = IF j < i THEN s[j] ELSE s[j + 1]
  <2>1. CASE j < i
    <3>1. j <= Len(a) /\ j \in 1 .. (i - 1)
      BY <1>0, <1>1, <2>1
    <3> QED BY <1>1, <1>4, <1>5, <2>1, <3>1
  <2>2. CASE ~ (j < i)
    <3>1. ~ (j <= Len(a)) /\ j - Len(a) \in 1 .. (Len(s) - i) /\ i + (j - Len(a)) = j + 1
      BY <1>0, <1>1, <2>2
    <3> QED BY <1>2, <1>4, <1>5, <2>2, <3>1
  <2> QED BY <2>1, <2>2
<1> QED BY <1>3, <1>4, <1>5, <1>6 DEF Removed

\* t is the list s with the block e inserted at position i.
Inserted(s, i, e, t) ==
  /\ t \in Seq(Block) /\ Len(t) = Len(s) + 1
  /\ \A j \in 1 .. (Len(s) + 1) :
       t[j] = IF j < i THEN s[j] ELSE IF j = i THEN e ELSE s[j - 1]

LEMMA InsertAtProperties ==
  ASSUME NEW s \in Seq(Block), NEW i \in 1 .. (Len(s) + 1), NEW e \in Block
  PROVE  Inserted(s, i, e, InsertAt(s, i, e))
<1>0. Len(s) \in Nat /\ \A j \in 1 .. Len(s) : s[j] \in Block
  BY LenProperties, ElementOfSeq
<1> DEFINE a == SubSeq(s, 1, i - 1)
           b == SubSeq(s, i, Len(s))
           c == a \o <<e>>
<1>1. /\ a \in Seq(Block) /\ Len(a) = i - 1
      /\ \A j \in 1 .. (i - 1) : a[j] = s[j]
  BY <1>0, SubSeqProperties
<1>2. /\ b \in Seq(Block) /\ Len(b) = Len(s) - i + 1
      /\ \A j \in 1 .. (Len(s) - i + 1) : b[j] = s[i + j - 1]
  BY <1>0, SubSeqProperties
<1>3. InsertAt(s, i, e) = c \o b
  BY DEF InsertAt
<1>4. <<e>> \in Seq(Block) /\ Len(<<e>>) = 1 /\ <<e>>[1] = e
  OBVIOUS
<1> HIDE DEF a, b
<1>5. /\ c \in Seq(Block) /\ Len(c) = i
      /\ \A j \in 1 .. i : c[j] = IF j <= i - 1 THEN a[j] ELSE <<e>>[j - (i - 1)]
  BY <1>0, <1>1, <1>4, ConcatProperties
<1>6. \A j \in 1 .. i : c[j] = IF j < i THEN s[j] ELSE e
  BY <1>0, <1>1, <1>4, <1>5
<1> HIDE DEF c
<1>7. /\ c \o b \in Seq(Block) /\ Len(c \o b) = Len(s) + 1
      /\ \A j \in 1 .. (Len(s) + 1) : (c \o b)[j] = IF j <= i THEN c[j] ELSE b[j - i]
  BY <1>0, <1>2, <1>5, ConcatProperties
<1>8. \A j \in 1 .. (Len(s) + 1) :
        (c \o b)[j] = IF j < i THEN s[j] ELSE IF j = i THEN e ELSE s[j - 1]
  BY <1>0, <1>2, <1>6, <1>7
<1> QED BY <1>3, <1>7, <1>8 DEF Inserted

\* Changing the length of a block.
LEMMA WithLen ==
  ASSUME NEW b \in Block, NEW n
  PROVE  [b EXCEPT !.len = n] = [addr |-> b.addr, len |-> n]
BY DEF Block

\* The bytes of a block.
LEMMA BytesIff ==
  ASSUME NEW b, b.addr \in Nat, b.len \in Nat
  PROVE  \A x : x \in Bytes(b) <=> x \in Nat /\ b.addr <= x /\ x < b.addr + b.len
BY DEF Bytes

\* The bytes of a sequence of blocks, by position.
LEMMA FreeInIff ==
  ASSUME NEW s \in Seq(Block)
  PROVE  /\ FreeIn(s) \subseteq Nat
         /\ \A x \in Nat : x \in FreeIn(s) <=>
              \E i \in 1 .. Len(s) : s[i].addr <= x /\ x < End(s[i])
<1>1. DOMAIN s = 1 .. Len(s) /\ Len(s) \in Nat
  BY LenProperties
<1>2. \A i \in 1 .. Len(s) : s[i] \in Block
  BY ElementOfSeq
<1>3. \A i \in 1 .. Len(s) : \A x : x \in Bytes(s[i]) <=> x \in Nat /\ s[i].addr <= x /\ x < End(s[i])
  BY <1>2 DEF Block, Bytes, End
<1> QED BY <1>1, <1>3 DEF FreeIn

-----------------------------------------------------------------------------
\* The blocks of a list are blocks, and their number is a number.
LEMMA ListTyping ==
  ASSUME NEW s, NEW p \in Nat, ListBut(s, p)
  PROVE  /\ s \in Seq(Block) /\ Len(s) \in Nat /\ DOMAIN s = 1 .. Len(s)
         /\ \A i \in 1 .. Len(s) :
              /\ s[i] \in Block
              /\ s[i].addr \in Nat /\ s[i].len \in Nat \ {0} /\ End(s[i]) \in Nat
<1>1. s \in Seq(Block)
  BY DEF ListBut
<1>2. Len(s) \in Nat /\ DOMAIN s = 1 .. Len(s)
  BY <1>1, LenProperties
<1>3. \A i \in 1 .. Len(s) : s[i] \in Block
  BY <1>1, ElementOfSeq
<1>4. \A b \in Block : b.addr \in Nat /\ b.len \in Nat \ {0} /\ End(b) \in Nat
  BY DEF Block, End
<1> QED BY <1>1, <1>2, <1>3, <1>4

\* What is known of a list.
LEMMA ListFacts ==
  ASSUME NEW s, IsList(s)
  PROVE  /\ s \in Seq(Block) /\ Len(s) \in Nat /\ DOMAIN s = 1 .. Len(s)
         /\ \A i \in 1 .. Len(s) :
              /\ s[i] \in Block /\ InRegion(s[i])
              /\ s[i].addr \in Nat /\ s[i].len \in Nat \ {0} /\ End(s[i]) \in Nat
              /\ s[i].addr < End(s[i])
         /\ \A i, j \in 1 .. Len(s) : i < j => End(s[i]) < s[j].addr
<1>1. ListBut(s, 0)
  BY DEF IsList
<1>2. /\ s \in Seq(Block) /\ Len(s) \in Nat /\ DOMAIN s = 1 .. Len(s)
      /\ \A i \in 1 .. Len(s) :
           s[i] \in Block /\ s[i].addr \in Nat /\ s[i].len \in Nat \ {0} /\ End(s[i]) \in Nat
  BY <1>1, ListTyping
<1>3. \A i \in 1 .. Len(s) : InRegion(s[i])
  BY <1>1 DEF ListBut
<1>4. \A i \in 1 .. Len(s) : s[i].addr < End(s[i])
  BY <1>2 DEF End
<1>5. \A i, j \in 1 .. Len(s) : i < j => End(s[i]) < s[j].addr
  BY <1>1, <1>2 DEF ListBut, OrderedBut
<1> QED BY <1>2, <1>3, <1>4, <1>5

\* Unlinking a block leaves a list of the others' bytes.
LEMMA Unlinked ==
  ASSUME NEW s, IsList(s), NEW i \in 1 .. Len(s)
  PROVE  /\ IsList(RemoveAt(s, i))
         /\ FreeIn(RemoveAt(s, i)) = FreeIn(s) \ Bytes(s[i])
<1> DEFINE t == RemoveAt(s, i)
<1>1. /\ s \in Seq(Block) /\ Len(s) \in Nat
      /\ \A k \in 1 .. Len(s) :
           /\ s[k] \in Block
           /\ s[k].addr \in Nat /\ s[k].len \in Nat \ {0} /\ End(s[k]) \in Nat
  BY ListFacts
<1>2. /\ t \in Seq(Block) /\ Len(t) = Len(s) - 1
      /\ \A j \in 1 .. (Len(s) - 1) : t[j] = IF j < i THEN s[j] ELSE s[j + 1]
  BY <1>1, RemoveAtProperties DEF Removed
<1> HIDE DEF t
<1>3. /\ \A j \in 1 .. Len(s) : InRegion(s[j])
      /\ \A j, k \in 1 .. Len(s) : j < k => End(s[j]) < s[k].addr
  BY ListFacts
<1>4. ASSUME NEW j \in 1 .. Len(t)
      PROVE  InRegion(t[j])
  <2>1. j \in 1 .. (Len(s) - 1) /\ j \in 1 .. Len(s) /\ j + 1 \in 1 .. Len(s)
    BY <1>1, <1>2
  <2>2. t[j] = s[j] \/ t[j] = s[j + 1]
    BY <1>2, <2>1
  <2> QED BY <1>3, <2>1, <2>2
<1>5. ASSUME NEW j \in 1 .. Len(t), NEW k \in 1 .. Len(t), j < k
      PROVE  End(t[j]) < t[k].addr
  <2>1. CASE k < i
    <3>1. j \in 1 .. (Len(s) - 1) /\ k \in 1 .. (Len(s) - 1) /\ j < i
      BY <1>1, <1>2, <1>5, <2>1
    <3>2. j \in 1 .. Len(s) /\ k \in 1 .. Len(s)
      BY <1>1, <3>1
    <3>3. t[j] = s[j] /\ t[k] = s[k]
      BY <1>2, <2>1, <3>1
    <3> QED BY <1>3, <1>5, <3>2, <3>3
  <2>2. CASE j < i /\ ~ (k < i)
    <3>1. End(s[j]) < s[k + 1].addr
      BY <1>1, <1>2, <1>3, <1>5, <2>2
    <3> QED BY <1>2, <2>2, <3>1
  <2>3. CASE ~ (j < i) /\ ~ (k < i)
    <3>1. End(s[j + 1]) < s[k + 1].addr
      BY <1>1, <1>2, <1>3, <1>5, <2>3
    <3> QED BY <1>2, <2>3, <3>1
  <2> QED BY <1>2, <1>5, <2>1, <2>2, <2>3
<1>6. IsList(t)
  BY <1>1, <1>2, <1>4, <1>5 DEF IsList, ListBut, OrderedBut
<1>7. ASSUME NEW x \in Nat
      PROVE  x \in FreeIn(t) <=> x \in FreeIn(s) /\ ~ (s[i].addr <= x /\ x < End(s[i]))
  <2>1. ASSUME NEW j \in 1 .. Len(t), t[j].addr <= x, x < End(t[j])
        PROVE  /\ \E k \in 1 .. Len(s) : s[k].addr <= x /\ x < End(s[k])
               /\ ~ (s[i].addr <= x /\ x < End(s[i]))
    <3>1. PICK k \in 1 .. Len(s) : k # i /\ t[j] = s[k]
      <4>1. CASE j < i
        BY <1>1, <1>2, <4>1
      <4>2. CASE ~ (j < i)
        <5>1. j + 1 \in 1 .. Len(s) /\ j + 1 # i /\ t[j] = s[j + 1]
          BY <1>1, <1>2, <4>2
        <5> QED BY <5>1
      <4> QED BY <4>1, <4>2
    <3>2. k < i => End(s[k]) < s[i].addr
      BY <1>3
    <3>3. i < k => End(s[i]) < s[k].addr
      BY <1>3
    <3> QED BY <1>1, <2>1, <3>1, <3>2, <3>3
  <2>2. ASSUME NEW k \in 1 .. Len(s), k # i
        PROVE  \E j \in 1 .. Len(t) : t[j] = s[k]
    <3>1. CASE k < i
      <4>1. k \in 1 .. Len(t) /\ t[k] = s[k]
        BY <1>1, <1>2, <3>1
      <4> QED BY <4>1
    <3>2. CASE k > i
      <4>1. k - 1 \in 1 .. Len(t) /\ t[k - 1] = s[k]
        BY <1>1, <1>2, <3>2
      <4> QED BY <4>1
    <3> QED BY <2>2, <3>1, <3>2, <1>1
  <2> QED BY <1>1, <1>2, <2>1, <2>2, FreeInIff
<1>8. \A x : x \in Bytes(s[i]) <=> x \in Nat /\ s[i].addr <= x /\ x < End(s[i])
  BY <1>1 DEF Bytes, End
<1>9. FreeIn(t) \subseteq Nat /\ FreeIn(s) \subseteq Nat
  BY <1>1, <1>2, FreeInIff
<1> QED BY <1>6, <1>7, <1>8, <1>9 DEF t

\* Shrinking a block at one end takes those bytes away.
LEMMA Shrunk ==
  ASSUME NEW s, IsList(s), NEW i \in 1 .. Len(s), NEW b \in Block,
         InRegion(b), s[i].addr <= b.addr, End(b) <= End(s[i]),
         NEW t \in Seq(Block), Len(t) = Len(s), t[i] = b,
         \A j \in 1 .. Len(s) : j # i => t[j] = s[j]
  PROVE  /\ IsList(t)
         /\ FreeIn(t) = (FreeIn(s) \ Bytes(s[i])) \union Bytes(b)
<1>1. /\ s \in Seq(Block) /\ Len(s) \in Nat
      /\ \A k \in 1 .. Len(s) :
           /\ s[k] \in Block
           /\ s[k].addr \in Nat /\ s[k].len \in Nat \ {0} /\ End(s[k]) \in Nat
  BY ListFacts
<1>2. /\ t \in Seq(Block) /\ Len(t) = Len(s)
      /\ \A j \in 1 .. Len(s) : t[j] = IF j = i THEN b ELSE s[j]
  OBVIOUS
<1>3. /\ \A j \in 1 .. Len(s) : InRegion(s[j])
      /\ \A j, k \in 1 .. Len(s) : j < k => End(s[j]) < s[k].addr
  BY ListFacts
<1>4. b.addr \in Nat /\ b.len \in Nat \ {0} /\ End(b) \in Nat
  BY DEF Block, End
<1>5. ASSUME NEW j \in 1 .. Len(t), NEW k \in 1 .. Len(t), j < k
      PROVE  End(t[j]) < t[k].addr
  <2>1. End(s[j]) < s[k].addr
    BY <1>2, <1>3, <1>5
  <2>2. /\ t[j].addr \in Nat /\ t[k].addr \in Nat /\ End(t[j]) \in Nat
        /\ End(s[j]) \in Nat /\ s[k].addr \in Nat
    BY <1>1, <1>2, <1>4
  <2>3. End(t[j]) <= End(s[j])
    BY <1>1, <1>2, <1>4
  <2>4. s[k].addr <= t[k].addr
    BY <1>1, <1>2, <1>4
  <2> QED BY <2>1, <2>2, <2>3, <2>4
<1>6. IsList(t)
  <2>1. \A j \in 1 .. Len(t) : InRegion(t[j])
    BY <1>2, <1>3
  <2>2. OrderedBut(t, 0)
    <3> SUFFICES ASSUME NEW j \in 1 .. Len(t), NEW k \in 1 .. Len(t), j < k
                 PROVE  End(t[j]) < t[k].addr
      BY <1>1, <1>2 DEF OrderedBut
    <3> QED BY <1>5
  <2> QED BY <1>2, <2>1, <2>2 DEF IsList, ListBut
<1>7. ASSUME NEW x \in Nat
      PROVE  x \in FreeIn(t) <=> \/ x \in FreeIn(s) /\ ~ (s[i].addr <= x /\ x < End(s[i]))
                                 \/ b.addr <= x /\ x < End(b)
  <2>1. ASSUME NEW j \in 1 .. Len(s), j # i, s[j].addr <= x, x < End(s[j])
        PROVE  ~ (s[i].addr <= x /\ x < End(s[i]))
    <3>1. j < i => End(s[j]) < s[i].addr
      BY <1>3
    <3>2. i < j => End(s[i]) < s[j].addr
      BY <1>3
    <3> QED BY <1>1, <2>1, <3>1, <3>2
  <2>2. t[i] = b /\ \A j \in 1 .. Len(s) : j # i => t[j] = s[j]
    BY <1>2
  <2>3. x \in FreeIn(t) <=> \E j \in 1 .. Len(s) : t[j].addr <= x /\ x < End(t[j])
    BY <1>2, FreeInIff
  <2>4. x \in FreeIn(s) <=> \E j \in 1 .. Len(s) : s[j].addr <= x /\ x < End(s[j])
    BY <1>1, FreeInIff
  <2> QED BY <1>1, <2>1, <2>2, <2>3, <2>4
<1>8. \A c : c.addr \in Nat /\ c.len \in Nat \ {0} =>
        \A x : x \in Bytes(c) <=> x \in Nat /\ c.addr <= x /\ x < End(c)
  BY DEF Bytes, End
<1>9. FreeIn(t) \subseteq Nat /\ FreeIn(s) \subseteq Nat
  BY <1>1, <1>2, FreeInIff
<1> QED BY <1>1, <1>4, <1>6, <1>7, <1>8, <1>9

-----------------------------------------------------------------------------
\* The region is where its assumption says.
LEMMA RegionTyping ==
  /\ MB \in Nat \ {0} /\ MinAddr \in Nat \ {0} /\ Size \in Nat \ {0} /\ MaxBytes \in Nat
  /\ EndAddr \in Nat /\ MaxAddr \in Nat /\ MaxAddr = EndAddr - 1
  /\ MinAddr .. MaxAddr \subseteq Nat
BY FreeListAssumption DEF EndAddr, MaxAddr

LEMMA FreeIsIn == Free = FreeIn(list)
BY DEF Free, FreeIn

\* The two ends of a block.
LEMMA LowEnd ==
  ASSUME NEW a \in Nat, NEW l \in Nat, NEW n \in Nat, n <= l
  PROVE  /\ a + n \in Nat /\ a + l \in Nat /\ a <= a + n
         /\ l - n \in Nat /\ (l # n => l - n \in Nat \ {0})
         /\ (a + n) + (l - n) = a + l
OBVIOUS

LEMMA HighEnd ==
  ASSUME NEW a \in Nat, NEW l \in Nat, NEW n \in Nat, n <= l
  PROVE  /\ a + l - n \in Nat /\ a + (l - n) = a + l - n /\ (a + l - n) + n = a + l
         /\ a + l \in Nat /\ a <= a + l - n
         /\ (a + l - n) .. ((a + l - n) + n - 1) \subseteq a .. (a + l - 1)
OBVIOUS

\* getmem takes the low end of block i.
LEMMA TakenLow ==
  ASSUME IsList(list), NEW i \in 1 .. Len(list), NEW n \in Nat \ {0}, n % MB = 0,
         n <= list[i].len
  PROVE  /\ IsList(TakeLow(i, n))
         /\ FreeIn(TakeLow(i, n)) = Free \ (list[i].addr .. (list[i].addr + n - 1))
         /\ (list[i].addr .. (list[i].addr + n - 1)) \subseteq Bytes(list[i])
<1> DEFINE c == list[i]
           b == [addr |-> c.addr + n, len |-> c.len - n]
           run == c.addr .. (c.addr + n - 1)
<1>1. /\ c \in Block /\ c.addr \in Nat /\ c.len \in Nat \ {0} /\ InRegion(c)
      /\ i \in DOMAIN list /\ list \in Seq(Block)
  BY ListFacts
<1> HIDE DEF c
<1>2. run \subseteq Bytes(c)
  BY <1>1 DEF Bytes, c
<1>3. Bytes(c) \subseteq Free
  BY <1>1 DEF Free, c
<1>4. CASE c.len = n
  <2>1. TakeLow(i, n) = RemoveAt(list, i) /\ Bytes(c) = run
    BY <1>4 DEF TakeLow, Bytes, c
  <2>2. IsList(RemoveAt(list, i)) /\ FreeIn(RemoveAt(list, i)) = FreeIn(list) \ Bytes(c)
    BY Unlinked DEF c
  <2> QED BY <1>2, <2>1, <2>2, FreeIsIn DEF c
<1>5. CASE c.len # n
  <2>1. TakeLow(i, n) = [list EXCEPT ![i] = b]
    BY <1>1, <1>5 DEF TakeLow, c
  <2>2. /\ b \in Block /\ b.addr = c.addr + n /\ b.len = c.len - n
        /\ c.addr <= b.addr /\ End(b) = End(c) /\ End(b) <= End(c)
        /\ b.addr \in Nat /\ b.len \in Nat /\ n <= c.len
    <3>1. c.addr \in Nat /\ c.len \in Nat /\ n <= c.len /\ c.len - n \in Nat \ {0}
      BY <1>1, <1>5 DEF c
    <3>2. b.addr = c.addr + n /\ b.len = c.len - n /\ b = [addr |-> b.addr, len |-> b.len]
      OBVIOUS
    <3> HIDE DEF b
    <3>3. /\ b.addr \in Nat /\ b.len \in Nat \ {0} /\ b.addr + b.len = c.addr + c.len
          /\ c.addr <= b.addr /\ c.addr + c.len \in Nat
      BY <3>1, <3>2, LowEnd
    <3>4. b \in Block
      BY <3>2, <3>3 DEF Block
    <3>5. End(b) = End(c) /\ End(c) \in Nat
      BY <3>3 DEF End
    <3> QED BY <3>1, <3>2, <3>3, <3>4, <3>5
  <2> HIDE DEF b
  <2>3. InRegion(b)
    <3>1. (c.addr + n) % MB = 0 /\ (c.len - n) % MB = 0
      BY <1>1, Multiples, n <= c.len DEF InRegion, c
    <3>2. MinAddr <= c.addr /\ End(c) <= EndAddr
      BY <1>1 DEF InRegion
    <3>3. MinAddr <= b.addr
      BY <1>1, <2>2, <3>2, RegionTyping
    <3> QED BY <2>2, <3>1, <3>2, <3>3 DEF InRegion
  <2> DEFINE t == [list EXCEPT ![i] = b]
  <2>4. IsList(t) /\ FreeIn(t) = (FreeIn(list) \ Bytes(c)) \union Bytes(b)
    <3>1. c = list[i]
      BY DEF c
    <3>2. b \in Block /\ list[i].addr <= b.addr /\ End(b) <= End(list[i])
      BY <2>2, <3>1
    <3>3. /\ t \in Seq(Block) /\ Len(t) = Len(list)
          /\ \A j \in 1 .. Len(list) : t[j] = IF j = i THEN b ELSE list[j]
      BY <1>1, <3>2, ExceptSeq
    <3> HIDE DEF t
    <3>4. t[i] = b /\ \A j \in 1 .. Len(list) : j # i => t[j] = list[j]
      BY <3>3
    <3>5. IsList(t) /\ FreeIn(t) = (FreeIn(list) \ Bytes(list[i])) \union Bytes(b)
      BY <2>3, <3>2, <3>3, <3>4, Shrunk
    <3> QED BY <3>1, <3>5
  <2>5. Bytes(b) = Bytes(c) \ run
    <3>1. \A x : x \in Bytes(b) <=> x \in Nat /\ b.addr <= x /\ x < b.addr + b.len
      BY <2>2, BytesIff
    <3>2. \A x : x \in Bytes(c) <=> x \in Nat /\ c.addr <= x /\ x < c.addr + c.len
      BY <1>1, BytesIff
    <3>3. \A x : x \in run <=> x \in Nat /\ c.addr <= x /\ x < c.addr + n
      BY <1>1
    <3>4. b.addr + b.len = c.addr + c.len /\ c.addr \in Nat /\ c.len \in Nat
      <4>1. c.addr \in Nat /\ c.len \in Nat /\ b.addr = c.addr + n /\ b.len = c.len - n
        BY <1>1, <2>2
      <4> QED BY <4>1
    <3> HIDE DEF run
    <3>5. ASSUME NEW x
          PROVE  x \in Bytes(b) <=> x \in Bytes(c) /\ x \notin run
      <4>1. x \in Bytes(b) <=> x \in Nat /\ c.addr + n <= x /\ x < c.addr + c.len
        BY <2>2, <3>1, <3>4
      <4> QED BY <3>2, <3>3, <3>4, <4>1
    <3> QED BY <3>5
  <2> QED BY <1>2, <1>3, <2>1, <2>4, <2>5, FreeIsIn DEF c
<1> QED BY <1>4, <1>5


\* getstk takes the high end of block i.
LEMMA TakenHigh ==
  ASSUME IsList(list), NEW i \in 1 .. Len(list), NEW n \in Nat \ {0}, n % MB = 0,
         n <= list[i].len,
         NEW base, base = list[i].addr + list[i].len - n
  PROVE  /\ IsList(TakeHigh(i, n))
         /\ FreeIn(TakeHigh(i, n)) = Free \ (base .. (base + n - 1))
         /\ (base .. (base + n - 1)) \subseteq Bytes(list[i])
         /\ base % MB = 0
<1> DEFINE c == list[i]
           b == [addr |-> c.addr, len |-> c.len - n]
           run == base .. (base + n - 1)
<1>1. /\ c \in Block /\ c.addr \in Nat /\ c.len \in Nat \ {0} /\ InRegion(c)
      /\ i \in DOMAIN list /\ list \in Seq(Block)
  BY ListFacts
<1>2. /\ base = c.addr + c.len - n /\ base \in Nat /\ n <= c.len
  <2>1. base = c.addr + c.len - n /\ n <= c.len
    BY DEF c
  <2>2. c.addr \in Nat /\ c.len \in Nat
    BY <1>1
  <2> HIDE DEF c
  <2>3. base \in Nat
    BY <2>1, <2>2, HighEnd
  <2> QED BY <2>1, <2>3
<1> HIDE DEF c
<1>3. run \subseteq Bytes(c) /\ Bytes(c) \subseteq Free
  <2>1. c.addr \in Nat /\ c.len \in Nat
    BY <1>1
  <2>2. run \subseteq Bytes(c)
    <3>1. run \subseteq c.addr .. (c.addr + c.len - 1)
      BY <1>2, <2>1, HighEnd
    <3> QED BY <3>1 DEF Bytes
  <2>3. c = list[i] /\ i \in DOMAIN list
    BY <1>1 DEF c
  <2>4. Bytes(c) \subseteq Free
    BY <2>3 DEF Free
  <2> QED BY <2>2, <2>4
<1>4. base % MB = 0
  <2>1. (c.len - n) \in Nat /\ (c.len - n) % MB = 0
    <3>1. c.len \in Nat /\ n \in Nat /\ c.len % MB = 0 /\ n % MB = 0 /\ n <= c.len
      BY <1>1, <1>2 DEF InRegion
    <3>2. c.len - n \in Nat
      BY <3>1
    <3>3. (c.len - n) % MB = 0
      BY <3>1, Multiples
    <3> QED BY <3>2, <3>3
  <2>2. (c.addr + (c.len - n)) % MB = 0
    BY <1>1, <2>1, Multiples DEF InRegion
  <2> QED BY <1>1, <1>2, <2>2, c.addr + (c.len - n) = base
<1>5. CASE c.len = n
  <2>1. TakeHigh(i, n) = RemoveAt(list, i) /\ Bytes(c) = run
    BY <1>1, <1>2, <1>5 DEF TakeHigh, Bytes, c
  <2>2. IsList(RemoveAt(list, i)) /\ FreeIn(RemoveAt(list, i)) = FreeIn(list) \ Bytes(c)
    BY Unlinked DEF c
  <2> QED BY <1>3, <1>4, <2>1, <2>2, FreeIsIn DEF c
<1>6. CASE c.len # n
  <2>1. TakeHigh(i, n) = [list EXCEPT ![i] = b]
    <3> DEFINE d == [c EXCEPT !.len = c.len - n]
    <3>1. d = b
      BY <1>1, WithLen
    <3>2. TakeHigh(i, n) = [list EXCEPT ![i] = d]
      BY <1>6 DEF TakeHigh, c
    <3> HIDE DEF d, b
    <3> QED BY <3>1, <3>2
  <2>2. /\ b \in Block /\ b.addr = c.addr /\ b.len = c.len - n /\ End(b) <= End(c)
        /\ c.addr <= b.addr /\ b.addr \in Nat /\ b.len \in Nat
    <3>1. c.addr \in Nat /\ c.len \in Nat /\ n <= c.len /\ c.len - n \in Nat \ {0}
      BY <1>1, <1>2, <1>6
    <3> QED BY <3>1 DEF Block, End
  <2> HIDE DEF b
  <2>3. InRegion(b)
    <3>1. (c.len - n) % MB = 0
      BY <1>1, <1>2, Multiples DEF InRegion
    <3>2. /\ MinAddr <= c.addr /\ c.addr % MB = 0 /\ End(c) <= EndAddr
          /\ c.addr \in Nat /\ c.len \in Nat
      BY <1>1 DEF InRegion
    <3>3. b.len \in Nat \ {0} /\ End(c) \in Nat /\ End(b) \in Nat
      <4>1. n <= c.len /\ b.len = c.len - n /\ c.len # n /\ b.addr = c.addr
        BY <1>2, <1>6, <2>2
      <4>2. b.len \in Nat \ {0} /\ c.addr + c.len \in Nat
        BY <3>2, <4>1, LowEnd
      <4>3. b.addr + b.len \in Nat
        BY <3>2, <4>1, <4>2
      <4> QED BY <4>2, <4>3 DEF End
    <3> QED BY <2>2, <3>1, <3>2, <3>3, RegionTyping DEF InRegion
  <2> DEFINE t == [list EXCEPT ![i] = b]
  <2>4. IsList(t) /\ FreeIn(t) = (FreeIn(list) \ Bytes(c)) \union Bytes(b)
    <3>1. c = list[i]
      BY DEF c
    <3>2. b \in Block /\ list[i].addr <= b.addr /\ End(b) <= End(list[i])
      BY <2>2, <3>1
    <3>3. /\ t \in Seq(Block) /\ Len(t) = Len(list)
          /\ \A j \in 1 .. Len(list) : t[j] = IF j = i THEN b ELSE list[j]
      BY <1>1, <3>2, ExceptSeq
    <3> HIDE DEF t
    <3>4. t[i] = b /\ \A j \in 1 .. Len(list) : j # i => t[j] = list[j]
      BY <3>3
    <3>5. IsList(t) /\ FreeIn(t) = (FreeIn(list) \ Bytes(list[i])) \union Bytes(b)
      BY <2>3, <3>2, <3>3, <3>4, Shrunk
    <3> QED BY <3>1, <3>5
  <2>5. Bytes(b) = Bytes(c) \ run
    <3>1. \A x : x \in Bytes(b) <=> x \in Nat /\ b.addr <= x /\ x < b.addr + b.len
      BY <2>2, BytesIff
    <3>2. \A x : x \in Bytes(c) <=> x \in Nat /\ c.addr <= x /\ x < c.addr + c.len
      BY <1>1, BytesIff
    <3>3. \A x : x \in run <=> x \in Nat /\ base <= x /\ x < base + n
      BY <1>2
    <3>4. b.addr + b.len = base /\ base + n = c.addr + c.len /\ base \in Nat /\ c.addr \in Nat
      <4>1. c.addr \in Nat /\ c.len \in Nat /\ b.addr = c.addr /\ b.len = c.len - n
        BY <1>1, <2>2
      <4>2. base = c.addr + c.len - n
        BY <1>2
      <4>3. c.addr + (c.len - n) = base /\ base + n = c.addr + c.len
        BY <1>2, <4>1, <4>2, HighEnd
      <4> QED BY <1>2, <4>1, <4>3
    <3> HIDE DEF run
    <3>5. ASSUME NEW x
          PROVE  x \in Bytes(b) <=> x \in Bytes(c) /\ x \notin run
      <4>1. x \in Bytes(b) <=> x \in Nat /\ c.addr <= x /\ x < base
        BY <2>2, <3>1, <3>4
      <4>2. x \in Bytes(c) <=> x \in Nat /\ c.addr <= x /\ x < base + n
        BY <3>2, <3>4
      <4> QED BY <3>3, <3>4, <4>1, <4>2
    <3> QED BY <3>5
  <2> QED BY <1>3, <1>4, <2>1, <2>4, <2>5, FreeIsIn DEF c
<1> QED BY <1>5, <1>6

-----------------------------------------------------------------------------
\* The walk of freemem divides the list at the freed address.
LEMMA Walked ==
  ASSUME IsList(list), NEW block \in Nat
  PROVE  /\ Walk(block) \in 0 .. Len(list)
         /\ \A i \in 1 .. Len(list) : i <= Walk(block) <=> list[i].addr < block
<1>1. /\ DOMAIN list = 1 .. Len(list) /\ Len(list) \in Nat
      /\ \A i \in 1 .. Len(list) :
           list[i].addr \in Nat /\ list[i].addr < End(list[i]) /\ End(list[i]) \in Nat
  BY ListFacts
<1>2. \A i, j \in 1 .. Len(list) : i < j => list[i].addr < list[j].addr
  <2>1. \A i, j \in 1 .. Len(list) : i < j => End(list[i]) < list[j].addr
    BY ListFacts
  <2> QED BY <1>1, <2>1
<1> DEFINE stop == {i \in 1 .. Len(list) : list[i].addr >= block}
<1>3. Walk(block) = IF stop = {} THEN Len(list) ELSE Min(stop) - 1
  BY <1>1 DEF Walk
<1>4. CASE stop = {}
  <2>1. Walk(block) = Len(list) /\ Len(list) \in 0 .. Len(list)
    BY <1>1, <1>3, <1>4
  <2>2. ASSUME NEW i \in 1 .. Len(list)
        PROVE  i <= Len(list) /\ list[i].addr < block
    <3>1. i \notin stop /\ list[i].addr \in Nat
      BY <1>1, <1>4
    <3> QED BY <1>1, <3>1
  <2> HIDE DEF stop
  <2> QED BY <2>1, <2>2
<1>5. CASE stop # {}
  <2>0. stop \subseteq 1 .. Len(list) /\ stop \subseteq Nat
    BY <1>1
  <2>1. Min(stop) \in stop /\ \A y \in stop : Min(stop) <= y
    <3> HIDE DEF stop
    <3> QED BY <1>5, <2>0, MinIsFirst
  <2>2. ASSUME NEW i \in 1 .. Len(list), Min(stop) <= i
        PROVE  list[i].addr >= block
    <3>1. i = Min(stop) \/ list[Min(stop)].addr < list[i].addr
      BY <1>1, <1>2, <2>1, <2>2
    <3> QED BY <1>1, <2>1, <3>1
  <2> DEFINE m == Min(stop)
  <2>3. m \in 1 .. Len(list) /\ \A i \in 1 .. Len(list) : i < m => list[i].addr < block
    <3>1. m \in stop
      BY <2>1
    <3>2. ASSUME NEW i \in 1 .. Len(list), i < m
          PROVE  list[i].addr < block
      <4>1. i \notin stop
        BY <1>1, <2>0, <2>1, <3>2
      <4> QED BY <1>1, <4>1
    <3> QED BY <2>0, <3>1, <3>2
  <2>4. Walk(block) = m - 1
    BY <1>3, <1>5
  <2>5. \A i \in 1 .. Len(list) : m <= i => list[i].addr >= block
    BY <2>2
  <2> HIDE DEF m, stop
  <2> QED BY <1>1, <2>3, <2>4, <2>5
<1> QED BY <1>4, <1>5

\* The overlap test of freemem finds every free byte in the freed range.
LEMMA OverlapExact ==
  ASSUME IsList(list), NEW block \in Nat, NEW n \in Nat \ {0}
  PROVE  Overlaps(block, n, Walk(block)) <=> (block .. (block + n - 1)) \cap Free # {}
<1> DEFINE k == Walk(block)
<1>1. /\ list \in Seq(Block) /\ Len(list) \in Nat
      /\ \A i \in 1 .. Len(list) :
           list[i].addr \in Nat /\ list[i].len \in Nat \ {0} /\ End(list[i]) \in Nat
      /\ \A i, j \in 1 .. Len(list) : i < j => End(list[i]) < list[j].addr
  BY ListFacts
<1>2. k \in 0 .. Len(list) /\ \A i \in 1 .. Len(list) : i <= k <=> list[i].addr < block
  BY Walked
<1> HIDE DEF k
<1>3. \A x \in Nat : x \in Free <=> \E i \in 1 .. Len(list) : list[i].addr <= x /\ x < End(list[i])
  BY <1>1, FreeInIff, FreeIsIn
<1>4. k # 0 => Top(k) = End(list[k])
  BY DEF Top, End
<1>5. ASSUME k # 0, block < Top(k)
      PROVE  block \in Free
  <2>1. k \in 1 .. Len(list) /\ list[k].addr < block /\ block < End(list[k])
    BY <1>1, <1>2, <1>4, <1>5
  <2>2. list[k].addr <= block
    BY <1>1, <2>1
  <2> QED BY <1>3, <2>1, <2>2
<1>6. ASSUME k < Len(list), block + n > list[k + 1].addr
      PROVE  list[k + 1].addr \in Free /\ list[k + 1].addr \in block .. (block + n - 1)
  <2>1. k + 1 \in 1 .. Len(list) /\ ~ (list[k + 1].addr < block)
    BY <1>1, <1>2, <1>6
  <2>2. list[k + 1].addr \in Nat /\ list[k + 1].addr < End(list[k + 1])
    BY <1>1, <2>1 DEF End
  <2> QED BY <1>3, <1>6, <2>1, <2>2
<1>7. ASSUME NEW x \in block .. (block + n - 1), x \in Free
      PROVE  Overlaps(block, n, k)
  <2>1. PICK i \in 1 .. Len(list) : list[i].addr <= x /\ x < End(list[i])
    BY <1>3, <1>7
  <2>2. CASE i <= k
    <3>1. i = k \/ End(list[i]) < list[k].addr
      BY <1>1, <1>2, <2>2
    <3>2. list[k].addr < End(list[k])
      BY <1>1, <1>2, <2>2 DEF End
    <3>3. x < Top(k)
      BY <1>1, <1>2, <1>4, <2>1, <2>2, <3>1, <3>2
    <3> QED BY <1>1, <1>2, <1>4, <2>2, <3>3 DEF Overlaps
  <2>3. CASE i > k
    <3>1. i = k + 1 \/ End(list[k + 1]) < list[i].addr
      BY <1>1, <1>2, <2>3
    <3>2. k + 1 \in 1 .. Len(list) /\ list[k + 1].addr < End(list[k + 1])
      <4>1. k + 1 \in 1 .. Len(list)
        BY <1>1, <1>2, <2>3
      <4>2. list[k + 1].addr \in Nat /\ list[k + 1].len \in Nat \ {0}
        BY <1>1, <4>1
      <4> QED BY <4>1, <4>2 DEF End
    <3>3. list[k + 1].addr <= x
      <4>1. /\ list[k + 1].addr \in Nat /\ End(list[k + 1]) \in Nat /\ list[i].addr \in Nat
            /\ x \in Nat
        BY <1>1, <3>2
      <4> QED BY <2>1, <3>1, <3>2, <4>1
    <3> QED BY <1>1, <1>2, <3>2, <3>3 DEF Overlaps
  <2> QED BY <1>2, <2>2, <2>3
<1>8. block \in block .. (block + n - 1)
  OBVIOUS
<1> QED BY <1>5, <1>6, <1>7, <1>8 DEF Overlaps, k

\* Returning a range that is not free extends a block or links a new one; only
\* the pair at the place of the insertion may touch then.
LEMMA JoinedPrev ==
  ASSUME IsList(list), NEW block \in Nat, NEW n \in Nat \ {0}, block % MB = 0, n % MB = 0,
         MinAddr <= block, block + n <= EndAddr,
         ~ Overlaps(block, n, Walk(block)),
         NEW j, j = JoinPrev(block, n, Walk(block))
  PROVE  /\ j.pos \in 1 .. Len(j.seq) /\ ListBut(j.seq, j.pos)
         /\ FreeIn(j.seq) = Free \union (block .. (block + n - 1))
<1> DEFINE k == Walk(block)
           e == [addr |-> block, len |-> n]
           t == j.seq
           len == Len(list)
<1>1. /\ list \in Seq(Block) /\ len \in Nat /\ DOMAIN list = 1 .. len
      /\ \A i \in 1 .. len :
           /\ list[i] \in Block /\ InRegion(list[i])
           /\ list[i].addr \in Nat /\ list[i].len \in Nat \ {0} /\ End(list[i]) \in Nat
           /\ list[i].addr < End(list[i])
      /\ \A i, m \in 1 .. len : i < m => End(list[i]) < list[m].addr
  BY ListFacts
<1>2. k \in 0 .. len /\ \A i \in 1 .. len : i <= k <=> list[i].addr < block
  BY Walked
<1>3. /\ k # 0 => End(list[k]) <= block
      /\ k < len => block + n <= list[k + 1].addr
  <2>1. k # 0 => k \in 1 .. len /\ ~ (block < End(list[k]))
    BY <1>1, <1>2 DEF Overlaps, Top, End
  <2>2. k < len => k + 1 \in 1 .. len /\ ~ (block + n > list[k + 1].addr)
    BY <1>1, <1>2 DEF Overlaps
  <2> QED BY <1>1, <2>1, <2>2
<1>4. /\ \A i \in 1 .. k : End(list[i]) <= block /\ (i < k => End(list[i]) < block)
      /\ \A i \in (k + 1) .. len :
           block + n <= list[i].addr /\ (i > k + 1 => block + n < list[i].addr)
  <2>1. ASSUME NEW i \in 1 .. k
        PROVE  End(list[i]) <= block /\ (i < k => End(list[i]) < block)
    BY <1>1, <1>2, <1>3
  <2>2. ASSUME NEW i \in (k + 1) .. len
        PROVE  block + n <= list[i].addr /\ (i > k + 1 => block + n < list[i].addr)
    <3>1. k + 1 \in 1 .. len /\ i \in 1 .. len /\ block + n <= list[k + 1].addr
      BY <1>1, <1>2, <1>3
    <3>2. /\ list[k + 1].addr \in Nat /\ list[i].addr \in Nat /\ End(list[k + 1]) \in Nat
          /\ list[k + 1].addr < End(list[k + 1])
      BY <1>1, <3>1
    <3>3. i > k + 1 => End(list[k + 1]) < list[i].addr
      BY <1>1, <3>1
    <3>4. i = k + 1 \/ i > k + 1
      BY <1>2
    <3> QED BY <3>1, <3>2, <3>3, <3>4
  <2> QED BY <2>1, <2>2
<1>5. \A x \in Nat : x \in Free <=> \E i \in 1 .. len : list[i].addr <= x /\ x < End(list[i])
  BY <1>1, FreeInIff, FreeIsIn
<1>6. Free \subseteq Nat
  BY <1>1, FreeInIff, FreeIsIn
<1>7. e \in Block /\ e.addr = block /\ End(e) = block + n /\ InRegion(e)
  BY DEF Block, End, InRegion
<1> HIDE DEF k, e, len
<1>10. \A x : x \in block .. (block + n - 1) <=> x \in Nat /\ block <= x /\ x < block + n
  OBVIOUS
<1>8. CASE Top(k) = block
  <2>0. k \in 1 .. len /\ list[k].addr + list[k].len = block
    BY <1>2, <1>8, RegionTyping DEF Top
  <2> DEFINE c == [addr |-> list[k].addr, len |-> list[k].len + n]
  <2>1. t = [list EXCEPT ![k] = c] /\ j.pos = k
    <3> DEFINE d == [list[k] EXCEPT !.len = list[k].len + n]
    <3>1. d = c
      BY <1>1, <2>0 DEF Block
    <3>2. j = [seq |-> [list EXCEPT ![k] = d], pos |-> k]
      BY <1>8 DEF JoinPrev, k
    <3> HIDE DEF d, c
    <3> QED BY <3>1, <3>2
  <2>2. c \in Block /\ c.addr = list[k].addr /\ End(c) = block + n
    <3>1. list[k].addr \in Nat /\ list[k].len \in Nat \ {0}
      BY <1>1, <2>0
    <3> QED BY <2>0, <3>1 DEF Block, End
  <2>3. InRegion(c)
    BY <1>1, <2>0, <2>2, Multiples DEF InRegion
  <2> HIDE DEF c
  <2>4. /\ t \in Seq(Block) /\ Len(t) = len
        /\ \A i \in 1 .. len : t[i] = IF i = k THEN c ELSE list[i]
    BY <1>1, <2>0, <2>1, <2>2, ExceptSeq DEF len
  <2> HIDE DEF t
  <2>5. \A i \in 1 .. len : InRegion(t[i])
    BY <1>1, <2>3, <2>4
  <2>6. ASSUME NEW i \in 1 .. len, NEW m \in 1 .. len, i < m
        PROVE  IF i = k /\ m = k + 1 THEN End(t[i]) <= t[m].addr ELSE End(t[i]) < t[m].addr
    <3>1. CASE i = k
      <4>1. m \in (k + 1) .. len /\ t[m] = list[m] /\ t[i] = c /\ list[m].addr \in Nat
        <5>1. m \in (k + 1) .. len /\ m # k
          BY <1>1, <2>0, <2>6, <3>1
        <5> QED BY <1>1, <2>4, <3>1, <5>1
      <4>2. block + n <= list[m].addr /\ (m > k + 1 => block + n < list[m].addr)
        BY <1>4, <4>1
      <4> QED BY <2>2, <3>1, <4>1, <4>2
    <3>2. CASE i # k
      BY <1>1, <2>0, <2>2, <2>4, <2>6, <3>2
    <3> QED BY <3>1, <3>2
  <2>7. ListBut(t, j.pos)
    BY <2>1, <2>4, <2>5, <2>6 DEF ListBut, OrderedBut
  <2>8. ASSUME NEW x \in Nat
        PROVE  x \in FreeIn(t) <=> x \in Free \/ (block <= x /\ x < block + n)
    <3>1. x \in FreeIn(t) <=> \E i \in 1 .. len : t[i].addr <= x /\ x < End(t[i])
      BY <2>4, FreeInIff
    <3>2. t[k].addr <= x /\ x < End(t[k])
            <=> (list[k].addr <= x /\ x < End(list[k])) \/ (block <= x /\ x < block + n)
      BY <1>1, <2>0, <2>2, <2>4 DEF End
    <3>3. \A i \in 1 .. len : i # k => t[i] = list[i]
      BY <2>4
    <3> QED BY <1>5, <2>0, <3>1, <3>2, <3>3
  <2>9. FreeIn(t) \subseteq Nat
    BY <2>4, FreeInIff
  <2>10. j.pos \in 1 .. Len(t)
    BY <2>0, <2>1, <2>4
  <2> QED BY <1>6, <1>10, <2>7, <2>8, <2>9, <2>10 DEF t
<1>9. CASE Top(k) # block
  <2>0. k # 0 => End(list[k]) < block
    BY <1>1, <1>2, <1>4, <1>9 DEF Top, End
  <2>1. t = InsertAt(list, k + 1, e) /\ j.pos = k + 1
    BY <1>9 DEF JoinPrev, k, e
  <2>2. /\ t \in Seq(Block) /\ Len(t) = len + 1
        /\ \A i \in 1 .. (len + 1) :
             t[i] = IF i < k + 1 THEN list[i] ELSE IF i = k + 1 THEN e ELSE list[i - 1]
    <3>1. k + 1 \in 1 .. (Len(list) + 1)
      BY <1>1, <1>2 DEF len
    <3>2. list \in Seq(Block) /\ e \in Block
      BY <1>1, <1>7
    <3>3. (k + 1) - 1 = k /\ len = Len(list)
      BY <1>2 DEF len
    <3> HIDE DEF t
    <3> DEFINE p == k + 1
    <3>4. p \in 1 .. (Len(list) + 1) /\ t = InsertAt(list, p, e)
      BY <2>1, <3>1
    <3> HIDE DEF p
    <3>5. Inserted(list, p, e, t)
      BY <3>2, <3>4, InsertAtProperties
    <3>6. /\ t \in Seq(Block) /\ Len(t) = Len(list) + 1
          /\ \A i \in 1 .. (Len(list) + 1) :
               t[i] = IF i < p THEN list[i] ELSE IF i = p THEN e ELSE list[i - 1]
      BY <3>5 DEF Inserted
    <3> QED BY <3>3, <3>6 DEF p
  <2> HIDE DEF t
  <2>3. /\ \A i \in 1 .. k : t[i] = list[i] /\ i \in 1 .. len
        /\ t[k + 1] = e
        /\ \A i \in (k + 2) .. (len + 1) : t[i] = list[i - 1] /\ i - 1 \in (k + 1) .. len /\ i - 1 \in 1 .. len
    BY <1>1, <1>2, <2>2
  <2>4. \A i \in 1 .. (len + 1) : i \in 1 .. k \/ i = k + 1 \/ i \in (k + 2) .. (len + 1)
    BY <1>1, <1>2
  <2>5. \A i \in 1 .. (len + 1) : InRegion(t[i])
    BY <1>1, <1>7, <2>3, <2>4
  <2>6. ASSUME NEW i \in 1 .. (len + 1), NEW m \in 1 .. (len + 1), i < m
        PROVE  IF i = k + 1 /\ m = k + 2 THEN End(t[i]) <= t[m].addr ELSE End(t[i]) < t[m].addr
    <3>1. CASE i \in 1 .. k /\ m \in 1 .. k
      BY <1>1, <2>3, <2>6, <3>1
    <3>2. CASE i \in 1 .. k /\ m = k + 1
      <4>1. End(list[i]) < block
        BY <1>1, <1>2, <1>4, <2>0, <3>2
      <4> QED BY <1>2, <1>7, <2>3, <3>2, <4>1
    <3>3. CASE i \in 1 .. k /\ m \in (k + 2) .. (len + 1)
      <4>1. i < m - 1 /\ m - 1 \in 1 .. len /\ i \in 1 .. len
        BY <1>1, <1>2, <2>3, <3>3
      <4>2. End(list[i]) < list[m - 1].addr
        BY <1>1, <4>1
      <4> QED BY <1>2, <2>3, <3>3, <4>2
    <3>4. CASE i = k + 1 /\ m \in (k + 2) .. (len + 1)
      <4>1. /\ block + n <= list[m - 1].addr
            /\ m - 1 > k + 1 => block + n < list[m - 1].addr
        <5>1. m - 1 \in (k + 1) .. len
          BY <2>3, <3>4
        <5> QED BY <1>4, <5>1
      <4>2. t[m] = list[m - 1] /\ t[i] = e /\ list[m - 1].addr \in Nat
        BY <1>1, <2>3, <3>4
      <4>3. m - 1 > k + 1 \/ m = k + 2
        BY <1>2, <3>4
      <4> QED BY <1>2, <1>7, <3>4, <4>1, <4>2, <4>3
    <3>5. CASE i \in (k + 2) .. (len + 1) /\ m \in (k + 2) .. (len + 1)
      <4>1. End(list[i - 1]) < list[m - 1].addr
        <5>1. i - 1 \in 1 .. len /\ m - 1 \in 1 .. len /\ i - 1 < m - 1
          BY <1>2, <2>3, <2>6, <3>5
        <5> QED BY <1>1, <5>1
      <4>2. t[i] = list[i - 1] /\ t[m] = list[m - 1] /\ i # k + 1
        BY <1>2, <2>3, <3>5
      <4> QED BY <4>1, <4>2
    <3> QED BY <1>1, <1>2, <2>4, <2>6, <3>1, <3>2, <3>3, <3>4, <3>5
  <2>7. ListBut(t, j.pos)
    <3>1. j.pos = k + 1 /\ j.pos + 1 = k + 2
      BY <1>2, <2>1
    <3> QED BY <2>2, <2>5, <2>6, <3>1 DEF ListBut, OrderedBut
  <2>8. ASSUME NEW x \in Nat
        PROVE  x \in FreeIn(t) <=> x \in Free \/ (block <= x /\ x < block + n)
    <3>1. x \in FreeIn(t) <=> \E i \in 1 .. (len + 1) : t[i].addr <= x /\ x < End(t[i])
      BY <2>2, FreeInIff
    <3>2. ASSUME NEW i \in 1 .. (len + 1)
          PROVE  t[i] = e \/ \E m \in 1 .. len : t[i] = list[m]
      BY <2>3, <2>4
    <3>3. ASSUME NEW m \in 1 .. len
          PROVE  \E i \in 1 .. (len + 1) : t[i] = list[m]
      <4>1. CASE m <= k
        BY <1>1, <1>2, <2>3, <4>1
      <4>2. CASE m > k
        <5>1. m + 1 \in (k + 2) .. (len + 1) /\ (m + 1) - 1 = m /\ m + 1 \in 1 .. (len + 1)
          BY <1>1, <1>2, <4>2
        <5> QED BY <2>3, <5>1
      <4> QED BY <1>2, <4>1, <4>2
    <3>4. k + 1 \in 1 .. (len + 1) /\ t[k + 1] = e
      BY <1>1, <1>2, <2>3
    <3> QED BY <1>5, <1>7, <3>1, <3>2, <3>3, <3>4
  <2>9. FreeIn(t) \subseteq Nat
    BY <2>2, FreeInIff
  <2>10. j.pos \in 1 .. Len(t)
    BY <1>1, <1>2, <2>1, <2>2
  <2> QED BY <1>6, <1>10, <2>7, <2>8, <2>9, <2>10 DEF t
<1> QED BY <1>8, <1>9

\* Swallowing the next block where the two touch leaves a coalesced list of the
\* same bytes.
LEMMA JoinedNext ==
  ASSUME NEW s, NEW p \in 1 .. Len(s), ListBut(s, p)
  PROVE  IsList(JoinNext(s, p)) /\ FreeIn(JoinNext(s, p)) = FreeIn(s)
<1> DEFINE len == Len(s)
<1>0. p \in Nat /\ p # 0
  OBVIOUS
<1>1. /\ s \in Seq(Block) /\ len \in Nat /\ DOMAIN s = 1 .. len
      /\ \A i \in 1 .. len :
           /\ s[i] \in Block /\ InRegion(s[i])
           /\ s[i].addr \in Nat /\ s[i].len \in Nat \ {0} /\ End(s[i]) \in Nat
           /\ s[i].addr < End(s[i])
      /\ \A i, m \in 1 .. len : i < m =>
           IF i = p /\ m = p + 1 THEN End(s[i]) <= s[m].addr ELSE End(s[i]) < s[m].addr
  <2>1. /\ s \in Seq(Block) /\ len \in Nat /\ DOMAIN s = 1 .. len
        /\ \A i \in 1 .. len :
             s[i] \in Block /\ s[i].addr \in Nat /\ s[i].len \in Nat \ {0} /\ End(s[i]) \in Nat
    BY <1>0, ListTyping
  <2>2. \A i \in 1 .. len : s[i].addr < End(s[i])
    BY <2>1 DEF End
  <2>3. /\ \A i \in 1 .. len : InRegion(s[i])
        /\ OrderedBut(s, p)
    BY DEF ListBut
  <2> QED BY <2>1, <2>2, <2>3 DEF OrderedBut
<1>2. CASE p < len /\ End(s[p]) = s[p + 1].addr
  <2> DEFINE c == [addr |-> s[p].addr, len |-> s[p].len + s[p + 1].len]
             r == [s EXCEPT ![p] = c]
             t == RemoveAt(r, p + 1)
  <2>1. p + 1 \in 1 .. len /\ JoinNext(s, p) = t
    <3> DEFINE d == [s[p] EXCEPT !.len = s[p].len + s[p + 1].len]
    <3>1. d = c
      BY <1>1 DEF Block
    <3>2. JoinNext(s, p) = RemoveAt([s EXCEPT ![p] = d], p + 1)
      BY <1>2 DEF JoinNext, End
    <3>3. p + 1 \in 1 .. len
      BY <1>0, <1>1, <1>2
    <3> HIDE DEF d, c
    <3> QED BY <3>1, <3>2, <3>3
  <2>2. c \in Block /\ c.addr = s[p].addr /\ End(c) = End(s[p + 1])
    <3>1. /\ s[p].addr \in Nat /\ s[p].len \in Nat \ {0} /\ s[p + 1].addr \in Nat
          /\ s[p + 1].len \in Nat \ {0}
      BY <1>1, <2>1
    <3>2. s[p].addr + s[p].len = s[p + 1].addr
      BY <1>2 DEF End
    <3>3. /\ c.addr = s[p].addr /\ c.len = s[p].len + s[p + 1].len
          /\ c = [addr |-> c.addr, len |-> c.len]
      OBVIOUS
    <3> HIDE DEF c
    <3>4. c.addr \in Nat /\ c.len \in Nat \ {0}
      BY <3>1, <3>3
    <3>5. c \in Block
      BY <3>3, <3>4 DEF Block
    <3>6. c.addr + c.len = s[p + 1].addr + s[p + 1].len
      BY <3>1, <3>2, <3>3
    <3> QED BY <3>3, <3>5, <3>6 DEF End
  <2>3. InRegion(c)
    BY <1>1, <2>1, <2>2, Multiples DEF InRegion
  <2> HIDE DEF c
  <2>4. /\ r \in Seq(Block) /\ Len(r) = len
        /\ \A i \in 1 .. len : r[i] = IF i = p THEN c ELSE s[i]
    BY <1>1, <2>2, ExceptSeq
  <2> HIDE DEF r
  <2>5. /\ t \in Seq(Block) /\ Len(t) = len - 1
        /\ \A i \in 1 .. (len - 1) : t[i] = IF i < p + 1 THEN r[i] ELSE r[i + 1]
    <3> DEFINE m == p + 1
    <3>1. r \in Seq(Block) /\ m \in 1 .. Len(r) /\ Len(r) = len /\ t = RemoveAt(r, m)
      BY <2>1, <2>4
    <3> HIDE DEF m, t
    <3>2. Removed(r, m, t)
      BY <3>1, RemoveAtProperties
    <3> QED BY <3>1, <3>2 DEF Removed, m
  <2> HIDE DEF t
  <2>6. \A i \in 1 .. (len - 1) : t[i] = IF i < p THEN s[i] ELSE IF i = p THEN c ELSE s[i + 1]
    <3> SUFFICES ASSUME NEW i \in 1 .. (len - 1)
                 PROVE  t[i] = IF i < p THEN s[i] ELSE IF i = p THEN c ELSE s[i + 1]
      OBVIOUS
    <3>1. i \in 1 .. len /\ i + 1 \in 1 .. len /\ i \in Int /\ p \in Int
      BY <1>1
    <3>2. r[i] = IF i = p THEN c ELSE s[i]
      BY <2>4, <3>1
    <3>3. r[i + 1] = IF i + 1 = p THEN c ELSE s[i + 1]
      BY <2>4, <3>1
    <3>4. t[i] = IF i < p + 1 THEN r[i] ELSE r[i + 1]
      BY <2>5
    <3>5. i < p + 1 <=> i < p \/ i = p
      BY <3>1
    <3>6. i < p => i # p /\ i + 1 \in Int
      BY <3>1
    <3>7. ~ (i < p + 1) => i + 1 # p
      BY <3>1
    <3> QED BY <3>2, <3>3, <3>4, <3>5, <3>6, <3>7
  <2>7. ASSUME NEW i \in 1 .. (len - 1)
        PROVE  InRegion(t[i])
    <3>1. i \in 1 .. len /\ i + 1 \in 1 .. len
      BY <1>1
    <3> QED BY <1>1, <2>3, <2>6, <3>1
  <2>8. ASSUME NEW i \in 1 .. (len - 1), NEW m \in 1 .. (len - 1), i < m
        PROVE  End(t[i]) < t[m].addr
    <3>1. CASE i < p /\ m <= p
      <4>1. i \in 1 .. len /\ m \in 1 .. len /\ t[i] = s[i]
        BY <1>1, <2>6, <3>1
      <4>2. End(s[i]) < s[m].addr
        BY <1>1, <2>8, <3>1, <4>1
      <4> QED BY <2>2, <2>6, <3>1, <4>1, <4>2
    <3>2. CASE i < p /\ m > p
      <4>1. End(s[i]) < s[m + 1].addr
        BY <1>1, <2>8, <3>2
      <4> QED BY <2>6, <3>2, <4>1
    <3>3. CASE i = p
      <4>1. End(s[p + 1]) < s[m + 1].addr
        BY <1>1, <2>1, <2>8, <3>3
      <4> QED BY <2>2, <2>6, <2>8, <3>3, <4>1
    <3>4. CASE i > p
      <4>1. End(s[i + 1]) < s[m + 1].addr
        <5>1. i + 1 \in 1 .. len /\ m + 1 \in 1 .. len /\ i + 1 < m + 1 /\ i + 1 # p
          BY <1>1, <2>8, <3>4
        <5> QED BY <1>1, <5>1
      <4> QED BY <2>6, <2>8, <3>4, <4>1
    <3> QED BY <1>1, <2>8, <3>1, <3>2, <3>3, <3>4
  <2>9. IsList(t)
    <3>1. OrderedBut(t, 0)
      <4> SUFFICES ASSUME NEW i \in 1 .. (len - 1), NEW m \in 1 .. (len - 1), i < m
                   PROVE  End(t[i]) < t[m].addr
        BY <1>1, <2>5 DEF OrderedBut
      <4> QED BY <2>8
    <3>2. \A i \in 1 .. Len(t) : InRegion(t[i])
      BY <2>5, <2>7
    <3> QED BY <2>5, <3>1, <3>2 DEF IsList, ListBut
  <2>10. ASSUME NEW x \in Nat
         PROVE  x \in FreeIn(t) <=> x \in FreeIn(s)
    <3>1. x \in FreeIn(t) <=> \E i \in 1 .. (len - 1) : t[i].addr <= x /\ x < End(t[i])
      BY <2>5, FreeInIff
    <3>2. x \in FreeIn(s) <=> \E i \in 1 .. len : s[i].addr <= x /\ x < End(s[i])
      BY <1>1, FreeInIff
    <3>3. c.addr <= x /\ x < End(c)
            <=> \/ s[p].addr <= x /\ x < End(s[p])
                \/ s[p + 1].addr <= x /\ x < End(s[p + 1])
      BY <1>1, <1>2, <2>1, <2>2
    <3>4. p \in 1 .. (len - 1) /\ t[p] = c
      BY <1>1, <1>2, <2>6
    <3>5. ASSUME NEW i \in 1 .. (len - 1), i # p
          PROVE  \E m \in 1 .. len : t[i] = s[m]
      BY <1>1, <2>6, <3>5
    <3>6. ASSUME NEW m \in 1 .. len, m # p, m # p + 1
          PROVE  \E i \in 1 .. (len - 1) : t[i] = s[m]
      <4>1. CASE m < p
        BY <1>1, <2>6, <3>6, <4>1
      <4>2. CASE m > p
        <5>1. m - 1 \in 1 .. (len - 1) /\ ~ (m - 1 < p) /\ m - 1 # p /\ (m - 1) + 1 = m
          BY <1>1, <3>6, <4>2
        <5>2. t[m - 1] = s[(m - 1) + 1]
          BY <2>6, <5>1
        <5>3. t[m - 1] = s[m]
          BY <5>1, <5>2
        <5> QED BY <5>1, <5>3
      <4> QED BY <1>1, <3>6, <4>1, <4>2
    <3>7. ASSUME x \in FreeIn(t)
          PROVE  x \in FreeIn(s)
      <4>1. PICK i \in 1 .. (len - 1) : t[i].addr <= x /\ x < End(t[i])
        BY <3>1, <3>7
      <4>2. CASE i = p
        BY <2>1, <3>2, <3>3, <3>4, <4>1, <4>2
      <4>3. CASE i # p
        BY <3>2, <3>5, <4>1, <4>3
      <4> QED BY <4>2, <4>3
    <3>8. ASSUME x \in FreeIn(s)
          PROVE  x \in FreeIn(t)
      <4>1. PICK m \in 1 .. len : s[m].addr <= x /\ x < End(s[m])
        BY <3>2, <3>8
      <4>2. CASE m = p \/ m = p + 1
        BY <3>1, <3>3, <3>4, <4>1, <4>2
      <4>3. CASE m # p /\ m # p + 1
        BY <3>1, <3>6, <4>1, <4>3
      <4> QED BY <4>2, <4>3
    <3> QED BY <3>7, <3>8
  <2>11. FreeIn(t) \subseteq Nat /\ FreeIn(s) \subseteq Nat
    BY <1>1, <2>5, FreeInIff
  <2> QED BY <2>1, <2>9, <2>10, <2>11
<1>3. CASE ~ (p < len /\ End(s[p]) = s[p + 1].addr)
  <2>1. JoinNext(s, p) = s
    BY <1>3 DEF JoinNext, End
  <2>2. ASSUME NEW i \in 1 .. len, NEW m \in 1 .. len, i < m
        PROVE  End(s[i]) < s[m].addr
    BY <1>1, <1>3, <2>2
  <2>3. IsList(s)
    BY <1>1, <2>2 DEF IsList, ListBut, OrderedBut
  <2> QED BY <2>1, <2>3
<1> QED BY <1>2, <1>3

-----------------------------------------------------------------------------
\* The bytes of a block that a client holds.
LEMMA HeldFacts ==
  ASSUME IInv, NEW b \in held
  PROVE  /\ b.addr \in MinAddr .. MaxAddr /\ b.addr \in Nat /\ b.addr % MB = 0
         /\ b.nbytes \in Requests /\ b.nbytes \in Nat \ {0}
         /\ roundmb(b.nbytes) \in Nat \ {0} /\ roundmb(b.nbytes) % MB = 0
         /\ Held(b) = b.addr .. (b.addr + roundmb(b.nbytes) - 1)
         /\ b.addr \in Held(b) /\ Held(b) \cap Free = {} /\ Held(b) \subseteq MinAddr .. MaxAddr
<1>1. b \in [addr : MinAddr .. MaxAddr, nbytes : Requests] /\ b.addr % MB = 0
  BY DEF IInv
<1>2. b.addr \in MinAddr .. MaxAddr /\ b.addr \in Nat /\ b.nbytes \in Requests /\ b.nbytes \in Nat \ {0}
  BY <1>1, RegionTyping DEF Requests
<1>3. roundmb(b.nbytes) \in Nat \ {0} /\ roundmb(b.nbytes) % MB = 0
  BY <1>2, RoundMb
<1>4. Held(b) = b.addr .. (b.addr + roundmb(b.nbytes) - 1)
  BY DEF Held
<1>5. b.addr \in Held(b)
  BY <1>2, <1>3, <1>4
<1>6. Held(b) \cap Free = {} /\ Held(b) \subseteq MinAddr .. MaxAddr
  BY DEF IInv, Conserved
<1> QED BY <1>1, <1>2, <1>3, <1>4, <1>5, <1>6

\* What the blocks of a set cover.
HeldBy(S) == UNION {Held(c) : c \in S}

LEMMA HeldByIff ==
  ASSUME NEW S
  PROVE  \A x : x \in HeldBy(S) <=> \E c \in S : x \in Held(c)
BY DEF HeldBy

LEMMA InitInv == Init => IInv
<1> SUFFICES ASSUME Init PROVE IInv
  OBVIOUS
<1> DEFINE b == [addr |-> MinAddr, len |-> Size]
<1>1. /\ list = <<b>> /\ list \in Seq(Block) /\ Len(list) = 1 /\ list[1] = b
      /\ held = {} /\ ret = <<"get", SYSERR>>
  BY RegionTyping DEF Init, Block
<1>2. b.addr = MinAddr /\ b.len = Size
  OBVIOUS
<1> HIDE DEF b
<1>3. InRegion(b)
  BY <1>2, FreeListAssumption DEF InRegion, End, EndAddr
<1>4. IsList(list)
  BY <1>1, <1>3 DEF IsList, ListBut, OrderedBut
<1>5. Free = MinAddr .. MaxAddr
  <2>1. \A x \in Nat : x \in Free <=> MinAddr <= x /\ x < EndAddr
    BY <1>1, <1>2, FreeInIff, FreeIsIn DEF End, EndAddr
  <2>2. Free \subseteq Nat
    BY <1>1, FreeInIff, FreeIsIn
  <2>3. \A x : x \in MinAddr .. MaxAddr <=> x \in Nat /\ MinAddr <= x /\ x < EndAddr
    BY RegionTyping
  <2> QED BY <2>1, <2>2, <2>3
<1>6. Conserved
  BY <1>1, <1>5 DEF Conserved
<1> QED BY <1>1, <1>4, <1>6 DEF IInv

\* A run of free bytes goes to a client.
LEMMA Allocated ==
  ASSUME IInv, NEW n \in 0 .. MaxBytes, n # 0,
         NEW a \in Nat, a % MB = 0,
         NEW run, run = a .. (a + roundmb(n) - 1), run \subseteq Free,
         IsList(list'), Free' = Free \ run,
         held' = held \union {[addr |-> a, nbytes |-> n]},
         ret' = <<"get", a>>
  PROVE  IInv' /\ Pool!Alloc(roundmb(n))
<1> DEFINE b == [addr |-> a, nbytes |-> n]
<1>1. /\ n \in Requests /\ n \in Nat /\ roundmb(n) \in Nat /\ roundmb(n) > 0
      /\ b.addr = a /\ b.nbytes = n
  BY RegionTyping, RoundMb DEF Requests
<1>2. a \in run /\ run \subseteq MinAddr .. MaxAddr /\ Free \subseteq MinAddr .. MaxAddr
  BY <1>1 DEF IInv, Conserved
<1>3. Held(b) = run
  BY <1>1 DEF Held
<1>4. b \in [addr : MinAddr .. MaxAddr, nbytes : Requests]
  BY <1>1, <1>2
<1>5. IInv'
  <2>1. /\ held' \subseteq [addr : MinAddr .. MaxAddr, nbytes : Requests]
        /\ \A c \in held' : c.addr % MB = 0
    BY <1>1, <1>4 DEF IInv
  <2>2. ret' \in {"get", "free"} \X ({SYSERR} \union (MinAddr .. MaxAddr))
    BY <1>2
  <2>3. held' = held \union {b}
    OBVIOUS
  <2> HIDE DEF b
  <2>4. /\ \A c, d \in held : c # d => Held(c) \cap Held(d) = {}
        /\ \A c \in held : Held(c) \cap Free = {}
        /\ Free \union HeldBy(held) = MinAddr .. MaxAddr
    BY DEF IInv, Conserved, HeldBy
  <2>5. \A c, d \in held' : c # d => Held(c) \cap Held(d) = {}
    BY <1>3, <2>3, <2>4
  <2>6. \A c \in held' : Held(c) \cap Free' = {}
    BY <1>3, <2>3, <2>4
  <2>7. \A x : x \in HeldBy(held') <=> x \in HeldBy(held) \/ x \in run
    <3>1. \A x : (\E c \in held' : x \in Held(c)) <=> (\E c \in held : x \in Held(c)) \/ x \in run
      BY <1>3, <2>3
    <3>2. \A x : x \in HeldBy(held') <=> \E c \in held' : x \in Held(c)
      BY HeldByIff
    <3>3. \A x : x \in HeldBy(held) <=> \E c \in held : x \in Held(c)
      BY HeldByIff
    <3> QED BY <3>1, <3>2, <3>3
  <2>8. Conserved'
    <3>1. Free' \union HeldBy(held') = MinAddr .. MaxAddr
      BY <2>4, <2>7
    <3> QED BY <2>5, <2>6, <3>1 DEF Conserved, HeldBy
  <2> QED BY <2>1, <2>2, <2>8 DEF IInv
<1>6. Pool!Alloc(roundmb(n))
  <2>1. {<<c.addr, roundmb(c.nbytes)>> : c \in held'}
          = {<<c.addr, roundmb(c.nbytes)>> : c \in held} \union {<<a, roundmb(n)>>}
    BY <1>1
  <2>2. Pool!Run(a, roundmb(n)) = run
    BY DEF Pool!Run
  <2> QED BY <1>1, <1>2, <2>1, <2>2 DEF Pool!Alloc
<1> QED BY <1>5, <1>6

\* A failed call changes nothing.
LEMMA Unchanged ==
  ASSUME IInv, UNCHANGED <<list, held>>,
         ret' \in {"get", "free"} \X ({SYSERR} \union (MinAddr .. MaxAddr))
  PROVE  IInv' /\ UNCHANGED Free
<1>1. list' = list /\ held' = held
  OBVIOUS
<1>2. Free' = Free
  BY <1>1 DEF Free
<1>3. Conserved'
  BY <1>1, <1>2 DEF IInv, Conserved
<1> QED BY <1>1, <1>2, <1>3 DEF IInv

\* When no block is large enough there is no free run of that length.
LEMMA NoFitNoRun ==
  ASSUME IInv, NEW n \in Nat \ {0}, Fits(n) = {}, NEW a \in Free
  PROVE  ~ (Pool!Run(a, n) \subseteq Free)
<1>1. /\ list \in Seq(Block) /\ Len(list) \in Nat /\ DOMAIN list = 1 .. Len(list)
      /\ \A i \in 1 .. Len(list) :
           /\ list[i].addr \in Nat /\ list[i].len \in Nat \ {0} /\ End(list[i]) \in Nat
           /\ list[i].addr < End(list[i])
      /\ \A i, j \in 1 .. Len(list) : i < j => End(list[i]) < list[j].addr
  BY ListFacts DEF IInv
<1>2. /\ Free \subseteq Nat
      /\ \A x \in Nat : x \in Free <=> \E i \in 1 .. Len(list) : list[i].addr <= x /\ x < End(list[i])
  BY <1>1, FreeInIff, FreeIsIn
<1>3. PICK i \in 1 .. Len(list) : list[i].addr <= a /\ a < End(list[i])
  BY <1>2
<1>4. list[i].len < n
  <2>1. i \in DOMAIN list /\ list[i].len \in Nat /\ i \notin Fits(n)
    BY <1>1
  <2> QED BY <2>1 DEF Fits
<1> DEFINE x == End(list[i])
<1>5. x \in Nat /\ a \in Nat /\ x \in a .. (a + n - 1)
  BY <1>1, <1>2, <1>3, <1>4 DEF End
<1>6. x \notin Free
  <2> SUFFICES ASSUME NEW j \in 1 .. Len(list), list[j].addr <= x, x < End(list[j])
               PROVE  FALSE
    BY <1>2, <1>5
  <2>1. CASE j < i
    <3>1. End(list[j]) < list[i].addr /\ list[i].addr < End(list[i])
      BY <1>1, <2>1
    <3>2. End(list[j]) \in Nat /\ list[i].addr \in Nat /\ End(list[i]) \in Nat
      BY <1>1
    <3> QED BY <3>1, <3>2
  <2>2. CASE j = i
    BY <1>1, <2>2
  <2>3. CASE i < j
    BY <1>1, <2>3
  <2> QED BY <2>1, <2>2, <2>3
<1> QED BY <1>5, <1>6 DEF Pool!Run

\* The unchanged pool.
LEMMA PoolUnchanged ==
  ASSUME UNCHANGED <<list, held>>
  PROVE  Free' = Free /\ {<<b.addr, roundmb(b.nbytes)>> : b \in held}'
                           = {<<b.addr, roundmb(b.nbytes)>> : b \in held}
BY DEF Free

-----------------------------------------------------------------------------
LEMMA GetmemStep ==
  ASSUME IInv, NEW n \in 0 .. MaxBytes, getmem(n) \/ getstk(n)
  PROVE  IInv' /\ (Pool!Alloc(roundmb(n)) \/ Pool!Refuse(roundmb(n)))
<1> DEFINE m == roundmb(n)
<1>1. /\ n \in Nat /\ m \in Nat /\ m % MB = 0 /\ (n # 0 => m \in Nat \ {0}) /\ (n = 0 => m = 0)
  BY RegionTyping, RoundMb
<1>2. /\ IsList(list) /\ Len(list) \in Nat /\ DOMAIN list = 1 .. Len(list)
      /\ \A i \in 1 .. Len(list) :
           /\ InRegion(list[i]) /\ list[i].addr \in Nat /\ list[i].len \in Nat \ {0}
  BY ListFacts DEF IInv
<1>3. CASE /\ n = 0 \/ Fits(m) = {}
           /\ ret' = <<"get", SYSERR>> /\ UNCHANGED <<list, held>>
  <2>1. IInv'
    BY <1>3, Unchanged
  <2>2. m = 0 \/ \A a \in Free : ~ (Pool!Run(a, m) \subseteq Free)
    BY <1>1, <1>3, NoFitNoRun
  <2>3. Pool!Refuse(m)
    BY <1>3, <2>2, PoolUnchanged DEF Pool!Refuse
  <2> QED BY <2>1, <2>3
<1>4. CASE /\ n # 0 /\ Fits(m) # {}
           /\ list' = TakeLow(Min(Fits(m)), m)
           /\ ret' = <<"get", list[Min(Fits(m))].addr>>
           /\ held' = held \union {[addr |-> list[Min(Fits(m))].addr, nbytes |-> n]}
  <2> DEFINE i == Min(Fits(m))
             a == list[i].addr
             run == a .. (a + m - 1)
  <2>1. i \in Fits(m)
    <3>1. Fits(m) \subseteq Nat
      BY <1>2 DEF Fits
    <3> QED BY <1>4, <3>1, MinIsFirst
  <2>2. i \in 1 .. Len(list) /\ m <= list[i].len /\ a \in Nat /\ a % MB = 0
    BY <1>1, <1>2, <2>1 DEF Fits, InRegion
  <2>3. list' = TakeLow(i, m) /\ ret' = <<"get", a>>
        /\ held' = held \union {[addr |-> a, nbytes |-> n]}
    BY <1>4
  <2> HIDE DEF i
  <2>4. /\ IsList(TakeLow(i, m)) /\ FreeIn(TakeLow(i, m)) = Free \ run
        /\ run \subseteq Bytes(list[i])
    BY <1>1, <1>2, <1>4, <2>2, TakenLow
  <2>5. Bytes(list[i]) \subseteq Free
    BY <1>2, <2>2 DEF Free
  <2>6. Free' = FreeIn(list')
    BY DEF Free, FreeIn
  <2>7. IsList(list') /\ Free' = Free \ run /\ run \subseteq Free
    BY <2>3, <2>4, <2>5, <2>6
  <2> HIDE DEF a
  <2> QED BY <1>4, <2>2, <2>3, <2>7, Allocated
<1>5. CASE /\ n # 0 /\ Fits(m) # {}
           /\ list' = TakeHigh(Max(Fits(m)), m)
           /\ ret' = <<"get", list[Max(Fits(m))].addr + list[Max(Fits(m))].len - m>>
           /\ held' = held \union
                {[addr |-> list[Max(Fits(m))].addr + list[Max(Fits(m))].len - m, nbytes |-> n]}
  <2> DEFINE i == Max(Fits(m))
             a == list[i].addr + list[i].len - m
             run == a .. (a + m - 1)
  <2>1. i \in Fits(m)
    <3>1. Fits(m) \subseteq 0 .. Len(list)
      BY <1>2 DEF Fits
    <3> QED BY <1>2, <1>4, <1>5, <3>1, MaxIsLast
  <2>2. i \in 1 .. Len(list) /\ m <= list[i].len
    BY <1>1, <1>2, <2>1 DEF Fits
  <2>3. list' = TakeHigh(i, m) /\ ret' = <<"get", a>>
        /\ held' = held \union {[addr |-> a, nbytes |-> n]}
    BY <1>5
  <2> HIDE DEF i
  <2>4. a \in Nat /\ a = list[i].addr + list[i].len - m
    BY <1>1, <1>2, <2>2
  <2> HIDE DEF a
  <2>5. /\ IsList(TakeHigh(i, m)) /\ FreeIn(TakeHigh(i, m)) = Free \ run
        /\ run \subseteq Bytes(list[i]) /\ a % MB = 0
    BY <1>1, <1>2, <1>5, <2>2, <2>4, TakenHigh
  <2>6. Bytes(list[i]) \subseteq Free
    BY <1>2, <2>2 DEF Free
  <2>7. Free' = FreeIn(list')
    BY DEF Free, FreeIn
  <2>8. IsList(list') /\ Free' = Free \ run /\ run \subseteq Free
    BY <2>3, <2>5, <2>6, <2>7
  <2> QED BY <1>5, <2>3, <2>4, <2>5, <2>8, Allocated
<1> QED BY <1>3, <1>4, <1>5 DEF getmem, getstk

\* freemem accepts a range of the region exactly when none of it is free, and
\* then adds it to the free bytes.
LEMMA Freed ==
  ASSUME IsList(list), NEW block \in MinAddr .. MaxAddr, NEW n \in Nat \ {0},
         block % MB = 0, block + roundmb(n) <= EndAddr,
         freemem(block, n),
         (block .. (block + roundmb(n) - 1)) \cap Free = {}
  PROVE  /\ IsList(list') /\ Free' = Free \union (block .. (block + roundmb(n) - 1))
         /\ ret' = <<"free", block>>
<1> DEFINE m == roundmb(n)
           j == JoinPrev(block, m, Walk(block))
<1>1. /\ m \in Nat \ {0} /\ m % MB = 0 /\ block \in Nat /\ MinAddr <= block /\ block <= MaxAddr
      /\ n # 0 /\ MinAddr \in Nat /\ MaxAddr \in Nat
  BY RoundMb, RegionTyping
<1>2. ~ Overlaps(block, m, Walk(block))
  BY <1>1, OverlapExact
<1>3. ~ Rejected(block, n)
  BY <1>1, <1>2 DEF Rejected
<1>4. list' = JoinNext(j.seq, j.pos) /\ ret' = <<"free", block>>
  BY <1>3 DEF freemem
<1> HIDE DEF j, m
<1>5. /\ j.pos \in 1 .. Len(j.seq) /\ ListBut(j.seq, j.pos)
      /\ FreeIn(j.seq) = Free \union (block .. (block + m - 1))
  <2>1. j = JoinPrev(block, m, Walk(block)) /\ block + m <= EndAddr
    BY DEF j, m
  <2> QED BY <1>1, <1>2, <2>1, JoinedPrev
<1>6. IsList(list') /\ FreeIn(list') = FreeIn(j.seq)
  BY <1>4, <1>5, JoinedNext
<1>7. Free' = FreeIn(list')
  BY DEF Free, FreeIn
<1> QED BY <1>4, <1>5, <1>6, <1>7 DEF m

LEMMA ReleaseStep ==
  ASSUME IInv, NEW b \in held, Release(b)
  PROVE  IInv' /\ Pool!Release(<<b.addr, roundmb(b.nbytes)>>)
<1> DEFINE m == roundmb(b.nbytes)
<1>1. /\ b.addr \in MinAddr .. MaxAddr /\ b.addr \in Nat /\ b.addr % MB = 0
      /\ b.nbytes \in Nat \ {0} /\ m \in Nat \ {0}
      /\ Held(b) = b.addr .. (b.addr + m - 1)
      /\ b.addr \in Held(b) /\ Held(b) \cap Free = {} /\ Held(b) \subseteq MinAddr .. MaxAddr
  BY HeldFacts
<1>2. b.addr + m <= EndAddr
  <2>1. b.addr + m - 1 \in Held(b)
    BY <1>1
  <2>2. b.addr + m - 1 <= MaxAddr
    BY <1>1, <2>1
  <2> QED BY <1>1, <2>2, RegionTyping
<1>3. freemem(b.addr, b.nbytes) /\ held' = held \ {b}
  BY DEF Release
<1>4. IsList(list') /\ Free' = Free \union Held(b) /\ ret' = <<"free", b.addr>>
  BY <1>1, <1>2, <1>3, Freed DEF IInv
<1>5. /\ \A c, d \in held : c # d => Held(c) \cap Held(d) = {}
      /\ \A c \in held : Held(c) \cap Free = {}
      /\ Free \union HeldBy(held) = MinAddr .. MaxAddr
  BY DEF IInv, Conserved, HeldBy
<1>6. Conserved'
  <2>1. \A c, d \in held' : c # d => Held(c) \cap Held(d) = {}
    BY <1>3, <1>5
  <2>2. \A c \in held' : Held(c) \cap Free' = {}
    BY <1>3, <1>4, <1>5
  <2>3. \A x : x \in HeldBy(held) <=> x \in HeldBy(held') \/ x \in Held(b)
    <3>1. \A x : (\E c \in held : x \in Held(c)) <=> (\E c \in held' : x \in Held(c)) \/ x \in Held(b)
      BY <1>3
    <3>2. \A x : x \in HeldBy(held') <=> \E c \in held' : x \in Held(c)
      BY HeldByIff
    <3>3. \A x : x \in HeldBy(held) <=> \E c \in held : x \in Held(c)
      BY HeldByIff
    <3> QED BY <3>1, <3>2, <3>3
  <2>4. Free' \union HeldBy(held') = MinAddr .. MaxAddr
    BY <1>4, <1>5, <2>3
  <2> QED BY <2>1, <2>2, <2>4 DEF Conserved, HeldBy
<1>7. IInv'
  <2>1. /\ held' \subseteq [addr : MinAddr .. MaxAddr, nbytes : Requests]
        /\ \A c \in held' : c.addr % MB = 0
    BY <1>3 DEF IInv
  <2>2. ret' \in {"get", "free"} \X ({SYSERR} \union (MinAddr .. MaxAddr))
    BY <1>1, <1>4
  <2> QED BY <1>4, <1>6, <2>1, <2>2 DEF IInv
<1>8. Pool!Release(<<b.addr, roundmb(b.nbytes)>>)
  <2>1. ASSUME NEW c \in held, c # b
        PROVE  <<c.addr, roundmb(c.nbytes)>> # <<b.addr, roundmb(b.nbytes)>>
    <3>1. c.addr \in Held(c)
      BY HeldFacts
    <3>2. c.addr # b.addr
      BY <1>1, <1>5, <2>1, <3>1
    <3> QED BY <3>2
  <2>2. {<<c.addr, roundmb(c.nbytes)>> : c \in held'}
          = {<<c.addr, roundmb(c.nbytes)>> : c \in held} \ {<<b.addr, roundmb(b.nbytes)>>}
    BY <1>3, <2>1
  <2>3. Pool!Run(b.addr, m) = Held(b)
    BY <1>1 DEF Pool!Run
  <2> QED BY <1>4, <2>2, <2>3 DEF Pool!Release
<1> QED BY <1>7, <1>8

\* A double free, or a free outside the region, is rejected before anything is
\* changed.
LEMMA ReleaseTwiceStep ==
  ASSUME IInv, NEW a \in (MinAddr - MB) .. (MaxAddr + 1), NEW n \in Requests, ReleaseTwice(a, n)
  PROVE  IInv' /\ Pool!RejectRelease
<1>1. n \in Nat \ {0} /\ roundmb(n) \in Nat \ {0}
  BY RegionTyping, RoundMb DEF Requests
<1>2. Rejected(a, n)
  <2>1. CASE a \notin MinAddr .. MaxAddr
    BY <2>1, RegionTyping DEF Rejected
  <2>2. CASE a \in MinAddr .. MaxAddr /\ (a .. (a + roundmb(n) - 1)) \cap Free # {}
    <3>1. a \in Nat
      BY <2>2, RegionTyping
    <3>2. Overlaps(a, roundmb(n), Walk(a))
      BY <1>1, <2>2, <3>1, OverlapExact DEF IInv
    <3> QED BY <3>2 DEF Rejected
  <2> QED BY <2>1, <2>2 DEF ReleaseTwice
<1>3. ret' = <<"free", SYSERR>> /\ UNCHANGED <<list, held>>
  BY <1>2 DEF ReleaseTwice, freemem
<1>4. IInv'
  BY <1>3, Unchanged
<1>5. Pool!RejectRelease
  BY <1>3, PoolUnchanged DEF Pool!RejectRelease
<1> QED BY <1>4, <1>5

LEMMA NextStep == IInv /\ [Next]_vars => IInv' /\ [Pool!Next]_Pool!vars
<1> SUFFICES ASSUME IInv, [Next]_vars PROVE IInv' /\ [Pool!Next]_Pool!vars
  OBVIOUS
<1>1. ASSUME NEW n \in 0 .. MaxBytes, getmem(n) \/ getstk(n)
      PROVE  IInv' /\ Pool!Next
  <2>1. roundmb(n) \in {roundmb(k) : k \in 0 .. MaxBytes}
    OBVIOUS
  <2> QED BY <1>1, <2>1, GetmemStep DEF Pool!Next
<1>2. ASSUME NEW b \in held, Release(b)
      PROVE  IInv' /\ Pool!Next
  <2>1. <<b.addr, roundmb(b.nbytes)>> \in {<<c.addr, roundmb(c.nbytes)>> : c \in held}
    OBVIOUS
  <2> QED BY <1>2, <2>1, ReleaseStep DEF Pool!Next
<1>3. ASSUME NEW a \in (MinAddr - MB) .. (MaxAddr + 1), NEW n \in Requests, ReleaseTwice(a, n)
      PROVE  IInv' /\ Pool!Next
  BY <1>3, ReleaseTwiceStep DEF Pool!Next
<1>4. CASE UNCHANGED vars
  <2>1. UNCHANGED <<list, held>> /\ ret' = ret
    BY <1>4 DEF vars
  <2>2. IInv'
    BY <2>1, Unchanged DEF IInv
  <2>3. UNCHANGED Pool!vars
    BY <2>1, PoolUnchanged DEF Pool!vars
  <2> QED BY <2>2, <2>3
<1> QED BY <1>1, <1>2, <1>3, <1>4 DEF Next

-----------------------------------------------------------------------------
\* The list is in address order and coalesced, the bytes of the region are
\* partitioned into free and held ones, after any calls of getmem, getstk and
\* freemem, with every byte count.
THEOREM ListInductive == Spec => []IInv
<1>1. Init => IInv
  BY InitInv
<1>2. IInv /\ [Next]_vars => IInv'
  BY NextStep
<1> QED BY <1>1, <1>2, PTL DEF Spec

\* The blocks are well-formed, in order and apart, and no byte is lost or handed
\* out twice (the walk and the joins of freemem).
THEOREM ListSound == Spec => []FreeListSound
<1>1. IInv => FreeListSound
  <2> SUFFICES ASSUME IInv PROVE FreeListSound
    OBVIOUS
  <2>1. /\ list \in Seq(Block) /\ DOMAIN list = 1 .. Len(list) /\ Len(list) \in Nat
        /\ \A i \in 1 .. Len(list) :
             /\ list[i] \in Block /\ InRegion(list[i])
             /\ list[i].addr \in Nat /\ list[i].len \in Nat \ {0}
        /\ \A i, j \in 1 .. Len(list) : i < j => End(list[i]) < list[j].addr
    BY ListFacts DEF IInv
  <2>2. ASSUME NEW b \in Block, InRegion(b)
        PROVE  b \in [addr : MinAddr .. MaxAddr, len : 1 .. Size] /\ b.addr % MB = 0 /\ b.len % MB = 0
    <3>1. /\ b.addr \in Nat /\ b.len \in Nat \ {0}
          /\ MinAddr <= b.addr /\ b.addr + b.len <= MinAddr + Size
      BY <2>2 DEF Block, InRegion, End, EndAddr
    <3>2. b.addr \in MinAddr .. MaxAddr /\ b.len \in 1 .. Size
      BY <3>1, RegionTyping DEF EndAddr
    <3> QED BY <2>2, <3>2 DEF Block, InRegion
  <2>3. TypeOK
    BY <2>1, <2>2 DEF TypeOK, IInv
  <2>4. Coalesced
    <3> SUFFICES ASSUME NEW i \in DOMAIN list, i + 1 \in DOMAIN list
                 PROVE  list[i].addr + list[i].len < list[i + 1].addr
      BY DEF Coalesced
    <3> QED BY <2>1 DEF End
  <2> QED BY <2>3, <2>4 DEF FreeListSound, IInv
<1> QED BY <1>1, ListInductive, PTL

\* The allocator implements MemPool: an allocation fails only for want of a free
\* run, a held block is always taken back, a double free is refused (getmem.c,
\* getstk.c, freemem.c).
THEOREM PoolImplemented == Spec => PoolSpec
<1>1. Init => Pool!Init
  <2> SUFFICES ASSUME Init PROVE Pool!Init
    OBVIOUS
  <2>1. IInv
    BY InitInv
  <2>2. held = {} /\ ret = <<"get", SYSERR>>
    BY DEF Init
  <2>3. Free = MinAddr .. MaxAddr
    BY <2>1, <2>2 DEF IInv, Conserved
  <2> QED BY <2>2, <2>3 DEF Pool!Init
<1>2. IInv /\ [Next]_vars => [Pool!Next]_Pool!vars
  BY NextStep
<1> QED BY <1>1, <1>2, ListInductive, PTL DEF Spec, PoolSpec, Pool!Spec

=============================================================================
