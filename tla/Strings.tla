------------------------------ MODULE Strings -------------------------------
(***************************************************************************)
(* The library's functions on strings and blocks of memory.  The memory is *)
(* an array of bytes, pointers are indexes into it and 0 is the null       *)
(* pointer.  Characters are signed; memcmp compares unsigned bytes.        *)
(***************************************************************************)
EXTENDS Integers, Sequences, FiniteSets, FiniteSetsExt

CONSTANTS
  Bytes,       \* the bytes strings are made of, NUL not among them
  MaxLen,      \* of a string
  Fill         \* what the memory behind a string holds

VARIABLES
  mem,         \* the memory, with a string at S and another one at T
  before,      \* the memory when the function was called
  call,        \* the function called and its length argument
  ret          \* what it returned

vars == <<mem, before, call, ret>>

NUL == 0
S == 1
T == 2 * MaxLen + 3
Top == T + MaxLen

char(b) == IF b > 127 THEN b - 256 ELSE b

StringsOf == UNION {[1..n -> Bytes] : n \in 0..MaxLen}
Layout(s, t) ==
  [p \in 1..Top |->
     IF p - S < Len(s) THEN s[p - S + 1]
     ELSE IF p - S = Len(s) THEN NUL
     ELSE IF p < T THEN Fill
     ELSE IF p - T < Len(t) THEN t[p - T + 1] ELSE NUL]

Init ==
  /\ \E s, t \in StringsOf : mem = Layout(s, t)
  /\ before = mem
  /\ call = [f |-> "none", n |-> 0]
  /\ ret = 0

\* The loops: the first offset at which the loop stops.
First(Stop(_)) == CHOOSE k \in 0..Top : Stop(k) /\ \A x \in 0..(k - 1) : ~ Stop(x)

strlen(s) == First(LAMBDA k : mem[s + k] = NUL)
strnlen(s, n) == First(LAMBDA k : k = n \/ mem[s + k] = NUL)

strcmp(s, t) ==
  LET k == First(LAMBDA x : mem[s + x] # mem[t + x] \/ mem[s + x] = NUL)
  IN IF mem[s + k] = mem[t + k] THEN 0
     ELSE IF char(mem[s + k]) < char(mem[t + k]) THEN -1 ELSE 1

strncmpAll(s, t, n) ==
  LET k == First(LAMBDA x : x > n \/ mem[s + x] # mem[t + x] \/ mem[s + x] = NUL)
  IN IF k > n THEN 0 ELSE char(mem[s + k]) - char(mem[t + k])
strncmp(s, t, n) ==
  LET k == First(LAMBDA x : x >= n \/ mem[s + x] # mem[t + x] \/ mem[s + x] = NUL)
  IN IF k >= n THEN 0 ELSE char(mem[s + k]) - char(mem[t + k])

memcmp(s, t, n) ==
  LET k == First(LAMBDA x : x >= n \/ mem[s + x] # mem[t + x])
  IN IF k >= n THEN 0 ELSE mem[s + k] - mem[t + k]

strchr(s, c) ==
  LET k == First(LAMBDA x : mem[s + x] \in {c, NUL})
  IN IF mem[s + k] = c THEN s + k ELSE 0

strrchr(s, c) ==
  LET found == {k \in 0..strlen(s) : mem[s + k] = c}
  IN IF found = {} THEN 0 ELSE s + Max(found)

strstr(cs, ct) ==
  LET Matches(x) == \A y \in 0..(strlen(ct) - 1) : mem[cs + x + y] = mem[ct + y]
      found == {x \in 0..(strlen(cs) - 1) : mem[cs + x] = mem[ct] /\ Matches(x)}
  IN IF found = {} THEN 0 ELSE cs + Min(found)

\* The copies: the byte of the result at p, s..s+n-1 being written.
Written(s, n, Val(_)) == [p \in DOMAIN mem |-> IF s <= p /\ p < s + n THEN Val(p - s) ELSE mem[p]]

strcpy(s, t) == Written(s, strlen(t) + 1, LAMBDA k : mem[t + k])

strncpyNoPad(s, t, n) == Written(s, strnlen(t, n), LAMBDA k : mem[t + k])
strncpy(s, t, n) == Written(s, n, LAMBDA k : IF k < strlen(t) THEN mem[t + k] ELSE NUL)

strncat(s, t, n) ==
  LET k == strnlen(t, n)
  IN Written(s + strlen(s), k + 1, LAMBDA x : IF x < k THEN mem[t + x] ELSE NUL)

memcpy(s, t, n) == Written(s, n, LAMBDA k : mem[t + k])
memset(s, c, n) == Written(s, n, LAMBDA k : c)
bzero(s, n) == Written(s, n, LAMBDA k : NUL)

-----------------------------------------------------------------------------
Lengths == 0..(MaxLen + 1)

Called(f, n) ==
  /\ call.f = "none"
  /\ call' = [f |-> f, n |-> n]
  /\ UNCHANGED before

Returned(f, n, r) == Called(f, n) /\ ret' = r /\ UNCHANGED mem
Stored(f, n, m) == Called(f, n) /\ mem' = m /\ ret' = S

Next ==
  \/ Returned("strlen", 0, strlen(S))
  \/ Returned("strcmp", 0, strcmp(S, T))
  \/ Returned("strstr", 0, strstr(S, T))
  \/ Stored("strcpy", 0, strcpy(S, T))
  \/ \E c \in Bytes \union {NUL} : \/ Returned("strchr", c, strchr(S, c))
                                  \/ Returned("strrchr", c, strrchr(S, c))
  \/ \E n \in Lengths : \/ Returned("strnlen", n, strnlen(S, n))
                        \/ Returned("strncmp", n, strncmp(S, T, n))
                        \/ Returned("memcmp", n, memcmp(S, T, n))
                        \/ Stored("strncpy", n, strncpy(S, T, n))
                        \/ Stored("strncat", n, strncat(S, T, n))
                        \/ Stored("memcpy", n, memcpy(S, T, n))
                        \/ Stored("memset", n, memset(S, Fill, n))
                        \/ Stored("bzero", n, bzero(S, n))

-----------------------------------------------------------------------------
\* The string at p of memory m, as a sequence.
Str(m, p) == SubSeq(m, p, Min({q \in p..Top : m[q] = NUL}) - 1)
Take(s, n) == SubSeq(s, 1, Min({n, Len(s)}))
Changed == {p \in DOMAIN mem : mem[p] # before[p]}

\* The copying functions write what their comments say, and not a byte behind it:
\* strncpy exactly n bytes, strncat at most n characters and the NUL.
CopiesExactly ==
  LET s == Str(before, S)  t == Str(before, T)  n == call.n
      Within(k) == \A p \in Changed : S <= p /\ p < S + k
  IN CASE call.f = "strcpy" -> Str(mem, S) = t /\ Within(Len(t) + 1)
       [] call.f = "strncpy" ->
            /\ Within(n)
            /\ IF n > Len(t) THEN Str(mem, S) = t /\ \A p \in Len(t)..(n - 1) : mem[S + p] = NUL
               ELSE SubSeq(mem, S, S + n - 1) = Take(t, n)
       [] call.f = "strncat" -> Str(mem, S) = s \o Take(t, n) /\ Within(Len(s) + Min({n, Len(t)}) + 1)
       [] call.f = "memcpy" -> SubSeq(mem, S, S + n - 1) = SubSeq(before, T, T + n - 1) /\ Within(n)
       [] call.f = "memset" -> (\A p \in 0..(n - 1) : mem[S + p] = Fill) /\ Within(n)
       [] call.f = "bzero" -> (\A p \in 0..(n - 1) : mem[S + p] = NUL) /\ Within(n)
       [] OTHER -> Changed = {}

\* The order of two strings by their first difference, a string before its extensions.
Less(s, t) ==
  \E k \in 0..Min({Len(s), Len(t)}) :
    /\ Take(s, k) = Take(t, k)
    /\ \/ k = Len(s) /\ k < Len(t) /\ char(t[k + 1]) > 0
       \/ k = Len(t) /\ k < Len(s) /\ char(s[k + 1]) < 0
       \/ k < Len(s) /\ k < Len(t) /\ char(s[k + 1]) < char(t[k + 1])

\* strcmp and strncmp order strings the same way, strncmp by the first n characters
\* (NUL counting as 0 between the negative and the positive characters); the searches
\* find the first, or the last, occurrence, and a substring wherever it begins.
ComparesAndFinds ==
  LET s == Str(mem, S)  t == Str(mem, T)  n == call.n
      Ordered(x, y) == (ret = 0 <=> x = y) /\ (ret < 0 <=> Less(x, y)) /\ (ret > 0 <=> Less(y, x))
      At(x) == Len(x) > 0 /\ \E k \in 0..(Len(s) - Len(x)) : SubSeq(s, k + 1, k + Len(x)) = x
  IN CASE call.f = "strcmp" -> Ordered(s, t)
       [] call.f = "strncmp" -> Ordered(Take(s, n), Take(t, n))
       [] call.f = "strnlen" -> ret = Len(Take(s, n))
       [] call.f \in {"strchr", "strrchr"} ->
            LET where == {k \in DOMAIN s : s[k] = n} \union {k \in {Len(s) + 1} : n = NUL}
            IN ret = IF where = {} THEN 0
                     ELSE IF call.f = "strchr" THEN Min(where) ELSE Max(where)
       [] call.f = "strstr" ->
            /\ (ret # 0) = At(t)
            /\ ret # 0 => /\ SubSeq(s, ret, ret + Len(t) - 1) = t
                          /\ \A k \in 1..(ret - 1) : SubSeq(s, k, k + Len(t) - 1) # t
       [] OTHER -> TRUE

=============================================================================
