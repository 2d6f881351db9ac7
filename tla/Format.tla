------------------------------- MODULE Format -------------------------------
(***************************************************************************)
(* Formatted output and input: _doprnt (for kprintf) and _fdoprnt (for     *)
(* printf, fprintf and sprintf), one directive per step, read back with    *)
(* atoi; _doscan on a string (sscanf), one item of the format per step;    *)
(* fgets on a device.  A directive is a record of what the characters      *)
(* after % say, characters are strings of length one.                      *)
(*                                                                         *)
(* A long has W bits, like 32 with W % 3 = 2 and W % 4 = 0 (for the octal  *)
(* and hexadecimal digits) and with 2 * Unit <= 2^(W-1) < 10 * Unit for    *)
(* Unit, the power of ten that %u subtracts (1000000000 for 32 bits).      *)
(***************************************************************************)
EXTENDS Integers, Sequences, SequencesExt

CONSTANTS
  W, Unit,
  Numbers,     \* longs that are printed
  Widths,      \* minimum field widths
  Maxima,      \* maximum field widths, 0 for none
  Inputs,      \* strings that are scanned and read
  Formats      \* formats for scanning: sequences of items

VARIABLES
  pr,          \* printing: [by, spec, num, str, out], str the digits
  sc,          \* scanning: [in, pos, fmt, nmatch, got, done, from]
  gs           \* reading lines: [in, pos, lines, n, done]

vars == <<pr, sc, gs>>

Hex == <<"0", "1", "2", "3", "4", "5", "6", "7", "8", "9", "a", "b", "c", "d", "e", "f">>
HEX == <<"0", "1", "2", "3", "4", "5", "6", "7", "8", "9", "A", "B", "C", "D", "E", "F">>
MAXSTR == 80

long(x) == ((x + 2 ^ (W - 1)) % (2 ^ W)) - 2 ^ (W - 1)

\* The last `places` digits of num, the most significant first, and without the
\* leading zeros.
Digits(num, base, places) == [k \in 1..places |-> (num \div base ^ (places - k)) % base]
Strip(ds) ==
  LET nonzero == {k \in DOMAIN ds : ds[k] # 0}
  IN IF nonzero = {} THEN <<0>> ELSE SubSeq(ds, CHOOSE k \in nonzero : \A x \in nonzero : k <= x, Len(ds))
Chars(ds, set) == [k \in DOMAIN ds |-> set[ds[k] + 1]]

Abs(x) == IF x < 0 THEN - x ELSE x
DecPlaces == CHOOSE k \in 1..W : 10 ^ (k - 1) = Unit

\* _doprnt's _prtl10 takes the sign off digit by digit; _fdoprnt's is given the
\* negated number, and prints characters below "0" when that is still negative.
prtl10(num) == Chars(Strip(Digits(Abs(num), 10, DecPlaces)), Hex)
fprtl10(num) ==
  IF num >= 0 THEN prtl10(num)
  ELSE [k \in DOMAIN Strip(Digits(- num, 10, DecPlaces)) |-> "(" ]

TopMasked(ds) == [ds EXCEPT ![1] = @ % 4]
prtl8NoMask(num) == Chars(Strip(Digits(num, 8, W \div 3 + 1)), Hex)
prtl8(num) == Chars(Strip(TopMasked(Digits(num, 8, W \div 3 + 1))), Hex)
prtl16(num) == Chars(Strip(Digits(num, 16, W \div 4)), Hex)
prtX16(num) == Chars(Strip(Digits(num, 16, W \div 4)), HEX)
prtl2(num) == Chars(Strip(Digits(num, 2, W)), Hex)

\* %u: a "negative" long has Unit subtracted until it overflows to a positive one,
\* and the count is added to the first digit.
RECURSIVE Positive(_, _)
Positive(larg, digit1) ==
  IF larg >= 0 THEN [larg |-> larg, digit1 |-> digit1] ELSE Positive(long(larg - Unit), digit1 + 1)
prtu(num) ==
  LET p == Positive(num, 0)
      ds == Strip(Digits(p.larg, 10, DecPlaces))
  IN Chars([ds EXCEPT ![1] = @ + p.digit1], Hex)

\* %h and %H put the second number where the digits of the first end if it has all of them.
TwoNumbers(d1, d2) == IF Len(d1) = W \div 4 THEN d1 \o d2 ELSE d1

\* The conversions that both have, each with its own %d.
Common(conv, num) ==
  CASE conv = "u" -> prtu(num)
    [] conv = "o" -> prtl8(num)
    [] conv = "x" -> prtl16(num)
    [] conv = "X" -> prtX16(num)
    [] conv = "b" -> prtl2(num)
Converted(conv, num, num2) ==
  CASE conv = "d" -> prtl10(num)
    [] conv = "h" -> TwoNumbers(prtl16(num), prtl16(num2))
    [] conv = "H" -> TwoNumbers(prtX16(num), prtX16(num2))
    [] OTHER -> Common(conv, num)
fConverted(conv, num) ==
  IF conv = "d" THEN fprtl10(IF num < 0 THEN long(- num) ELSE num) ELSE Common(conv, num)

\* Only %d keeps a maximum width; widths above MAXSTR count as none.
Clipped(w) == IF w > MAXSTR THEN 0 ELSE w
FieldNoSign(fmin, length, sign) == IF fmin # 0 THEN fmin - length ELSE 0
Field(fmin, length, sign) ==
  (IF fmin # 0 THEN fmin - length ELSE 0) - (IF sign THEN 1 ELSE 0)

Printed(str, spec, num) ==
  LET sign == spec.conv = "d" /\ num < 0
      fmin == Clipped(spec.fmin)
      fmax == IF spec.conv = "d" THEN Clipped(spec.fmax) ELSE 0
      length == IF fmax # 0 /\ Len(str) > fmax THEN fmax ELSE Len(str)
      leading == Field(fmin, length, sign)
      fill == [k \in 1..leading |-> spec.fill]
      minus == IF sign THEN <<"-">> ELSE <<>>
      text == SubSeq(str, 1, length)
  IN (IF spec.fill = "0" THEN minus ELSE <<>>)
     \o (IF spec.leftjust THEN <<>> ELSE fill)
     \o (IF spec.fill = " " THEN minus ELSE <<>>)
     \o text
     \o (IF spec.leftjust THEN fill ELSE <<>>)

Specs == [leftjust : BOOLEAN, fill : {" ", "0"}, fmin : Widths, fmax : Maxima,
          conv : {"d", "u", "o", "x", "X", "b", "h", "H"}]

Unprinted == [by |-> "none", out |-> <<>>]

\* One directive printed.
doprnt ==
  pr.by = "none" /\ \E spec \in Specs, num, num2 \in Numbers :
    LET str == Converted(spec.conv, num, num2)
    IN /\ spec.conv \notin {"h", "H"} => num2 = num
       /\ pr' = [by |-> "_doprnt", spec |-> spec, num |-> num, str |-> str, out |-> Printed(str, spec, num)]
       /\ UNCHANGED <<sc, gs>>

fdoprnt ==
  pr.by = "none" /\ \E spec \in Specs, num \in Numbers :
    LET str == fConverted(spec.conv, num)
    IN /\ spec.conv \notin {"h", "H"}
       /\ pr' = [by |-> "_fdoprnt", spec |-> spec, num |-> num, str |-> str, out |-> Printed(str, spec, num)]
       /\ UNCHANGED <<sc, gs>>

\* atoi (and atol): blanks, a sign, digits.
Value(c) == CHOOSE d \in 0..9 : Hex[d + 1] = c
IsDigit(c) == c \in {Hex[d] : d \in 1..10}
FirstFrom(s, k, Ok(_)) == CHOOSE x \in k..(Len(s) + 1) :
                            (x = Len(s) + 1 \/ ~ Ok(s[x])) /\ \A y \in k..(x - 1) : Ok(s[y])
atoi(s) ==
  LET blank == FirstFrom(s, 1, LAMBDA c : c = " ")
      neg == blank <= Len(s) /\ s[blank] = "-"
      begin == IF blank <= Len(s) /\ s[blank] \in {"-", "+"} THEN blank + 1 ELSE blank
      end == FirstFrom(s, begin, LAMBDA c : IsDigit(c))
      n == FoldLeft(LAMBDA v, c : long(10 * v + Value(c)), 0, SubSeq(s, begin, end - 1))
  IN IF neg THEN long(- n) ELSE n

-----------------------------------------------------------------------------
\* sscanf: sgetch gives EOF at the end and stays there, sungetch steps back.
EOF == "EOF"
sgetch(s, p) == IF p > Len(s) THEN EOF ELSE s[p]
IsSpace(c) == c \in {" ", "\n"}
HexLetters == {"a", "b", "c", "d", "e", "f"}

\* The scanner reads a character past a number and puts it back, except EOF.
EndOfNumberKeeps(in, read) == IF sgetch(in, read) = EOF THEN read ELSE read + 1
EndOfNumber(in, read) == read

\* _innum for numbers: whatever the base, only the letters of hexadecimal pass the
\* test of the loop, and these only for base 16.
innum(in, pos, item) ==
  LET blank == FirstFrom(in, pos, IsSpace)
      signed == sgetch(in, blank) \in {"-", "+"}
      first == IF signed THEN blank + 1 ELSE blank
      len == IF signed THEN item.len - 1 ELSE item.len
      run == FirstFrom(in, first, LAMBDA c : item.type = "x" /\ c \in HexLetters)
      stop == IF run - first > len THEN first + len ELSE run
  IN [pos |-> EndOfNumber(in, stop), eof |-> sgetch(in, stop) = EOF,
      match |-> stop > first \/ sgetch(in, blank) = "-",
      text |-> SubSeq(in, first, stop - 1), first |-> first]

\* _instr: %s skips blanks and stops at one, %c takes a single character, %[ takes the
\* characters of the set that _getccl marked.
Stops(item, c) ==
  CASE item.type = "s" -> IsSpace(c)
    [] item.type = "c" -> FALSE
    [] item.type = "[" -> c \notin item.set
instr(in, pos, item) ==
  LET first == IF item.type = "s" THEN FirstFrom(in, pos, IsSpace) ELSE pos
      len == IF item.type = "c" /\ item.len = 30000 THEN 1 ELSE item.len
      run == FirstFrom(in, first, LAMBDA c : ~ Stops(item, c))
      stop == IF run - first > len THEN first + len ELSE run
  IN [pos |-> stop, eof |-> stop - first < len /\ sgetch(in, stop) = EOF,
      match |-> stop > first, text |-> SubSeq(in, first, stop - 1), first |-> first]

Scans == [in |-> <<>>, pos |-> 1, fmt |-> <<>>, nmatch |-> 0, got |-> <<>>, done |-> TRUE, from |-> 1]

\* sscanf is called.
sscanf ==
  sc = Scans /\ \E in \in Inputs, fmt \in Formats :
    /\ sc' = [Scans EXCEPT !.in = in, !.fmt = fmt, !.done = FALSE]
    /\ UNCHANGED <<pr, gs>>

ScanItem == Head(sc.fmt)
Scanning(type) == ~ sc.done /\ sc.fmt # <<>> /\ ScanItem.type \in type
Advance(pos, nmatch, got, done) ==
  /\ sc' = [sc EXCEPT !.pos = pos, !.fmt = Tail(@), !.nmatch = nmatch, !.got = got, !.done = done,
                      !.from = sc.pos]
  /\ UNCHANGED <<pr, gs>>

ScanBlank ==
  /\ Scanning({" "})
  /\ Advance(FirstFrom(sc.in, sc.pos, IsSpace), sc.nmatch, sc.got, FALSE)

ScanLiteral ==
  /\ Scanning({"literal"})
  /\ IF sgetch(sc.in, sc.pos) = ScanItem.char
     THEN Advance(sc.pos + 1, sc.nmatch, sc.got, FALSE)
     ELSE Advance(sc.pos, IF sgetch(sc.in, sc.pos) = EOF THEN -1 ELSE sc.nmatch, sc.got, TRUE)

\* A conversion; at the end of the input the call returns, -1 if nothing matched.
ScanConversion(r) ==
  LET n == IF r.match THEN sc.nmatch + 1 ELSE sc.nmatch
  IN Advance(r.pos, IF r.eof /\ n = 0 THEN -1 ELSE n,
             Append(sc.got, [item |-> ScanItem, first |-> r.first, text |-> r.text, to |-> r.pos]), r.eof)
ScanNumber == Scanning({"d", "o", "x"}) /\ ScanConversion(innum(sc.in, sc.pos, ScanItem))
ScanString == Scanning({"s", "c", "["}) /\ ScanConversion(instr(sc.in, sc.pos, ScanItem))

ScanEnd ==
  /\ ~ sc.done /\ sc.fmt = <<>>
  /\ sc' = [sc EXCEPT !.done = TRUE]
  /\ UNCHANGED <<pr, gs>>

doscan == ScanBlank \/ ScanLiteral \/ ScanNumber \/ ScanString \/ ScanEnd

-----------------------------------------------------------------------------
\* fgets with a buffer of n bytes, called until it returns NULL.
Reads == [in |-> <<>>, pos |-> 1, lines |-> <<>>, n |-> 0, done |-> TRUE]

OpenLines ==
  gs = Reads /\ \E in \in Inputs, n \in 2..3 :
    /\ gs' = [Reads EXCEPT !.in = in, !.n = n, !.done = FALSE]
    /\ UNCHANGED <<pr, sc>>

\* At most n - 1 characters, a newline the last one.
RoomForLineAll(n) == n
RoomForLine(n) == n - 1
fgets ==
  /\ ~ gs.done
  /\ LET left == Len(gs.in) - gs.pos + 1
         line == {k \in 1..left : gs.in[gs.pos + k - 1] = "\n"}
         upto == IF line = {} THEN left ELSE CHOOSE k \in line : \A x \in line : k <= x
         count == IF upto > RoomForLine(gs.n) THEN RoomForLine(gs.n) ELSE upto
     IN IF left = 0
        THEN gs' = [gs EXCEPT !.done = TRUE]
        ELSE gs' = [gs EXCEPT !.pos = @ + count,
                              !.lines = Append(@, SubSeq(gs.in, gs.pos, gs.pos + count - 1))]
  /\ UNCHANGED <<pr, sc>>

Init == pr = Unprinted /\ sc = Scans /\ gs = Reads

Next ==
  \/ gs = Reads /\ sc = Scans /\ (doprnt \/ fdoprnt)
  \/ pr = Unprinted /\ gs = Reads /\ (sscanf \/ doscan)
  \/ pr = Unprinted /\ sc = Scans /\ (OpenLines \/ fgets)

-----------------------------------------------------------------------------
\* The value of digits in a base, the most significant first.
Val(s, base) == FoldLeft(LAMBDA v, c : base * v + (CHOOSE d \in 0..15 : Hex[d + 1] = c \/ HEX[d + 1] = c), 0, s)
Unsigned(x) == x % (2 ^ W)
Blank(c) == c = " "
Text(s) == SelectSeq(s, LAMBDA c : ~ Blank(c))

\* What a directive prints reads back as the number it was given: with atoi for %d,
\* and as the unsigned value of the same bits for the others, the trick of %u with
\* its first digit included.  Left out are zeros filled in on the right, a maximum
\* width and, for _fdoprnt, the most negative long, whose negation is negative.
PrintsTheNumber ==
  pr.by # "none" =>
    LET s == pr.spec
        whole == ~ (s.leftjust /\ s.fill = "0") /\ (s.conv = "d" => s.fmax = 0)
    IN whole =>
         CASE s.conv = "d" ->
                (pr.by = "_fdoprnt" => pr.num # - (2 ^ (W - 1))) => atoi(pr.out) = pr.num
           [] s.conv = "u" -> Val(Text(pr.out), 10) = Unsigned(pr.num)
           [] s.conv = "o" -> Val(Text(pr.out), 8) = Unsigned(pr.num)
           [] s.conv = "b" -> Val(Text(pr.out), 2) = Unsigned(pr.num)
           [] s.conv \in {"x", "X"} -> Val(Text(pr.out), 16) = Unsigned(pr.num)
           [] OTHER -> TRUE

\* A field has its minimum width, the sign included, and is wider only if the number
\* needs it and a maximum does not cut it.
FieldWidth ==
  pr.by # "none" =>
    LET s == pr.spec
        natural == Len(Printed(pr.str, [s EXCEPT !.fmin = 0], pr.num))
    IN s.fmin <= MAXSTR => Len(pr.out) = IF natural > s.fmin THEN natural ELSE s.fmin

\* Every character is used once: an item of the format takes the characters it skips,
\* its sign and its text, and the character that ended it is the next one to be read;
\* fgets cuts its input into lines of at most n - 1 characters and loses none.
EachCharacterOnce ==
  /\ \A k \in DOMAIN sc.got :
       LET g == sc.got[k]
       IN /\ g.to = g.first + Len(g.text)
          /\ g.item.type \in {"s", "["} /\ Len(g.text) < g.item.len =>
               g.to > Len(sc.in) \/ Stops(g.item, sc.in[g.to])
  /\ sc.from <= sc.pos /\ sc.pos <= Len(sc.in) + 1
  /\ FoldLeft(LAMBDA x, y : x \o y, <<>>, gs.lines) = SubSeq(gs.in, 1, gs.pos - 1)
  /\ \A k \in DOMAIN gs.lines :
       /\ Len(gs.lines[k]) < gs.n
       /\ \A x \in 1..(Len(gs.lines[k]) - 1) : gs.lines[k][x] # "\n"

=============================================================================
