------------------------------ MODULE MC_User -------------------------------
(***************************************************************************)
(* What processes call and what commands do, one part at a time: sorting   *)
(* ("qsort"), strings ("strings"), formatted input and output ("format"),  *)
(* dates ("dates"), the name space and the device switch ("names"), the    *)
(* shell with many kinds of lines ("lex") and with jobs ("jobs"), the      *)
(* clients of name, time and echo servers ("clients"), and the programs    *)
(* that make the device table ("config").                                  *)
(***************************************************************************)
EXTENDS Integers, Sequences, SequencesExt

CONSTANTS p1, p2, c1, c2, NONE

VARIABLES
  part,
  qpc, given, arr, qa, ql, qi, qj, lp, hp, frames,
  mem, before, call, ret,
  pr, sc, gs,
  hours, first, daylight,
  nametab, files, fd, last, mounts,
  pc, typed, line, p, tokbuf, tok, toktyp, cmd, kids, child, mbox, open, leaked, prio,
  at, owner, inbox, replies, now, date, unreleased, calls,
  where, tname, text, attrs, status, dtypes, devs, confc, confh

Q == INSTANCE Qsort WITH Values <- 1..3, MaxLen <- 6,
       pc <- qpc, a <- qa, l <- ql, i <- qi, j <- qj
S == INSTANCE Strings WITH Bytes <- {1, 2, 255}, MaxLen <- 2, Fill <- 7

-----------------------------------------------------------------------------
\* A long of 20 bits: the limits, and numbers with digits of every kind.
Longs == {- (2 ^ 19), - (2 ^ 19) + 1, -1, 0, 9, 2 ^ 19 - 1, 100000, -300000}
Item(type, len, set, char) == [type |-> type, len |-> len, set |-> set, char |-> char]
Conversion(type) == Item(type, 30000, {}, "")
ScanFormats ==
  SeqOf({Conversion("d"), Item("x", 2, {}, ""), Conversion("s"), Conversion("c"), Item("[", 2, {"a", "-"}, ""),
         Item("literal", 0, {}, "a"), Item(" ", 0, {}, "")}, 2)
F == INSTANCE Format WITH W <- 20, Unit <- 100000, Numbers <- Longs, Widths <- {0, 3, 8, 81}, Maxima <- {0, 2},
       Inputs <- SeqOf({"a", "1", "-", " ", "\n"}, 3), Formats <- ScanFormats

\* A leap year and the year after it.
D == INSTANCE Dates WITH FirstYears <- {1972}, Years <- 2, now <- hours

\* Prefixes and replacements at their limits, and names that need several substitutions.
N == INSTANCE Names WITH NM_PRELEN <- 4, NM_REPLLEN <- 3, NM_MAXLEN <- 7, NNAMES <- 8, CHAR <- 5, MaxMounts <- 2,
       Mounts <- [prefix : {<<>>, <<"d">>, <<"/", "d">>}, replace : {<<>>, <<"/", "/">>},
                  device : {"NAMESPACE", "RFILESYS", "CONSOLE"}]
                 \union [prefix : {<<"d">>, <<"d", "d", "d", "d">>}, replace : {<<"d", "d", "d">>}, device : {"RFILESYS"}],
       Asked <- SeqOf({"/", "d"}, 2)
                \union {<<"/", "l", "d">>, <<"d", "/", "d", "d">>, <<"d", "/", "d", "d", "d", "d", "d">>}

-----------------------------------------------------------------------------
\* Lines: two words without a blank between them are one word, and only the last quote
\* may stay open.
Tokens(types, blanks, n) == SeqOf([t : types, sp : blanks], n)
Unmerged(l) ==
  \A k \in 1..(Len(l) - 1) : l[k].t # "unclosed" /\ ~ (l[k].t = "word" /\ ~ l[k].sp /\ l[k + 1].t = "word")
ShortLines == {l \in Tokens({"word", "quoted", "unclosed", "<", "&"}, BOOLEAN, 3) : Unmerged(l)}
LongLines == {l \in Tokens({"word", "<", ">", "&"}, {TRUE}, 6) :
                l # <<>> => l[1].t = "word" /\ (Len(l) > 4 => l[2].t # "&" /\ l[3].t # "&")}
ManyWords == {[k \in 1..n |-> [t |-> "word", sp |-> k < m]] : n \in {6, 7}, m \in {7, 8}}
JobLines == {[k \in DOMAIN l |-> [t |-> l[k], sp |-> TRUE]] :
               l \in {<<"word">>, <<"word", "&">>, <<"word", ">", "word">>, <<"word", "<", "word">>,
                      <<"word", ">", "word", "<", "word", "&">>}}

L == INSTANCE Shell WITH Lines <- ShortLines \union LongLines \union ManyWords, SHELL_MAXTOK <- 6,
       Children <- {c1, c2}, Names <- {FALSE}, Kinds <- {"notfound"}, KillSends <- TRUE
J == INSTANCE Shell WITH Lines <- JobLines, SHELL_MAXTOK <- 6,
       Children <- {c1, c2}, Names <- BOOLEAN, Kinds <- {"builtin", "external"}, KillSends <- TRUE
X == INSTANCE Shell WITH Lines <- JobLines, SHELL_MAXTOK <- 6,
       Children <- {c1, c2}, Names <- BOOLEAN, Kinds <- {"builtin", "external"}, KillSends <- FALSE

\* Two names, one of them a prefix of the other.
Hosts == {<<"a", ".", "b">>, <<"a", ".", "b", "b">>}
C == INSTANCE Clients WITH Procs <- {p1, p2}, HostNames <- Hosts, Local <- {<<n, "near">> : n \in Hosts},
       DNSRETRY <- 2, ECHORETRY <- 2, MaxTime <- 2, MaxAge <- 1, MaxCalls <- 2, leaked <- unreleased

\* Types with two "on"s, devices that leave theirs out, and a name too long for the newer
\* program.
G == INSTANCE Config WITH TypeNames <- {"tty", "eth"}, OnNames <- {"uart", "tty"},
       DeviceNames <- {"RFILE0", "RFILE1"}, Functions <- {"init_of_the_tty0"},
       Long <- {"init_of_the_tty0"}, Numerals <- {<<0, 33, 1, 15>>}, Attrs <- {"csr", "init"},
       NOTHING <- NONE, NTYPES <- 2, NDEVS <- 2, MaxOns <- 2, MaxDevices <- 2, MaxAttrs <- 2, at <- where

qvars == <<qpc, given, arr, qa, ql, qi, qj, lp, hp, frames>>
strvars == <<mem, before, call, ret>>
fmtvars == <<pr, sc, gs>>
datevars == <<hours, first, daylight>>
namevars == <<nametab, files, fd, last, mounts>>
shellvars == <<pc, typed, line, p, tokbuf, tok, toktyp, cmd, kids, child, mbox, open, leaked, prio>>
clientvars == <<at, owner, inbox, replies, now, date, unreleased, calls>>
confvars == <<where, tname, text, attrs, status, dtypes, devs, confc, confh>>
vars == <<part, qvars, strvars, fmtvars, datevars, namevars, shellvars, clientvars, confvars>>

\* The variables of the parts that are not explored have one value.
Starts(parts) ==
  /\ part \in parts
  /\ IF part = "qsort" THEN Q!Init ELSE Q!qsort(<<>>)
  /\ IF part = "strings" THEN S!Init ELSE mem = <<>> /\ before = <<>> /\ call = [f |-> "none", n |-> 0] /\ ret = 0
  /\ F!Init /\ D!Init /\ N!Init /\ J!Init /\ C!Init /\ G!Init
  /\ part # "names" => nametab = <<>>

Init == Starts({"qsort", "strings", "format", "dates", "names", "lex", "jobs", "clients", "config"})

Next ==
  /\ UNCHANGED part
  /\ \/ part = "qsort" /\ Q!Next /\ UNCHANGED <<strvars, fmtvars, datevars, namevars, shellvars, clientvars, confvars>>
     \/ part = "strings" /\ S!Next /\ UNCHANGED <<qvars, fmtvars, datevars, namevars, shellvars, clientvars, confvars>>
     \/ part = "format" /\ F!Next /\ UNCHANGED <<qvars, strvars, datevars, namevars, shellvars, clientvars, confvars>>
     \/ part = "dates" /\ D!Next /\ UNCHANGED <<qvars, strvars, fmtvars, namevars, shellvars, clientvars, confvars>>
     \/ part = "names" /\ N!Next /\ UNCHANGED <<qvars, strvars, fmtvars, datevars, shellvars, clientvars, confvars>>
     \/ part = "lex" /\ L!Next /\ UNCHANGED <<qvars, strvars, fmtvars, datevars, namevars, clientvars, confvars>>
     \/ part = "jobs" /\ J!Next /\ UNCHANGED <<qvars, strvars, fmtvars, datevars, namevars, clientvars, confvars>>
     \/ part = "clients" /\ C!Next /\ UNCHANGED <<qvars, strvars, fmtvars, datevars, namevars, shellvars, confvars>>
     \/ part = "config" /\ G!Next /\ UNCHANGED <<qvars, strvars, fmtvars, datevars, namevars, shellvars, clientvars>>

\* The shell goes on unless it waits for a line or a message.
Fairness == WF_shellvars(part = "jobs" /\ J!ShellSteps)
Spec == Init /\ [][Next]_vars /\ Fairness

\* The properties of the modules, each about its part.
SortedPermutation == Q!SortedPermutation
StaysInside == Q!StaysInside
CopiesExactly == part = "strings" => S!CopiesExactly
ComparesAndFinds == part = "strings" => S!ComparesAndFinds
PrintsTheNumber == F!PrintsTheNumber
FieldWidth == F!FieldWidth
EachCharacterOnce == F!EachCharacterOnce
DatesFollow == D!DatesFollow
WeekdayGoesOn == D!WeekdayGoesOn
MountsKeepNames == N!MountsKeepNames
OpenFilesNamed == N!OpenFilesNamed
DescriptorReaches == N!DescriptorReaches
RunsWhatWasTyped == IF part = "lex" THEN L!RunsWhatWasTyped ELSE J!RunsWhatWasTyped
TokensFit == L!TokensFit
FilesClosed == J!FilesClosed
NoEarlyPrompt == J!NoEarlyPrompt
PromptReturns == J!PromptReturns
LookupRight == C!LookupRight
SlotsReleased == C!SlotsReleased
ClockRight == C!ClockRight
MinorsDense == G!MinorsDense
AttributesRight == G!AttributesRight
SameTable == G!SameTable
OutputsInOrder == G!OutputsInOrder

\* The library computes what its reference definitions say (qsort, str*, doprnt,
\* doscan, ascdate).
LibraryRight ==
  /\ SortedPermutation /\ StaysInside /\ CopiesExactly /\ ComparesAndFinds
  /\ PrintsTheNumber /\ FieldWidth /\ EachCharacterOnce /\ WeekdayGoesOn

\* Names reach the device they stand for, a line runs what was typed, and what a
\* command or a client opened is closed; and the device table is what Configuration
\* says (nammap, lexan, shell, dnslookup, config).
SessionSound ==
  /\ OpenFilesNamed /\ DescriptorReaches /\ RunsWhatWasTyped /\ TokensFit /\ FilesClosed
  /\ SlotsReleased /\ ClockRight
  /\ MinorsDense /\ AttributesRight /\ SameTable /\ OutputsInOrder

\* What steps keep, and the prompt that returns (mount, shell, dnslookup).
SessionGoesOn == DatesFollow /\ MountsKeepNames /\ NoEarlyPrompt /\ PromptReturns /\ LookupRight

-----------------------------------------------------------------------------
\* The shell of jobs over the kill of xinu/, which sends a message for user processes only.
KillSpec ==
  /\ Starts({"jobs"})
  /\ [][X!Next /\ UNCHANGED <<part, qvars, strvars, fmtvars, datevars, namevars, clientvars, confvars>>]_vars
  /\ WF_shellvars(X!ShellSteps)

=============================================================================
