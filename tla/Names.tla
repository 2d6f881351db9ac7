------------------------------- MODULE Names --------------------------------
(***************************************************************************)
(* The name space and the device switch.  A name is a sequence of          *)
(* characters; the tables' sizes count the NUL at its end.  Opening a name *)
(* maps it, a prefix at a time, to a device and a name there, and opens    *)
(* that device through the switch; the file systems answer with the        *)
(* descriptor of a free file, other devices with the value of ionull.      *)
(*                                                                         *)
(* namrepl keeps the length of a name in a char: CHAR is the first length  *)
(* that becomes negative (128 for NM_MAXLEN 256).                          *)
(***************************************************************************)
EXTENDS Integers, Sequences, SequencesExt, FiniteSets

CONSTANTS
  NM_PRELEN, NM_REPLLEN, NM_MAXLEN, NNAMES, CHAR,
  Mounts,      \* what is mounted: [prefix, replace, device]
  Asked,       \* names that are opened
  MaxMounts    \* bound: calls of mount after the start

VARIABLES
  nametab,     \* the entries in use
  files,       \* the files of the file systems: [fs, name, asked] or NoFile
  fd,          \* the descriptor a process got from open, SYSERR if none
  last,        \* its last call of the switch: [op, dev, routine]
  mounts

vars == <<nametab, files, fd, last, mounts>>

SYSERR == "SYSERR"

\* devtab: the devices in the order of their numbers and what the switch calls.
devs == <<"CONSOLE", "NULLDEV", "NAMESPACE", "RFILESYS", "RFILE0", "LFILESYS", "LFILE0">>
isbaddev(d) == d \notin ToSet(devs)

Files == {"RFILE0", "LFILE0"}
FileOf(fs) == IF fs = "RFILESYS" THEN "RFILE0" ELSE "LFILE0"
NoFile == [fs |-> "none", name |-> <<>>, asked |-> <<>>]

Operations == {"init", "open", "close", "read", "write", "seek", "getc", "putc", "control"}
Has(d) ==
  CASE d = "CONSOLE"   -> {"init", "read", "write", "getc", "putc", "control"}
    [] d = "NULLDEV"   -> {}
    [] d = "NAMESPACE" -> {"init", "open"}
    [] d = "RFILESYS"  -> {"init", "open", "control"}
    [] d = "RFILE0"    -> {"init", "close", "read", "write", "seek", "getc", "putc"}
    [] d = "LFILESYS"  -> {"init", "open"}
    [] d = "LFILE0"    -> Operations \ {"open"}
Nulls(d) ==
  CASE d = "CONSOLE" -> {"open", "close"}
    [] d = "NULLDEV" -> Operations \ {"seek", "control"}
    [] OTHER -> {}

\* What the entry of devtab for an operation calls.
devtab(d, op) == IF op \in Has(d) THEN "driver" ELSE IF op \in Nulls(d) THEN "ionull" ELSE "ioerr"

Switched(op, d) ==
  last' = [op |-> op, dev |-> d, routine |-> IF isbaddev(d) THEN SYSERR ELSE devtab(d, op)]

-----------------------------------------------------------------------------
\* The length with the NUL, if it is at most maxlen.
namlen(name, maxlen) == IF Len(name) + 1 <= maxlen THEN Len(name) + 1 ELSE -1

char(x) == ((x + CHAR) % (2 * CHAR)) - CHAR

\* The table after mount: unchanged if an argument is bad or the table full.
Mounted(tab, e) ==
  IF \/ namlen(e.prefix, NM_PRELEN) = -1
     \/ namlen(e.replace, NM_REPLLEN) = -1
     \/ isbaddev(e.device)
     \/ Len(tab) >= NNAMES
  THEN tab
  ELSE Append(tab, e)

\* naminit: the devices by name, then the other prefixes, the one for unknown devices
\* with SYSERR for its device.
Entry(p, r, d) == [prefix |-> p, replace |-> r, device |-> d]
naminit ==
  FoldLeft(Mounted, <<>>,
    << Entry(<<"/", "d", "c">>, <<>>, "CONSOLE"), Entry(<<"/", "d", "n">>, <<>>, "NULLDEV"),
       Entry(<<"/", "r">>, <<"R">>, "RFILESYS"),  Entry(<<"/", "l">>, <<>>, "LFILESYS"),
       Entry(<<"/", "d">>, <<>>, SYSERR),         Entry(<<"~">>, <<>>, "LFILESYS"),
       Entry(<<"/">>, <<"O">>, "RFILESYS"),       Entry(<<>>, <<>>, "LFILESYS") >>)

\* The entry namrepl uses: the first one whose prefix the name has.
MatchLast(tab, name) ==
  CHOOSE i \in DOMAIN tab : IsPrefix(tab[i].prefix, name) /\ \A k \in DOMAIN tab : k > i => ~ IsPrefix(tab[k].prefix, name)
Match(tab, name) ==
  CHOOSE i \in DOMAIN tab : IsPrefix(tab[i].prefix, name) /\ \A k \in 1..(i - 1) : ~ IsPrefix(tab[k].prefix, name)

\* A substitution: the device and the new name, which has no NUL (is not ended) when
\* the length in its char is negative.
Failed == [dev |-> SYSERR, name |-> <<>>, ended |-> TRUE]
RestDropsOne(name, plen) == SubSeq(name, plen + 2, Len(name))
Rest(name, plen) == SubSeq(name, plen + 1, Len(name))
namrepl(tab, name) ==
  IF ~ \E i \in DOMAIN tab : IsPrefix(tab[i].prefix, name)
  THEN Failed
  ELSE LET e == tab[Match(tab, name)]
           remain == char(namlen(name, NM_MAXLEN)) - Len(e.prefix)
       IN IF Len(e.replace) + remain > NM_MAXLEN THEN Failed
          ELSE IF remain > 0
               THEN [dev |-> e.device, name |-> e.replace \o Rest(name, Len(e.prefix)), ended |-> TRUE]
               ELSE [dev |-> e.device, name |-> e.replace, ended |-> FALSE]

\* nammap substitutes until another device than the name space is reached, at most
\* nnames times.  It goes on with a name that is not ended.
RECURSIVE Substituted(_, _, _)
Substituted(tab, r, iter) ==
  IF iter = Len(tab) \/ r.dev # "NAMESPACE" \/ ~ r.ended THEN r
  ELSE Substituted(tab, namrepl(tab, r.name), iter + 1)
nammap(tab, name) ==
  LET final == Substituted(tab, [dev |-> "NAMESPACE", name |-> name, ended |-> TRUE], 0)
  IN IF namlen(name, NM_MAXLEN) = -1 \/ (final.dev = "NAMESPACE" /\ final.ended) THEN Failed ELSE final

-----------------------------------------------------------------------------
Init ==
  /\ nametab \in {<<>>, naminit}
  /\ files = [f \in Files |-> NoFile]
  /\ fd = SYSERR
  /\ last = [op |-> "init", dev |-> "NAMESPACE", routine |-> "driver"]
  /\ mounts = 0

mount(e) ==
  /\ mounts < MaxMounts
  /\ mounts' = mounts + 1
  /\ nametab' = Mounted(nametab, e)
  /\ UNCHANGED <<files, fd, last>>

\* The value of open: a file of the file system, if one is free; ionull's value is OK,
\* 1, which is the number of NULLDEV.
OpenedFs(d) == d
Opened(d) == FileOf(d)
OpenDevice(d, name, asked) ==
  LET free == d \in {"RFILESYS", "LFILESYS"} /\ files[FileOf(d)] = NoFile
  IN /\ Switched("open", d)
     /\ IF free
        THEN /\ files' = [files EXCEPT ![FileOf(d)] = [fs |-> d, name |-> name, asked |-> asked]]
             /\ fd' = Opened(d)
        ELSE /\ fd' = IF ~ isbaddev(d) /\ devtab(d, "open") = "ionull" THEN "NULLDEV" ELSE SYSERR
             /\ UNCHANGED files

\* The name space's open; what follows a name without NUL is whatever was in the buffer.
namopen(asked) ==
  /\ fd = SYSERR
  /\ LET r == nammap(nametab, asked)
     IN IF r.dev = SYSERR THEN Switched("open", "NAMESPACE") /\ UNCHANGED <<files, fd>>
        ELSE IF r.ended THEN OpenDevice(r.dev, r.name, asked)
        ELSE \E d \in (IF r.dev = "NAMESPACE" THEN ToSet(devs) ELSE {r.dev}) : OpenDevice(d, <<"?">>, <<"?">>)
  /\ UNCHANGED <<nametab, mounts>>

\* The other calls of the switch, for the descriptor that the process has.
Uses(op) == Switched(op, fd) /\ UNCHANGED <<nametab, files, fd, mounts>>
read == Uses("read")
write == Uses("write")
seek == Uses("seek")
getc == Uses("getc")
putc == Uses("putc")
control == Uses("control")
close ==
  /\ Switched("close", fd)
  /\ files' = IF fd \in Files THEN [files EXCEPT ![fd] = NoFile] ELSE files
  /\ fd' = SYSERR
  /\ UNCHANGED <<nametab, mounts>>

\* At the start each device is initialised.
init(d) ==
  /\ fd = SYSERR /\ mounts = 0 /\ last.op = "init"
  /\ Switched("init", d)
  /\ UNCHANGED <<nametab, files, fd, mounts>>

Next ==
  \/ \E e \in Mounts : mount(e)
  \/ \E n \in Asked : namopen(n)
  \/ read \/ write \/ seek \/ getc \/ putc \/ control \/ close
  \/ \E d \in ToSet(devs) : init(d)

-----------------------------------------------------------------------------
\* mount adds its prefix behind the others: a name that could be opened before still
\* leads to the same device and the same name there.
MountsKeepNames ==
  [][\A n \in Asked : nammap(nametab, n).dev # SYSERR => nammap(nametab', n) = nammap(nametab, n)]_nametab

\* The names a name can become by the substitutions of a table, the first prefix each time.
Step(tab, n) ==
  LET fits == {i \in DOMAIN tab : IsPrefix(tab[i].prefix, n)}
      e == tab[CHOOSE i \in fits : \A k \in fits : i <= k]
  IN IF fits = {} THEN Failed
     ELSE [dev |-> e.device, name |-> e.replace \o SubSeq(n, Len(e.prefix) + 1, Len(n)), ended |-> TRUE]

\* A file is open under the name that the substitutions give: what follows the prefix is
\* kept to its last character, and the name that was opened leads there as long as the
\* file is open, whatever has been mounted since.
OpenFilesNamed ==
  \A f \in Files : files[f] # NoFile /\ files[f].asked # <<"?">> =>
    LET one == Step(nametab, files[f].asked)
        two == Step(nametab, one.name)
        same(r) == r.dev = files[f].fs /\ r.name = files[f].name
    IN same(one) \/ (one.dev = "NAMESPACE" /\ (same(two) \/ two.dev = "NAMESPACE"))

\* The descriptor that open returned is the open file's: every transfer through it calls
\* the driver of the file, none goes to another device or is answered by ioerr.
DescriptorReaches ==
  /\ fd \in Files => files[fd] # NoFile
  /\ \A f \in Files : files[f] # NoFile => fd = f
  /\ last.dev \in Files /\ last.op \notin {"control", "open"} => last.routine = "driver"
  /\ last.dev \in {"RFILESYS", "LFILESYS"} => last.op \in {"open", "init"}

=============================================================================
