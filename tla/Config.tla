------------------------------- MODULE Config -------------------------------
(***************************************************************************)
(* The configuration programs of both kernels reading one Configuration    *)
(* file: "new" is xinu/config, "old" that of the earlier Xinu.  Each keeps *)
(* a table of device types and one of devices, refuses what it cannot      *)
(* accept, and only then writes conf.h and conf.c.  A step is what the     *)
(* grammar reduces at once; comments and "=" are the lexer's.              *)
(***************************************************************************)
EXTENDS Integers, Sequences, FiniteSets

CONSTANTS
  TypeNames, OnNames, DeviceNames, Functions,  \* what the file may call things
  Numerals,    \* the numbers it may give, as sequences of digits
  Attrs,       \* the attributes it may set, "csr" and "irq" for numbers
  Long,        \* the names of MAXNAME characters or more, all shorter than CONFMAXNM
  NOTHING,     \* an "on" that is left out, an attribute that is not set
  NTYPES, NDEVS,
  MaxOns, MaxDevices, MaxAttrs   \* bounds on the file

VARIABLES
  at,          \* where the parsers are in the file
  tname,       \* the type name read last
  text,        \* what the file has said so far
  attrs,       \* how many attributes it has set
  status,      \* what each program has done
  dtypes,      \* its types, in the order in which it made the entries
  devs,        \* its devices
  confc, confh \* the files of each, as seen from outside

vars == <<at, tname, text, attrs, status, dtypes, devs, confc, confh>>

Programs == {"new", "old"}

\* Letters follow the digits: 'a' is 10, and 'x' 33.
X == 33
Positional(p, base) ==
  LET value[k \in 0..Len(p)] == IF k = 0 THEN 0 ELSE base * value[k - 1] + p[k]
  IN  value[Len(p)]
config_atoi(p) ==
  IF p[1] # 0 THEN Positional(p, 10)
  ELSE IF Len(p) > 1 /\ p[2] = X THEN Positional(SubSeq(p, 3, Len(p)), 16)
  ELSE Positional(Tail(p), 8)

IsNumber(a) == a \in {"csr", "irq"}
Values(a) == IF IsNumber(a) THEN {config_atoi(p) : p \in Numerals} ELSE Functions
Default == [a \in Attrs |-> IF IsNumber(a) THEN 0 ELSE "ioerr"]
Unset == [a \in Attrs |-> NOTHING]

Init ==
  /\ at = "types" /\ tname = NOTHING /\ attrs = 0
  /\ text = [types |-> <<>>, devs |-> <<>>]
  /\ status = [g \in Programs |-> "parsing"]
  /\ dtypes = [g \in Programs |-> <<>>] /\ devs = [g \in Programs |-> <<>>]
  /\ confc = [g \in Programs |-> "before"] /\ confh = [g \in Programs |-> "before"]

outputs == <<confc, confh>>

\* The programs of A accept what they read and have t and d as their tables; another
\* that is still parsing refuses it and exits.
Accepting(new, old) == {g \in Programs : status[g] = "parsing" /\ IF g = "new" THEN new ELSE old}
Parses(A, t, d) ==
  /\ status' = [g \in Programs |-> IF status[g] = "parsing" /\ g \notin A THEN "refused" ELSE status[g]]
  /\ dtypes' = [g \in Programs |-> IF g \in A THEN t[g] ELSE dtypes[g]]
  /\ devs' = [g \in Programs |-> IF g \in A THEN d[g] ELSE devs[g]]

Entry(n, on) == [tname |-> n, ison |-> on, attrs |-> Default, minor |-> 0]
InTypes(g, n) == \E k \in DOMAIN dtypes[g] : dtypes[g][k].tname = n

\* The type's name: newtype makes its entry, cktname only looks.
newtype(n) == n \notin Long /\ Len(dtypes["new"]) < NTYPES /\ ~ InTypes("new", n)
cktname(n) == ~ InTypes("old", n)
TypeName(n) ==
  /\ at \in {"types", "attrs"} /\ Len(text.types) < MaxOns
  /\ at' = "on" /\ tname' = n
  /\ Parses(Accepting(newtype(n), cktname(n)),
            [dtypes EXCEPT !["new"] = Append(@, Entry(n, NOTHING))], devs)
  /\ UNCHANGED <<text, attrs, outputs>>

\* "on": addton stores into the type's entry, mktype makes one for each.
addton(s, on) == [s EXCEPT ![Len(s)].ison = on]
mktype(on) == \A k \in DOMAIN dtypes["old"] :
                ~ (dtypes["old"][k].tname = tname /\ dtypes["old"][k].ison = on)
OnName(on) ==
  /\ at \in {"on", "attrs"} /\ Len(text.types) < MaxOns
  /\ at' = "attrs"
  /\ Parses(Accepting(on \notin Long, mktype(on)),
            [new |-> IF dtypes["new"] = <<>> THEN <<>> ELSE addton(dtypes["new"], on),
             old |-> Append(dtypes["old"], Entry(tname, on))],
            devs)
  /\ text' = [text EXCEPT !.types = Append(@, [tname |-> tname, ison |-> on, attrs |-> Unset])]
  /\ UNCHANGED <<tname, attrs, outputs>>

\* An attribute, of the last type's entry or of the last device.
getattrid(v) == v \notin Long
SetLast(s, a, v) == IF s = <<>> THEN s ELSE [s EXCEPT ![Len(s)].attrs[a] = v]
addattr(a, v) ==
  /\ at = "attrs" \/ (at = "devs" /\ text.devs # <<>>)
  /\ attrs < MaxAttrs /\ attrs' = attrs + 1
  /\ Parses(Accepting(IsNumber(a) \/ getattrid(v), TRUE),
            [g \in Programs |-> IF at = "attrs" THEN SetLast(dtypes[g], a, v) ELSE dtypes[g]],
            [g \in Programs |-> IF at = "devs" THEN SetLast(devs[g], a, v) ELSE devs[g]])
  /\ text' = IF at = "attrs" THEN [text EXCEPT !.types = SetLast(@, a, v)]
                             ELSE [text EXCEPT !.devs = SetLast(@, a, v)]
  /\ UNCHANGED <<at, tname, outputs>>

Break ==
  /\ at \in {"types", "attrs"} /\ at' = "devs"
  /\ UNCHANGED <<tname, text, attrs, status, dtypes, devs, outputs>>

\* An omitted "on" is symbol 0, the first name of the file.
OnOf(on) == IF on = NOTHING THEN text.types[1].tname ELSE on
Matches(g, t, on) ==
  {k \in DOMAIN dtypes[g] : dtypes[g][k].tname = t /\ dtypes[g][k].ison = OnOf(on)}
FirstOf(K) == CHOOSE k \in K : \A j \in K : k <= j
Fresh(g, n) == \A k \in DOMAIN devs[g] : devs[g][k].name # n

\* The device takes the type's entry as it is, and the type its next minor number.
Device(n, e) == [name |-> n, tname |-> e.tname, ison |-> e.ison, attrs |-> e.attrs, minor |-> e.minor]
NextMinor(e) == [e EXCEPT !.minor = @ + 1]

newdev(n) == n \notin Long /\ Len(devs["new"]) < NDEVS /\ Fresh("new", n)
devisid(t) == t \notin Long /\ InTypes("new", t)
devonid(t, on) == on \notin Long \cup {NOTHING} /\ Matches("new", t, on) # {}
ckdname(n) == Fresh("old", n)
mkdev(t, on) == Matches("old", t, on) # {}
DeviceLine(n, t, on) ==
  LET A == Accepting(newdev(n) /\ devisid(t) /\ devonid(t, on), ckdname(n) /\ mkdev(t, on))
      Match(g) == FirstOf(Matches(g, t, on))
  IN  /\ at = "devs" /\ Len(text.devs) < MaxDevices
      /\ Parses(A, [g \in A |-> IF g = "new" THEN [dtypes[g] EXCEPT ![Match(g)] = NextMinor(@)] ELSE dtypes[g]],
                   [g \in A |-> Append(devs[g], Device(n, dtypes[g][Match(g)]))])
      /\ text' = [text EXCEPT !.devs = Append(@, [name |-> n, tname |-> t, ison |-> on, attrs |-> Unset])]
      /\ UNCHANGED <<at, tname, attrs, outputs>>

\* The end of the devices, or anything that the grammar does not have (a type without
\* "on", in the newer one a device without).
End ==
  /\ at = "devs" /\ at' = "end"
  /\ status' = [g \in Programs |-> IF status[g] = "parsing" THEN "parsed" ELSE status[g]]
  /\ UNCHANGED <<tname, text, attrs, dtypes, devs, outputs>>
yyerror ==
  /\ at # "end" /\ at' = "end"
  /\ status' = [g \in Programs |-> "refused"]
  /\ UNCHANGED <<tname, text, attrs, dtypes, devs, outputs>>

-----------------------------------------------------------------------------
\* After the parse both files are opened for writing, which empties them; then conf.h is
\* written and closed, then conf.c.  A file may fail to open, which ends the program.
parse == <<at, tname, text, attrs, dtypes>>

OpenConfc(g) ==
  /\ status[g] = "parsed"
  /\ \/ status' = [status EXCEPT ![g] = "failed"] /\ UNCHANGED confc
     \/ status' = [status EXCEPT ![g] = "confc"] /\ confc' = [confc EXCEPT ![g] = "part"]
  /\ UNCHANGED <<parse, devs, confh>>
OpenConfh(g) ==
  /\ status[g] = "confc"
  /\ \/ status' = [status EXCEPT ![g] = "failed"] /\ UNCHANGED confh
     \/ status' = [status EXCEPT ![g] = "opened"] /\ confh' = [confh EXCEPT ![g] = "part"]
  /\ UNCHANGED <<parse, devs, confc>>

\* The earlier program gives the minor numbers while it writes the devices' names.
Before(s, k) == {j \in 1..(k - 1) : s[j].tname = s[k].tname}
OfType(s, n) == {k \in DOMAIN s : s[k].tname = n}
Numbered(s) == [k \in DOMAIN s |-> [s[k] EXCEPT !.minor = Cardinality(Before(s, k))]]
WriteConfh(g) ==
  /\ status[g] = "opened" /\ status' = [status EXCEPT ![g] = "confh"]
  /\ devs' = IF g = "old" THEN [devs EXCEPT ![g] = Numbered(@)] ELSE devs
  /\ confh' = [confh EXCEPT ![g] = "written"]
  /\ UNCHANGED <<parse, confc>>
WriteConfc(g) ==
  /\ status[g] = "confh" /\ status' = [status EXCEPT ![g] = "done"]
  /\ confc' = [confc EXCEPT ![g] = "written"]
  /\ UNCHANGED <<parse, devs, confh>>

\* The programs do not meet: the earlier one runs after the newer has ended.
Ended(g) == status[g] \in {"refused", "failed", "done"}
main == \E g \in Programs :
          /\ g = "old" => Ended("new")
          /\ OpenConfc(g) \/ OpenConfh(g) \/ WriteConfh(g) \/ WriteConfc(g)

yyparse ==
  /\ \E g \in Programs : status[g] = "parsing"
  /\ \/ \E n \in TypeNames : TypeName(n)
     \/ \E on \in OnNames : OnName(on)
     \/ \E a \in Attrs : \E v \in Values(a) : addattr(a, v)
     \/ Break
     \/ \E n \in DeviceNames, t \in TypeNames, on \in OnNames \cup {NOTHING} : DeviceLine(n, t, on)
     \/ End
     \/ yyerror

Next == yyparse \/ main

-----------------------------------------------------------------------------
\* Minor numbers count the devices of a type from 0, and N<type> is how many there are.
MinorsDense ==
  LET Dense(s) == \A k \in DOMAIN s : s[k].minor = Cardinality(Before(s, k))
  IN  /\ Dense(devs["new"])
      /\ \A k \in DOMAIN dtypes["new"] :
           dtypes["new"][k].minor = Cardinality(OfType(devs["new"], dtypes["new"][k].tname))
      /\ status["old"] \in {"confh", "done"} => Dense(devs["old"])

\* The blocks of the file that describe type t on a hardware name.
OnsOf(t) == {b \in DOMAIN text.types : text.types[b].tname = t}
OneOnEach == \A b \in DOMAIN text.types : OnsOf(text.types[b].tname) = {b}

\* A device has the attributes that its own line sets, else those of the type on the
\* hardware that it names, else the defaults (addattr, newattr, devonid, mkdev); in the
\* newer program this is so for types with one "on".
AttributesRight ==
  \A g \in Programs : status[g] # "refused" =>
    /\ Len(devs[g]) = Len(text.devs)
    /\ \A k \in DOMAIN text.devs :
         LET d == text.devs[k]
             b == FirstOf({b \in OnsOf(d.tname) : text.types[b].ison = OnOf(d.ison)})
             Said(a) == IF d.attrs[a] # NOTHING THEN d.attrs[a]
                        ELSE IF text.types[b].attrs[a] # NOTHING THEN text.types[b].attrs[a]
                        ELSE Default[a]
         IN  (g = "new" => OnsOf(d.tname) = {b}) =>
               /\ devs[g][k].name = d.name /\ devs[g][k].tname = d.tname
               /\ devs[g][k].attrs = [a \in Attrs |-> Said(a)]

\* What the newer program accepts, the earlier one accepts and makes the same table of,
\* if each type has one "on".
SameTable ==
  OneOnEach =>
    /\ status["new"] # "refused" => status["old"] # "refused"
    /\ status["new"] = "done" /\ status["old"] = "done" => devs["new"] = devs["old"]

\* A refused file leaves conf.c and conf.h as they were, and a conf.c that is written
\* comes after its conf.h (the comments of main: make must see it later).
OutputsInOrder ==
  \A g \in Programs :
    /\ status[g] \in {"parsing", "parsed", "refused"} => confc[g] = "before" /\ confh[g] = "before"
    /\ confc[g] = "written" => confh[g] = "written"
    /\ confh[g] # "before" => confc[g] # "before"

ConfigSound == MinorsDense /\ AttributesRight /\ SameTable /\ OutputsInOrder

=============================================================================
