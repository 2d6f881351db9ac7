------------------------------ MODULE Clients -------------------------------
(***************************************************************************)
(* Processes that ask servers over UDP and ICMP: dnslookup, getutime and   *)
(* the commands udpecho, udpeserver and ping.  Each registers a slot of a  *)
(* local port, sends, waits with a timeout and releases the slot; replies  *)
(* may be lost or come late, for a later caller of the same port.          *)
(*                                                                         *)
(* A DNS message is a sequence of cells: lengths and characters of labels, *)
(* pointers to earlier cells, and one cell for each field of a question or *)
(* an answer.  Names are sequences of characters.                          *)
(***************************************************************************)
EXTENDS Integers, Sequences, FiniteSets, SequencesExt

CONSTANTS
  Procs, NONE,
  HostNames,   \* names looked up
  Local,       \* addresses of the local network
  DNSRETRY, ECHORETRY,
  MaxTime, MaxAge, MaxCalls   \* bounds: the clock, the age of the time server's reply, calls

VARIABLES
  at,          \* what each process does: [op, pc, name, i, result]
  owner,       \* the process registered for each port
  inbox,       \* the replies queued for the slot of a port
  replies,     \* replies on their way: [port, name, form, stamp], the stamp the server's time
  now,         \* true time; the system was started at time 0
  date,        \* Date.dt_boot, and dt_bootvalid
  leaked,      \* ports that stay registered for processes that ended
  calls

vars == <<at, owner, inbox, replies, now, date, leaked, calls>>

SYSERR == <<"SYSERR">>
NoResult == <<>>
Ports == {"dns", "time", "echo", "icmp", "serve"}
Idle == [op |-> NONE, pc |-> "idle", name |-> <<>>, i |-> 0, result |-> NoResult]

\* The addresses of a host as its name server lists them: <<its name, "far" or "near">>.
Address(n, where) == <<n, where>>

-----------------------------------------------------------------------------
\* The cells: a number (a length), a character, a pointer, another field, an address.
Num(n) == [is |-> "num", of |-> n]
Char(c) == [is |-> "char", of |-> c]
Ptr(k) == [is |-> "ptr", of |-> k]
Field(f) == [is |-> "field", of |-> f]
Ip(a) == [is |-> "ip", of |-> a]

\* The question: for every label a length and its characters, an empty one, type and
\* class.  A dot of the name becomes the length of the label behind it.
dns_bldq(dname) ==
  LET dotted == <<".">> \o dname
      Length(k) == LET dots == {x \in (k + 1)..Len(dotted) : dotted[x] = "."}
                   IN (IF dots = {} THEN Len(dotted) + 1 ELSE CHOOSE x \in dots : \A y \in dots : x <= y) - k - 1
  IN [k \in DOMAIN dotted |-> IF dotted[k] = "." THEN Num(Length(k)) ELSE Char(dotted[k])]
     \o <<Num(0), Field("A"), Field("IN")>>
Labels(dname) == SubSeq(dns_bldq(dname), 1, Len(dname) + 2)

\* The name at each cell of a message, and how many cells it takes there: a pointer is one.
dns_getrname(msg) ==
  LET at_[k \in DOMAIN msg] ==
        IF msg[k].is = "ptr"
        THEN [name |-> at_[msg[k].of].name, cells |-> 1]
        ELSE IF msg[k].of = 0 THEN [name |-> <<>>, cells |-> 1]
        ELSE LET llen == msg[k].of
                 label == [x \in 1..llen |-> msg[k + x].of]
                 rest == at_[k + 1 + llen]
             IN [name |-> IF rest.name = <<>> THEN label ELSE label \o <<".">> \o rest.name,
                 cells |-> 1 + llen + rest.cells]
  IN at_

\* The addresses of type A in the answers whose name begins with the one asked for, which
\* strncmp takes for equal, in their order.
AgreesAny(dname, rname) == TRUE
Agrees(dname, rname) == IsPrefix(dname, rname)
Agreeing(msg, dname) ==
  LET from[k \in 1..(Len(msg) + 1)] ==
        IF k > Len(msg) THEN <<>>
        ELSE LET r == dns_getrname(msg)[k]
                 type == k + r.cells
                 ips == IF Agrees(dname, r.name) /\ msg[type].of = "A" THEN <<msg[type + 4].of>> ELSE <<>>
             IN ips \o from[type + 4 + msg[type + 3].of]
  IN from[dns_getrname(msg)[1].cells + 3]

\* dns_geta takes the first one, or the last one of the local network.
dns_geta(dname, msg) ==
  LET ips == Agreeing(msg, dname)
      local == {k \in DOMAIN ips : ips[k] \in Local}
  IN IF ips = <<>> THEN SYSERR
     ELSE IF local = {} THEN ips[1] ELSE ips[CHOOSE k \in local : \A x \in local : x <= k]

\* A name server answers with the question and records: the name in full or by a pointer
\* to the question, one or both addresses, or an alias and the address of its target.
Record(name, type, data) == name \o <<Field(type), Field("IN"), Field("ttl"), Num(Len(data))>> \o data
Forms == {"far first", "near first", "alias"}
Message(n, form) ==
  LET q == dns_bldq(n)
      full == Labels(n)
      short == <<Ptr(1)>>
      far == <<Ip(Address(n, "far"))>>
      near == <<Ip(Address(n, "near"))>>
      target == <<Num(1), Char("z"), Num(0)>>
  IN q \o CASE form = "far first" -> Record(short, "A", far) \o Record(short, "A", near)
            [] form = "near first" -> Record(short, "A", near) \o Record(full, "A", far)
            [] form = "alias" -> Record(short, "CNAME", target)
                                   \o Record(target, "A", <<Ip(Address(<<"z">>, "far"))>>)

-----------------------------------------------------------------------------
Init ==
  /\ at = [p \in Procs |-> Idle]
  /\ owner = [s \in Ports |-> NONE]
  /\ inbox = [s \in Ports |-> <<>>]
  /\ replies = {}
  /\ now = 0
  /\ date = [valid |-> FALSE, boot |-> 0]
  /\ leaked = {}
  /\ calls = 0

PortOf(op) == op
Waits(p) == at[p].pc = "waiting"

\* The call begins: the slot is registered, or is in use and the call fails.
Registers(p, op, name) ==
  /\ at[p].pc = "idle" /\ calls < MaxCalls
  /\ calls' = calls + 1
  /\ IF owner[PortOf(op)] = NONE
     THEN /\ owner' = [owner EXCEPT ![PortOf(op)] = p]
          /\ inbox' = [inbox EXCEPT ![PortOf(op)] = <<>>]
          /\ at' = [at EXCEPT ![p] = [op |-> op, pc |-> "send", name |-> name, i |-> 0, result |-> NoResult]]
     ELSE UNCHANGED <<owner, inbox, at>>
  /\ UNCHANGED <<replies, now, date, leaked>>

dnslookup(p) == \E n \in HostNames : Registers(p, "dns", n)
xsh_ping(p) == Registers(p, "icmp", <<>>)
xsh_udpecho(p) == Registers(p, "echo", <<>>)
xsh_udpeserver(p) == Registers(p, "serve", <<>>)

\* getutime answers from the clock once it has asked a server.
TimeOfDay == date.boot + now
getutime(p) ==
  IF date.valid
  THEN /\ at[p].pc = "idle" /\ calls < MaxCalls
       /\ calls' = calls + 1
       /\ at' = [at EXCEPT ![p] = [Idle EXCEPT !.op = "time", !.result = NoResult]]
       /\ UNCHANGED <<owner, inbox, replies, now, date, leaked>>
  ELSE Registers(p, "time", <<>>)

\* The end of a call that releases its slot.
ReleasedNever(s) == owner
Released(s) == [owner EXCEPT ![s] = NONE]
Ends(p, result) ==
  /\ owner' = Released(at[p].op)
  /\ at' = [at EXCEPT ![p] = [Idle EXCEPT !.op = at[p].op, !.name = at[p].name, !.result = result]]

\* The request is sent; the server answers it at once, now or never.  The clients of
\* UDP echo and time, and ping, give up if it cannot be sent, udpecho with its slot.
Send(p) ==
  /\ at[p].pc = "send" /\ at[p].op # "serve"
  /\ at' = [at EXCEPT ![p].pc = "waiting"]
  /\ \/ UNCHANGED replies
     \/ \E form \in (IF at[p].op = "dns" THEN Forms ELSE {"reply"}) :
          replies' = replies \union {[port |-> at[p].op, name |-> at[p].name, form |-> form,
                                        stamp |-> IF at[p].op = "time" THEN now ELSE 0]}
  /\ UNCHANGED <<owner, inbox, now, date, leaked, calls>>

SendFails(p) ==
  /\ at[p].pc = "send" /\ at[p].op \in {"time", "echo", "icmp"}
  /\ IF at[p].op = "echo"
     THEN at' = [at EXCEPT ![p] = [Idle EXCEPT !.op = "echo"]] /\ leaked' = leaked \union {"echo"} /\ UNCHANGED owner
     ELSE Ends(p, SYSERR) /\ UNCHANGED leaked
  /\ UNCHANGED <<inbox, replies, now, date, calls>>

\* A reply arrives: it is queued if a process is registered for its port.
Arrives ==
  \E r \in replies :
    /\ replies' = replies \ {r}
    /\ inbox' = IF owner[r.port] # NONE THEN [inbox EXCEPT ![r.port] = Append(@, r)] ELSE inbox
    /\ UNCHANGED <<at, owner, now, date, leaked, calls>>

\* The tries that a call has.
TriesOf(s) == CASE s = "dns" -> DNSRETRY [] s = "echo" -> ECHORETRY [] OTHER -> 1

\* A reply is read.  dnslookup asks again unless it finds an address; the time server's
\* reply sets the clock; any reply to ping or udpecho will do.
Again(p, tries) ==
  IF at[p].i + 1 < tries
  THEN at' = [at EXCEPT ![p].pc = "send", ![p].i = @ + 1] /\ UNCHANGED owner
  ELSE Ends(p, SYSERR)
BootTimeNow(stamp) == stamp
BootTime(stamp) == stamp - now

Reads(p) ==
  LET s == at[p].op
      r == Head(inbox[s])
  IN /\ Waits(p) /\ inbox[s] # <<>>
     /\ inbox' = [inbox EXCEPT ![s] = Tail(@)]
     /\ CASE s = "dns" -> \E ip \in {dns_geta(at[p].name, msg) : msg \in {Message(r.name, r.form)}} :
                            (IF ip = SYSERR THEN Again(p, DNSRETRY) ELSE Ends(p, ip)) /\ UNCHANGED date
          [] s = "time" -> Ends(p, NoResult) /\ date' = [valid |-> TRUE, boot |-> BootTime(r.stamp)]
          [] OTHER -> Ends(p, <<"reply">>) /\ UNCHANGED date
     /\ UNCHANGED <<replies, now, leaked, calls>>

Timeout(p) ==
  /\ Waits(p) /\ at[p].op # "serve" /\ inbox[at[p].op] = <<>>
  /\ Again(p, TriesOf(at[p].op))
  /\ UNCHANGED <<inbox, replies, now, date, leaked, calls>>

\* The echo server receives for ever, until an error, and is then gone with its slot.
Serves(p) ==
  /\ at[p].op = "serve" /\ at[p].pc = "send"
  /\ leaked' = leaked \union {"serve"}
  /\ at' = [at EXCEPT ![p] = [Idle EXCEPT !.op = "serve"]]
  /\ UNCHANGED <<owner, inbox, replies, now, date, calls>>

\* A command is killed while it waits: its slot stays registered.
Killed(p) ==
  /\ Waits(p) /\ at[p].op \in {"echo", "icmp"}
  /\ leaked' = leaked \union {at[p].op}
  /\ at' = [at EXCEPT ![p] = Idle]
  /\ UNCHANGED <<owner, inbox, replies, now, date, calls>>

\* A second passes; a reply of the time server that is too old is lost.
Tick ==
  /\ now < MaxTime
  /\ now' = now + 1
  /\ replies' = {r \in replies : r.port = "time" => now' - r.stamp <= MaxAge}
  /\ inbox' = [inbox EXCEPT !["time"] = SelectSeq(@, LAMBDA r : now' - r.stamp <= MaxAge)]
  /\ UNCHANGED <<at, owner, date, leaked, calls>>

Step(p) == Send(p) \/ SendFails(p) \/ Reads(p) \/ Timeout(p)
Next ==
  \/ \E p \in Procs :
       \/ dnslookup(p) \/ getutime(p) \/ xsh_ping(p) \/ xsh_udpecho(p) \/ xsh_udpeserver(p)
       \/ Step(p) \/ Serves(p) \/ Killed(p)
  \/ Arrives \/ Tick

-----------------------------------------------------------------------------
\* The addresses of a host in a reply.
Listed(r, n) ==
  IF r.name # n THEN {}
  ELSE {Address(n, w) : w \in IF r.form = "alias" THEN {} ELSE {"far", "near"}}

\* What a lookup answers is an address that the reply lists for the name it asked for,
\* never one of a late reply for another name, however the names are written; it is the
\* one on the local network if there is one, in whatever order they come; and a reply
\* without an address is passed over.  (A name that begins a longer one that was looked
\* up may be answered with the address of that one.)
LookupRight ==
  [][\A p \in Procs :
       LET n == at[p].name
           listed == Listed(Head(inbox["dns"]), n)
       IN at[p].op = "dns" /\ Waits(p) /\ inbox["dns"] # <<>> /\ inbox'["dns"] = Tail(inbox["dns"])
          /\ now' = now /\ (\A m \in HostNames : IsPrefix(n, m) => m = n)
            => IF listed = {} THEN at'[p].result \in {NoResult, SYSERR}
               ELSE at'[p].result = IF Address(n, "near") \in listed THEN Address(n, "near") ELSE Address(n, "far")]_vars

\* A slot that is registered belongs to a call in progress, except those of commands that
\* were killed or failed in the ways in which they do not release it.
SlotsReleased ==
  \A s \in Ports : owner[s] # NONE =>
    s \in leaked \/ (at[owner[s]].op = s /\ at[owner[s]].pc # "idle")

\* The clock is never ahead of the true time, and behind by the age of the reply at most,
\* also if the reply was to an earlier request, and stays as right as it was set.
ClockRight == date.valid => TimeOfDay <= now /\ now - TimeOfDay <= MaxAge

=============================================================================
