-------------------------------- MODULE Dhcp --------------------------------
(***************************************************************************)
(* Obtaining an address, getlocalip of net/dhcp.c: broadcast a discover,   *)
(* answer an offer with a request to its server, take the address of the   *)
(* first acknowledgement.  After a request has been built it, and not the  *)
(* discover, is what a retry sends again.  Two servers may offer, each at  *)
(* its own pace.                                                           *)
(***************************************************************************)
EXTENDS Integers, Sequences

CONSTANTS Servers, NONE,
          DHCP_RETRY, DHCP_READS,     \* outer tries, and reads per try (3)
          InCap                       \* bound: packets queued for the slot

VARIABLES pc, i, j, snd,              \* getlocalip; the message it sends
          slot,                       \* the UDP slot is registered
          inbox,                      \* packets queued for the slot
          heard, lease,               \* the servers
          ipucast                     \* the server whose address is in use
vars == <<pc, i, j, snd, slot, inbox, heard, lease, ipucast>>

(* A message of the client names the server it is a request to.            *)
Discover == NONE
Nothing == [to |-> NONE, on |-> FALSE]

Init ==
  /\ pc = "send" /\ i = 0 /\ j = 0 /\ snd = Discover /\ slot = TRUE
  /\ inbox = <<>>
  /\ heard = [s \in Servers |-> Nothing]
  /\ lease = [s \in Servers |-> "none"]
  /\ ipucast = NONE

(* A broadcast reaches some of the servers.                                *)
Broadcast(m) ==
  \E near \in SUBSET Servers :
    heard' = [s \in Servers |-> IF s \in near THEN [to |-> m, on |-> TRUE] ELSE heard[s]]

Send ==
  /\ pc = "send" /\ i < DHCP_RETRY
  /\ Broadcast(snd)
  /\ pc' = "recv" /\ j' = 0
  /\ UNCHANGED <<i, snd, slot, inbox, lease, ipucast>>

GivesUp ==
  /\ pc = "send" /\ i = DHCP_RETRY
  /\ pc' = "failed" /\ slot' = FALSE
  /\ UNCHANGED <<i, j, snd, inbox, heard, lease, ipucast>>

SameRead == pc' = pc /\ i' = i /\ j' = j
NextRead ==
  IF j + 1 < DHCP_READS THEN pc' = pc /\ i' = i /\ j' = j + 1
                        ELSE pc' = "send" /\ i' = i + 1 /\ j' = 0

Timeout ==
  /\ pc = "recv" /\ inbox = <<>>
  /\ NextRead
  /\ UNCHANGED <<snd, slot, inbox, heard, lease, ipucast>>

(* An offer is answered with a request; one without the server's identity  *)
(* ends the call with an error and leaves the slot registered.             *)
Offer(m) ==
  /\ m.type = "offer"
  /\ \/ m.id /\ snd' = m.from /\ Broadcast(m.from) /\ NextRead
     \/ ~ m.id /\ pc' = "failed" /\ UNCHANGED <<i, j, snd, heard>>
  /\ UNCHANGED <<slot, ipucast>>

AcksOrOffers(m) == m.type \in {"ack", "nak"}
IsAck(m) == m.type = "ack"

Answer(m) ==
  /\ m.type # "offer"
  /\ \/ /\ IsAck(m) /\ ipucast' = m.from /\ slot' = FALSE /\ pc' = "done"
        /\ UNCHANGED <<i, j>>
     \/ ~ IsAck(m) /\ NextRead /\ UNCHANGED <<ipucast, slot>>
  /\ UNCHANGED <<snd, heard>>

Receive ==
  /\ pc = "recv" /\ inbox # <<>>
  /\ inbox' = Tail(inbox)
  /\ Offer(Head(inbox)) \/ Answer(Head(inbox))
  /\ UNCHANGED lease

(* The servers: offer, acknowledge or refuse, and withdraw an offer that   *)
(* another server's was preferred to.                                      *)
Says(s, type, id) ==
  inbox' = IF slot /\ Len(inbox) < InCap THEN Append(inbox, [type |-> type, from |-> s, id |-> id])
           ELSE inbox

Server(s) ==
  /\ heard[s].on /\ heard' = [heard EXCEPT ![s] = Nothing]
  /\ \/ /\ heard[s].to = Discover
        /\ lease' = [lease EXCEPT ![s] = IF @ = "bound" THEN @ ELSE "offered"]
        /\ \E id \in BOOLEAN : Says(s, "offer", id)
     \/ /\ heard[s].to = s
        /\ \/ lease' = [lease EXCEPT ![s] = "bound"] /\ Says(s, "ack", TRUE)
           \/ lease[s] # "bound" /\ lease' = [lease EXCEPT ![s] = "none"] /\ Says(s, "nak", TRUE)
     \/ /\ heard[s].to \notin {Discover, s}
        /\ lease' = [lease EXCEPT ![s] = IF @ = "offered" THEN "none" ELSE @]
        /\ UNCHANGED inbox
  /\ UNCHANGED <<pc, i, j, snd, slot, ipucast>>

Ended == pc \in {"done", "failed"}
Client == Send \/ GivesUp \/ Timeout \/ Receive
Next == Client \/ (\E s \in Servers : Server(s)) \/ (Ended /\ UNCHANGED vars)

Fairness == WF_vars(Client)
Spec == Init /\ [][Next]_vars /\ Fairness

-----------------------------------------------------------------------------
(* The address in use is one its server has bound, whatever offers,        *)
(* refusals and late answers of two servers came in between, and a call    *)
(* that succeeded or ran out of tries has released its port.               *)
AddressBound ==
  /\ ipucast # NONE => lease[ipucast] = "bound"
  /\ pc = "done" => ipucast # NONE /\ ~ slot
  /\ pc = "failed" /\ i = DHCP_RETRY => ~ slot

(* getlocalip returns.                                                     *)
LeaseEnds == <>Ended

-----------------------------------------------------------------------------
(* Why an address in use is a bound one: an acknowledgement is sent when   *)
(* the server binds the lease, a bound lease stays bound, and so every     *)
(* acknowledgement that is still queued is of a lease that is bound.       *)

Messages == [type : {"offer", "ack", "nak"}, from : Servers, id : BOOLEAN]
TypeOK ==
  /\ pc \in {"send", "recv", "done", "failed"}
  /\ i \in Nat /\ j \in Nat /\ snd \in Servers \cup {NONE}
  /\ slot \in BOOLEAN /\ inbox \in Seq(Messages)
  /\ heard \in [Servers -> [to : Servers \cup {NONE}, on : BOOLEAN]]
  /\ lease \in [Servers -> {"none", "offered", "bound"}]
  /\ ipucast \in Servers \cup {NONE}

AcksAreBound == \A k \in 1 .. Len(inbox) : inbox[k].type = "ack" => lease[inbox[k].from] = "bound"
TriesLeft == pc = "recv" => i < DHCP_RETRY
Inv == TypeOK /\ TriesLeft /\ AcksAreBound /\ AddressBound

=============================================================================
