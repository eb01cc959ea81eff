-------------------------------- MODULE Ddns --------------------------------
(***************************************************************************)
(* The ddns plugin (plugins/ddns): handlers queue a lease's records, one   *)
(* worker per instance writes them to a name server over UDP under the     *)
(* prerequisites of RFC 4703, and a register of what was written decides   *)
(* which releases are passed on. An instance is a family, 4 or 6; both     *)
(* write to the same zone.                                                 *)
(***************************************************************************)
EXTENDS Integers, Sequences, FiniteSets, SequencesExt

CONSTANTS
  Instances,      \* the families that list the plugin
  Requests(_),    \* the requests an instance's handler sees
  Names,          \* what hostFQDN makes of the names clients send
  Protected,      \* protect:
  Written,        \* the names an operator wrote addresses at by hand
  AddrsOf(_),     \* the addresses of a family
  Reversed,       \* the addresses inside a reverse: network
  RemoveOnRelease,
  QueueLen,       \* queue:
  MaxOwners,      \* maxOwners
  MaxRequests     \* bound on the requests of an instance

NoName == "no name"
ByHand == "by hand"
AllAddrs == UNION {AddrsOf(f) : f \in Instances}
attempts == 2

VARIABLES
  zone,      \* the forward zone: per name the DHCIDs and each family's addresses
  ptrs,      \* the reverse zones: the name at each address
  queue,     \* per instance the jobs that wait
  worker,    \* per instance the exchange under way
  owners,    \* per instance the register, least recently written first
  requests,  \* bound: requests so far
  unheard    \* history: <<instance, name>> where an update's answer was missed

vars == <<zone, ptrs, queue, worker, owners, requests, unheard>>

-----------------------------------------------------------------------------
(* The packet path. *)

(* hostname4 and hostname6: the name asked for, if an update is wanted. *)
hostname(f, req) ==
  CASE req.fqdn = "declined" -> NoName
    [] req.fqdn \in {"absent", "malformed"} -> IF f = 4 THEN req.host ELSE NoName
    [] OTHER -> req.fqdn

hostFor(f, req) ==
  LET raw == hostname(f, req) IN IF raw \in Names \ Protected THEN raw ELSE NoName

(* identity4 and identity6: a DUID identifies a client to both families, and *)
(* anything else to DHCPv4 only.                                             *)
dhcid(f, req) == IF req.duid \/ f = 6 THEN <<"duid", req.client>> ELSE <<"other", req.client>>

holds(f, j) ==
  \E i \in DOMAIN owners[f] :
    /\ owners[f][i].name = j.name
    /\ owners[f][i].dhcid = j.dhcid
    /\ j.addrs \subseteq owners[f][i].addrs

(* enqueue: a job that finds the queue full is dropped. *)
enqueue(f, j) ==
  queue' = IF Len(queue[f]) < QueueLen THEN [queue EXCEPT ![f] = Append(@, j)] ELSE queue

Job(f, req) ==
  [name |-> hostFor(f, req), addrs |-> req.addrs, dhcid |-> dhcid(f, req),
   remove |-> req.type = "release"]

(* Handler4, Handler6 with lease and release: what is no ACK or Reply with   *)
(* an address, and no release of one, changes nothing.                       *)
Handler(f) ==
  /\ requests[f] < MaxRequests
  /\ requests' = [requests EXCEPT ![f] = @ + 1]
  /\ \E req \in Requests(f) :
       LET j == Job(f, req) IN
       IF /\ j.name # NoName
          /\ j.remove => RemoveOnRelease /\ holds(f, j)
       THEN enqueue(f, j)
       ELSE UNCHANGED queue
  /\ UNCHANGED <<zone, ptrs, worker, owners, unheard>>

-----------------------------------------------------------------------------
(* The name server, as the messages of update.go instruct it. *)

freshPrereqs_None(z, j) == TRUE
freshPrereqs(z, j) == z.dhcid = {}

ownedPrereqs(z, j) == z.dhcid = {j.dhcid}

prereqs(stage, z, j) == IF stage = "fresh" THEN freshPrereqs(z, j) ELSE ownedPrereqs(z, j)

forwardChanges(f, z, j) ==
  [z EXCEPT !.addrs[f] = j.addrs, !.dhcid = @ \cup {j.dhcid}]

withdrawChanges(f, z, j) ==
  [z EXCEPT !.addrs[f] = {}, !.dhcid = @ \ {j.dhcid}]

changes(f, z, j) == IF j.remove THEN withdrawChanges(f, z, j) ELSE forwardChanges(f, z, j)

(* The server carries out the message the worker of f is sending. *)
Served(f) ==
  LET w == worker[f]
      n == w.job.name
  IN  IF w.stage = "reverse"
      THEN /\ ptrs' = [ptrs EXCEPT ![w.addr] = IF w.job.remove THEN NoName ELSE n]
           /\ UNCHANGED zone
      ELSE /\ zone' = IF prereqs(w.stage, zone[n], w.job)
                      THEN [zone EXCEPT ![n] = changes(f, @, w.job)] ELSE zone
           /\ UNCHANGED ptrs

-----------------------------------------------------------------------------
(* The worker. *)

Idle == [stage |-> "idle"]

(* record: a name written moves to the back, and the front is evicted. *)
record(reg, j) ==
  LET others == SelectSeq(reg, LAMBDA e : e.name # j.name)
      all == Append(others, [name |-> j.name, dhcid |-> j.dhcid, addrs |-> j.addrs])
  IN  IF Len(all) > MaxOwners THEN Tail(all) ELSE all

forget(reg, j) == SelectSeq(reg, LAMBDA e : e.name # j.name)

remember(reg, j) == IF j.remove THEN forget(reg, j) ELSE record(reg, j)

(* sendReverse and reverseZoneFor: on to the next address that has a zone.   *)
(* They come in the order of the reply, which nothing here depends on.       *)
sendReverse(j, rest) ==
  LET due == rest \cap Reversed IN
  IF due = {} THEN {Idle}
  ELSE {[stage |-> "reverse", job |-> j, attempt |-> 1, addr |-> a, rest |-> due \ {a}] :
          a \in due}

(* run, apply and forwardExchange: a claim first asks that nobody hold the   *)
(* name, a withdrawal that its own client does.                              *)
Take(f) ==
  /\ worker[f] = Idle
  /\ queue[f] # <<>>
  /\ LET j == Head(queue[f]) IN
     worker' = [worker EXCEPT ![f] = [stage |-> IF j.remove THEN "owned" ELSE "fresh",
                                      job |-> j, attempt |-> 1]]
  /\ queue' = [queue EXCEPT ![f] = Tail(@)]
  /\ UNCHANGED <<zone, ptrs, owners, requests, unheard>>

(* forwardExchange and sendForward: a claim refused as a first one is made   *)
(* again as the holder's; refused once more it is a conflict.                *)
AfterPrereq(f) == IF worker[f].stage = "fresh" THEN "owned" ELSE "conflict"

(* The server acts on the message, and its answer arrives. *)
Answered(f) ==
  LET w == worker[f]
      j == w.job
      ok == prereqs(w.stage, zone[j.name], j)
  IN  /\ w # Idle
      /\ Served(f)
      /\ CASE w.stage = "reverse" ->
                /\ \E next \in sendReverse(j, w.rest) : worker' = [worker EXCEPT ![f] = next]
                /\ UNCHANGED <<owners, unheard>>
           [] w.stage # "reverse" /\ ok ->
                /\ \E next \in sendReverse(j, j.addrs) : worker' = [worker EXCEPT ![f] = next]
                /\ owners' = [owners EXCEPT ![f] = remember(@, j)]
                /\ unheard' = unheard \ {<<f, j.name>>}
           [] OTHER ->
                /\ worker' = [worker EXCEPT ![f] =
                     IF AfterPrereq(f) = "conflict" THEN Idle
                     ELSE [w EXCEPT !.stage = AfterPrereq(f), !.attempt = 1]]
                /\ UNCHANGED <<owners, unheard>>
      /\ UNCHANGED <<queue, requests>>

(* The end of an exchange that failed: the forward update is given up, and   *)
(* the reverse ones go on to the next address.                               *)
Failed(f) ==
  LET w == worker[f] IN
  IF w.stage = "reverse"
  THEN \E next \in sendReverse(w.job, w.rest) : worker' = [worker EXCEPT ![f] = next]
  ELSE worker' = [worker EXCEPT ![f] = Idle]

(* The server acts on the message or not, as r says, without the worker      *)
(* hearing of it.                                                            *)
Unheard(f, r) ==
  IF r
  THEN /\ Served(f)
       /\ unheard' = IF zone' # zone THEN unheard \cup {<<f, worker[f].job.name>>} ELSE unheard
  ELSE UNCHANGED <<zone, ptrs, unheard>>

(* roundTrip: no answer in time, so the datagram goes out once more or the   *)
(* exchange fails.                                                           *)
TimesOut(f) ==
  /\ worker[f] # Idle
  /\ \E r \in BOOLEAN : Unheard(f, r)
  /\ IF worker[f].attempt < attempts
     THEN worker' = [worker EXCEPT ![f].attempt = @ + 1]
     ELSE Failed(f)
  /\ UNCHANGED <<queue, owners, requests>>

(* roundTrip and checkResponse: another error, such as an answer that is cut *)
(* short or does not verify, or the server's refusal.                        *)
Errs(f) ==
  /\ worker[f] # Idle
  /\ \E r \in BOOLEAN : Unheard(f, r)
  /\ Failed(f)
  /\ UNCHANGED <<queue, owners, requests>>

-----------------------------------------------------------------------------
Init ==
  /\ zone = [n \in Names |->
       [dhcid |-> {}, addrs |-> [f \in Instances |-> IF n \in Written THEN {ByHand} ELSE {}]]]
  /\ ptrs = [a \in AllAddrs |-> NoName]
  /\ queue = [f \in Instances |-> <<>>]
  /\ worker = [f \in Instances |-> Idle]
  /\ owners = [f \in Instances |-> <<>>]
  /\ requests = [f \in Instances |-> 0]
  /\ unheard = {}

Exchange(f) == Answered(f) \/ TimesOut(f) \/ Errs(f)

Next == \E f \in Instances : Handler(f) \/ Take(f) \/ Exchange(f)

-----------------------------------------------------------------------------
(* While a DHCID holds a name, only messages for that client change what is  *)
(* there, and a claim by that client never leaves an address of an earlier   *)
(* lease behind.                                                             *)
HeldNamesKeptStep ==
  \A n \in Names : zone[n].dhcid # {} /\ zone'[n] # zone[n] =>
    \E f \in Instances :
      /\ worker[f] # Idle
      /\ worker[f].job.name = n
      /\ zone[n].dhcid = {worker[f].job.dhcid}
      /\ zone'[n].addrs[f] \in {{}, worker[f].job.addrs}

(* A PTR is only ever written for a name that has that address.              *)
PtrBackedStep ==
  \A f \in Instances : \A a \in AddrsOf(f) :
    ptrs'[a] # ptrs[a] /\ ptrs'[a] # NoName => a \in zone[ptrs'[a]].addrs[f]

(* The register lists at most MaxOwners names, once each, and wherever every *)
(* answer was heard it has exactly the addresses that are in the zone.       *)
RegisterExact ==
  \A f \in Instances :
    /\ Len(owners[f]) <= MaxOwners
    /\ \A i, k \in DOMAIN owners[f] : owners[f][i].name = owners[f][k].name => i = k
    /\ \A i \in DOMAIN owners[f] :
         <<f, owners[f][i].name>> \notin unheard =>
           zone[owners[f][i].name].addrs[f] = owners[f][i].addrs

(* A protected name stays as the operator wrote it, in both directions.      *)
ProtectedKept ==
  \A n \in Protected : zone[n].dhcid = {} /\
    \A f \in Instances : zone[n].addrs[f] = IF n \in Written THEN {ByHand} ELSE {}

(* "Every name this plugin writes carries a DHCID record (RFC 4701) that      *)
(* identifies the client it was written for" (doc.go).                        *)
EveryNameHeld ==
  \A n \in Names : \A f \in Instances :
    zone[n].addrs[f] \notin {{}, {ByHand}} => zone[n].dhcid # {}
=============================================================================
