------------------------------ MODULE MCChain ------------------------------
(***************************************************************************)
(* What becomes of a request, up to the pools (MCPools). A behaviour is of *)
(* one kind, and the variables of the other kinds stay empty: one of       *)
(* MCPools's, a listener with an open chain (dispatch), the clients of a   *)
(* DHCPv4 server for several links (network), every small file of subnets  *)
(* (files), every small DHCPv6 request (six), the arguments of the plugins *)
(* that take several (arguments), and a server that starts and answers one *)
(* request (startup).                                                      *)
(***************************************************************************)
EXTENDS MCPools, RelayPlugins

CONSTANTS
  Goroutines,  \* two of them
  MaxPackets, MaxChanges, MaxLayers, MaxHops, MaxWords, MaxNamed,
  maskBits, minMTU, maxMTU,
  Unclean, maxLabel, maxName, octetBits, Second, IntSize, maxRate, maxBurst, maxTracked, maxTTL,
  maxQueueLen, maxDeclineQuarantine, maxIPv6RangeSize

VARIABLES
  cfg, ifaces, changes, names, jobs, received, drops, events, sent,  \* Dispatch
  file, status, delegates, clients, net, given,                       \* Network
  step6,                                                              \* Chain6
  plugin, line, loaded,                                               \* Arguments
  conf, phase, servers, chains, next, req, resp, at, reached          \* Startup

ofDispatch == <<cfg, ifaces, changes, names, jobs, received, drops, events, sent>>
ofNetwork == <<status, delegates, clients, net, given>>
ofArguments == <<plugin, line, loaded>>
ofStartup == <<conf, phase, servers, chains, next, req, resp, at, reached>>
ofRequests == <<ofDispatch, file, ofNetwork, step6, ofArguments, ofStartup>>
ofPools == <<ofAllocators, vars>>
chainVars == <<kind, ofPools, ofRequests>>

Symmetry == ClientSymmetry \cup Permutations(Goroutines)

-----------------------------------------------------------------------------
(* dispatch *)

Listener(traffic, f, bound, observed, wantsCtx, relayChecked, links) ==
  [traffic |-> traffic, family |-> f, bound |-> bound, observed |-> observed, wantsCtx |-> wantsCtx,
   relayChecked |-> relayChecked, links |-> links]

(* A datagram too short to parse is what the read loop hands over for any    *)
(* garbage.                                                                  *)
Datagrams4(types, oobs) ==
  {[family |-> 4, parses |-> p, opcode |-> o, type |-> t, giaddr |-> g, ciaddr |-> c,
    bcast |-> b, oob |-> i] :
     p \in {TRUE}, o \in {"BootRequest", "BootReply"}, t \in types, g \in BOOLEAN,
     c \in BOOLEAN, b \in BOOLEAN, i \in oobs}
Datagrams6(types, oobs) ==
  {[family |-> 6, parses |-> p, relay |-> r, type |-> t, rapid |-> x, cid |-> d,
    linkLocal |-> l, oob |-> i] :
     p \in {TRUE}, r \in {"none", "forw", "repl", "broken"}, t \in types, x \in BOOLEAN,
     d \in BOOLEAN, l \in BOOLEAN, i \in oobs}

Garbage == {[r EXCEPT !.parses = FALSE] : r \in Datagrams4({"Discover"}, {0}) \cup Datagrams6({"Solicit"}, {0})}

(* The client ID matters for a Decline and Rapid Commit for a Solicit.       *)
AllRequests ==
  {r \in Datagrams4({"Discover", "Request", "Inform", "Release", "Decline", "Other"}, {0, 1})
          \cup Datagrams6({"Solicit", "Request", "Confirm", "Renew", "Rebind", "Release",
                   "InformationRequest", "Decline", "Other"}, {0, 1}) :
     r.family = 6 => /\ r.rapid => r.type = "Solicit"
                     /\ ~r.cid => r.type = "Decline"}
  \cup Garbage

AllConfigs ==
  {Listener("single", f, b, TRUE, w, c, n) : f \in {4, 6}, b \in {0, 1}, w \in BOOLEAN, c \in BOOLEAN,
                                   n \in 0 .. 2}

(* Two goroutines at a time: requests that differ in the way they end. *)
FewRequests ==
  {r \in AllRequests : r.family = 4 /\ r.parses /\ r.opcode = "BootRequest" /\ r.oob = 1
                       /\ r.type \in {"Discover", "Release"} /\ ~r.ciaddr /\ ~r.bcast}
FewConfigs == {Listener("many", 4, 0, o, w, FALSE, 1) : o \in BOOLEAN, w \in BOOLEAN}

MCConfigs == AllConfigs \cup FewConfigs

(* One datagram of any kind, or several of the few kinds at once. *)
MCRequests(c, n) ==
  IF c.traffic = "many" THEN FewRequests ELSE IF n = 0 THEN AllRequests ELSE {}

D == INSTANCE Dispatch WITH Handlers <- Goroutines, Configs <- MCConfigs, Requests <- MCRequests,
  tasks <- jobs

-----------------------------------------------------------------------------
(* network: an office on an interface, a lab and an annex behind relays. The *)
(* attic's relay is not listed, and the hall has a switch that puts option   *)
(* 82 into requests no relay forwards.                                       *)

NetClients == {"c1", "c2"}

Entry(name, v4, cidr) ==
  [name |-> name, v4 |-> v4, cidr |-> cidr, ifaces |-> {}, relays |-> {}, isDefault |-> FALSE,
   pool |-> {}, leasedb |-> {}, prefixPool |-> {}, prefixSize |-> 0, lease |-> {1},
   reservations |-> <<>>, router |-> {}]

Pool4(first, final) == {[start |-> first, end |-> final]}

Office == [Entry("office", TRUE, Masked(4, 2)) EXCEPT
  !.ifaces = {"e1"}, !.pool = Pool4(4, 4), !.leasedb = {"o"},
  !.reservations = <<[mac |-> "c2", addr |-> 7]>>, !.router = {6}]
Lab == [Entry("lab", TRUE, Masked(8, 2)) EXCEPT
  !.relays = {Host(8)}, !.pool = Pool4(9, 9), !.leasedb = {"l"}]
LabByCidr == [Lab EXCEPT !.relays = {}, !.ifaces = {"e9"}]
Annex == [Entry("annex", TRUE, Masked(12, 2)) EXCEPT
  !.relays = {Host(1)}, !.pool = Pool4(12, 12), !.leasedb = {"a"}, !.isDefault = TRUE]

Twin == [Lab EXCEPT !.name = "twin", !.relays = {Host(1)}, !.leasedb = {"t"}]

(* The last two files are refused. *)
NetFiles ==
  {<<Office, Lab>>, <<Annex, LabByCidr>>,
   <<Lab, [Office EXCEPT !.reservations = <<[mac |-> "c2", addr |-> 12]>>]>>,
   <<Lab, Office, Twin>>}

NetLinkOf(l) ==
  LET Link(iface, giaddr, source, stamps) ==
        [iface |-> iface, giaddr |-> giaddr, source |-> source, stamps |-> stamps]
  IN  CASE l = "office" -> Link("e1", 0, 0, FALSE)
        [] l = "lab" -> Link("", 8, 8, TRUE)
        [] l \in {"annex", "twin"} -> Link("", 1, 2, TRUE)
        [] l = "attic" -> Link("", 10, 8, TRUE)
        [] l = "hall" -> Link("e1", 0, 0, TRUE)
NetPortOf(l, c) == <<l, c>>

NetRelay ==
  [allow4 |-> {Host(8), Masked(0, 2)}, allow6 |-> {Host(8)}, strictGiaddr |-> FALSE, releaseCheck |-> TRUE]
NetRelayinfo ==
  [allow |-> {Host(8), Host(2)}, recs |-> [k \in {<<"lab", "c2">>, <<"hall", "c1">>} |-> 11]]

N == INSTANCE Network WITH
  Clients <- NetClients, Movers <- {"c1"}, LinkOf <- NetLinkOf, PortOf <- NetPortOf,
  Strays <- {"attic", "hall"}, Uplink <- "e0", Files <- NetFiles, relay <- NetRelay,
  relayinfo <- NetRelayinfo, last <- given

-----------------------------------------------------------------------------
(* files: one or two entries, right or wrong, with pools that may meet. *)

V4Entry(n, pool) ==
  [Entry(n, TRUE, Masked(0, 0)) EXCEPT !.ifaces = {"e1"}, !.pool = pool, !.leasedb = {n}]
V6Entry(n, prefixes, size) ==
  [Entry(n, FALSE, Masked(0, 0)) EXCEPT !.ifaces = {"e1"}, !.prefixPool = prefixes, !.prefixSize = size]

FileEntries(n) ==
  {V4Entry(n, Pool4(s, e)) : s \in {1, 3, 4}, e \in {3, 4, 6}}
  \cup {V6Entry(n, {p}, 3) : p \in {Masked(0, 1), Masked(0, 2), Masked(8, 1), Masked(4, 4)}}
  \cup {[V4Entry(n, Pool4(9, 10)) EXCEPT !.cidr = c] : c \in {Masked(8, 1), Masked(8, 3)}}

ShortFiles ==
  {<<a>> : a \in FileEntries("a")}
  \cup {<<a, b>> : a \in FileEntries("a"), b \in FileEntries("b")}
  \cup {<<a, b>> : a \in FileEntries("a"), b \in FileEntries("a")}

F == INSTANCE Network WITH
  Clients <- NetClients, Movers <- {}, LinkOf <- NetLinkOf, PortOf <- NetPortOf,
  Strays <- {}, Uplink <- "e0", Files <- ShortFiles, relay <- NetRelay,
  relayinfo <- NetRelayinfo, last <- given

-----------------------------------------------------------------------------
(* six *)

SixFiles ==
  {<<[V6Entry("a", {Masked(0, 2)}, 3) EXCEPT !.relays = r, !.cidr = Masked(8, 2)],
     [V6Entry("b", {}, 0) EXCEPT !.ifaces = {"e2"}, !.isDefault = d, !.cidr = Masked(12, 2), !.lease = {}]>> :
     r \in {{}, {Host(3)}}, d \in BOOLEAN}

S == INSTANCE Chain6 WITH
  Files <- SixFiles, Interfaces <- {"e1", "e2"}, Peers <- {8, 2}, Keys <- {"p1", "p2"},
  relay <- NetRelay, relayinfo <- [allow |-> {Host(8), Host(2)}, recs |-> [k \in {"p1"} |-> 11]]

-----------------------------------------------------------------------------
(* arguments *)

LabelLen(text) == CASE text = "" -> 0 [] OTHER -> 1

In == INSTANCE ConfigInputs WITH Entries <- [f \in {4, 6} |-> IF f = 4 THEN Host(1) ELSE Host(2)]

A == INSTANCE Arguments WITH
  Lines <- In!Lines, Starts <- In!Starts, Words <- In!Words, Longest <- In!Longest,
  Getenv <- In!Getenv, len <- LabelLen

-----------------------------------------------------------------------------
(* startup *)

B == INSTANCE Startup WITH Configs <- In!Configs, Requests <- In!Requests, Atoi <- In!Atoi

-----------------------------------------------------------------------------
NoDispatch ==
  /\ cfg = <<>> /\ ifaces = <<>> /\ changes = <<>> /\ names = <<>> /\ jobs = <<>>
  /\ received = <<>> /\ drops = <<>> /\ events = <<>> /\ sent = <<>>
NoNetwork == status = <<>> /\ delegates = <<>> /\ clients = <<>> /\ net = <<>> /\ given = <<>>
NoArguments == plugin = <<>> /\ line = <<>> /\ loaded = <<>>
NoStartup ==
  /\ conf = <<>> /\ phase = <<>> /\ servers = <<>> /\ chains = <<>> /\ next = <<>>
  /\ req = <<>> /\ resp = <<>> /\ at = <<>> /\ reached = <<>>

RequestsInit ==
  \/ /\ NoStartup
     /\ \/ kind = "dispatch" /\ D!Init /\ file = <<>> /\ NoNetwork /\ step6 = <<>> /\ NoArguments
        \/ kind = "network" /\ N!Init /\ NoDispatch /\ step6 = <<>> /\ NoArguments
        \/ /\ kind = "files" /\ NoDispatch /\ step6 = <<>> /\ NoArguments
           /\ file \in ShortFiles /\ status = "starting" /\ delegates = <<>> /\ clients = <<>>
           /\ net = {} /\ given = {}
        \/ kind = "six" /\ S!Init /\ NoDispatch /\ NoNetwork /\ NoArguments
        \/ kind = "arguments" /\ A!Init /\ NoDispatch /\ file = <<>> /\ NoNetwork /\ step6 = <<>>
  \/ /\ kind = "startup" /\ B!Init
     /\ NoDispatch /\ file = <<>> /\ NoNetwork /\ step6 = <<>> /\ NoArguments

NoRequest ==
  NoDispatch /\ file = <<>> /\ NoNetwork /\ step6 = <<>> /\ NoArguments /\ NoStartup

ChainInit ==
  \/ PoolsInit /\ NoRequest
  \/ RequestsInit /\ NoDelegation /\ NoAllocator

(* A file is set up and nothing else happens. *)
RequestsNext ==
  \/ kind = "dispatch" /\ D!Next /\ UNCHANGED <<file, ofNetwork, step6, ofArguments, ofStartup>>
  \/ kind = "network" /\ N!Next /\ UNCHANGED <<ofDispatch, step6, ofArguments, ofStartup>>
  \/ kind = "files" /\ F!Setup /\ UNCHANGED <<ofDispatch, step6, ofArguments, ofStartup>>
  \/ kind = "six" /\ S!Next /\ UNCHANGED <<ofDispatch, ofNetwork, ofArguments, ofStartup>>
  \/ kind = "arguments" /\ A!Next /\ UNCHANGED <<ofDispatch, file, ofNetwork, step6, ofStartup>>
  \/ kind = "startup" /\ B!Next /\ UNCHANGED <<ofDispatch, file, ofNetwork, step6, ofArguments>>

ChainNext ==
  \/ PoolsNext /\ UNCHANGED ofRequests
  \/ RequestsNext /\ UNCHANGED <<kind, ofPools>>

ChainSpec == ChainInit /\ [][ChainNext]_chainVars

-----------------------------------------------------------------------------
(* The properties of the modules, of the behaviours of their kind; what each *)
(* says in full is in its own module.                                        *)
(* Every datagram ends in one event, which says "replied" exactly when a     *)
(* reply left (HandleMsg4, HandleMsg6 and emit).                             *)
OneEventPerDatagram == kind = "dispatch" => D!OneEventPerDatagram

(* A reply goes where its client can receive it, and nothing answers what    *)
(* takes no reply or was dropped (replyDestination4, applyHandlers4 and 6).  *)
ClientsReached == kind = "dispatch" => D!ClientsReached

(* No pool address with two clients, across scopes (checkPools), and one     *)
(* that renews keeps its address, also past the relay (select4).             *)
AddressesHeld == kind = "network" => N!NoAddressTwice /\ N!RenewalKeeps

(* A DHCPv4 broadcast is answered out of its own link's scope, and a relayed *)
(* DHCPv6 request out of the same scope whichever interface it comes in on   *)
(* (select4, select6).                                                       *)
RightScope ==
  /\ kind = "network" => N!RightScope
  /\ kind = "six" => S!RelayedIgnoresInterface

(* An accepted file gives no address to two allocators (checkFile), and what *)
(* a client is told of it fits together: the address is on the subnet the    *)
(* options describe (subnet's handle4).                                      *)
FileSound ==
  /\ kind = "files" => F!FileSound
  /\ kind = "network" => N!AnswerFitsScope

(* Arguments mean the same in any order (setupState, parseArgs). *)
SetupOrderFree == kind = "arguments" => A!SetupOrderFree

(* A server that came up listens where it was told to and runs the chain it  *)
(* was given (Load, parseListen, LoadPlugins). Every request the filters let *)
(* by reaches the allocator, and the links of a chain do not disturb one     *)
(* another's options (the plugins' handlers).                                *)
AsConfigured ==
  kind = "startup" => B!StartsAsConfigured /\ B!PoolReached /\ B!ReplyAsConfigured

(* Nothing happens on the word of a relay nobody listed. Without the relay   *)
(* plugin no link sees a relayed request (relayDropped); with it no lease    *)
(* changes and no port's address is given for an unlisted sender (relay,     *)
(* relayinfo and server_id's Handler4), and no DHCPv6 request through        *)
(* unlisted relays, or too many, reaches a scope (relay's Handler6).         *)
OnlyVouched ==
  [][ /\ kind = "dispatch" => D!RelaysStopAtTheDoor'
      /\ kind = "network" => N!OnlyVouchedStep
      /\ kind = "six" => S!Admitted6' ]_chainVars
=============================================================================
