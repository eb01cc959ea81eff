------------------------------ MODULE Network ------------------------------
(***************************************************************************)
(* A server for several links, with the chain relay, server_id, subnet,    *)
(* relayinfo, the order their documentation asks for, and the clients on   *)
(* those links. A link is attached to an interface of the server or sits   *)
(* behind a relay agent; a client renews and releases past the relay, as   *)
(* RFC 2131 has it. Messages and answers may be lost. One message is under *)
(* way at a time: what one client sends does not depend on another's.      *)
(***************************************************************************)
EXTENDS Subnet

CONSTANTS
  Clients,
  Movers,      \* the clients that change links
  LinkOf(_),   \* a link, named as its scope: its interface, or its relay agent
  PortOf(_, _),  \* the port of a link a client is plugged into
  Strays,      \* links nobody has a scope for
  Uplink,      \* the interface that faces the relays and routers
  Files,       \* the configuration files of the subnet plugin
  relay,       \* what the relay plugin was set up with
  relayinfo    \* what the relayinfo plugin was set up with

VARIABLES
  file,       \* the subnets, as configured
  status,     \* of the server: "starting", "serving" or "failed"
  delegates,  \* the range instance of every scope
  clients,    \* a client: its link, its lease, the offer it has and the address it had
  net,        \* the message under way, if there is one
  last        \* history: the request handled by the last step, if it was one

vars == <<file, status, delegates, clients, net, last>>

Subs == newSelector(file, TRUE)
Links == {Subs[i].name : i \in DOMAIN Subs}

-----------------------------------------------------------------------------
(* The server. *)

(* newSelector and buildDelegate: nothing is built unless the whole file is  *)
(* accepted.                                                                 *)
Setup ==
  /\ status = "starting"
  /\ status' = IF Serves(file, TRUE) THEN "serving" ELSE "failed"
  /\ delegates' = [i \in DOMAIN Subs |-> [leases |-> <<>>, declined |-> {}]]
  /\ last' = {} /\ UNCHANGED <<file, clients, net>>

IndexOf(sub) == CHOOSE i \in DOMAIN Subs : Subs[i] = sub

NoResp == [addr |-> Unset, opts |-> {}, by |-> "nobody"]

(* handle4: no scope, no change. *)
SubnetStep(ctx, req) ==
  LET sub == select4(Subs, ctx, req)
      Put(s, o) == [delegates |-> [delegates EXCEPT ![IndexOf(s)] = o.D], resp |-> o.resp,
                    stop |-> o.stop, scope |-> {s.name}]
  IN  IF sub = {} THEN {[delegates |-> delegates, resp |-> {NoResp}, stop |-> FALSE, scope |-> {}]}
      ELSE UNION {{Put(s, o) : o \in subnetHandle4(s, delegates[IndexOf(s)], req, NoResp)} : s \in sub}

(* The last plugin of the chain, unless an earlier one ended it. *)
RelayinfoStep(ctx, req, o) ==
  LET r == relayinfoHandler4(relayinfo, ctx, req) IN
  IF o.stop \/ r.out = "pass" THEN o
  ELSE IF r.out = "drop" THEN [o EXCEPT !.resp = {}]
  ELSE [o EXCEPT !.resp = {[addr |-> r.addr, opts |-> x.opts, by |-> "port"] : x \in @}]

Handle4(ctx, req) ==
  IF relayHandler4(relay, ctx, req) # "pass" \/ serveridHandler4(req) # "pass"
  THEN {[delegates |-> delegates, resp |-> {}, stop |-> TRUE, scope |-> {}]}
  ELSE {RelayinfoStep(ctx, req, o) : o \in SubnetStep(ctx, req)}

-----------------------------------------------------------------------------
(* The clients. external: RFC 2131 section 4.4, and what a relay agent adds. *)

Request(c, type, ciaddr, requested, sid) ==
  [mac |-> c, type |-> type, ciaddr |-> ciaddr, requested |-> requested, sid |-> sid,
   giaddr |-> Unset, option82 |-> FALSE, key |-> NoKey]

Context(peer, iface) == [known |-> TRUE, peer |-> peer, iface |-> iface]

(* A broadcast: a relay agent puts its address and the port in, a switch     *)
(* that snoops the port alone.                                               *)
Broadcast(c, req) ==
  LET l == LinkOf(clients[c].link)
      stamped == [req EXCEPT !.giaddr = l.giaddr, !.option82 = l.stamps,
                             !.key = IF l.stamps THEN PortOf(clients[c].link, c) ELSE NoKey]
  IN  [client |-> c, from |-> clients[c].link, way |-> "broadcast", req |-> stamped,
       ctx |-> IF l.giaddr # Unset THEN Context(l.source, Uplink) ELSE Context(req.ciaddr, l.iface)]

(* A unicast is routed to the server. *)
Unicast(c, req) ==
  LET l == LinkOf(clients[c].link)
  IN  [client |-> c, from |-> clients[c].link, way |-> "unicast", req |-> req,
       ctx |-> Context(req.ciaddr, IF l.giaddr # Unset THEN Uplink ELSE l.iface)]

NoLease == [addr |-> Unset, by |-> "nobody"]

MaySend == status = "serving" /\ net = {}
Send(m) == net' = {m}
Quiet == last' = {} /\ UNCHANGED <<file, status, delegates>>

Discover(c) ==
  /\ MaySend /\ clients[c].lease = NoLease
  /\ Send(Broadcast(c, Request(c, "discover", Unset, Unset, "none")))
  /\ UNCHANGED clients /\ Quiet

(* The client takes our offer, or another server's. *)
Select(c) ==
  /\ MaySend /\ clients[c].offer # Unset
  /\ \E sid \in {"ours", "other"} :
       Send(Broadcast(c, Request(c, "request", Unset, clients[c].offer, sid)))
  /\ clients' = [clients EXCEPT ![c].offer = Unset]
  /\ Quiet

Renew(c) ==
  /\ MaySend /\ clients[c].lease # NoLease
  /\ LET req == Request(c, "request", clients[c].lease.addr, Unset, "none")
     IN  Send(Unicast(c, req)) \/ Send(Broadcast(c, req))
  /\ UNCHANGED clients /\ Quiet

(* A client that starts again asks for the address it had. *)
Reboot(c) ==
  /\ MaySend /\ clients[c].had # Unset
  /\ Send(Broadcast(c, Request(c, "request", Unset, clients[c].had, "none")))
  /\ clients' = [clients EXCEPT ![c].had = Unset]
  /\ Quiet

Inform(c) ==
  /\ MaySend /\ clients[c].lease # NoLease
  /\ Send(Broadcast(c, Request(c, "inform", clients[c].lease.addr, Unset, "none")))
  /\ UNCHANGED clients /\ Quiet

GiveUp(c) ==
  /\ MaySend /\ clients[c].lease # NoLease
  /\ LET a == clients[c].lease.addr
     IN  \/ Send(Unicast(c, Request(c, "release", a, Unset, "ours")))
         \/ Send(Broadcast(c, Request(c, "decline", Unset, a, "ours")))
  /\ clients' = [clients EXCEPT ![c].lease = NoLease]
  /\ Quiet

(* The client is switched off, and on again on the same or another link. *)
Move(c) ==
  /\ MaySend
  /\ \E l \in IF c \in Movers THEN Links \cup Strays ELSE {clients[c].link} :
       clients' = [clients EXCEPT ![c] = [link |-> l, lease |-> NoLease, offer |-> Unset,
                                          had |-> clients[c].lease.addr]]
  /\ UNCHANGED net /\ Quiet

(* The server handles a message, and its answer arrives or is lost. *)
Deliver ==
  \E m \in net : \E o \in Handle4(m.ctx, m.req) :
    /\ net' = {}
    /\ delegates' = o.delegates
    /\ last' = {[m |-> m, lease |-> clients[m.client].lease, scope |-> o.scope, resp |-> o.resp]}
    /\ \/ UNCHANGED clients
       \/ \E r \in o.resp :
            /\ r.addr # Unset
            /\ clients' = [clients EXCEPT ![m.client] =
                 CASE m.req.type = "discover" -> [@ EXCEPT !.offer = r.addr]
                   [] m.req.type = "request" ->
                        [@ EXCEPT !.lease = [addr |-> r.addr, by |-> r.by]]
                   [] OTHER -> @]
    /\ UNCHANGED <<file, status>>

Lose == \E m \in net : net' = {} /\ UNCHANGED clients /\ Quiet

(* A lease runs out for the client before it does in the range instance, and *)
(* probation ends (module Range).                                            *)
Expire ==
  /\ \E i \in DOMAIN delegates :
       \/ \E c \in DOMAIN delegates[i].leases :
            /\ delegates' = [delegates EXCEPT ![i].leases = Without(delegates[i], c)]
            /\ clients' = [clients EXCEPT ![c].lease =
                 IF @.addr = delegates[i].leases[c] THEN NoLease ELSE @]
       \/ \E a \in delegates[i].declined :
            delegates' = [delegates EXCEPT ![i].declined = @ \ {a}] /\ UNCHANGED clients
  /\ last' = {} /\ UNCHANGED <<file, status, net>>

-----------------------------------------------------------------------------
Init ==
  /\ file \in Files
  /\ status = "starting"
  /\ delegates = <<>>
  /\ clients \in [Clients -> {[link |-> l, lease |-> NoLease, offer |-> Unset, had |-> Unset] : l \in Links}]
  /\ net = {}
  /\ last = {}

Next ==
  \/ Setup
  \/ \E c \in Clients :
       Discover(c) \/ Select(c) \/ Renew(c) \/ Reboot(c) \/ Inform(c) \/ GiveUp(c) \/ Move(c)
  \/ Deliver \/ Lose \/ Expire

Spec == Init /\ [][Next]_vars

-----------------------------------------------------------------------------
(* Properties. *)

Handled(types) == {h \in last : h.m.req.type \in types}
Scopes == {Subs[i] : i \in DOMAIN Subs}

(* A file that setup accepts gives no address to two allocators, and the     *)
(* pool of a scope is on its own link (config.go's checks, read as sets of   *)
(* addresses).                                                               *)
FileSound ==
  status = "serving" =>
    LET Block(p) == {a \in Addresses : Covers(p, a)}
        V6 == newSelector(file, FALSE)
    IN  /\ \A s, t \in Scopes : s # t => PoolOf(s) \cap PoolOf(t) = {}
        /\ \A s \in Scopes : PoolOf(s) \subseteq Block(s.cidr)
        /\ \A i, j \in DOMAIN V6 : i # j =>
             \A p \in V6[i].prefixPool, q \in V6[j].prefixPool : Block(p) \cap Block(q) = {}

(* Two clients never hold the same address out of the pools, whichever links *)
(* they are on, whatever was lost and whichever scope saw the release        *)
(* (checkPools, and one range instance per scope).                           *)
NoAddressTwice ==
  \A c, d \in Clients :
    (c # d /\ clients[c].lease.by = "pool" /\ clients[d].lease.by = "pool") =>
      clients[c].lease.addr # clients[d].lease.addr

(* A broadcast from a link is answered out of the scope meant for that link, *)
(* whether the scope lists the relay, has it in its cidr or lists the        *)
(* interface, and whatever address the client brings along (select4).        *)
RightScope ==
  \A h \in Handled({"discover", "request", "inform"}) :
    (h.m.way = "broadcast" /\ h.resp # {}) => h.scope = {h.m.from}

(* The scopes can be told apart by a client's address, and no scope claims   *)
(* the interface routed requests come in on.                                 *)
ToldApart ==
  /\ \A s, t \in Scopes : s # t => ~Overlaps(s.cidr, t.cidr)
  /\ \A s \in Scopes : Uplink \notin s.ifaces

(* A client that renews or rebinds where it got its lease is answered with   *)
(* the address it has, also when it asks past the relay (select4's rule      *)
(* three).                                                                   *)
RenewalKeeps ==
  ToldApart =>
    \A h \in Handled({"request"}) :
      ( /\ h.lease # NoLease
        /\ h.lease.by \in {"pool", "reservation"}
        /\ h.m.req.ciaddr = h.lease.addr ) =>
          \A r \in h.resp : r.by = "port" \/ r.addr = h.lease.addr

(* The address a client is told lies in the subnet whose mask and router it  *)
(* is told (subnet's handle4).                                               *)
AnswerFitsScope ==
  \A h \in last : \A r \in h.resp : \A s \in Scopes :
    (s.name \in r.opts /\ r.by \in {"pool", "reservation"}) => Covers(s.cidr, r.addr)

(* No lease is made or freed for a request whose relay is not listed or that *)
(* names another server, and no port's address is given on the word of a     *)
(* sender that is not a listed relay (relay and relayinfo's Handler4,        *)
(* server_id's Handler4).                                                    *)
OnlyVouchedStep ==
  \A h \in last' :
    /\ delegates' # delegates =>
         /\ h.m.req.giaddr # Unset => \E p \in relay.allow4 : Covers(p, h.m.req.giaddr)
         /\ h.m.req.sid # "other"
    /\ \A r \in h.resp : r.by = "port" => \E p \in relayinfo.allow : Covers(p, h.m.ctx.peer)

============================================================================
