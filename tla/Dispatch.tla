------------------------------ MODULE Dispatch ------------------------------
(***************************************************************************)
(* What the server does with one datagram (server/handle.go, dispatch.go,  *)
(* describe.go): HandleMsg4 and HandleMsg6, run by any number of           *)
(* goroutines at once. They share the listener's cache of interface names, *)
(* the drop counter and the observer. The plugin chain is open: a link may *)
(* leave the reply alone, replace it, stop the chain or drop the request.  *)
(***************************************************************************)
EXTENDS Integers, Sequences, FiniteSets

CONSTANTS
  Handlers,    \* goroutines
  Configs,     \* the listener configurations tried
  Requests(_, _),  \* the datagrams that may arrive at a listener after so many others
  MaxPackets,  \* bound on the datagrams received
  MaxChanges   \* bound on the changes to interface 1

VARIABLES
  cfg,      \* the listener: family, bound interface, observed, wantsCtx, relayChecked, links
  ifaces,   \* the name of each interface of the host, NoName once it is gone
  changes,  \* how often that changed
  names,    \* ifaceCache: index -> name, Unseen when not resolved
  tasks,    \* what each goroutine is doing
  received, \* the number of datagrams received
  drops,    \* gate.dropped(reasonRelayed)
  events,   \* what the observer was told
  sent      \* what left the server

vars == <<cfg, ifaces, changes, names, tasks, received, drops, events, sent>>

NoName == "none"
Unseen == "unseen"
Nil == "nil"
Indexes == {1}

Idle == [pc |-> "idle"]

(* How a datagram ends, as the observer's event and what was sent, if any. *)
Ended(outcome, path, error) == [outcome |-> outcome, path |-> path, error |-> error]

-----------------------------------------------------------------------------
(* Building and addressing a reply. *)

(* buildReply4 and buildReply6: the type of the base reply, or an error. *)
BaseReply(r) ==
  IF r.family = 4
  THEN IF r.opcode # "BootRequest" THEN "error"
       ELSE CASE r.type = "Discover" -> "Offer"
              [] r.type \in {"Request", "Inform"} -> "Ack"
              [] r.type \in {"Release", "Decline"} -> "none"
              [] OTHER -> "error"
  ELSE IF r.relay = "broken" THEN "error"
       ELSE CASE r.type = "Solicit" -> IF r.rapid THEN "Reply" ELSE "Advertise"
              [] r.type \in {"Request", "Confirm", "Renew", "Rebind", "Release",
                             "InformationRequest"} -> "Reply"
              [] r.type = "Decline" -> IF r.cid THEN "Reply" ELSE "error"
              [] OTHER -> "error"

takesNoReply4(r) == r.family = 4 /\ r.type \in {"Release", "Decline"}

isRelayed(r) == IF r.family = 4 THEN r.giaddr ELSE r.relay # "none"

relayDropped(r) == ~cfg.relayChecked /\ isRelayed(r)

replyDestination4_NakUnicast(r, resp) ==
  CASE r.giaddr -> "giaddr"
    [] r.ciaddr -> "ciaddr"
    [] resp = "Nak" -> "broadcast"
    [] r.bcast  -> "broadcast"
    [] OTHER -> "layer2"

(* Where a DHCPv4 reply goes; layer2 is the raw frame to yiaddr. *)
replyDestination4(r, resp) ==
  CASE r.giaddr -> "giaddr"
    [] resp = "Nak" -> "broadcast"
    [] r.ciaddr -> "ciaddr"
    [] r.bcast  -> "broadcast"
    [] OTHER -> "layer2"

replyIfIndex(r) == IF cfg.bound # 0 THEN cfg.bound ELSE r.oob

(* The interface index in the control message of a reply, 0 for none: only   *)
(* what cannot be routed is tied to an interface.                            *)
OutInterface(r, to) ==
  IF to \in {"broadcast", "layer2"} \/ (to = "peer" /\ r.linkLocal)
  THEN replyIfIndex(r) ELSE 0

Path(to) ==
  CASE to = "broadcast" -> "broadcast"
    [] to = "layer2" -> "layer2"
    [] OTHER -> "unicast"

(* encapsulateRelay6: only a Relay-forward can be answered with a            *)
(* Relay-reply; a reply that is a relay message already goes out as it is.   *)
Encapsulates(r, resp) == r.relay = "none" \/ resp = "RelayReply" \/ r.relay = "forw"

-----------------------------------------------------------------------------
(* ifaceCache.name, called for the report and for the request context. A     *)
(* name that is not cached takes a look at the host first, then a store.     *)

NeedsName(t) ==
  \/ t.pc = "report" /\ cfg.observed
  \/ t.pc = "context" /\ cfg.wantsCtx

Uncached(t) ==
  NeedsName(t) /\ cfg.bound = 0 /\ t.req.oob # 0 /\ names[t.req.oob] = Unseen

Resolve(h) ==
  LET t == tasks[h] IN
  /\ t.pc \in {"report", "context"} /\ t.looked = Unseen /\ Uncached(t)
  /\ tasks' = [tasks EXCEPT ![h].looked = ifaces[t.req.oob]]
  /\ UNCHANGED <<cfg, ifaces, changes, names, received, drops, events, sent>>

(* The rest of name. *)
Named(t) ==
  /\ t.looked # Unseen \/ ~Uncached(t)
  /\ names' = IF t.looked # Unseen THEN [names EXCEPT ![t.req.oob] = t.looked] ELSE names

-----------------------------------------------------------------------------
Receive(h, r) ==
  /\ tasks[h] = Idle /\ received < MaxPackets
  /\ r.family = cfg.family
  /\ cfg.bound # 0 => r.oob \in {0, cfg.bound}
  /\ received' = received + 1
  /\ tasks' = [tasks EXCEPT ![h] =
       [pc |-> "report", id |-> received + 1, req |-> r, looked |-> Unseen,
        resp |-> Nil, ran |-> 0, stoppedAt |-> 0,
        refused |-> FALSE]]  \* whether a link has dropped the request
  /\ UNCHANGED <<cfg, ifaces, changes, names, drops, events, sent>>

(* requestReport.emit, on the way out of the handler. *)
Emit(h, e) ==
  /\ tasks' = [tasks EXCEPT ![h] = Idle]
  /\ events' = IF cfg.observed
               THEN Append(events, [id |-> tasks[h].id, outcome |-> e.outcome, path |-> e.path,
                                    error |-> e.error, position |-> tasks[h].stoppedAt])
               ELSE events

(* startReport, parsing, the relay check and the base reply. *)
Accept(h) ==
  LET t == tasks[h] IN
  /\ t.pc = "report"
  /\ Named(t)
  /\ \/ /\ ~t.req.parses
        /\ Emit(h, Ended("parse error", "none", TRUE)) /\ UNCHANGED drops
     \/ /\ t.req.parses /\ relayDropped(t.req)
        /\ drops' = drops + 1
        /\ Emit(h, Ended("dropped", "none", TRUE))
     \/ /\ t.req.parses /\ ~relayDropped(t.req) /\ BaseReply(t.req) = "error"
        /\ Emit(h, Ended("unsupported", "none", TRUE)) /\ UNCHANGED drops
     \/ /\ t.req.parses /\ ~relayDropped(t.req) /\ BaseReply(t.req) # "error"
        /\ tasks' = [tasks EXCEPT ![h].pc = "context", ![h].looked = Unseen,
                                  ![h].resp = BaseReply(t.req)]
        /\ UNCHANGED <<drops, events>>
  /\ UNCHANGED <<cfg, ifaces, changes, received, sent>>

(* requestContext. *)
Context(h) ==
  LET t == tasks[h] IN
  /\ t.pc = "context"
  /\ Named(t)
  /\ tasks' = [tasks EXCEPT ![h].pc = "chain", ![h].looked = Unseen]
  /\ UNCHANGED <<cfg, ifaces, changes, received, drops, events, sent>>

ChainOver(t) == t.stoppedAt # 0 \/ t.ran = cfg.links

(* What a link may make of the reply. Dropping the request is a nil reply    *)
(* with a stop.                                                              *)
Links == {"keeps", "stops", "drops", "replaces"}
Replacement == IF cfg.family = 4 THEN "Nak" ELSE "RelayReply"

(* applyHandlers4 and 6, one link. *)
Call(h, does) ==
  LET t == tasks[h] IN
  /\ t.pc = "chain" /\ ~ChainOver(t)
  /\ tasks' = [tasks EXCEPT
       ![h].resp = CASE does = "drops" -> Nil [] does = "replaces" -> Replacement [] OTHER -> @,
       ![h].ran = @ + 1, ![h].refused = @ \/ does = "drops",
       ![h].stoppedAt = IF does \in {"stops", "drops"} THEN t.ran + 1 ELSE 0]
  /\ UNCHANGED <<cfg, ifaces, changes, names, received, drops, events, sent>>

Verdict(t) ==
  IF takesNoReply4(t.req) THEN "no reply"
  ELSE IF t.resp = Nil THEN "drop"
  ELSE IF t.req.family = 4 THEN replyDestination4(t.req, t.resp)
  ELSE IF Encapsulates(t.req, t.resp) THEN "peer" ELSE "unwrappable"

Silent(h) ==
  LET t == tasks[h] v == Verdict(t) IN
  /\ t.pc = "chain" /\ ChainOver(t)
  /\ \/ v = "no reply" /\ Emit(h, Ended("no reply", "none", FALSE))
     \/ v = "drop" /\ Emit(h, Ended("dropped", "none", FALSE))
     \/ v = "unwrappable" /\ Emit(h, Ended("unsupported", "none", TRUE))
  /\ UNCHANGED <<cfg, ifaces, changes, names, received, drops, sent>>

(* sendLayer2 gives up without an interface; any write may fail. *)
Failing(t) ==
  LET out == OutInterface(t.req, Verdict(t)) IN
  IF Verdict(t) = "layer2" /\ (out = 0 \/ (out \in Indexes /\ ifaces[out] = NoName))
  THEN {TRUE} ELSE BOOLEAN

Send_IgnoresError(h, fails) ==
  LET t == tasks[h] v == Verdict(t) IN
  /\ t.pc = "chain" /\ ChainOver(t)
  /\ v \notin {"no reply", "drop", "unwrappable"}
  /\ fails \in Failing(t)
  /\ UNCHANGED sent
  /\ Emit(h, Ended("replied", Path(v), FALSE))
  /\ UNCHANGED <<cfg, ifaces, changes, names, received, drops>>

Send(h, fails) ==
  LET t == tasks[h] v == Verdict(t) IN
  /\ t.pc = "chain" /\ ChainOver(t)
  /\ v \notin {"no reply", "drop", "unwrappable"}
  /\ fails \in Failing(t)
  /\ sent' = IF fails THEN sent ELSE sent \cup {[id |-> t.id, req |-> t.req, resp |-> t.resp,
                                      to |-> v, out |-> OutInterface(t.req, v),
                                      refused |-> t.refused]}
  /\ Emit(h, IF fails THEN Ended("send error", Path(v), TRUE)
                      ELSE Ended("replied", Path(v), FALSE))
  /\ UNCHANGED <<cfg, ifaces, changes, names, received, drops>>

(* The host's interfaces come and go. *)
IfaceChanges(i, name) ==
  /\ changes < MaxChanges /\ ifaces[i] # name
  /\ changes' = changes + 1
  /\ ifaces' = [ifaces EXCEPT ![i] = name]
  /\ UNCHANGED <<cfg, names, tasks, received, drops, events, sent>>

Init ==
  /\ cfg \in Configs
  /\ ifaces = [i \in Indexes |-> "eth"] /\ changes = 0
  /\ names = [i \in Indexes |-> Unseen]
  /\ tasks = [h \in Handlers |-> Idle]
  /\ received = 0 /\ drops = 0 /\ events = <<>> /\ sent = {}

Next ==
  \/ \E h \in Handlers :
       \/ \E r \in Requests(cfg, received) : Receive(h, r)
       \/ Resolve(h) \/ Accept(h) \/ Context(h) \/ Silent(h)
       \/ \E does \in Links : Call(h, does)
       \/ \E fails \in BOOLEAN : Send(h, fails)
  \/ \E i \in Indexes, name \in {NoName, "eth", "renamed"} : IfaceChanges(i, name)

Spec == Init /\ [][Next]_vars

-----------------------------------------------------------------------------
Busy == {h \in Handlers : tasks[h] # Idle}
Reports(id) == {i \in DOMAIN events : events[i].id = id}
Handled == {id \in 1 .. received : \A h \in Busy : tasks[h].id # id}

(* "Every exit path through the handlers ends in exactly one of these, so an *)
(* observer sees one event per datagram" (emit), and that event is true: it  *)
(* says "replied" exactly when the reply left the server, by the path named. *)
OneEventPerDatagram ==
  cfg.observed =>
    /\ \A id \in Handled : Cardinality(Reports(id)) = 1
    /\ \A h \in Busy : Reports(tasks[h].id) = {}
    /\ \A i \in DOMAIN events :
         LET e == events[i] IN
         (e.outcome = "replied") = (\E s \in sent : s.id = e.id /\ Path(s.to) = e.path)

(* Without a relay plugin no link of the chain sees a relayed request, so no *)
(* plugin changes state for it, none is answered and each is counted.        *)
RelaysStopAtTheDoor ==
  ~cfg.relayChecked =>
    /\ \A s \in sent : ~isRelayed(s.req)
    /\ \A h \in Busy : isRelayed(tasks[h].req) => tasks[h].ran = 0
    /\ cfg.observed =>
         drops = Cardinality({i \in DOMAIN events :
                                events[i].outcome = "dropped" /\ events[i].error})

(* A client that was refused an address, or has none, is reached without     *)
(* one: a NAK to a client on the link is broadcast, and what cannot be       *)
(* routed leaves by the interface the request came in on whenever that is    *)
(* known. A relayed client is always answered through its relay. Nothing     *)
(* answers what takes no reply or what a link dropped, to keep a client off  *)
(* the network for one.                                                      *)
ClientsReached ==
  \A s \in sent :
    /\ s.req.parses /\ ~takesNoReply4(s.req) /\ ~s.refused
    /\ s.req.family = 4 => s.req.opcode = "BootRequest"
    /\ s.req.family = 4 /\ s.req.giaddr => s.to = "giaddr"
    /\ s.req.family = 4 /\ s.resp = "Nak" /\ ~s.req.giaddr => s.to = "broadcast"
    /\ s.to = "layer2" => s.out # 0
    /\ s.to \in {"broadcast", "layer2"} =>
         s.out = IF cfg.bound # 0 THEN cfg.bound ELSE s.req.oob

=============================================================================
