------------------------------- MODULE Chain6 -------------------------------
(***************************************************************************)
(* A DHCPv6 request through the chain relay, server_id, subnet, relayinfo. *)
(* A request has layers Relay-forwards around it, and link, hopCount and   *)
(* key are the outermost one's. The prefix instances behind the scopes are *)
(* module Prefix.                                                          *)
(***************************************************************************)
EXTENDS Subnet

CONSTANTS
  Files, Interfaces, Peers, Keys,
  MaxLayers,  \* the deepest nesting tried
  MaxHops,    \* the largest hop count tried
  relay, relayinfo

VARIABLES
  file,  \* the subnets, as configured
  step6  \* the request handled by the last step, with what came of it

vars == <<file, step6>>

Subs6 == newSelector(file, FALSE)

Requests6 ==
  {[type |-> t, sid |-> s, iana |-> i, layers |-> 0, link |-> Unset, hopCount |-> 0, key |-> NoKey] :
     t \in {"solicit", "request", "confirm", "renew", "rebind", "release", "decline"},
     s \in {"none", "ours", "other"}, i \in BOOLEAN}
  \cup
  {[type |-> t, sid |-> "ours", iana |-> TRUE, layers |-> n, link |-> l, hopCount |-> h, key |-> k] :
     t \in {"request", "release"}, n \in 1 .. MaxLayers, l \in Addresses, h \in 0 .. MaxHops,
     k \in Keys \cup {NoKey}}

(* relay and server_id may end the chain; subnet sets its resolvers and      *)
(* delegates; relayinfo drops, passes or gives the address of the port.      *)
Handle6(ctx, req) ==
  IF relayHandler6(relay, ctx, req) # "pass" \/ serveridHandler6(req) # "pass"
  THEN [scope |-> {}, out |-> Drop]
  ELSE [scope |-> {s.name : s \in select6(Subs6, ctx, req)}, out |-> relayinfoHandler6(relayinfo, ctx, req)]

Init == file \in {f \in Files : Serves(f, FALSE)} /\ step6 = {}

Arrive ==
  /\ step6 = {}
  /\ \E req \in Requests6, p \in Peers, i \in Interfaces \cup {""} :
       LET ctx == [known |-> TRUE, peer |-> p, iface |-> i] IN
       step6' = {[req |-> req, ctx |-> ctx, done |-> Handle6(ctx, req)]}
  /\ UNCHANGED file

Next == Arrive

Spec == Init /\ [][Next]_vars

-----------------------------------------------------------------------------
(* The interface a relayed request arrives on makes no difference to the     *)
(* scope that answers it or to the address it gets (select6).                *)
RelayedIgnoresInterface ==
  \A h \in step6 : h.req.layers > 0 =>
    \A i \in Interfaces \cup {""} : Handle6([h.ctx EXCEPT !.iface = i], h.req) = h.done

(* A request that gets as far as a scope through relays came from a listed   *)
(* relay, through no more of them than the limit, and an address is only     *)
(* given for a port, never back to a client that releases or declines        *)
(* (relay's checkRelayShape and Handler6, relayinfo's Handler6).             *)
Admitted6 ==
  \A h \in step6 :
    /\ (h.done.out # Drop /\ h.req.layers > 0) =>
         /\ \E p \in relay.allow6 : Covers(p, h.ctx.peer)
         /\ h.req.layers <= maxRelayDepth
         /\ h.req.link = Unset => h.req.hopCount <= hopCountLimit
    /\ h.done.out.addr # Unset => h.req.key # NoKey /\ h.req.type \notin {"release", "decline"}
============================================================================
