---------------------------- MODULE RelayPlugins ----------------------------
(***************************************************************************)
(* The plugins that look at the way a request came and at whom it is for:  *)
(* relay, relayinfo and server_id (plugins/relay, plugins/relayinfo,       *)
(* plugins/serverid), and the part of net/netip they and subnet use. An    *)
(* address is a number of Width bits, and zero is the unspecified address, *)
(* which DHCP uses for a field that is not set. The two families never     *)
(* meet: a prefix is only compared with addresses of its own family. ctx   *)
(* is what the server knows of the datagram: known says that the handler   *)
(* was given a handler.RequestInfo at all, peer is its source and iface    *)
(* the interface it came in on.                                            *)
(***************************************************************************)
EXTENDS Integers, Sequences, SequencesExt

CONSTANTS
  Width,          \* bits in an address: 32 or 128
  hopCountLimit,  \* 32
  maxRelayDepth,  \* 8
  NoKey           \* a request without the option relayinfo's key is read from

Unset == 0
Addresses == 0 .. 2 ^ Width - 1

(* netip.Prefix, masked. *)
Masked(addr, bits) == [addr |-> addr, bits |-> bits]
Host(addr) == Masked(addr, Width)

(* netip.Prefix.Contains *)
Covers(p, addr) ==
  addr \div 2 ^ (Width - p.bits) = p.addr \div 2 ^ (Width - p.bits)

(* netip.Prefix.Overlaps *)
Overlaps(p, q) ==
  LET bits == IF p.bits < q.bits THEN p.bits ELSE q.bits
  IN  p.addr \div 2 ^ (Width - bits) = q.addr \div 2 ^ (Width - bits)

-----------------------------------------------------------------------------
(* relay: which relayed requests are answered, and whether a client releasing *)
(* a lease speaks from the address it gives up.                               *)

allowed(prefixes, addr) == \E p \in prefixes : Covers(p, addr)

(* An argument is an option or an entry of the allow list, which parses to a *)
(* prefix of one family, or does not parse.                                  *)

NoState == [ok |-> FALSE]

applyArg_LastWins(p, arg) ==
  CASE ~p.ok -> NoState
    [] arg.kind = "strict-giaddr" -> [p EXCEPT !.strictGiaddr = TRUE]
    [] arg.kind = "release-check" ->
         IF arg.value \in {"on", "off"} THEN [p EXCEPT !.releaseCheck = arg.value = "on"] ELSE NoState
    [] arg.kind = "entry4" -> [p EXCEPT !.allow4 = @ \cup {arg.value}]
    [] arg.kind = "entry6" -> [p EXCEPT !.allow6 = @ \cup {arg.value}]
    [] OTHER -> NoState

(* applyArg, with markSeen: an option may be given once. Any other word is   *)
(* an entry, and has to parse as one.                                        *)
applyArg(p, arg) ==
  CASE ~p.ok \/ arg.kind \in p.seen -> NoState
    [] arg.kind = "strict-giaddr" ->
         [p EXCEPT !.strictGiaddr = TRUE, !.seen = @ \cup {arg.kind}]
    [] arg.kind = "release-check" ->
         IF arg.value \in {"on", "off"}
         THEN [p EXCEPT !.releaseCheck = arg.value = "on", !.seen = @ \cup {arg.kind}]
         ELSE NoState
    [] arg.kind = "entry4" -> [p EXCEPT !.allow4 = @ \cup {arg.value}]
    [] arg.kind = "entry6" -> [p EXCEPT !.allow6 = @ \cup {arg.value}]
    [] OTHER -> NoState

(* setupState: allow comes first, and the list may not stay empty. *)
relaySetup(args) ==
  IF args = <<>> \/ args[1].kind # "allow" THEN NoState
  ELSE LET p == FoldLeft(applyArg,
                  [ok |-> TRUE, allow4 |-> {}, allow6 |-> {}, strictGiaddr |-> FALSE,
                   releaseCheck |-> TRUE, seen |-> {}],
                  Tail(args))
       IN  IF ~p.ok \/ p.allow4 \cup p.allow6 = {} THEN NoState ELSE p

(* The verdict on a request: pass, or the reason it is dropped for. *)

checkRelayed4(p, ctx, giaddr) ==
  IF ~allowed(p.allow4, giaddr) THEN "giaddr not allowed"
  ELSE IF ~ctx.known THEN "no request information"
  ELSE IF p.strictGiaddr /\ ctx.peer # giaddr THEN "giaddr mismatch"
  ELSE "pass"

(* A release that names no address is dropped: no source equals it. *)
checkOnLink4(p, ctx, req) ==
  IF /\ p.releaseCheck
     /\ req.type = "release"
     /\ ctx.known
     /\ req.ciaddr = Unset \/ req.ciaddr # ctx.peer
  THEN "release mismatch"
  ELSE "pass"

relayHandler4(p, ctx, req) ==
  IF req.giaddr = Unset THEN checkOnLink4(p, ctx, req) ELSE checkRelayed4(p, ctx, req.giaddr)

(* The walk down the layers stops one past the limit. *)
relayDepth(req) == IF req.layers > maxRelayDepth THEN maxRelayDepth + 1 ELSE req.layers

checkRelayShape(req) ==
  CASE req.link = Unset /\ req.hopCount > hopCountLimit -> "hop count"
    [] relayDepth(req) > maxRelayDepth -> "relay depth"
    [] OTHER -> "pass"

(* A request is relayed when it has a Relay-forward around it, at least one  *)
(* layer.                                                                    *)
relayHandler6(p, ctx, req) ==
  IF req.layers = 0 THEN "pass"
  ELSE IF ~ctx.known THEN "no request information"
  ELSE IF ~allowed(p.allow6, ctx.peer) THEN "peer not allowed"
  ELSE checkRelayShape(req)

-----------------------------------------------------------------------------
(* relayinfo: an address by the port of the relay a request came in on. recs  *)
(* is the mapping, from a key to an address.                                  *)

keys4 == {"circuit-id", "remote-id", "subscriber-id"}
keys6 == {"interface-id", "remote-id"}

NoArgs == [ok |-> TRUE, filename |-> "", key |-> "", refresh |-> FALSE, allow4 |-> {}, allow6 |-> {},
           sawAllow |-> FALSE]
BadArgs == [NoArgs EXCEPT !.ok = FALSE]

(* apply, applyNamed and addAllowEntry: an entry follows the allow keyword,  *)
(* a named argument may be anywhere.                                         *)
apply(a, arg) ==
  CASE ~a.ok -> a
    [] a.ok /\ arg.kind = "autorefresh" -> [a EXCEPT !.refresh = TRUE]
    [] a.ok /\ arg.kind = "allow" -> [a EXCEPT !.sawAllow = TRUE]
    [] a.ok /\ arg.kind = "file" -> [a EXCEPT !.filename = arg.value]
    [] a.ok /\ arg.kind = "key" -> [a EXCEPT !.key = arg.value]
    [] a.ok /\ arg.kind = "entry4" /\ a.sawAllow -> [a EXCEPT !.allow4 = @ \cup {arg.value}]
    [] a.ok /\ arg.kind = "entry6" /\ a.sawAllow -> [a EXCEPT !.allow6 = @ \cup {arg.value}]
    [] OTHER -> BadArgs

parseArgs(args) ==
  LET a == FoldLeft(apply, NoArgs, args) IN
  IF a.ok /\ a.filename # "" /\ a.key # "" /\ a.sawAllow THEN a ELSE BadArgs

allowFor(a, v6) == IF v6 THEN a.allow6 ELSE a.allow4

(* setupState, up to reading the file (module Reload). *)
relayinfoSetup(args, v6) ==
  LET a == parseArgs(args) IN
  IF a.ok /\ allowFor(a, v6) # {} /\ a.key \in (IF v6 THEN keys6 ELSE keys4)
  THEN [ok |-> TRUE, filename |-> a.filename, key |-> a.key, refresh |-> a.refresh,
        allow |-> allowFor(a, v6)]
  ELSE [ok |-> FALSE]

(* The datagram comes from one of the relays of the allow list. *)
fromAllowedRelay(s, ctx) == ctx.known /\ \E p \in s.allow : Covers(p, ctx.peer)

(* The record of a key, as a set of at most one. A key is at most maxKeyLen  *)
(* bytes, as it is on the wire.                                              *)
match(s, key) == {s.recs[k] : k \in {key} \cap DOMAIN s.recs}

passthrough4(type) == type \in {"inform", "release", "decline"}

(* Option 82 or a giaddr. *)
relayed4(req) == req.option82 \/ req.giaddr # Unset

(* "drop", "pass", or "given" with the address. *)
Drop == [out |-> "drop", addr |-> Unset]
Pass == [out |-> "pass", addr |-> Unset]
Given(addr) == [out |-> "given", addr |-> addr]

FromMatch(found) == IF found = {} THEN Pass ELSE Given(CHOOSE a \in found : TRUE)

relayinfoHandler4(s, ctx, req) ==
  IF ~relayed4(req) THEN Pass
  ELSE IF ~fromAllowedRelay(s, ctx) THEN Drop
  ELSE IF passthrough4(req.type) THEN Pass
  ELSE FromMatch(match(s, req.key))

(* The key is the outermost relay's. *)
relayinfoHandler6(s, ctx, req) ==
  IF req.layers = 0 THEN Pass
  ELSE IF ~fromAllowedRelay(s, ctx) THEN Drop
  ELSE IF req.type \in {"release", "decline"} \/ ~req.iana THEN Pass
  ELSE FromMatch(match(s, req.key))

-----------------------------------------------------------------------------
(* server_id: which requests are addressed to this server. The sid of a       *)
(* request is "none", "ours" or "other".                                      *)

(* RFC 2131 table 5. *)
requiresServerID(type) == type \in {"release", "decline"}

serveridHandler4_TakesAny(req) ==
  IF req.sid = "none" /\ requiresServerID(req.type) THEN "drop" ELSE "pass"

(* The server lets nothing but a BootRequest come this far. *)
serveridHandler4(req) ==
  IF (req.sid = "none" /\ requiresServerID(req.type)) \/ req.sid = "other" THEN "drop" ELSE "pass"

(* RFC 8415 section 16. *)
serveridHandler6(req) ==
  IF \/ req.sid # "none" /\ req.type \in {"solicit", "confirm", "rebind"}
     \/ req.sid = "other"
     \/ req.sid = "none" /\ req.type \in {"request", "renew", "decline", "release"}
  THEN "drop"
  ELSE "pass"
=============================================================================
