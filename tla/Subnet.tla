------------------------------- MODULE Subnet -------------------------------
(***************************************************************************)
(* The subnet plugin (plugins/subnet): a file of scopes, checked as a      *)
(* whole at setup, and the choice of the scope that answers a request. An  *)
(* entry of the file is a record; an optional field is a set of at most    *)
(* one value, or the zero its Go type has.                                 *)
(***************************************************************************)
EXTENDS RelayPlugins, FiniteSets

-----------------------------------------------------------------------------
(* config.go: one entry on its own. *)

parseMatch(sc) ==
  /\ "" \notin sc.ifaces
  /\ sc.ifaces # {} \/ sc.relays # {} \/ sc.isDefault

(* A lease is required exactly when an address is handed out, and positive. *)
parseLease(sc) ==
  IF sc.lease = {} THEN sc.pool = {} /\ sc.prefixPool = {} /\ sc.reservations = <<>>
  ELSE \A d \in sc.lease : d > 0

(* The pool is in order and both its ends are on the subnet. *)
parsePool4(sc) ==
  /\ sc.prefixPool = {} /\ sc.prefixSize = 0
  /\ (sc.pool = {}) = (sc.leasedb = {})
  /\ \A r \in sc.pool :
       r.start <= r.end /\ Covers(sc.cidr, r.start) /\ Covers(sc.cidr, r.end)

parsePool6(sc) ==
  /\ sc.pool = {} /\ sc.leasedb = {}
  /\ sc.prefixPool = {} => sc.prefixSize = 0
  /\ \A p \in sc.prefixPool : sc.prefixSize \in p.bits .. Width

(* A MAC address has one reservation, however it is written, on the subnet.  *)
parseReservations(sc) ==
  sc.reservations # <<>> =>
    /\ sc.v4
    /\ \A i, j \in DOMAIN sc.reservations :
         i # j => sc.reservations[i].mac # sc.reservations[j].mac
    /\ \A i \in DOMAIN sc.reservations : Covers(sc.cidr, sc.reservations[i].addr)

parseOptions(sc) ==
  IF sc.v4 THEN \A a \in sc.router : Covers(sc.cidr, a) ELSE sc.router = {}

parseSubnet(sc) ==
  /\ sc.name # ""
  /\ parseMatch(sc)
  /\ parseLease(sc)
  /\ IF sc.v4 THEN parsePool4(sc) ELSE parsePool6(sc)
  /\ parseReservations(sc)
  /\ parseOptions(sc)

-----------------------------------------------------------------------------
(* config.go: the file as a whole. *)

overlaps_Strict(r, o) == r.start < o.end /\ o.start < r.end

overlaps(r, o) == r.start <= o.end /\ o.start <= r.end

(* Entries i and j of the file, i after j. *)
Pairs(list) == {ij \in (DOMAIN list) \X (DOMAIN list) : ij[2] < ij[1]}

checkNames(list) == \A ij \in Pairs(list) : list[ij[1]].name # list[ij[2]].name

checkDefaults(list) ==
  \A ij \in Pairs(list) :
    ~(list[ij[1]].isDefault /\ list[ij[2]].isDefault /\ list[ij[1]].v4 = list[ij[2]].v4)

checkLeaseDBs(list) == \A ij \in Pairs(list) : list[ij[1]].leasedb \cap list[ij[2]].leasedb = {}

poolConflict(a, b) ==
  \/ \E r \in a.pool, o \in b.pool : overlaps(r, o)
  \/ \E p \in a.prefixPool, q \in b.prefixPool : Overlaps(p, q)

checkPools(list) == \A ij \in Pairs(list) : ~poolConflict(list[ij[1]], list[ij[2]])

compile(list) ==
  /\ list # <<>>
  /\ \A i \in DOMAIN list : parseSubnet(list[i])
  /\ checkNames(list) /\ checkDefaults(list) /\ checkLeaseDBs(list) /\ checkPools(list)

(* newSelector: the file is accepted and has an entry of the family. *)
Serves(list, v4) == compile(list) /\ \E i \in DOMAIN list : list[i].v4 = v4

(* newSelector: the subnets of one family, in file order. *)
newSelector(list, v4) == SelectSeq(list, LAMBDA sc : sc.v4 = v4)

-----------------------------------------------------------------------------
(* plugin.go: the scope of a request, as a set of at most one entry.         *)

First(subs, Test(_)) ==
  LET hits == SelectSeq(subs, Test) IN IF hits = <<>> THEN {} ELSE {Head(hits)}

OrElse(sub, other) == IF sub # {} THEN sub ELSE other

(* A scope that lists no relays claims the ones on its own link. *)
claimsRelay(sub, addr) ==
  IF sub.relays = {} THEN Covers(sub.cidr, addr) ELSE \E p \in sub.relays : Covers(p, addr)

byRelay(subs, addr) == First(subs, LAMBDA sub : claimsRelay(sub, addr))

byInterface(subs, name) ==
  IF name = "" THEN {} ELSE First(subs, LAMBDA sub : name \in sub.ifaces)

byAddress(subs, addr) ==
  IF addr = Unset THEN {} ELSE First(subs, LAMBDA sub : Covers(sub.cidr, addr))

default(subs) == First(subs, LAMBDA sub : sub.isDefault)

(* The address a client says it has. *)
clientAddr4(req) == IF req.ciaddr # Unset THEN req.ciaddr ELSE req.requested

select4_AddressFirst(subs, ctx, req) ==
  OrElse(byAddress(subs, clientAddr4(req)),
    OrElse(IF req.giaddr # Unset THEN byRelay(subs, req.giaddr) ELSE byInterface(subs, ctx.iface),
      default(subs)))

select4_NoAddress(subs, ctx, req) ==
  OrElse(IF req.giaddr # Unset THEN byRelay(subs, req.giaddr) ELSE byInterface(subs, ctx.iface),
    default(subs))

select4(subs, ctx, req) ==
  OrElse(IF req.giaddr # Unset THEN byRelay(subs, req.giaddr) ELSE byInterface(subs, ctx.iface),
    OrElse(byAddress(subs, clientAddr4(req)), default(subs)))

(* The outermost relay's link address stands for giaddr. *)
select6(subs, ctx, req) ==
  OrElse(
    IF req.layers = 0 THEN byInterface(subs, ctx.iface)
    ELSE IF req.link # Unset THEN byRelay(subs, req.link)
    ELSE {},
    default(subs))

-----------------------------------------------------------------------------
(* plugin.go: what a scope answers. resp is the reply so far: its address,   *)
(* who gave it, and the scope its options come from. D is the state of the delegate, the  *)
(* range instance of the scope, by what range promises (module Range): its   *)
(* leases and the addresses it holds back. An outcome that drops the request *)
(* has no reply.                                                             *)

Outcome(D, resp, stop) == [D |-> D, resp |-> {resp}, stop |-> stop]
Dropped(D) == [D |-> D, resp |-> {}, stop |-> TRUE]

PoolOf(sub) == UNION {r.start .. r.end : r \in sub.pool}
Without(D, mac) == [m \in DOMAIN D.leases \ {mac} |-> D.leases[m]]
Holds(D, mac, addr) == mac \in DOMAIN D.leases /\ D.leases[mac] = addr
Free(sub, D) == PoolOf(sub) \ ({D.leases[m] : m \in DOMAIN D.leases} \cup D.declined)

(* range's Handler4. A declined address may be held back or not: there is a  *)
(* limit.                                                                    *)
rangeHandler4(sub, D, req, resp) ==
  CASE req.type = "inform" -> {Outcome(D, resp, FALSE)}
    [] req.type = "release" ->
         {Outcome(IF Holds(D, req.mac, req.ciaddr) THEN [D EXCEPT !.leases = Without(D, req.mac)]
                  ELSE D, resp, FALSE)}
    [] req.type = "decline" ->
         IF Holds(D, req.mac, req.requested)
         THEN {Outcome([leases |-> Without(D, req.mac), declined |-> back], resp, FALSE) :
                 back \in {D.declined, D.declined \cup {req.requested}}}
         ELSE {Outcome(D, resp, FALSE)}
    [] OTHER ->
         IF req.mac \in DOMAIN D.leases
         THEN {Outcome(D, [resp EXCEPT !.addr = D.leases[req.mac], !.by = "pool"], FALSE)}
         ELSE IF Free(sub, D) = {} THEN {Dropped(D)}
         ELSE {Outcome([D EXCEPT !.leases =
                          [m \in DOMAIN @ \cup {req.mac} |-> IF m = req.mac THEN a ELSE @[m]]],
                       [resp EXCEPT !.addr = a, !.by = "pool"], FALSE) : a \in Free(sub, D)}

delegate4(sub, D, req, resp) ==
  IF sub.pool = {} THEN {Outcome(D, resp, FALSE)} ELSE rangeHandler4(sub, D, req, resp)

Reserved(sub, mac) ==
  {sub.reservations[i].addr : i \in {j \in DOMAIN sub.reservations : sub.reservations[j].mac = mac}}

subnetHandle4(sub, D, req, resp) ==
  LET told == [resp EXCEPT !.opts = {sub.name}] IN
  IF req.type \in {"release", "decline"} THEN delegate4(sub, D, req, resp)
  ELSE IF req.type = "inform" THEN {Outcome(D, told, FALSE)}
  ELSE IF Reserved(sub, req.mac) # {}
  THEN {Outcome(D, [told EXCEPT !.addr = a, !.by = "reservation"], TRUE) : a \in Reserved(sub, req.mac)}
  ELSE delegate4(sub, D, req, told)
============================================================================
