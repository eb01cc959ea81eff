------------------------------- MODULE Naming -------------------------------
(***************************************************************************)
(* The names of ddns put to use: a zone with the names clients ask for in  *)
(* it, and a reverse: network with the addresses leased.                   *)
(***************************************************************************)
EXTENDS Names

CONSTANTS
  RawNames,   \* the names asked for
  Zones,      \* the zones configured
  Addresses,  \* the addresses leased
  Lengths     \* the prefix lengths tried

VARIABLES
  asked,   \* the names a client asks for in turn, under the zone
  zone,    \* the zone configured
  leased,  \* the address to write a PTR for
  net      \* the reverse: network

vars == <<asked, zone, leased, net>>

Init == asked = <<>> /\ zone = <<>> /\ leased = <<>> /\ net = <<>>

(* A zone is configured, and clients ask for names in it. *)
Configure ==
  /\ zone = <<>> /\ net = <<>>
  /\ \E raw \in Zones : \E z \in canonicalZone(raw) : zone' = z
  /\ UNCHANGED <<asked, leased, net>>

AskName ==
  /\ zone # <<>> /\ Len(asked) < 2
  /\ \E raw \in RawNames : asked' = Append(asked, raw)
  /\ UNCHANGED <<zone, leased, net>>

(* A reverse: network is configured, and an address is leased. *)
Delegate ==
  /\ zone = <<>> /\ net = <<>>
  /\ \E a \in Addresses, n \in Lengths :
       /\ n <= octetBits * Len(a.octets)
       /\ net' = <<[addr |-> a, bits |-> n]>>
  /\ UNCHANGED <<asked, zone, leased>>

Lease ==
  /\ net # <<>> /\ leased = <<>>
  /\ \E a \in Addresses : leased' = <<a>>
  /\ UNCHANGED <<asked, zone, net>>

Next == Configure \/ AskName \/ Delegate \/ Lease

Spec == Init /\ [][Next]_vars

-----------------------------------------------------------------------------
(* What a spelling stands for, from the rules of DNS: capitals and the dot   *)
(* at the end mean nothing, and a lone label is relative to the zone.        *)
Meant(raw) ==
  IF Len(raw.labels) = 1 THEN lower(raw.labels \o zone) ELSE lower(raw.labels)

Covers(p, a) ==
  p.addr.v4 = a.v4 /\ \A i \in 1 .. p.bits : Bit(p.addr, i) = Bit(a, i)

(* hostFQDN names something strictly inside the zone or nothing, keeps a     *)
(* name it made, and makes one name of two spellings exactly when they stand *)
(* for the same, so that protect: holds whatever way a client spells it; and *)
(* an address's PTR name lies in the zone of a reverse: network exactly when *)
(* the network holds the address (ptrName and reverseZone).                  *)
NamesExact ==
  /\ \A i \in DOMAIN asked : \A n \in hostFQDN(asked[i], zone) :
       /\ Len(n) > Len(zone) /\ EndsWith(n, zone)
       /\ hostFQDN([labels |-> n, dot |-> TRUE], zone) = {n}
       /\ \A j \in DOMAIN asked :
            hostFQDN(asked[j], zone) = {n} <=> Meant(asked[j]) = Meant(asked[i])
  /\ \A i \in DOMAIN leased, z \in UNION {reverseZone(net[j]) : j \in DOMAIN net} :
       /\ Covers(net[1], leased[i]) <=>
            /\ ptrName(leased[i]).tree = z.tree
            /\ EndsWith(ptrName(leased[i]).labels, z.labels)
============================================================================
