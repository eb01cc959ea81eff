------------------------------- MODULE Names -------------------------------
(***************************************************************************)
(* The names of the ddns plugin (plugins/ddns/name.go): the host names     *)
(* clients ask for and protect: lists, and the names of the reverse tree.  *)
(* A label is <<text, capitals>>; a name is a sequence of labels, written  *)
(* with or without a dot at its end; the fully qualified names inside the  *)
(* plugin all have the dot, which is left out here. An address is a family *)
(* and its octets.                                                         *)
(***************************************************************************)
EXTENDS Integers, Sequences, FiniteSets

LOCAL INSTANCE SequencesExt

CONSTANTS
  len(_),         \* the octets of a label's text
  Unclean,        \* the texts with a hyphen at an end or a byte outside [a-z0-9-]
  maxLabel, maxName,
  octetBits       \* the bits of an octet; a nibble has half of them

lower(labels) == [i \in DOMAIN labels |-> <<labels[i][1], FALSE>>]

validLabel(l) == len(l[1]) \in 1 .. maxLabel /\ l[1] \notin Unclean

Octets(name) == FoldLeft(LAMBDA n, l : n + len(l[1]) + 1, -1, name)

validName(name) ==
  name # <<>> /\ Octets(name) <= maxName /\ \A i \in DOMAIN name : validLabel(name[i])

EndsWith(name, z) == Len(name) >= Len(z) /\ SubSeq(name, Len(name) - Len(z) + 1, Len(name)) = z

(* The name as a set, which is empty on an error. The apex of the zone is    *)
(* not under it.                                                             *)
hostFQDN(raw, z) ==
  LET name == lower(raw.labels)
      full == IF Len(name) = 1 THEN name \o z ELSE name
  IN  {n \in {full} : name # <<>> /\ validName(n) /\ Len(n) > Len(z) /\ EndsWith(n, z)}

canonicalZone(raw) == {n \in {lower(raw.labels)} : validName(n)}

-----------------------------------------------------------------------------
(* The reverse tree: a label for each octet of an IPv4 address and for each  *)
(* nibble of an IPv6 one, the least significant first.                       *)
nibble == 2 ^ (octetBits \div 2)

arpaLabels_SwapsNibbles(a) ==
  LET n == Len(a.octets) IN
  IF a.v4 THEN [i \in 1 .. n |-> a.octets[n + 1 - i]]
  ELSE [i \in 1 .. 2 * n |->
          LET o == a.octets[n + 1 - ((i + 1) \div 2)] IN
          IF i % 2 = 1 THEN o \div nibble ELSE o % nibble]

arpaLabels(a) ==
  LET n == Len(a.octets) IN
  IF a.v4 THEN [i \in 1 .. n |-> a.octets[n + 1 - i]]
  ELSE [i \in 1 .. 2 * n |->
          LET o == a.octets[n + 1 - ((i + 1) \div 2)] IN
          IF i % 2 = 1 THEN o % nibble ELSE o \div nibble]

ptrName(a) == [labels |-> arpaLabels(a), tree |-> a.v4]

reverseUnits(p) ==
  LET per == IF p.addr.v4 THEN octetBits ELSE octetBits \div 2 IN
  {p.bits \div per : x \in {0} \cap {p.bits % per}}

(* netip.Prefix.Masked. *)
Bit(a, i) == (a.octets[((i - 1) \div octetBits) + 1] \div 2 ^ (octetBits - 1 - ((i - 1) % octetBits))) % 2
OctetOf(bits, k) ==
  FoldLeft(LAMBDA n, i : 2 * n + bits[(k - 1) * octetBits + i], 0, [i \in 1 .. octetBits |-> i])
MaskedPrefix(p) ==
  LET kept == [i \in 1 .. octetBits * Len(p.addr.octets) |-> IF i <= p.bits THEN Bit(p.addr, i) ELSE 0]
  IN  [p EXCEPT !.addr.octets = [k \in DOMAIN @ |-> OctetOf(kept, k)]]

reverseZone(p) ==
  LET labels == arpaLabels(MaskedPrefix(p).addr) IN
  {[labels |-> SubSeq(labels, Len(labels) - u + 1, Len(labels)), tree |-> p.addr.v4] :
     u \in reverseUnits(p)}
============================================================================
