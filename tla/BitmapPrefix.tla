---------------------------- MODULE BitmapPrefix ----------------------------
(***************************************************************************)
(* The prefix allocator (plugins/allocators/bitmap/bitmap.go): /page       *)
(* prefixes carved out of a containing prefix, one bit each, found by      *)
(* Offset and AddPrefixes. A prefix is named by its first address.         *)
(***************************************************************************)
EXTENDS IPCalc, Bitset

CONSTANTS
  Bases,     \* the first addresses of the containing prefixes tried
  PoolLens,  \* their lengths
  HintLens   \* the lengths of the prefixes in a call

VARIABLES
  base, plen,  \* the containing prefix
  page,        \* the length of the prefixes handed out
  bits, last,
  held         \* the prefixes returned and not freed since: <<address, length>>

vars == <<base, plen, page, bits, last, held>>

Nowhere == -1
Result(what, at) == [what |-> what, at |-> at]

len == 2 ^ (page - plen)

Contains(ip) == ip # Nowhere /\ Subnet(ip, plen) = Subnet(base, plen)
Mask(ip, length) == ip - (ip % 2 ^ (Bits - length))

toIndex(ip) == Offset(ip, base, page)
toPrefix(idx) == AddPrefixes(base, idx, page)

(* The length of the prefix returned: the hinted one when it is longer than  *)
(* a page and its mask is an IPv6 one.                                       *)
ReqSize(length) == IF length < page THEN page ELSE length

Allocate(hint, length) ==
  /\ LET idx == toIndex(hint)
         exact == Contains(hint) /\ idx # Failure /\ ~Test(bits, idx)
         next == IF exact THEN idx
                 ELSE IF HasClear(bits, len) THEN NextClear(bits, len) ELSE NoOffset
     IN  IF next = NoOffset
         THEN last' = Result("full", Nowhere) /\ UNCHANGED <<bits, held>>
         ELSE /\ bits' = bits \cup {next}
              /\ last' = Result("given", toPrefix(next))
              /\ held' = held \cup {<<toPrefix(next), ReqSize(length)>>}
  /\ UNCHANGED <<base, plen, page>>

Free(ip, length) ==
  /\ LET idx == toIndex(Mask(ip, length))
     IN  IF idx = Failure
         THEN last' = Result("foreign", Nowhere) /\ UNCHANGED <<bits, held>>
         ELSE IF ~Test(bits, idx)
         THEN last' = Result("double", Nowhere) /\ UNCHANGED <<bits, held>>
         ELSE /\ bits' = bits \ {idx}
              /\ last' = Result("freed", Mask(Mask(ip, length), page))
              /\ held' = {h \in held : h[1] # toPrefix(idx)}
  /\ UNCHANGED <<base, plen, page>>

(* NewBitmapAllocator refuses more prefixes than an int has bits for. *)
Init ==
  /\ plen \in PoolLens /\ page \in plen .. Bits /\ page - plen < W
  /\ base \in {a \in Bases : Aligned(a, plen)}
  /\ bits = {} /\ last = Result("new", Nowhere) /\ held = {}

(* A caller frees only what it was given, which the plugins see to. *)
Next ==
  \E ip \in Addr \cup {Nowhere}, length \in HintLens :
    \/ Allocate(ip, length)
    \/ Contains(ip) /\ length >= page /\ Free(ip, length)

Spec == Init /\ [][Next]_vars

-----------------------------------------------------------------------------
(* The pool an allocator stands for. *)
Blocks == {base + i * 2 ^ (Bits - page) : i \in 0 .. len - 1}

Taken == {toPrefix(i) : i \in bits}

(* The prefixes in clients' hands never overlap, whatever lengths they asked  *)
(* for.                                                                       *)
PrefixesDisjoint ==
  \A h, k \in held : h # k =>
    LET shorter == IF h[2] < k[2] THEN h[2] ELSE k[2]
    IN  Subnet(h[1], shorter) # Subnet(k[1], shorter)
=============================================================================
