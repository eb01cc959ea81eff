----------------------------- MODULE BitmapIPv4 -----------------------------
(***************************************************************************)
(* The IPv4 allocator (plugins/allocators/bitmap/bitmap_ipv4.go). Addresses*)
(* are 32-bit words; Space stands for 2^32, and the arithmetic on them     *)
(* wraps around at Space. Every method holds the allocator's mutex from    *)
(* its first look at the bitmap to its return.                             *)
(***************************************************************************)
EXTENDS Integers, Bitset

CONSTANTS
  Space,   \* the number of IPv4 addresses
  Ranges   \* the configured ranges, as pairs <<start, end>>

Addrs == 0 .. Space - 1

VARIABLES
  start, end,  \* the range
  bits, len,   \* the bitset: the bits set, and its length
  last         \* the result of the last call

vars == <<start, end, bits, len, last>>

Nowhere == -1
Result(what, at) == [what |-> what, at |-> at]

(* The errors for an address of the wrong family and one out of range. *)
toOffset(ip) ==
  IF ip = Nowhere \/ ip < start \/ ip > end THEN NoOffset ELSE ip - start

toIP(offset) == (start + offset) % Space

(* bitset.Set extends a bitset that is too short. *)
SetBit(i) == bits' = bits \cup {i} /\ len' = IF i < len THEN len ELSE i + 1

Allocate(hint) ==
  /\ LET next == PickOffset(toOffset(hint), bits, len)
     IN  IF next = NoOffset
         THEN last' = Result("full", Nowhere) /\ UNCHANGED <<bits, len>>
         ELSE SetBit(next) /\ last' = Result("given", toIP(next))
  /\ UNCHANGED <<start, end>>

Free(ip) ==
  /\ LET offset == toOffset(ip)
     IN  IF offset = NoOffset
         THEN last' = Result("foreign", Nowhere) /\ UNCHANGED bits
         ELSE IF ~Test(bits, offset)
         THEN last' = Result("double", Nowhere) /\ UNCHANGED bits
         ELSE bits' = bits \ {offset} /\ last' = Result("freed", ip)
  /\ UNCHANGED <<start, end, len>>

(* NewIPv4Allocator: the number of bits is computed in 32-bit arithmetic. *)
Init ==
  /\ \E r \in Ranges : start = r[1] /\ end = r[2]
  /\ start <= end
  /\ bits = {} /\ len = (end - start + 1) % Space
  /\ last = Result("new", Nowhere)

Next == \E ip \in Addrs \cup {Nowhere} : Allocate(ip) \/ Free(ip)

Spec == Init /\ [][Next]_vars

-----------------------------------------------------------------------------
(* The pool an allocator of the range stands for. *)
Blocks == start .. end
Taken == {toIP(i) : i \in bits}
=============================================================================
