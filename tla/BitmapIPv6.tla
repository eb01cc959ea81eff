----------------------------- MODULE BitmapIPv6 -----------------------------
(***************************************************************************)
(* The IPv6 allocator (plugins/allocators/bitmap/bitmap_ipv6.go): a range  *)
(* of addresses kept as two words and a size, MaxSize being                *)
(* maxIPv6RangeSize. The constructor runs on every pair of addresses.      *)
(***************************************************************************)
EXTENDS IPCalc, Bitset

CONSTANTS
  MaxSize,  \* most addresses in a range
  Starts    \* the start addresses tried

VARIABLES
  start, end,  \* the arguments of NewIPv6Allocator
  len,         \* the allocator's size, 0 when it was not built
  bits, last

vars == <<start, end, len, bits, last>>

Nowhere == -1
Result(what, at) == [what |-> what, at |-> at]

(* The size NewIPv6Allocator arrives at, 0 for a range it refuses. *)
NewSize(s, e) ==
  LET lo == Sub64(Lo(e), Lo(s), 0)
      hi == Sub64(Hi(e), Hi(s), lo.borrow)
  IN  IF hi.borrow # 0 \/ hi.out # 0 \/ lo.out >= MaxSize THEN 0 ELSE lo.out + 1

toIP(offset) ==
  LET lo == Add64(Lo(start), offset, 0)
  IN  Join(Add64(Hi(start), 0, lo.carry).out, lo.out)

toOffset(ip) ==
  LET lo == Sub64(Lo(ip), Lo(start), 0)
      hi == Sub64(Hi(ip), Hi(start), lo.borrow)
  IN  IF ip = Nowhere \/ hi.borrow # 0 \/ hi.out # 0 \/ lo.out >= len
      THEN NoOffset ELSE lo.out

Allocate(hint) ==
  /\ len > 0
  /\ LET next == PickOffset(toOffset(hint), bits, len)
     IN  IF next = NoOffset
         THEN last' = Result("full", Nowhere) /\ UNCHANGED bits
         ELSE bits' = bits \cup {next} /\ last' = Result("given", toIP(next))
  /\ UNCHANGED <<start, end, len>>

Free(ip) ==
  /\ len > 0
  /\ LET offset == toOffset(ip)
     IN  IF offset = NoOffset
         THEN last' = Result("foreign", Nowhere) /\ UNCHANGED bits
         ELSE IF ~Test(bits, offset)
         THEN last' = Result("double", Nowhere) /\ UNCHANGED bits
         ELSE bits' = bits \ {offset} /\ last' = Result("freed", ip)
  /\ UNCHANGED <<start, end, len>>

Init ==
  /\ start \in Starts /\ end \in Addr
  /\ len = NewSize(start, end)
  /\ bits = {} /\ last = Result("new", Nowhere)

Next == \E ip \in Addr \cup {Nowhere} : Allocate(ip) \/ Free(ip)

Spec == Init /\ [][Next]_vars

-----------------------------------------------------------------------------
(* The pool an allocator of the range stands for. *)
Blocks == IF len = 0 THEN {} ELSE start .. end
Taken == {toIP(i) : i \in bits}

(* The range is refused exactly when it is empty or too wide, and otherwise   *)
(* has as many bits as addresses, whichever words its ends fall into.         *)
ConstructorExact ==
  len = IF start <= end /\ end - start < MaxSize THEN end - start + 1 ELSE 0
=============================================================================
