------------------------------- MODULE Bitset -------------------------------
(***************************************************************************)
(* The bitset every allocator of plugins/allocators/bitmap keeps its       *)
(* addresses in (github.com/bits-and-blooms/bitset, an external library,   *)
(* modelled from how the allocators call it), and the one search they all  *)
(* share: the exact hint first, the lowest clear bit otherwise.            *)
(*                                                                         *)
(* A bitset is the set `bits` of the positions that are set, plus a length *)
(* `len`: Test of a position beyond the length is false, NextClear never   *)
(* looks beyond it.                                                        *)
(***************************************************************************)
EXTENDS Integers

(* What Allocate returns when it fails with ErrNoAddrAvail, and the hint of *)
(* a caller that has none.                                                  *)
NoOffset == -1

Test(bits, i) == i \in bits

HasClear(bits, len) == \E i \in 0 .. len - 1 : i \notin bits

(* The lowest clear position at or above zero. *)
NextClear(bits, len) ==
  CHOOSE i \in 0 .. len - 1 : i \notin bits /\ \A j \in 0 .. i - 1 : j \in bits

PickOffset_HintWins(hint, bits, len) == IF hint = NoOffset THEN 0 ELSE hint

(* The position Allocate settles on. A hint that does not translate into    *)
(* the pool is position 0, because the error of toOffset is ignored.        *)
PickOffset(hint, bits, len) ==
  LET at == IF hint = NoOffset THEN 0 ELSE hint IN
  IF ~Test(bits, at) THEN at
  ELSE IF HasClear(bits, len) THEN NextClear(bits, len) ELSE NoOffset
=============================================================================
