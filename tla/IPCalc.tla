------------------------------- MODULE IPCalc -------------------------------
(***************************************************************************)
(* The address arithmetic of plugins/allocators/ipcalc.go. An IPv6 address *)
(* is a pair of words, because Go has no 128-bit integer; W stands for the *)
(* 64 bits of a word, so that TLC can go through every address of a        *)
(* narrower machine. Addresses are numbers below 2^(2W).                   *)
(***************************************************************************)
EXTENDS Integers

CONSTANT W  \* bits in a word

ASSUME WordAssumption == W \in Nat \ {0}

Bits == 2 * W
Word == 0 .. 2 ^ W - 1
Addr == 0 .. 2 ^ Bits - 1

Hi(a) == a \div 2 ^ W
Lo(a) == a % 2 ^ W
Join(hi, lo) == hi * 2 ^ W + lo

(* math/bits: the result, and what is carried or borrowed. *)
Add64(x, y, carry) ==
  [out |-> (x + y + carry) % 2 ^ W, carry |-> (x + y + carry) \div 2 ^ W]
Sub64(x, y, borrow) ==
  [out |-> (x - y - borrow) % 2 ^ W, borrow |-> IF x < y + borrow THEN 1 ELSE 0]
Mul64(x, y) == [hi |-> (x * y) \div 2 ^ W, lo |-> (x * y) % 2 ^ W]
Shl(x, n) == (x * 2 ^ n) % 2 ^ W
Shr(x, n) == x \div 2 ^ n

(* ErrOverflow and the error of a prefix length out of range. *)
Failure == -1

Offset_NoBorrow(a, b, p) ==
  LET top == IF a < b THEN b ELSE a
      low == IF a < b THEN a ELSE b
      dLow == Sub64(Lo(top), Lo(low), 0).out
      dHigh == Sub64(Hi(top), Hi(low), 0).out
  IN  IF a = b THEN 0
      ELSE IF p <= W THEN Shr(Sub64(Hi(top), Hi(low), 0).out, W - p)
      ELSE IF dHigh >= 2 ^ (Bits - p) THEN Failure
      ELSE (Shl(dHigh, p - W) + Shr(dLow, Bits - p)) % 2 ^ W

(* The distance between a and b in units of /p subnets. *)
Offset(a, b, p) ==
  LET top == IF a < b THEN b ELSE a
      low == IF a < b THEN a ELSE b
      dLow == Sub64(Lo(top), Lo(low), 0)
      dHigh == Sub64(Hi(top), Hi(low), dLow.borrow).out
  IN  IF p \notin 0 .. Bits THEN Failure
      ELSE IF a = b THEN 0
      ELSE IF p <= W THEN Shr(Sub64(Hi(top), Hi(low), 0).out, W - p)
      ELSE IF dHigh >= 2 ^ (Bits - p) THEN Failure
      ELSE (Shl(dHigh, p - W) + Shr(dLow.out, Bits - p)) % 2 ^ W

(* The n-th /unit subnet after ip. *)
AddPrefixes(ip, n, unit) ==
  LET off == IF unit <= W THEN [hi |-> Shl(n, W - unit), lo |-> 0]
             ELSE Mul64(n, 2 ^ (Bits - unit))
      low == Add64(off.lo, Lo(ip), 0)
      high == Add64(off.hi, Hi(ip), low.carry)
  IN  IF unit = 0 /\ n # 0 THEN Failure
      ELSE IF n = 0 THEN ip
      ELSE IF high.carry # 0 THEN Failure
      ELSE Join(high.out, low.out)

-----------------------------------------------------------------------------
(* What they are meant to compute, on plain numbers. *)

(* The number of the /p subnet that holds a. *)
Subnet(a, p) == a \div 2 ^ (Bits - p)

Distance(a, b, p) ==
  LET d == Subnet(a, p) - Subnet(b, p) IN IF d < 0 THEN -d ELSE d

OrFailure(d, bound) == IF d < bound THEN d ELSE Failure

Aligned(a, p) == a % 2 ^ (Bits - p) = 0
=============================================================================
