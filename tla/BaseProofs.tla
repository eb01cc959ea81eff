----------------------------- MODULE BaseProofs -----------------------------
(***************************************************************************)
(* Facts the proofs about several components share: least numbers, what    *)
(* the search of the allocators returns, and sequences.                    *)
(***************************************************************************)
EXTENDS Bitset, Sequences, WellFoundedInduction, TLAPS

(* A non-empty set of naturals has a least element. *)
LEMMA LeastNatural ==
  ASSUME NEW X \in SUBSET Nat, X # {}
  PROVE  \E x \in X : \A y \in X : x <= y
<1>1. PICK x \in X : \A y \in X : ~(<<y, x>> \in OpToRel(<, Nat))
  BY Zenon, NatLessThanWellFounded, WFMin
<1>2. OpToRel(<, Nat) = {ss \in Nat \X Nat : ss[1] < ss[2]}
  BY Zenon DEF OpToRel
<1>3. ASSUME NEW y \in X, ~(x <= y) PROVE FALSE
  <2>1. <<y, x>> \in {ss \in Nat \X Nat : ss[1] < ss[2]}
    BY <1>3
  <2> QED
    BY Zenon, <2>1, <1>1, <1>2
<1> QED
  BY <1>1, <1>3

(* A set of numbers up to n has a last one. *)
LEMMA GreatestNatural ==
  ASSUME NEW n \in Nat, NEW X \in SUBSET (1 .. n), X # {}
  PROVE  \E x \in X : \A y \in X : y <= x
<1> DEFINE Y == {n - x : x \in X}
<1>1. Y \in SUBSET Nat /\ Y # {}
  <2>1. \A x \in X : n - x \in Nat
    OBVIOUS
  <2> QED
    BY <2>1
<1>2. PICK y \in Y : \A z \in Y : y <= z
  BY <1>1, LeastNatural
<1>3. PICK x \in X : y = n - x
  OBVIOUS
<1>4. ASSUME NEW z \in X PROVE z <= x
  <2>1. n - x <= n - z /\ x \in 1 .. n /\ z \in 1 .. n
    BY <1>2, <1>3
  <2> QED
    BY <2>1
<1> QED
  BY <1>4

-----------------------------------------------------------------------------
(* The search for a clear bit. *)

(* The search finds the lowest clear bit whenever there is one. *)
LEMMA NextClearLowest ==
  ASSUME NEW bits, NEW len \in Nat, HasClear(bits, len)
  PROVE  /\ NextClear(bits, len) \in 0 .. len - 1
         /\ NextClear(bits, len) \notin bits
         /\ \A j \in 0 .. NextClear(bits, len) - 1 : j \in bits
<1> DEFINE Clear == {i \in 0 .. len - 1 : i \notin bits}
<1>1. Clear \in SUBSET Nat /\ Clear # {}
  BY DEF HasClear
<1>2. PICK x \in Clear : \A y \in Clear : x <= y
  <2> HIDE DEF Clear
  <2> QED
    BY <1>1, LeastNatural
<1>3. /\ x \in 0 .. len - 1 /\ x \notin bits
      /\ \A j \in 0 .. x - 1 : j \in bits
  BY <1>2
<1> QED
  BY <1>3 DEF NextClear

(* Allocate on a pool with a clear bit returns a clear bit of the pool, the   *)
(* hinted one whenever that is clear.                                         *)
LEMMA PickOffsetClear ==
  ASSUME NEW bits, NEW len \in Nat \ {0}, HasClear(bits, len),
         NEW hint \in 0 .. len - 1 \cup {NoOffset}
  PROVE  /\ PickOffset(hint, bits, len) \in 0 .. len - 1
         /\ PickOffset(hint, bits, len) \notin bits
         /\ hint # NoOffset /\ hint \notin bits => PickOffset(hint, bits, len) = hint
BY NextClearLowest DEF PickOffset, Test, NoOffset

-----------------------------------------------------------------------------
(* Sequences. *)

LEMMA SeqLen ==
  ASSUME NEW X, NEW s \in Seq(X)
  PROVE  Len(s) \in Nat /\ s \in [1 .. Len(s) -> X] /\ DOMAIN s = 1 .. Len(s)
OBVIOUS

LEMMA SeqEmpty ==
  ASSUME NEW X
  PROVE  << >> \in Seq(X) /\ Len(<< >>) = 0
         /\ \A s \in Seq(X) : s # << >> => Len(s) \in Nat \ {0}
OBVIOUS

LEMMA SeqAppend ==
  ASSUME NEW X, NEW s \in Seq(X), NEW x \in X
  PROVE  /\ Append(s, x) \in Seq(X) /\ Append(s, x) # << >>
         /\ Len(Append(s, x)) = Len(s) + 1 /\ Append(s, x)[Len(s) + 1] = x
         /\ \A i \in 1 .. Len(s) : Append(s, x)[i] = s[i]
OBVIOUS

LEMMA SeqConcat ==
  ASSUME NEW X, NEW s \in Seq(X), NEW t \in Seq(X)
  PROVE  /\ s \o t \in Seq(X) /\ Len(s \o t) = Len(s) + Len(t)
         /\ \A i \in 1 .. Len(s) + Len(t) :
              (s \o t)[i] = IF i <= Len(s) THEN s[i] ELSE t[i - Len(s)]
OBVIOUS

LEMMA SeqHeadTail ==
  ASSUME NEW X, NEW s \in Seq(X), s # << >>
  PROVE  /\ Head(s) \in X /\ Tail(s) \in Seq(X) /\ Len(Tail(s)) = Len(s) - 1
         /\ \A i \in 1 .. Len(Tail(s)) : Tail(s)[i] = s[i + 1]
OBVIOUS
=============================================================================
