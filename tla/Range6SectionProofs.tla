------------------------- MODULE Range6SectionProofs -------------------------
(***************************************************************************)
(* What a locked section of Range6 does to the state S it works on, for    *)
(* every pool size, set of clients and queue length.                       *)
(*                                                                         *)
(* The steps of the proofs follow a section operator by operator. Each     *)
(* shows two things of the state it leaves: the pool is accounted for in   *)
(* it (Good), or is but for one address in hand (Taken); and no binding    *)
(* that has time left is touched (Keeps), but for those given up.          *)
(***************************************************************************)
EXTENDS Range6, BaseProofs, FiniteSetTheorems, TLAPS

(* Zenon proves the leaves, but for those that name another prover. *)
USE ZenonT(30)

Record == [gen : Gens, ip : IPs, expires : Nat]
UndoSet ==
  {NoUndo} \cup [kind : {"drop"}, key : Keys, gen : Gens]
    \cup [kind : {"renew"}, key : Keys, gen : Gens, was : Nat, extended : Nat]
PendingSet == [undo : UndoSet, ia : Nat, result : {"waiting", "ok", "error"}]
WriteSet ==
  [op : {"store"}, key : Keys, ip : IPs, expires : Nat, by : Workers]
    \cup [op : {"remove"}, key : Keys, ip : IPs, by : Workers]
AnswerSet == [key : Keys, ip : IPs \cup {NoOffset}, until : Nat]

LockedOK(S) ==
  /\ DOMAIN S = {"rec", "alloc", "dec", "q", "pend", "ia"}
  /\ IsMap(S.rec, Keys, Record) /\ IsMap(S.dec, IPs, Nat)
  /\ S.alloc \in SUBSET IPs
  /\ S.q \in Seq(WriteSet) /\ Len(S.q) <= QueueLen
  /\ S.pend \in Seq(PendingSet) /\ S.ia \in Nat

Leased(S) == {S.rec[k].ip : k \in DOMAIN S.rec}

Apart(S) ==
  /\ \A k, l \in DOMAIN S.rec : S.rec[k].ip = S.rec[l].ip => k = l
  /\ \A k \in DOMAIN S.rec : S.rec[k].ip \notin DOMAIN S.dec

Few(S) == Cardinality(DOMAIN S.dec) <= DeclineMax

Good(S) ==
  LockedOK(S) /\ S.alloc = Leased(S) \cup DOMAIN S.dec /\ Apart(S) /\ Few(S)

(* The bit of ip is set and nothing in the tables accounts for it yet. *)
Taken(S, ip) ==
  /\ LockedOK(S) /\ Apart(S) /\ Few(S)
  /\ ip \in IPs /\ ip \notin Leased(S) /\ ip \notin DOMAIN S.dec
  /\ S.alloc = Leased(S) \cup DOMAIN S.dec \cup {ip}

(* What an allocation returns: an address in hand, or none. *)
Allocated(a) ==
  IF a.ip = NoOffset THEN Good(a.st) ELSE Taken(a.st, a.ip)

(* A binding of S with time left is in T, on its address and for at least as  *)
(* long, unless it is one of those given up, G.                               *)
Keeps(S, T, G) ==
  \A k \in DOMAIN S.rec :
    ~Expired(S.rec[k], now) /\ [key |-> k, ip |-> S.rec[k].ip] \notin G =>
      /\ k \in DOMAIN T.rec
      /\ T.rec[k].ip = S.rec[k].ip
      /\ T.rec[k].expires >= S.rec[k].expires

(* The answer for an IA_NA: its address is bound for as long as it says. *)
Answered(r, k, t) ==
  /\ Good(r.st)
  /\ r.ip \in IPs \cup {NoOffset}
  /\ r.ip # NoOffset =>
       /\ k \in DOMAIN r.st.rec
       /\ r.st.rec[k].ip = r.ip
       /\ r.st.rec[k].expires >= Unix(LeaseEnd(t))

-----------------------------------------------------------------------------
(* Constants, times and maps. *)

LEMMA Numbers ==
  /\ PoolSize \in Nat \ {0} /\ QueueLen \in Nat \ {0} /\ TicksPerSec \in Nat \ {0}
  /\ MaxIANAs \in Nat \ {0}
  /\ LeaseTime \in Nat /\ DeclineProbation \in Nat /\ DeclineMax \in Nat
  /\ MaxLeases \in Nat /\ MaxTick \in Nat /\ MaxMishaps \in Nat
BY Range6Assumption DEF Range6Assumption

LEMMA Times ==
  ASSUME NEW t \in Nat, NEW T \in Nat \ {0}
  PROVE  /\ t \div T \in Nat /\ (2 * t + T) \div (2 * T) \in Nat
         /\ (2 * t + T) \div (2 * T) >= t \div T
         /\ \A e \in Nat : e * T >= t => e >= t \div T
         /\ \A e \in Nat : e * T < t => e <= t \div T
<1> DEFINE u == t \div T
           r == (2 * t + T) \div (2 * T)
<1>1. u \in Nat /\ T * u <= t /\ t < T * u + T
  BY SMTT(60)
<1>2. r \in Nat /\ 2 * T * r <= 2 * t + T /\ 2 * t + T < 2 * T * r + 2 * T
  <2> DEFINE a == 2 * t + T
             b == 2 * T
  <2>1. a \in Nat /\ b \in Nat \ {0}
    BY SMTT(60)
  <2> HIDE DEF a, b
  <2>2. a \div b \in Nat /\ b * (a \div b) <= a /\ a < b * (a \div b) + b
    BY <2>1, SMTT(60)
  <2> QED
    BY <2>2 DEF a, b
<1> HIDE DEF u, r
<1>3. ASSUME NEW e \in Nat, e < u PROVE T * e + T <= T * u
  BY <1>1, <1>3, SMTT(60)
<1>4. ASSUME NEW e \in Nat, u < e PROVE T * u + T <= T * e
  BY <1>1, <1>4, SMTT(60)
<1>5. r >= u
  <2> SUFFICES ASSUME r < u PROVE FALSE
    BY <1>1, <1>2, SMTT(60)
  <2>1. T * r + T <= T * u
    BY <1>2, <1>3
  <2>2. T * r \in Nat /\ T * u \in Nat
    BY <1>1, <1>2, SMTT(60)
  <2>3. 2 * T * r = 2 * (T * r)
    BY <1>2, SMTT(60)
  <2> QED
    BY <1>1, <1>2, <2>1, <2>2, <2>3, SMTT(60)
<1>6. ASSUME NEW e \in Nat, e * T >= t PROVE e >= u
  <2>1. e * T = T * e /\ T * e \in Nat /\ T * u \in Nat
    BY <1>1, SMTT(60)
  <2> QED
    BY <1>1, <1>3, <1>6, <2>1, SMTT(60)
<1>7. ASSUME NEW e \in Nat, e * T < t PROVE e <= u
  <2>1. e * T = T * e /\ T * e \in Nat /\ T * u \in Nat
    BY <1>1, SMTT(60)
  <2> QED
    BY <1>1, <1>4, <1>7, <2>1, SMTT(60)
<1> QED
  BY <1>1, <1>2, <1>5, <1>6, <1>7 DEF u, r

(* The end of a lease, in ticks and in seconds. *)
LEMMA Ends ==
  ASSUME NEW t \in Nat
  PROVE  /\ LeaseEnd(t) \in Nat /\ Unix(t) \in Nat
         /\ Unix(LeaseEnd(t)) \in Nat /\ RoundUnix(LeaseEnd(t)) \in Nat
         /\ RoundUnix(LeaseEnd(t)) >= Unix(LeaseEnd(t))
         /\ \A e \in Nat : e * TicksPerSec >= LeaseEnd(t) => e >= Unix(LeaseEnd(t))
         /\ \A e \in Nat : ~(e * TicksPerSec >= LeaseEnd(t)) => e <= Unix(LeaseEnd(t))
<1>1. LeaseEnd(t) \in Nat
  BY Numbers, SMTT(60) DEF LeaseEnd
<1> DEFINE l == LeaseEnd(t)
<1>2. l \in Nat
  BY <1>1
<1> HIDE DEF l
<1>3. /\ l \div TicksPerSec \in Nat /\ (2 * l + TicksPerSec) \div (2 * TicksPerSec) \in Nat
      /\ (2 * l + TicksPerSec) \div (2 * TicksPerSec) >= l \div TicksPerSec
      /\ \A e \in Nat : e * TicksPerSec >= l => e >= l \div TicksPerSec
      /\ \A e \in Nat : e * TicksPerSec < l => e <= l \div TicksPerSec
  BY <1>2, Numbers, Times
<1>4. t \div TicksPerSec \in Nat
  BY Numbers, Times
<1>5. \A e \in Nat : ~(e * TicksPerSec >= l) => e * TicksPerSec < l
  BY <1>2, Numbers, SMTT(60)
<1> QED
  BY <1>1, <1>3, <1>4, <1>5 DEF l, Unix, RoundUnix

(* What has lapsed stays lapsed. *)
LEMMA LapsedLater ==
  ASSUME NEW s \in Nat, NEW t \in Nat, s <= t, NEW rec, rec.expires \in Nat, Expired(rec, s)
  PROVE  Expired(rec, t)
<1>1. s \div TicksPerSec <= t \div TicksPerSec
  <2> DEFINE T == TicksPerSec
             a == s \div T
             b == t \div T
  <2>0. T \in Nat \ {0}
    BY Numbers
  <2> HIDE DEF T
  <2>1. a \in Nat /\ b \in Nat /\ T * a <= s /\ t < T * b + T
    BY <2>0, SMTT(60)
  <2> HIDE DEF a, b
  <2>2. ASSUME b < a PROVE T * b + T <= T * a
    BY <2>0, <2>1, <2>2, SMTT(60)
  <2>3. T * a \in Nat /\ T * b \in Nat
    BY <2>0, <2>1, SMTT(60)
  <2>4. a <= b
    BY <2>0, <2>1, <2>2, <2>3, SMTT(60)
  <2> QED
    BY <2>4 DEF a, b, T
<1>2. s \div TicksPerSec \in Nat /\ t \div TicksPerSec \in Nat
  BY Numbers, SMTT(60)
<1> QED
  BY <1>1, <1>2, SMTT(60) DEF Expired, Unix

LEMMA WithoutMap ==
  ASSUME NEW K, NEW V, NEW f, IsMap(f, K, V), NEW D
  PROVE  /\ IsMap(Without(f, D), K, V)
         /\ DOMAIN Without(f, D) = DOMAIN f \ D
         /\ \A x \in DOMAIN f \ D : Without(f, D)[x] = f[x]
BY DEF Without, IsMap

LEMMA RecordFields ==
  ASSUME NEW r \in Record
  PROVE  r.gen \in Gens /\ r.ip \in IPs /\ r.expires \in Nat
BY DEF Record

LEMMA RecordOf ==
  ASSUME NEW S, LockedOK(S), NEW k \in DOMAIN S.rec
  PROVE  /\ k \in Keys /\ S.rec[k] \in Record
         /\ S.rec[k].gen \in Gens /\ S.rec[k].ip \in IPs /\ S.rec[k].expires \in Nat
<1>1. k \in Keys /\ S.rec[k] \in Record
  BY DEF LockedOK, IsMap
<1> QED
  BY <1>1, RecordFields

LEMMA EnqueueOK ==
  ASSUME NEW S, LockedOK(S), CanEnqueue(S), NEW c \in WriteSet, NEW u \in UndoSet
  PROVE  /\ LockedOK(Enqueue(S, c, u))
         /\ Enqueue(S, c, u).rec = S.rec /\ Enqueue(S, c, u).alloc = S.alloc
         /\ Enqueue(S, c, u).dec = S.dec
<1> DEFINE p == [undo |-> u, ia |-> S.ia, result |-> "waiting"]
<1>1. /\ DOMAIN Enqueue(S, c, u) = DOMAIN S
      /\ Enqueue(S, c, u).rec = S.rec /\ Enqueue(S, c, u).alloc = S.alloc
      /\ Enqueue(S, c, u).dec = S.dec /\ Enqueue(S, c, u).ia = S.ia
      /\ Enqueue(S, c, u).q = Append(S.q, c)
      /\ Enqueue(S, c, u).pend = Append(S.pend, p)
  BY DEF LockedOK, Enqueue
<1>2. p \in PendingSet
  BY DEF LockedOK, PendingSet
<1> HIDE DEF p
<1>3. /\ Append(S.q, c) \in Seq(WriteSet) /\ Len(Append(S.q, c)) = Len(S.q) + 1
      /\ Append(S.pend, p) \in Seq(PendingSet)
  BY <1>2, SeqAppend, SMTT(60) DEF LockedOK
<1>4. Len(S.q) + 1 <= QueueLen
  BY Numbers, SeqLen, SMTT(60) DEF CanEnqueue, LockedOK
<1> QED
  BY <1>1, <1>3, <1>4 DEF LockedOK

LEMMA ChangeOK ==
  ASSUME NEW k \in Keys, NEW rec \in Record, NEW by \in Workers
  PROVE  Store(k, rec, by) \in WriteSet /\ Remove(k, rec, by) \in WriteSet
<1>1. rec.ip \in IPs /\ rec.expires \in Nat
  BY RecordFields
<1>2. Store(k, rec, by) \in [op : {"store"}, key : Keys, ip : IPs, expires : Nat, by : Workers]
  BY <1>1 DEF Store
<1>3. Remove(k, rec, by) \in [op : {"remove"}, key : Keys, ip : IPs, by : Workers]
  BY <1>1 DEF Remove
<1> QED
  BY <1>2, <1>3 DEF WriteSet

(* Without the bindings of D, exactly their addresses are no longer bound. *)
LEMMA LeasedMinus ==
  ASSUME NEW S, NEW R, NEW D \in SUBSET DOMAIN S.rec, Apart(S),
         DOMAIN R.rec = DOMAIN S.rec \ D,
         \A k \in DOMAIN R.rec : R.rec[k] = S.rec[k]
  PROVE  \A x : x \in Leased(R) <=> x \in Leased(S) /\ \A k \in D : S.rec[k].ip # x
<1>1. ASSUME NEW x \in Leased(R)
      PROVE  x \in Leased(S) /\ \A k \in D : S.rec[k].ip # x
  <2>1. PICK l \in DOMAIN R.rec : x = R.rec[l].ip
    BY <1>1 DEF Leased
  <2>2. l \in DOMAIN S.rec /\ l \notin D /\ x = S.rec[l].ip
    BY <2>1
  <2> QED
    BY <2>2 DEF Leased, Apart
<1>2. ASSUME NEW x \in Leased(S), \A k \in D : S.rec[k].ip # x
      PROVE  x \in Leased(R)
  <2>1. PICK l \in DOMAIN S.rec : x = S.rec[l].ip
    BY <1>2 DEF Leased
  <2>2. l \in DOMAIN R.rec /\ x = R.rec[l].ip
    BY <1>2, <2>1
  <2> QED
    BY <2>2 DEF Leased
<1> QED
  BY <1>1, <1>2

(* A state R that is S without the bindings of D, their addresses freed. *)
LEMMA GoodMinus ==
  ASSUME NEW S, Good(S), NEW R, LockedOK(R), NEW D \in SUBSET DOMAIN S.rec,
         R.rec = Without(S.rec, D), R.dec = S.dec,
         R.alloc = S.alloc \ {S.rec[k].ip : k \in D}
  PROVE  Good(R)
<1>1. /\ DOMAIN R.rec = DOMAIN S.rec \ D
      /\ \A k \in DOMAIN R.rec : R.rec[k] = S.rec[k]
  BY DEF Without
<1>2. Apart(S) /\ Few(S) /\ S.alloc = Leased(S) \cup DOMAIN S.dec
  BY DEF Good
<1>3. Apart(R) /\ Few(R)
  BY <1>1, <1>2 DEF Apart, Few
<1>4. R.alloc = Leased(R) \cup DOMAIN R.dec
  <2>1. \A x : x \in Leased(R) <=> x \in Leased(S) /\ \A k \in D : S.rec[k].ip # x
    BY <1>1, <1>2, LeasedMinus, SMTT(60)
  <2>2. \A k \in D : S.rec[k].ip \notin DOMAIN S.dec
    BY <1>2 DEF Apart
  <2> QED
    BY <1>2, <2>1, <2>2, SMTT(30)
<1> QED
  BY <1>3, <1>4 DEF Good

(* The state behind the queue once the delete of k fitted in. *)
LEMMA RemoveQueued ==
  ASSUME NEW S, LockedOK(S), CanEnqueue(S), NEW k \in DOMAIN S.rec, NEW by \in Workers
  PROVE  LET T == Enqueue(S, Remove(k, S.rec[k], by), NoUndo)
         IN  LockedOK(T) /\ T.rec = S.rec /\ T.alloc = S.alloc /\ T.dec = S.dec
<1>1. k \in Keys /\ S.rec[k] \in Record
  BY RecordOf
<1>2. Remove(k, S.rec[k], by) \in WriteSet /\ NoUndo \in UndoSet
  BY <1>1, ChangeOK DEF UndoSet
<1> QED
  BY <1>2, EnqueueOK

LEMMA ReleaseGood ==
  ASSUME NEW S, Good(S), CanEnqueue(S), NEW k \in DOMAIN S.rec, NEW by \in Workers
  PROVE  /\ Good(releaseLease(S, k, by))
         /\ releaseLease(S, k, by).rec = Without(S.rec, {k})
<1> DEFINE T == Enqueue(S, Remove(k, S.rec[k], by), NoUndo)
           R == releaseLease(S, k, by)
           D == {k}
<1>1. LockedOK(S) /\ k \in Keys /\ S.rec[k] \in Record
  BY RecordOf DEF Good
<1>2. LockedOK(T) /\ T.rec = S.rec /\ T.alloc = S.alloc /\ T.dec = S.dec
  BY <1>1, RemoveQueued
<1>3. /\ R.rec = Without(S.rec, D) /\ R.alloc = S.alloc \ {S.rec[l].ip : l \in D}
      /\ R.dec = S.dec /\ R.q = T.q /\ R.pend = T.pend /\ R.ia = T.ia /\ DOMAIN R = DOMAIN T
  BY <1>2 DEF releaseLease, FreeBit, LockedOK
<1>4. D \in SUBSET DOMAIN S.rec
  OBVIOUS
<1> SUFFICES Good(R)
  BY <1>3
<1> HIDE DEF R, T, D
<1>5. IsMap(R.rec, Keys, Record)
  <2>1. IsMap(S.rec, Keys, Record)
    BY <1>1 DEF LockedOK
  <2>2. IsMap(Without(S.rec, D), Keys, Record)
    BY <2>1, WithoutMap
  <2> QED
    BY <1>3, <2>2
<1>6. LockedOK(R)
  BY <1>1, <1>2, <1>3, <1>5 DEF LockedOK
<1> QED
  BY <1>3, <1>4, <1>6, GoodMinus

(* A sweep meets distinct expired bindings, no more than the queue has room   *)
(* for.                                                                       *)
LEMMA SweepOrderOK ==
  ASSUME NEW S, LockedOK(S), NEW t, NEW s \in SweepOrders(S, t)
  PROVE  \E n \in Nat : /\ s \in [1 .. n -> DOMAIN S.rec]
                        /\ \A i \in 1 .. n : Expired(S.rec[s[i]], t)
                        /\ Len(S.q) + n <= QueueLen
<1> DEFINE E == {k \in DOMAIN S.rec : Expired(S.rec[k], t)}
           room == QueueLen - Len(S.q)
           n == IF Cardinality(E) <= room THEN Cardinality(E) ELSE room
<1>1. IsFiniteSet(E) /\ E \subseteq DOMAIN S.rec
  <2>1. E \subseteq DOMAIN S.rec /\ E \subseteq Keys
    BY DEF LockedOK, IsMap
  <2>2. IsFiniteSet(Keys)
    <3>1. IsFiniteSet(Duids \X Iaids)
      BY Range6Assumption, FS_Product DEF Range6Assumption
    <3>2. Keys \subseteq Duids \X Iaids
      BY SMTT(60) DEF Keys, leaseKey
    <3> QED
      BY <3>1, <3>2, FS_Subset
  <2> QED
    BY <2>1, <2>2, FS_Subset
<1>2. Cardinality(E) \in Nat
  BY <1>1, FS_CardinalityType
<1>3. room \in Nat
  BY Numbers, SeqLen, SMTT(60) DEF LockedOK
<1>4. s \in [1 .. n -> E]
  BY DEF SweepOrders
<1>5. n \in Nat /\ n <= room
  BY <1>2, <1>3, SMTT(60)
<1>6. Len(S.q) \in Nat /\ QueueLen \in Nat
  BY Numbers, SeqLen DEF LockedOK
<1>7. Len(S.q) + n <= QueueLen
  <2> HIDE DEF n
  <2> QED
    BY <1>5, <1>6, SMTT(60)
<1>8. s \in [1 .. n -> DOMAIN S.rec] /\ \A i \in 1 .. n : Expired(S.rec[s[i]], t)
  <2>1. \A i \in 1 .. n : s[i] \in E
    <3> HIDE DEF n, E
    <3> QED
      BY <1>4
  <2> HIDE DEF n
  <2> QED
    BY <1>4, <2>1
<1> HIDE DEF n
<1> QED
  BY <1>5, <1>7, <1>8

(* Another lifetime for a binding leaves the pool as it is. *)
LEMMA LifetimeGood ==
  ASSUME NEW S, Good(S), NEW k \in DOMAIN S.rec, NEW e \in Nat,
         NEW R, DOMAIN R = DOMAIN S, R.rec = With(S.rec, k, [S.rec[k] EXCEPT !.expires = e]),
         R.dec = S.dec, R.alloc = S.alloc, R.ia = S.ia,
         R.q \in Seq(WriteSet), Len(R.q) <= QueueLen, R.pend \in Seq(PendingSet)
  PROVE  /\ Good(R)
         /\ k \in DOMAIN R.rec /\ R.rec[k].ip = S.rec[k].ip /\ R.rec[k].expires = e
         /\ S.rec[k].expires <= e => Keeps(S, R, {})
<1>1. LockedOK(S) /\ Apart(S) /\ Few(S) /\ S.alloc = Leased(S) \cup DOMAIN S.dec
  BY DEF Good
<1>2. k \in Keys /\ S.rec[k] \in Record
  BY <1>1, RecordOf
<1> DEFINE new == [S.rec[k] EXCEPT !.expires = e]
<1>3. new \in Record /\ new.ip = S.rec[k].ip /\ new.expires = e
  BY <1>2 DEF Record
<1> HIDE DEF new
<1>4. /\ DOMAIN R.rec = DOMAIN S.rec /\ R.rec[k] = new
      /\ \A l \in DOMAIN S.rec : l # k => R.rec[l] = S.rec[l]
  BY DEF With, new
<1>5. IsMap(R.rec, Keys, Record)
  <2>1. IsMap(S.rec, Keys, Record)
    BY <1>1 DEF LockedOK
  <2> QED
    BY <1>2, <1>3, <2>1, SMTT(60) DEF With, IsMap, new
<1>6. LockedOK(R)
  BY <1>1, <1>5 DEF LockedOK
<1>7. \A l \in DOMAIN S.rec : R.rec[l].ip = S.rec[l].ip
  BY <1>3, <1>4
<1>8. Leased(R) = Leased(S) /\ Apart(R) /\ Few(R)
  BY <1>1, <1>4, <1>7, SMTT(60) DEF Leased, Apart, Few
<1>9. Good(R)
  BY <1>1, <1>6, <1>8 DEF Good
<1>10. S.rec[k].expires <= e => Keeps(S, R, {})
  <2>1. \A l \in DOMAIN S.rec : S.rec[l].expires \in Nat
    BY <1>1, RecordOf
  <2>2. ASSUME S.rec[k].expires <= e, NEW l \in DOMAIN S.rec
        PROVE  l \in DOMAIN R.rec /\ R.rec[l].expires >= S.rec[l].expires
    <3>1. CASE l = k
      BY <1>3, <1>4, <2>1, <2>2, <3>1
    <3>2. CASE l # k
      BY <1>4, <2>1, <3>2, SMTT(60)
    <3> QED
      BY <3>1, <3>2
  <2> QED
    BY <1>7, <2>2 DEF Keeps
<1> QED
  BY <1>3, <1>4, <1>9, <1>10

(* Nothing new, and nothing with time left is gone. *)
Shrinks(S, T) == Keeps(S, T, {}) /\ DOMAIN T.rec \subseteq DOMAIN S.rec

(* What a RELEASE or a DECLINE for ia gives up of the binding k. *)
Given(k, ia) == {[key |-> k, ip |-> ip] : ip \in Elements(ia.addrs)}

(* What an IA_NA of a message of a type gives up. *)
GivenBy(type, k, ia) == IF type \in {"release", "decline"} THEN Given(k, ia) ELSE {}

-----------------------------------------------------------------------------
(* A locked section starts from tables that agree and leaves tables that      *)
(* agree, and takes no binding away that has time left, but for those the     *)
(* client gives up.                                                           *)
LEMMA Sections ==
  now \in Nat =>
    \A S : \A t \in Nat, by \in Workers : Good(S) /\ t <= now =>
      /\ \A r \in reclaim(S, t, by) : Good(r.st) /\ Shrinks(S, r.st)
      /\ \A type \in Types, k \in Keys : NewGen(k) \in Gens =>
           \A ia : \A r \in AnswerFor(S, type, k, ia, t, by) :
             Answered(r, k, t) /\ Keeps(S, r.st, GivenBy(type, k, ia))
<1>UndoOK.
    ASSUME NEW k \in Keys, NEW g \in Gens, NEW was \in Nat, NEW ext \in Nat
    PROVE  /\ NoUndo \in UndoSet /\ DropUndo(k, g) \in UndoSet
           /\ RenewUndo(k, g, was, ext) \in UndoSet
  <2>1. DropUndo(k, g) \in [kind : {"drop"}, key : Keys, gen : Gens]
    BY DEF DropUndo
  <2>2. RenewUndo(k, g, was, ext) \in
          [kind : {"renew"}, key : Keys, gen : Gens, was : Nat, extended : Nat]
    BY DEF RenewUndo
  <2> QED
    BY <2>1, <2>2 DEF UndoSet
(* Without a binding, the address still in hand. *)
<1>TakenMinus.
    ASSUME NEW S, Good(S), NEW R, LockedOK(R), NEW k \in DOMAIN S.rec,
           R.rec = Without(S.rec, {k}), R.dec = S.dec, R.alloc = S.alloc
    PROVE  Taken(R, S.rec[k].ip)
  <2> USE <1>TakenMinus
  <2>1. /\ DOMAIN R.rec = DOMAIN S.rec \ {k}
        /\ \A l \in DOMAIN R.rec : R.rec[l] = S.rec[l]
    BY DEF Without
  <2>2. Apart(S) /\ Few(S) /\ S.alloc = Leased(S) \cup DOMAIN S.dec /\ LockedOK(S)
    BY DEF Good
  <2>3. Apart(R) /\ Few(R)
    BY <2>1, <2>2 DEF Apart, Few
  <2>4. \A x : x \in Leased(R) <=> x \in Leased(S) /\ S.rec[k].ip # x
    <3>1. ASSUME NEW x \in Leased(R) PROVE x \in Leased(S) /\ S.rec[k].ip # x
      <4>1. PICK l \in DOMAIN R.rec : x = R.rec[l].ip
        BY <3>1 DEF Leased
      <4>2. l \in DOMAIN S.rec /\ l # k /\ x = S.rec[l].ip
        BY <2>1, <4>1
      <4> QED
        BY <2>2, <4>2 DEF Leased, Apart
    <3>2. ASSUME NEW x \in Leased(S), S.rec[k].ip # x PROVE x \in Leased(R)
      <4>1. PICK l \in DOMAIN S.rec : x = S.rec[l].ip
        BY <3>2 DEF Leased
      <4>2. l \in DOMAIN R.rec /\ x = R.rec[l].ip
        BY <2>1, <3>2, <4>1
      <4> QED
        BY <4>2 DEF Leased
    <3> QED
      BY <3>1, <3>2
  <2>5. /\ S.rec[k].ip \in IPs /\ S.rec[k].ip \in Leased(S)
        /\ S.rec[k].ip \notin DOMAIN S.dec
    <3>1. S.rec[k].ip \in IPs
      BY <2>2, RecordOf
    <3>2. S.rec[k].ip \in Leased(S)
      BY DEF Leased
    <3>3. S.rec[k].ip \notin DOMAIN S.dec
      BY <2>2 DEF Apart
    <3> QED
      BY <3>1, <3>2, <3>3
  <2>6. R.alloc = Leased(R) \cup DOMAIN R.dec \cup {S.rec[k].ip}
    BY <2>2, <2>4, <2>5
  <2> QED
    BY <2>3, <2>4, <2>5, <2>6 DEF Taken
<1>SweepExpiredGood.
    ASSUME NEW S, Good(S), NEW t, NEW s \in SweepOrders(S, t), NEW by \in Workers
    PROVE  /\ Good(sweepExpired(S, s, by))
           /\ sweepExpired(S, s, by).rec = Without(S.rec, Elements(s))
           /\ \A k \in Elements(s) : k \in DOMAIN S.rec /\ Expired(S.rec[k], t)
  <2> USE <1>SweepExpiredGood
  <2> DEFINE R == sweepExpired(S, s, by)
             D == Elements(s)
             Q == [i \in DOMAIN s |-> Remove(s[i], S.rec[s[i]], by)]
             P == [i \in DOMAIN s |-> [undo |-> NoUndo, ia |-> S.ia, result |-> "waiting"]]
  <2>0. LockedOK(S)
    BY DEF Good
  <2>1. PICK n \in Nat : /\ s \in [1 .. n -> DOMAIN S.rec]
                         /\ \A i \in 1 .. n : Expired(S.rec[s[i]], t)
                         /\ Len(S.q) + n <= QueueLen
    BY <2>0, SweepOrderOK
  <2>2. \A i \in 1 .. n : s[i] \in DOMAIN S.rec /\ s[i] \in Keys /\ S.rec[s[i]] \in Record
    BY <2>0, <2>1, RecordOf
  <2>3. Q \in [1 .. n -> WriteSet]
    BY <2>1, <2>2, ChangeOK
  <2>4. P \in [1 .. n -> PendingSet]
    BY <2>0, <2>1 DEF PendingSet, UndoSet, LockedOK
  <2>5. /\ R.rec = Without(S.rec, D)
        /\ R.alloc = S.alloc \ {S.rec[k].ip : k \in D}
        /\ R.dec = S.dec /\ R.q = S.q \o Q /\ R.pend = S.pend \o P /\ R.ia = S.ia
        /\ DOMAIN R = DOMAIN S
    BY <2>0 DEF sweepExpired, LockedOK
  <2>6. D \in SUBSET DOMAIN S.rec /\ \A k \in D : Expired(S.rec[k], t)
    BY <2>1 DEF Elements
  <2> SUFFICES Good(R)
    BY <2>5, <2>6
  <2> HIDE DEF R, D, Q, P
  <2>7. IsMap(R.rec, Keys, Record)
    <3>1. IsMap(S.rec, Keys, Record)
      BY <2>0 DEF LockedOK
    <3>2. IsMap(Without(S.rec, D), Keys, Record)
      BY <3>1, WithoutMap
    <3> QED
      BY <2>5, <3>2
  <2>8. R.q \in Seq(WriteSet) /\ Len(R.q) <= QueueLen
    <3>1. Q \in Seq(WriteSet) /\ Len(Q) = n
      BY <2>3, SeqLen, SMTT(60)
    <3>2. S.q \in Seq(WriteSet) /\ Len(S.q) \in Nat
      BY <2>0, SeqLen DEF LockedOK
    <3>3. S.q \o Q \in Seq(WriteSet) /\ Len(S.q \o Q) = Len(S.q) + Len(Q)
      BY <3>1, <3>2, SeqConcat
    <3> QED
      BY <2>1, <2>5, <3>1, <3>2, <3>3
  <2>9. R.pend \in Seq(PendingSet)
    <3>1. P \in Seq(PendingSet) /\ S.pend \in Seq(PendingSet)
      BY <2>0, <2>4, SMTT(60) DEF LockedOK
    <3> QED
      BY <2>5, <3>1, SeqConcat, SMTT(60)
  <2>10. LockedOK(R)
    BY <2>0, <2>5, <2>7, <2>8, <2>9 DEF LockedOK
  <2> QED
    BY <2>5, <2>6, <2>10, GoodMinus
<1>QuarantineFinite.
    ASSUME NEW f, IsMap(f, IPs, Nat)
    PROVE  IsFiniteSet(DOMAIN f) /\ Cardinality(DOMAIN f) \in Nat
  <2> USE <1>QuarantineFinite
  <2>1. IsFiniteSet(IPs)
    <3>1. 0 \in Int /\ PoolSize - 1 \in Int
      BY Numbers, SMTT(60)
    <3> QED
      BY <3>1, FS_Interval DEF IPs
  <2>2. IsFiniteSet(DOMAIN f)
    BY <2>1, FS_Subset DEF IsMap
  <2> QED
    BY <2>2, FS_CardinalityType
<1>FreeDeclinedOK.
    ASSUME NEW S, LockedOK(S), NEW ips
    PROVE  LET R == freeDeclined(S, ips)
           IN  /\ LockedOK(R) /\ R.rec = S.rec /\ R.alloc = S.alloc \ ips
               /\ R.dec = Without(S.dec, ips) /\ DOMAIN R.dec = DOMAIN S.dec \ ips
               /\ R.q = S.q /\ R.pend = S.pend /\ R.ia = S.ia
  <2> USE <1>FreeDeclinedOK
  <2> DEFINE R == freeDeclined(S, ips)
  <2>1. /\ R.rec = S.rec /\ R.q = S.q /\ R.pend = S.pend /\ R.ia = S.ia /\ DOMAIN R = DOMAIN S
        /\ R.dec = Without(S.dec, ips) /\ R.alloc = S.alloc \ ips
    BY DEF freeDeclined, LockedOK
  <2> HIDE DEF R
  <2>2. IsMap(R.dec, IPs, Nat) /\ DOMAIN R.dec = DOMAIN S.dec \ ips
    <3>1. IsMap(S.dec, IPs, Nat)
      BY DEF LockedOK
    <3> QED
      BY <2>1, <3>1, WithoutMap, SMTT(60)
  <2>3. LockedOK(R)
    BY <2>1, <2>2 DEF LockedOK
  <2> QED
    BY <2>1, <2>2, <2>3 DEF R
<1>FreeDeclinedGood.
    ASSUME NEW S, Good(S), NEW ips \in SUBSET DOMAIN S.dec
    PROVE  Good(freeDeclined(S, ips)) /\ freeDeclined(S, ips).rec = S.rec
  <2> USE <1>FreeDeclinedGood
  <2> DEFINE R == freeDeclined(S, ips)
  <2>1. LockedOK(S) /\ Apart(S) /\ Few(S) /\ S.alloc = Leased(S) \cup DOMAIN S.dec
    BY DEF Good
  <2>2. /\ LockedOK(R) /\ R.rec = S.rec /\ R.alloc = S.alloc \ ips
        /\ DOMAIN R.dec = DOMAIN S.dec \ ips
    BY <2>1, <1>FreeDeclinedOK, SMTT(60)
  <2> HIDE DEF R
  <2>3. Leased(R) = Leased(S) /\ \A x \in Leased(S) : x \notin DOMAIN S.dec
    BY <2>1, <2>2, SMTT(60) DEF Leased, Apart
  <2>4. Apart(R)
    BY <2>1, <2>2 DEF Apart
  <2>5. R.alloc = Leased(R) \cup DOMAIN R.dec
    BY <2>1, <2>2, <2>3
  <2>6. Few(R)
    <3>1. IsFiniteSet(DOMAIN S.dec) /\ Cardinality(DOMAIN S.dec) \in Nat
      BY <2>1, <1>QuarantineFinite DEF LockedOK
    <3>2. /\ Cardinality(DOMAIN R.dec) <= Cardinality(DOMAIN S.dec)
          /\ Cardinality(DOMAIN R.dec) \in Nat
      BY <2>2, <3>1, FS_Subset, FS_CardinalityType
    <3> QED
      BY <2>1, <3>1, <3>2, Numbers, SMTT(60) DEF Few
  <2> QED
    BY <2>2, <2>4, <2>5, <2>6 DEF Good, R
<1>KeepsSame.
    ASSUME NEW S, LockedOK(S), NEW T, T.rec = S.rec, NEW G
    PROVE  Keeps(S, T, G) /\ Shrinks(S, T)
  <2> USE <1>KeepsSame
  <2>1. \A k \in DOMAIN S.rec : S.rec[k].expires \in Nat
    BY RecordOf
  <2> QED
    BY <2>1, SMTT(60) DEF Keeps, Shrinks
<1>KeepsMinus.
    ASSUME NEW S, LockedOK(S), NEW T, NEW D, T.rec = Without(S.rec, D), now \in Nat,
           NEW t \in Nat, t <= now, \A k \in D : k \in DOMAIN S.rec /\ Expired(S.rec[k], t)
    PROVE  Shrinks(S, T)
  <2> USE <1>KeepsMinus
  <2>1. \A k \in DOMAIN S.rec : S.rec[k].expires \in Nat
    BY RecordOf
  <2>2. \A k \in D : Expired(S.rec[k], now)
    BY <2>1, LapsedLater
  <2>3. /\ DOMAIN T.rec = DOMAIN S.rec \ D
        /\ \A k \in DOMAIN T.rec : T.rec[k] = S.rec[k]
    BY DEF Without
  <2> QED
    BY <2>1, <2>2, <2>3, SMTT(60) DEF Keeps, Shrinks
<1>KeepsTrans.
    ASSUME NEW S, NEW T, NEW R, LockedOK(S), LockedOK(T), LockedOK(R), now \in Nat,
           Keeps(S, T, {}), Keeps(T, R, {})
    PROVE  Keeps(S, R, {})
  <2> USE <1>KeepsTrans
  <2> SUFFICES ASSUME NEW k \in DOMAIN S.rec, ~Expired(S.rec[k], now)
               PROVE  /\ k \in DOMAIN R.rec
                      /\ R.rec[k].ip = S.rec[k].ip
                      /\ R.rec[k].expires >= S.rec[k].expires
    BY DEF Keeps
  <2>1. /\ k \in DOMAIN T.rec /\ T.rec[k].ip = S.rec[k].ip
        /\ T.rec[k].expires >= S.rec[k].expires
    BY DEF Keeps
  <2>2. S.rec[k].expires \in Nat /\ T.rec[k].expires \in Nat /\ Unix(now) \in Nat
    BY <2>1, RecordOf, Ends
  <2>3. ~Expired(T.rec[k], now)
    BY <2>1, <2>2, SMTT(60) DEF Expired
  <2>4. /\ k \in DOMAIN R.rec /\ R.rec[k].ip = T.rec[k].ip
        /\ R.rec[k].expires >= T.rec[k].expires
    BY <2>1, <2>3 DEF Keeps
  <2>5. R.rec[k].expires \in Nat
    BY <2>4, RecordOf
  <2> QED
    BY <2>1, <2>2, <2>4, <2>5, SMTT(60)
(* The sweep and the end of probations. *)
<1>ReclaimGood.
    ASSUME NEW S, Good(S), now \in Nat, NEW t \in Nat, t <= now, NEW by \in Workers
    PROVE  \A r \in reclaim(S, t, by) : Good(r.st) /\ Shrinks(S, r.st)
  <2> USE <1>ReclaimGood
  <2> SUFFICES ASSUME NEW r \in reclaim(S, t, by)
               PROVE  Good(r.st) /\ Shrinks(S, r.st)
    OBVIOUS
  <2>1. PICK s \in SweepOrders(S, t) :
          r.st = freeDeclined(sweepExpired(S, s, by), DueDeclined(S, t))
    BY SMTT(60) DEF reclaim
  <2> DEFINE R == sweepExpired(S, s, by)
             D == Elements(s)
  <2>2. Good(R) /\ R.rec = Without(S.rec, D)
        /\ \A k \in D : k \in DOMAIN S.rec /\ Expired(S.rec[k], t)
    BY <1>SweepExpiredGood
  <2>3. LockedOK(S) /\ R.dec = S.dec
    BY DEF Good, sweepExpired, LockedOK
  <2> HIDE DEF R, D
  <2>4. Shrinks(S, R)
    BY <2>2, <2>3, <1>KeepsMinus
  <2>5. DueDeclined(S, t) \in SUBSET DOMAIN R.dec
    BY <2>3 DEF DueDeclined
  <2>6. /\ Good(freeDeclined(R, DueDeclined(S, t)))
        /\ freeDeclined(R, DueDeclined(S, t)).rec = R.rec
    BY <2>2, <2>5, <1>FreeDeclinedGood
  <2>7. Good(r.st) /\ r.st.rec = R.rec
    BY <2>1, <2>6 DEF R
  <2> QED
    BY <2>4, <2>7 DEF Shrinks, Keeps
<1>TakeBitOK.
    ASSUME NEW S, Good(S), NEW hint \in IPs \cup {NoOffset}
    PROVE  /\ Allocated(TakeBit(S, hint))
           /\ TakeBit(S, hint).st.rec = S.rec
           /\ TakeBit(S, hint).ip \in IPs \cup {NoOffset}
  <2> USE <1>TakeBitOK
  <2> DEFINE ip == PickOffset(hint, S.alloc, PoolSize)
             R == [S EXCEPT !.alloc = @ \cup {ip}]
  <2>1. CASE ip = NoOffset
    BY <2>1 DEF TakeBit, Allocated
  <2>2. CASE ip # NoOffset
    <3>1. ip \in IPs /\ ip \notin S.alloc
      <4>1. 0 \in IPs
        BY Numbers, SMTT(60) DEF IPs
      <4>2. CASE ~Test(S.alloc, IF hint = NoOffset THEN 0 ELSE hint)
        BY <4>1, <4>2 DEF PickOffset, Test
      <4>3. CASE Test(S.alloc, IF hint = NoOffset THEN 0 ELSE hint)
        <5>1. HasClear(S.alloc, PoolSize)
          BY <2>2, <4>3 DEF PickOffset
        <5> QED
          BY <5>1, PickOffsetClear, Numbers DEF IPs
      <4> QED
        BY <4>2, <4>3
    <3>2. TakeBit(S, hint).st = R /\ TakeBit(S, hint).ip = ip
      BY <2>2 DEF TakeBit
    <3> HIDE DEF ip
    <3>3. /\ R.rec = S.rec /\ R.dec = S.dec /\ R.q = S.q /\ R.pend = S.pend /\ R.ia = S.ia
          /\ DOMAIN R = DOMAIN S /\ R.alloc = S.alloc \cup {ip}
      BY DEF Good, LockedOK
    <3> HIDE DEF R
    <3>4. S.alloc = Leased(S) \cup DOMAIN S.dec /\ LockedOK(S) /\ Apart(S) /\ Few(S)
      BY DEF Good
    <3>5. LockedOK(R)
      BY <3>1, <3>3, <3>4 DEF LockedOK
    <3>6. Apart(R) /\ Few(R) /\ Leased(R) = Leased(S)
      BY <3>3, <3>4, SMTT(60) DEF Apart, Few, Leased
    <3>7. Taken(R, ip)
      BY <3>1, <3>3, <3>4, <3>5, <3>6 DEF Taken
    <3> QED
      BY <2>2, <3>1, <3>2, <3>3, <3>7 DEF Allocated
  <2> QED
    BY <2>1, <2>2
<1>AllocatedOK.
    ASSUME NEW a, Allocated(a)
    PROVE  LockedOK(a.st)
  BY <1>AllocatedOK DEF Allocated, Good, Taken
(* allocate returns an address that is now in hand, or nothing. *)
<1>AllocateOK.
    ASSUME NEW S, Good(S), NEW hint \in IPs \cup {NoOffset}, now \in Nat, NEW by \in Workers
    PROVE  \A a \in allocate(S, hint, by) :
             Allocated(a) /\ a.ip \in IPs \cup {NoOffset} /\ Shrinks(S, a.st)
  <2> USE <1>AllocateOK
  <2>0. LockedOK(S) /\ now <= now
    BY SMTT(60) DEF Good
  <2>1. CASE TakeBit(S, hint).ip # NoOffset
    <3>1. allocate(S, hint, by) = {TakeBit(S, hint)}
      BY <2>1 DEF allocate
    <3> QED
      BY <2>0, <3>1, <1>TakeBitOK, <1>KeepsSame, SMTT(60)
  <2>2. CASE TakeBit(S, hint).ip = NoOffset
    <3> SUFFICES ASSUME NEW a \in allocate(S, hint, by)
                 PROVE  Allocated(a) /\ a.ip \in IPs \cup {NoOffset} /\ Shrinks(S, a.st)
      OBVIOUS
    <3>1. PICK r \in reclaim(S, now, by) :
            a \in IF r.freed > 0 THEN {TakeBit(r.st, hint)}
                  ELSE IF Oldest(r.st) = {} THEN {[st |-> r.st, ip |-> NoOffset]}
                  ELSE {TakeBit(freeDeclined(r.st, {ip}), hint) : ip \in Oldest(r.st)}
      BY <2>2 DEF allocate
    <3> DEFINE T == r.st
    <3>2. Good(T) /\ Shrinks(S, T)
      BY <2>0, <1>ReclaimGood
    <3>3. \/ a = TakeBit(T, hint)
          \/ a = [st |-> T, ip |-> NoOffset]
          \/ \E ip \in Oldest(T) : a = TakeBit(freeDeclined(T, {ip}), hint)
      BY <3>1
    <3> HIDE DEF T
    <3>4. ASSUME NEW U, Good(U), U.rec = T.rec, a = TakeBit(U, hint)
          PROVE  Allocated(a) /\ a.ip \in IPs \cup {NoOffset} /\ Shrinks(S, a.st)
      <4>1. Allocated(a) /\ a.st.rec = T.rec /\ a.ip \in IPs \cup {NoOffset}
        BY <3>4, <1>TakeBitOK
      <4> QED
        BY <3>2, <4>1 DEF Shrinks, Keeps
    <3>5. CASE a = TakeBit(T, hint)
      BY <3>2, <3>4, <3>5
    <3>6. CASE a = [st |-> T, ip |-> NoOffset]
      BY <3>2, <3>6 DEF Allocated
    <3>7. CASE \E ip \in Oldest(T) : a = TakeBit(freeDeclined(T, {ip}), hint)
      <4>1. PICK ip \in Oldest(T) : a = TakeBit(freeDeclined(T, {ip}), hint)
        BY <3>7
      <4>2. {ip} \in SUBSET DOMAIN T.dec
        BY DEF Oldest
      <4>3. Good(freeDeclined(T, {ip})) /\ freeDeclined(T, {ip}).rec = T.rec
        BY <3>2, <4>2, <1>FreeDeclinedGood
      <4> QED
        BY <3>4, <4>1, <4>3
    <3> QED
      BY <3>3, <3>5, <3>6, <3>7
  <2> QED
    BY <2>1, <2>2
(* The state S with one more binding, whose address was in hand. *)
<1>AddGood.
    ASSUME NEW S, NEW ip, Taken(S, ip), NEW k \in Keys, k \notin DOMAIN S.rec,
           NEW rec \in Record, rec.ip = ip,
           NEW R, LockedOK(R), R.rec = With(S.rec, k, rec), R.dec = S.dec, R.alloc = S.alloc
    PROVE  Good(R)
  <2> USE <1>AddGood
  <2>1. /\ LockedOK(S) /\ Apart(S) /\ Few(S)
        /\ ip \in IPs /\ ip \notin Leased(S) /\ ip \notin DOMAIN S.dec
        /\ S.alloc = Leased(S) \cup DOMAIN S.dec \cup {ip}
    BY DEF Taken
  <2>2. /\ DOMAIN R.rec = DOMAIN S.rec \cup {k} /\ R.rec[k] = rec
        /\ \A l \in DOMAIN S.rec : R.rec[l] = S.rec[l]
    BY DEF With
  <2>3. \A l \in DOMAIN S.rec : S.rec[l].ip # ip
    BY <2>1 DEF Leased
  <2>4. Apart(R)
    BY <2>1, <2>2, <2>3 DEF Apart
  <2>5. Few(R)
    BY <2>1 DEF Few
  <2>6. \A x : x \in Leased(R) <=> x \in Leased(S) \/ x = ip
    <3>1. ASSUME NEW x \in Leased(R) PROVE x \in Leased(S) \/ x = ip
      <4>1. PICK l \in DOMAIN R.rec : x = R.rec[l].ip
        BY <3>1 DEF Leased
      <4>2. CASE l = k
        BY <2>2, <4>1, <4>2
      <4>3. CASE l \in DOMAIN S.rec
        BY <2>2, <4>1, <4>3 DEF Leased
      <4> QED
        BY <2>2, <4>2, <4>3
    <3>2. ASSUME NEW x \in Leased(S) PROVE x \in Leased(R)
      <4>1. PICK l \in DOMAIN S.rec : x = S.rec[l].ip
        BY <3>2 DEF Leased
      <4> QED
        BY <2>2, <4>1 DEF Leased
    <3>3. ip \in Leased(R)
      BY <2>2 DEF Leased
    <3> QED
      BY <3>1, <3>2, <3>3
  <2>7. R.alloc = Leased(R) \cup DOMAIN R.dec
    BY <2>1, <2>6
  <2> QED
    BY <2>4, <2>5, <2>7 DEF Good
(* The address in hand goes back. *)
<1>FreeBitGood.
    ASSUME NEW S, NEW ip, Taken(S, ip)
    PROVE  Good(FreeBit(S, ip)) /\ FreeBit(S, ip).rec = S.rec
  <2> USE <1>FreeBitGood
  <2> DEFINE R == FreeBit(S, ip)
  <2>1. /\ LockedOK(S) /\ Apart(S) /\ Few(S)
        /\ ip \in IPs /\ ip \notin Leased(S) /\ ip \notin DOMAIN S.dec
        /\ S.alloc = Leased(S) \cup DOMAIN S.dec \cup {ip}
    BY DEF Taken
  <2>2. /\ R.rec = S.rec /\ R.dec = S.dec /\ R.q = S.q /\ R.pend = S.pend /\ R.ia = S.ia
        /\ DOMAIN R = DOMAIN S /\ R.alloc = S.alloc \ {ip}
    BY <2>1 DEF FreeBit, LockedOK
  <2> HIDE DEF R
  <2>3. LockedOK(R)
    BY <2>1, <2>2 DEF LockedOK
  <2>4. Apart(R) /\ Few(R) /\ Leased(R) = Leased(S)
    BY <2>1, <2>2, SMTT(60) DEF Apart, Few, Leased
  <2>5. R.alloc = Leased(R) \cup DOMAIN R.dec
    BY <2>1, <2>2, <2>4
  <2> QED
    BY <2>2, <2>3, <2>4, <2>5 DEF Good, R
<1>KeepsWith.
    ASSUME NEW S, LockedOK(S), NEW k, k \notin DOMAIN S.rec, NEW rec,
           NEW R, R.rec = With(S.rec, k, rec), NEW G
    PROVE  Keeps(S, R, G)
  <2> USE <1>KeepsWith
  <2>1. \A l \in DOMAIN S.rec : S.rec[l].expires \in Nat
    BY RecordOf
  <2>2. \A l \in DOMAIN S.rec : l \in DOMAIN R.rec /\ R.rec[l] = S.rec[l]
    BY DEF With
  <2> QED
    BY <2>1, <2>2, SMTT(60) DEF Keeps
<1>RecordOK.
    ASSUME NEW S, NEW ip, IF ip = NoOffset THEN Good(S) ELSE Taken(S, ip),
           NEW k \in Keys, k \notin DOMAIN S.rec, NewGen(k) \in Gens,
           NEW t \in Nat, NEW by \in Workers
    PROVE  /\ Answered(recordLease(S, k, ip, t, by), k, t)
           /\ Keeps(S, recordLease(S, k, ip, t, by).st, {})
  <2> USE <1>RecordOK
  <2> DEFINE r == recordLease(S, k, ip, t, by)
             rec == [gen |-> NewGen(k), ip |-> ip, expires |-> RoundUnix(LeaseEnd(t))]
             T == Enqueue(S, Store(k, rec, by), DropUndo(k, rec.gen))
             R == [T EXCEPT !.rec = With(@, k, rec)]
  <2>0. LockedOK(S)
    BY DEF Good, Taken
  <2>1. CASE ip = NoOffset
    <3>1. r.st = S /\ r.ip = NoOffset
      BY <2>1 DEF recordLease
    <3> QED
      BY <2>0, <2>1, <3>1, <1>KeepsSame DEF Answered
  <2>2. CASE ip # NoOffset /\ ~CanEnqueue(S)
    <3>1. r.st = FreeBit(S, ip) /\ r.ip = NoOffset
      BY <2>2 DEF recordLease
    <3>2. Good(FreeBit(S, ip)) /\ FreeBit(S, ip).rec = S.rec
      BY <2>2, <1>FreeBitGood
    <3> QED
      BY <2>0, <3>1, <3>2, <1>KeepsSame DEF Answered
  <2>3. CASE ip # NoOffset /\ CanEnqueue(S)
    <3>0. Taken(S, ip) /\ ip \in IPs
      BY <2>3 DEF Taken
    <3>1. rec \in Record /\ rec.ip = ip /\ rec.gen \in Gens
      BY <3>0, Ends DEF Record
    <3>2. rec.expires >= Unix(LeaseEnd(t))
      BY Ends
    <3>3. r.st = R /\ r.ip = ip
      BY <2>3 DEF recordLease
    <3> HIDE DEF rec
    <3>4. LockedOK(T) /\ T.rec = S.rec /\ T.alloc = S.alloc /\ T.dec = S.dec
      <4>1. Store(k, rec, by) \in WriteSet
        BY <3>1, ChangeOK
      <4>2. DropUndo(k, rec.gen) \in UndoSet
        BY <3>1, <1>UndoOK
      <4> QED
        BY <2>0, <2>3, <4>1, <4>2, EnqueueOK
    <3> HIDE DEF T
    <3>5. /\ R.rec = With(S.rec, k, rec) /\ R.dec = S.dec /\ R.alloc = S.alloc
          /\ R.q = T.q /\ R.pend = T.pend /\ R.ia = T.ia /\ DOMAIN R = DOMAIN T
      BY <3>4 DEF LockedOK
    <3> HIDE DEF R
    <3>6. LockedOK(R) /\ k \in DOMAIN R.rec /\ R.rec[k] = rec
      <4>1. IsMap(S.rec, Keys, Record) /\ rec \in Record
        BY <2>0, <3>1 DEF LockedOK
      <4>2. IsMap(With(S.rec, k, rec), Keys, Record)
            /\ DOMAIN With(S.rec, k, rec) = DOMAIN S.rec \cup {k} /\ With(S.rec, k, rec)[k] = rec
        BY <4>1 DEF With, IsMap
      <4> QED
        BY <3>4, <3>5, <4>2 DEF LockedOK
    <3>7. Good(R)
      BY <3>0, <3>1, <3>5, <3>6, <1>AddGood
    <3>8. Keeps(S, R, {})
      BY <2>0, <3>5, <1>KeepsWith
    <3> HIDE DEF r
    <3>9. Answered(r, k, t)
      BY <3>0, <3>1, <3>2, <3>3, <3>6, <3>7 DEF Answered
    <3>10. Keeps(S, r.st, {})
      BY <3>3, <3>8
    <3> QED
      BY <3>9, <3>10 DEF r
  <2> QED
    BY <2>1, <2>2, <2>3
<1>AllocateLeaseOK.
    ASSUME NEW S, Good(S), NEW k \in Keys, k \notin DOMAIN S.rec, NewGen(k) \in Gens,
           NEW hint \in IPs \cup {NoOffset}, now \in Nat, NEW t \in Nat, t <= now,
           NEW by \in Workers
    PROVE  \A r \in allocateLease(S, k, hint, t, by) :
             Answered(r, k, t) /\ Keeps(S, r.st, {})
  <2> USE <1>AllocateLeaseOK
  <2> SUFFICES ASSUME NEW r \in allocateLease(S, k, hint, t, by)
               PROVE  Answered(r, k, t) /\ Keeps(S, r.st, {})
    OBVIOUS
  <2>1. PICK T \in (IF BelowLimit(S) THEN {S} ELSE {x.st : x \in reclaim(S, t, by)}) :
          r \in IF ~BelowLimit(T) THEN {[st |-> T, ip |-> NoOffset]}
                ELSE {recordLease(a.st, k, a.ip, t, by) : a \in allocate(T, hint, by)}
    BY DEF allocateLease
  <2>2. Good(T) /\ Shrinks(S, T) /\ LockedOK(S) /\ LockedOK(T)
    <3>1. LockedOK(S)
      BY DEF Good
    <3>2. CASE T = S
      BY <3>1, <3>2, <1>KeepsSame
    <3>3. CASE T \in {x.st : x \in reclaim(S, t, by)}
      <4>1. Good(T) /\ Shrinks(S, T)
        BY <3>3, <1>ReclaimGood
      <4> QED
        BY <3>1, <4>1 DEF Good
    <3> QED
      BY <2>1, <3>2, <3>3
  <2>3. CASE r = [st |-> T, ip |-> NoOffset]
    BY <2>2, <2>3 DEF Answered, Shrinks
  <2>4. CASE \E a \in allocate(T, hint, by) : r = recordLease(a.st, k, a.ip, t, by)
    <3>1. PICK a \in allocate(T, hint, by) : r = recordLease(a.st, k, a.ip, t, by)
      BY <2>4
    <3>2. Allocated(a) /\ a.ip \in IPs \cup {NoOffset} /\ Shrinks(T, a.st)
      BY <2>2, <1>AllocateOK
    <3>3. k \notin DOMAIN a.st.rec /\ LockedOK(a.st) /\ Keeps(S, T, {}) /\ Keeps(T, a.st, {})
      BY <2>2, <3>2, <1>AllocatedOK DEF Shrinks
    <3>4. IF a.ip = NoOffset THEN Good(a.st) ELSE Taken(a.st, a.ip)
      BY <3>2 DEF Allocated
    <3> DEFINE U == a.st
               ip == a.ip
    <3>5. k \notin DOMAIN U.rec /\ (IF ip = NoOffset THEN Good(U) ELSE Taken(U, ip))
      BY <3>3, <3>4
    <3> HIDE DEF U, ip
    <3>6. /\ Answered(recordLease(U, k, ip, t, by), k, t)
          /\ Keeps(U, recordLease(U, k, ip, t, by).st, {})
      BY <3>5, <1>RecordOK
    <3>7. Answered(r, k, t) /\ Keeps(a.st, r.st, {})
      BY <3>1, <3>6 DEF U, ip
    <3>8. LockedOK(r.st)
      BY <3>7 DEF Answered, Good
    <3>9. Keeps(S, a.st, {})
      BY <2>2, <3>3, <1>KeepsTrans
    <3>10. Keeps(S, r.st, {})
      BY <2>2, <3>3, <3>7, <3>8, <3>9, <1>KeepsTrans
    <3> QED
      BY <3>7, <3>10
  <2> QED
    BY <2>1, <2>3, <2>4
<1>RenewOK.
    ASSUME NEW S, Good(S), NEW k \in DOMAIN S.rec, NEW t \in Nat, NEW by \in Workers
    PROVE  /\ Answered(renew(S, k, t, by), k, t)
           /\ Keeps(S, renew(S, k, t, by).st, {})
  <2> USE <1>RenewOK
  <2> DEFINE r == renew(S, k, t, by)
             rec == S.rec[k]
             e == RoundUnix(LeaseEnd(t))
             new == [rec EXCEPT !.expires = e]
             T == Enqueue(S, Store(k, new, by), RenewUndo(k, rec.gen, rec.expires, new.expires))
             R == [T EXCEPT !.rec = With(@, k, new)]
  <2>1. /\ LockedOK(S) /\ k \in Keys /\ rec \in Record
        /\ rec.gen \in Gens /\ rec.ip \in IPs /\ rec.expires \in Nat
    BY RecordOf DEF Good
  <2>2. /\ e \in Nat /\ e >= Unix(LeaseEnd(t)) /\ Unix(LeaseEnd(t)) \in Nat
        /\ rec.expires * TicksPerSec >= LeaseEnd(t) => rec.expires >= Unix(LeaseEnd(t))
        /\ ~(rec.expires * TicksPerSec >= LeaseEnd(t)) => rec.expires <= Unix(LeaseEnd(t))
    BY <2>1, Ends
  <2>3. CASE rec.expires * TicksPerSec >= LeaseEnd(t)
    <3>1. r.st = S /\ r.ip = rec.ip
      BY <2>3 DEF renew
    <3> QED
      BY <2>1, <2>2, <2>3, <3>1, <1>KeepsSame DEF Answered
  <2>4. CASE ~(rec.expires * TicksPerSec >= LeaseEnd(t)) /\ ~CanEnqueue(S)
    <3>1. r.st = S /\ r.ip = NoOffset
      BY <2>4 DEF renew
    <3> QED
      BY <2>1, <3>1, <1>KeepsSame DEF Answered
  <2>5. CASE ~(rec.expires * TicksPerSec >= LeaseEnd(t)) /\ CanEnqueue(S)
    <3>1. r.st = R /\ r.ip = rec.ip
      BY <2>5 DEF renew
    <3>2. new \in Record /\ new.expires \in Nat
      BY <2>1, <2>2 DEF Record
    <3>3. LockedOK(T) /\ T.rec = S.rec /\ T.alloc = S.alloc /\ T.dec = S.dec /\ T.ia = S.ia
      <4> HIDE DEF rec, new
      <4>1. Store(k, new, by) \in WriteSet
        BY <2>1, <3>2, ChangeOK
      <4>2. RenewUndo(k, rec.gen, rec.expires, new.expires) \in UndoSet
        BY <2>1, <3>2, <1>UndoOK
      <4>3. LockedOK(T) /\ T.rec = S.rec /\ T.alloc = S.alloc /\ T.dec = S.dec
        BY <2>1, <2>5, <4>1, <4>2, EnqueueOK
      <4> QED
        BY <2>1, <4>3 DEF Enqueue, LockedOK
    <3> HIDE DEF T
    <3>4. /\ DOMAIN R = DOMAIN S /\ R.rec = With(S.rec, k, [S.rec[k] EXCEPT !.expires = e])
          /\ R.dec = S.dec /\ R.alloc = S.alloc /\ R.ia = S.ia
          /\ R.q \in Seq(WriteSet) /\ Len(R.q) <= QueueLen /\ R.pend \in Seq(PendingSet)
      BY <2>1, <3>3 DEF LockedOK
    <3> HIDE DEF R, e, r
    <3>5. /\ Good(R) /\ k \in DOMAIN R.rec /\ R.rec[k].ip = S.rec[k].ip /\ R.rec[k].expires = e
          /\ S.rec[k].expires <= e => Keeps(S, R, {})
      BY <2>2, <3>4, LifetimeGood, SMTT(60)
    <3>6. rec.expires <= e
      BY <2>1, <2>2, <2>5, SMTT(60)
    <3> QED
      BY <2>1, <2>2, <3>1, <3>5, <3>6 DEF Answered, r
  <2> QED
    BY <2>3, <2>4, <2>5
<1>ReallocateOK.
    ASSUME NEW S, Good(S), NEW k \in DOMAIN S.rec, NewGen(k) \in Gens, now \in Nat,
           NEW t \in Nat, t <= now, Expired(S.rec[k], t), NEW by \in Workers
    PROVE  \A r \in reallocateExpired(S, k, t, by) : Answered(r, k, t) /\ Keeps(S, r.st, {})
  <2> USE <1>ReallocateOK
  <2>1. LockedOK(S) /\ k \in Keys /\ S.rec[k].ip \in IPs
    BY RecordOf DEF Good
  <2>2. CASE ~CanEnqueue(S)
    BY <2>2, <1>RenewOK DEF reallocateExpired
  <2>3. CASE CanEnqueue(S)
    <3> DEFINE T == releaseLease(S, k, by)
               D == {k}
    <3>1. Good(T) /\ T.rec = Without(S.rec, D)
      BY <2>3, ReleaseGood
    <3>2. S.rec[k].ip \in S.alloc
      BY DEF Good, Leased
    <3>3. reallocateExpired(S, k, t, by) = allocateLease(T, k, S.rec[k].ip, t, by)
      BY <2>3, <3>2 DEF reallocateExpired
    <3>4. k \notin DOMAIN T.rec
      BY <3>1 DEF Without
    <3>5. \A l \in D : l \in DOMAIN S.rec /\ Expired(S.rec[l], t)
      OBVIOUS
    <3> HIDE DEF T, D
    <3>6. Shrinks(S, T) /\ LockedOK(T)
      BY <2>1, <3>1, <3>5, <1>KeepsMinus DEF Good
    <3>7. \A r \in allocateLease(T, k, S.rec[k].ip, t, by) :
            Answered(r, k, t) /\ Keeps(T, r.st, {})
      BY <2>1, <3>1, <3>4, <1>AllocateLeaseOK
    <3> SUFFICES ASSUME NEW r \in reallocateExpired(S, k, t, by)
                 PROVE  Answered(r, k, t) /\ Keeps(S, r.st, {})
      OBVIOUS
    <3>8. Answered(r, k, t) /\ Keeps(T, r.st, {})
      BY <3>3, <3>7
    <3>9. LockedOK(r.st) /\ Keeps(S, T, {})
      BY <3>6, <3>8 DEF Answered, Good, Shrinks
    <3>10. Keeps(S, r.st, {})
      BY <2>1, <3>6, <3>8, <3>9, <1>KeepsTrans
    <3> QED
      BY <3>8, <3>10
  <2> QED
    BY <2>2, <2>3
<1>RenewKnownOK.
    ASSUME NEW S, Good(S), NEW k \in DOMAIN S.rec, NewGen(k) \in Gens, now \in Nat,
           NEW t \in Nat, t <= now, NEW by \in Workers
    PROVE  \A r \in renewKnown(S, k, t, by) : Answered(r, k, t) /\ Keeps(S, r.st, {})
  BY <1>RenewKnownOK, <1>ReallocateOK, <1>RenewOK DEF renewKnown
<1>KeepsGiven.
    ASSUME NEW S, LockedOK(S), NEW k, NEW ia, boundRecord(S, k, ia),
           NEW T, T.rec = Without(S.rec, {k})
    PROVE  Keeps(S, T, Given(k, ia))
  <2> USE <1>KeepsGiven
  <2>1. \A l \in DOMAIN S.rec : S.rec[l].expires \in Nat
    BY RecordOf
  <2>2. /\ DOMAIN T.rec = DOMAIN S.rec \ {k}
        /\ \A l \in DOMAIN T.rec : T.rec[l] = S.rec[l]
    BY DEF Without
  <2>3. [key |-> k, ip |-> S.rec[k].ip] \in Given(k, ia)
    BY DEF boundRecord, Given
  <2>4. ASSUME NEW l \in DOMAIN S.rec, [key |-> l, ip |-> S.rec[l].ip] \notin Given(k, ia)
        PROVE  l \in DOMAIN T.rec /\ T.rec[l] = S.rec[l]
    <3>1. l # k
      BY <2>3, <2>4
    <3> QED
      BY <2>2, <3>1
  <2> DEFINE G == Given(k, ia)
  <2>5. \A l \in DOMAIN S.rec : [key |-> l, ip |-> S.rec[l].ip] \notin G =>
          l \in DOMAIN T.rec /\ T.rec[l] = S.rec[l]
    BY <2>4
  <2> HIDE DEF G
  <2>6. Keeps(S, T, G)
    BY <2>1, <2>5, SMTT(60) DEF Keeps
  <2> QED
    BY <2>6 DEF G
<1>ReleaseIANAOK.
    ASSUME NEW S, Good(S), NEW k, NEW ia, NEW by \in Workers
    PROVE  Good(releaseIANA(S, k, ia, by)) /\ Keeps(S, releaseIANA(S, k, ia, by), Given(k, ia))
  <2> USE <1>ReleaseIANAOK
  <2>0. LockedOK(S)
    BY DEF Good
  <2>1. CASE boundRecord(S, k, ia) /\ CanEnqueue(S)
    <3>1. k \in DOMAIN S.rec
      BY <2>1 DEF boundRecord
    <3>2. Good(releaseLease(S, k, by)) /\ releaseLease(S, k, by).rec = Without(S.rec, {k})
      BY <2>1, <3>1, ReleaseGood
    <3>3. Keeps(S, releaseLease(S, k, by), Given(k, ia))
      BY <2>0, <2>1, <3>2, <1>KeepsGiven
    <3> QED
      BY <2>1, <3>2, <3>3 DEF releaseIANA
  <2>2. CASE ~(boundRecord(S, k, ia) /\ CanEnqueue(S))
    BY <2>0, <2>2, <1>KeepsSame DEF releaseIANA
  <2> QED
    BY <2>1, <2>2
(* The address in hand goes into quarantine, which had room for one more. *)
<1>QuarantineAdds.
    ASSUME NEW S, NEW ip, Taken(S, ip), Cardinality(DOMAIN S.dec) < DeclineMax, NEW u \in Nat,
           NEW R, R = [S EXCEPT !.dec = With(@, ip, u)]
    PROVE  Good(R) /\ R.rec = S.rec
  <2> USE <1>QuarantineAdds
  <2>1. /\ LockedOK(S) /\ Apart(S)
        /\ ip \in IPs /\ ip \notin Leased(S) /\ ip \notin DOMAIN S.dec
        /\ S.alloc = Leased(S) \cup DOMAIN S.dec \cup {ip}
    BY DEF Taken
  <2>2. /\ R.rec = S.rec /\ R.dec = With(S.dec, ip, u) /\ R.q = S.q /\ R.pend = S.pend
        /\ R.ia = S.ia /\ DOMAIN R = DOMAIN S /\ R.alloc = S.alloc
    BY <2>1 DEF LockedOK
  <2>3. IsMap(R.dec, IPs, Nat) /\ DOMAIN R.dec = DOMAIN S.dec \cup {ip}
    <3>1. IsMap(S.dec, IPs, Nat)
      BY <2>1 DEF LockedOK
    <3> QED
      BY <2>1, <2>2, <3>1, SMTT(60) DEF With, IsMap
  <2>4. LockedOK(R)
    BY <2>1, <2>2, <2>3 DEF LockedOK
  <2>5. Apart(R) /\ Leased(R) = Leased(S)
    BY <2>1, <2>2, <2>3, SMTT(60) DEF Apart, Leased
  <2>6. Few(R)
    <3>1. IsFiniteSet(DOMAIN S.dec) /\ Cardinality(DOMAIN S.dec) \in Nat
      BY <2>1, <1>QuarantineFinite DEF LockedOK
    <3>2. Cardinality(DOMAIN S.dec \cup {ip}) = Cardinality(DOMAIN S.dec) + 1
      BY <2>1, <3>1, FS_AddElement
    <3> QED
      BY <2>3, <3>1, <3>2, Numbers, SMTT(60) DEF Few
  <2> QED
    BY <2>1, <2>2, <2>3, <2>4, <2>5, <2>6 DEF Good
(* An eviction with an address in hand makes room for it. *)
<1>EvictTaken.
    ASSUME NEW S, NEW ip, Taken(S, ip), NEW old \in DOMAIN S.dec
    PROVE  LET R == freeDeclined(S, {old})
           IN  Taken(R, ip) /\ R.rec = S.rec /\ Cardinality(DOMAIN R.dec) < DeclineMax
  <2> USE <1>EvictTaken
  <2> DEFINE R == freeDeclined(S, {old})
  <2>1. /\ LockedOK(S) /\ Apart(S) /\ Few(S)
        /\ ip \in IPs /\ ip \notin Leased(S) /\ ip \notin DOMAIN S.dec
        /\ S.alloc = Leased(S) \cup DOMAIN S.dec \cup {ip}
    BY DEF Taken
  <2>2. /\ LockedOK(R) /\ R.rec = S.rec /\ R.alloc = S.alloc \ {old}
        /\ DOMAIN R.dec = DOMAIN S.dec \ {old}
    BY <2>1, <1>FreeDeclinedOK, SMTT(60)
  <2> HIDE DEF R
  <2>3. Leased(R) = Leased(S) /\ \A x \in Leased(S) : x \notin DOMAIN S.dec
    BY <2>1, <2>2, SMTT(60) DEF Leased, Apart
  <2>4. Apart(R)
    BY <2>1, <2>2 DEF Apart
  <2>5. R.alloc = Leased(R) \cup DOMAIN R.dec \cup {ip}
    BY <2>1, <2>2, <2>3
  <2>6. Few(R) /\ Cardinality(DOMAIN R.dec) < DeclineMax
    <3>1. IsFiniteSet(DOMAIN S.dec) /\ Cardinality(DOMAIN S.dec) \in Nat
      BY <2>1, <1>QuarantineFinite DEF LockedOK
    <3>2. Cardinality(DOMAIN S.dec \ {old}) = Cardinality(DOMAIN S.dec) - 1
      BY <3>1, FS_RemoveElement
    <3> QED
      BY <2>1, <2>2, <3>1, <3>2, Numbers, SMTT(60) DEF Few
  <2>7. Taken(R, ip)
    BY <2>1, <2>2, <2>3, <2>4, <2>5, <2>6 DEF Taken
  <2> QED
    BY <2>2, <2>6, <2>7 DEF R
<1>QuarantineOK.
    ASSUME NEW S, Good(S), CanEnqueue(S), NEW k \in DOMAIN S.rec, NEW t \in Nat,
           NEW by \in Workers
    PROVE  \A R \in quarantine(S, k, t, by) : Good(R) /\ R.rec = Without(S.rec, {k})
  <2> USE <1>QuarantineOK
  <2>1. CASE DeclineProbation = 0 \/ DeclineMax = 0
    BY <2>1, ReleaseGood DEF quarantine
  <2>2. CASE ~(DeclineProbation = 0 \/ DeclineMax = 0)
    <3> DEFINE rec == S.rec[k]
               Q == Enqueue(S, Remove(k, rec, by), NoUndo)
               T == [Q EXCEPT !.rec = Without(@, {k})]
               u == t + DeclineProbation * TicksPerSec
               Room == IF Cardinality(DOMAIN T.dec) < DeclineMax THEN {T}
                       ELSE {freeDeclined(T, {ip}) : ip \in Oldest(T)}
    <3>1. quarantine(S, k, t, by) = {[R EXCEPT !.dec = With(@, rec.ip, u)] : R \in Room}
      BY <2>2 DEF quarantine
    <3>2. LockedOK(S) /\ k \in Keys /\ u \in Nat
      BY RecordOf, Numbers, SMTT(60) DEF Good
    <3>3. LockedOK(Q) /\ Q.rec = S.rec /\ Q.alloc = S.alloc /\ Q.dec = S.dec
      BY <3>2, RemoveQueued
    <3> HIDE DEF Q
    <3>4. /\ T.rec = Without(S.rec, {k}) /\ T.alloc = S.alloc /\ T.dec = S.dec
          /\ T.q = Q.q /\ T.pend = Q.pend /\ T.ia = Q.ia /\ DOMAIN T = DOMAIN Q
      BY <3>3 DEF LockedOK
    <3> HIDE DEF T
    <3>5. LockedOK(T)
      <4>1. IsMap(S.rec, Keys, Record)
        BY <3>2 DEF LockedOK
      <4>2. IsMap(Without(S.rec, {k}), Keys, Record)
        BY <4>1 DEF Without, IsMap
      <4> QED
        BY <3>3, <3>4, <4>2 DEF LockedOK
    <3>6. Taken(T, rec.ip)
      BY <3>4, <3>5, <1>TakenMinus
    <3>7. \A R \in Room : /\ Taken(R, rec.ip) /\ R.rec = T.rec
                          /\ Cardinality(DOMAIN R.dec) < DeclineMax
      <4>1. CASE Cardinality(DOMAIN T.dec) < DeclineMax
        BY <3>6, <4>1
      <4>2. CASE ~(Cardinality(DOMAIN T.dec) < DeclineMax)
        <5>1. \A ip \in Oldest(T) : ip \in DOMAIN T.dec
          BY DEF Oldest
        <5>2. Room = {freeDeclined(T, {ip}) : ip \in Oldest(T)}
          BY <4>2
        <5> HIDE DEF Room, rec
        <5> QED
          BY <3>6, <5>1, <5>2, <1>EvictTaken
      <4> QED
        BY <4>1, <4>2
    <3> SUFFICES ASSUME NEW U \in quarantine(S, k, t, by)
                 PROVE  Good(U) /\ U.rec = Without(S.rec, {k})
      OBVIOUS
    <3> HIDE DEF Room, rec, u
    <3>8. PICK R \in Room : U = [R EXCEPT !.dec = With(@, rec.ip, u)]
      BY <3>1
    <3>9. Good(U) /\ U.rec = R.rec
      BY <3>2, <3>7, <3>8, <1>QuarantineAdds, SMTT(60)
    <3> QED
      BY <3>4, <3>7, <3>9
  <2> QED
    BY <2>1, <2>2
<1>DeclineIANAOK.
    ASSUME NEW S, Good(S), NEW k, NEW ia, NEW t \in Nat, NEW by \in Workers
    PROVE  \A R \in declineIANA(S, k, ia, t, by) : Good(R) /\ Keeps(S, R, Given(k, ia))
  <2> USE <1>DeclineIANAOK
  <2>0. LockedOK(S)
    BY DEF Good
  <2>1. CASE boundRecord(S, k, ia) /\ CanEnqueue(S)
    <3>1. k \in DOMAIN S.rec /\ declineIANA(S, k, ia, t, by) = quarantine(S, k, t, by)
      BY <2>1 DEF boundRecord, declineIANA
    <3>2. \A R \in quarantine(S, k, t, by) : Good(R) /\ R.rec = Without(S.rec, {k})
      BY <2>1, <3>1, <1>QuarantineOK
    <3> QED
      BY <2>0, <2>1, <3>1, <3>2, <1>KeepsGiven
  <2>2. CASE ~(boundRecord(S, k, ia) /\ CanEnqueue(S))
    BY <2>0, <2>2, <1>KeepsSame DEF declineIANA
  <2> QED
    BY <2>1, <2>2
(* The answer for one IA_NA. *)
<1>AnswerForOK.
    ASSUME NEW S, Good(S), NEW type \in Types, NEW k \in Keys, NEW ia, NewGen(k) \in Gens,
           now \in Nat, NEW t \in Nat, t <= now, NEW by \in Workers
    PROVE  \A r \in AnswerFor(S, type, k, ia, t, by) :
             Answered(r, k, t) /\ Keeps(S, r.st, GivenBy(type, k, ia))
  <2> USE <1>AnswerForOK
  <2>0. LockedOK(S)
    BY DEF Good
  <2>1. CASE type = "bind"
    <3>1. AnswerFor(S, type, k, ia, t, by) = bind(S, k, ia, t, by) /\ GivenBy(type, k, ia) = {}
      BY <2>1 DEF AnswerFor, GivenBy
    <3>2. CASE k \in DOMAIN S.rec
      BY <3>1, <3>2, <1>RenewKnownOK DEF bind
    <3>3. CASE k \notin DOMAIN S.rec
      <4>1. requestedAddress(ia) \in IPs \cup {NoOffset}
        BY DEF requestedAddress
      <4> QED
        BY <3>1, <3>3, <4>1, <1>AllocateLeaseOK, SMTT(60) DEF bind
    <3> QED
      BY <3>2, <3>3
  <2>2. CASE type = "extend"
    <3>1. AnswerFor(S, type, k, ia, t, by) = extend(S, k, ia, t, by) /\ GivenBy(type, k, ia) = {}
      BY <2>2 DEF AnswerFor, GivenBy
    <3>2. CASE k \in DOMAIN S.rec
      BY <3>1, <3>2, <1>RenewKnownOK DEF extend
    <3>3. CASE k \notin DOMAIN S.rec
      BY <2>0, <3>1, <3>3, <1>KeepsSame, SMTT(60) DEF extend, Answered
    <3> QED
      BY <3>2, <3>3
  <2>3. CASE type = "release"
    <3>1. /\ AnswerFor(S, type, k, ia, t, by) = {[st |-> releaseIANA(S, k, ia, by), ip |-> NoOffset]}
          /\ GivenBy(type, k, ia) = Given(k, ia)
      BY <2>3 DEF AnswerFor, GivenBy
    <3> QED
      BY <3>1, <1>ReleaseIANAOK, SMTT(60) DEF Answered
  <2>4. CASE type = "decline"
    <3>1. /\ AnswerFor(S, type, k, ia, t, by) =
               {[st |-> T, ip |-> NoOffset] : T \in declineIANA(S, k, ia, t, by)}
          /\ GivenBy(type, k, ia) = Given(k, ia)
      BY <2>4 DEF AnswerFor, GivenBy
    <3> QED
      BY <3>1, <1>DeclineIANAOK, SMTT(60) DEF Answered
  <2> QED
    BY <2>1, <2>2, <2>3, <2>4 DEF Types
<1> QED
  BY <1>ReclaimGood, <1>AnswerForOK

(* The sweep and the end of probations. *)
LEMMA ReclaimGood ==
  ASSUME NEW S, Good(S), now \in Nat, NEW t \in Nat, t <= now, NEW by \in Workers
  PROVE  \A r \in reclaim(S, t, by) : Good(r.st) /\ Shrinks(S, r.st)
BY Sections

(* The answer for one IA_NA. *)
LEMMA AnswerForOK ==
  ASSUME NEW S, Good(S), NEW type \in Types, NEW k \in Keys, NEW ia, NewGen(k) \in Gens,
         now \in Nat, NEW t \in Nat, t <= now, NEW by \in Workers
  PROVE  \A r \in AnswerFor(S, type, k, ia, t, by) :
           Answered(r, k, t) /\ Keeps(S, r.st, GivenBy(type, k, ia))
BY Sections

-----------------------------------------------------------------------------
(* Undoing what could not be written. *)

(* One change of the walk back, and the walk over n of them. *)
Back(T, p) == IF p.result = "error" THEN Applied(T, p.undo) ELSE T

Walks(S, pend, n, f) ==
  /\ f = [i \in 0 .. n |-> f[i]]
  /\ f[n] = S
  /\ \A i \in 0 .. n - 1 : f[i] = Back(f[i + 1], pend[i + 1])

(* The walk as far as j changes back. *)
WalksFrom(S, pend, n, j, g) ==
  /\ g = [i \in (n - j) .. n |-> g[i]]
  /\ g[n] = S
  /\ \A i \in (n - j) .. n - 1 : g[i] = Back(g[i + 1], pend[i + 1])

(* Undoing what could not be written leaves tables that agree, and changes    *)
(* nothing when everything was written.                                       *)
LEMMA Undoing ==
  /\ \A S : \A pend \in Seq(PendingSet) : Good(S) => Good(Undone(S, pend))
  /\ \A S, pend : \A n \in Nat :
       Len(pend) = n /\ (\A i \in 1 .. n : pend[i].result # "error") => Undone(S, pend) = S
<1>UndoFields.
    ASSUME NEW u \in UndoSet, u.kind # "none"
    PROVE  /\ u.kind \in {"drop", "renew"} /\ u.key \in Keys /\ u.gen \in Gens
           /\ u.kind = "renew" => u.was \in Nat /\ u.extended \in Nat
  BY <1>UndoFields, SMTT(60) DEF UndoSet, NoUndo
<1>AppliedGood.
    ASSUME NEW S, Good(S), NEW u \in UndoSet
    PROVE  Good(Applied(S, u))
  <2> USE <1>AppliedGood
  <2>0. LockedOK(S)
    BY DEF Good
  <2>1. CASE u.kind = "none" \/ u.key \notin DOMAIN S.rec \/ S.rec[u.key].gen # u.gen
    BY <2>1 DEF Applied
  <2>2. CASE ~(u.kind = "none" \/ u.key \notin DOMAIN S.rec \/ S.rec[u.key].gen # u.gen)
    <3> DEFINE k == u.key
    <3>1. k \in DOMAIN S.rec /\ S.rec[k] \in Record /\ k \in Keys
      BY <2>0, <2>2, RecordOf
    <3>2. CASE u.kind = "drop"
      <4> DEFINE D == {k}
                 R == FreeBit([S EXCEPT !.rec = Without(@, {k})], S.rec[k].ip)
      <4>1. Applied(S, u) = R
        BY <2>2, <3>2 DEF Applied
      <4>2. /\ R.rec = Without(S.rec, D) /\ R.alloc = S.alloc \ {S.rec[l].ip : l \in D}
            /\ R.dec = S.dec /\ R.q = S.q /\ R.pend = S.pend /\ R.ia = S.ia
            /\ DOMAIN R = DOMAIN S
        BY <2>0 DEF FreeBit, LockedOK
      <4>3. D \in SUBSET DOMAIN S.rec
        BY <3>1
      <4> HIDE DEF R, D, k
      <4>4. LockedOK(R)
        <5>1. IsMap(S.rec, Keys, Record)
          BY <2>0 DEF LockedOK
        <5>2. IsMap(Without(S.rec, D), Keys, Record)
          BY <5>1, WithoutMap
        <5> QED
          BY <2>0, <4>2, <5>2 DEF LockedOK
      <4> QED
        BY <4>1, <4>2, <4>3, <4>4, GoodMinus
    <3>3. CASE u.kind # "drop" /\ S.rec[k].expires = u.extended
      <4> DEFINE e == u.was
                 R == [S EXCEPT !.rec = With(@, k, [S.rec[k] EXCEPT !.expires = e])]
      <4>1. Applied(S, u) = R
        BY <2>2, <3>3 DEF Applied
      <4>2. e \in Nat
        BY <2>2, <3>3, <1>UndoFields
      <4>3. /\ DOMAIN R = DOMAIN S /\ R.rec = With(S.rec, k, [S.rec[k] EXCEPT !.expires = e])
            /\ R.dec = S.dec /\ R.alloc = S.alloc /\ R.ia = S.ia
            /\ R.q \in Seq(WriteSet) /\ Len(R.q) <= QueueLen /\ R.pend \in Seq(PendingSet)
        BY <2>0 DEF LockedOK
      <4> HIDE DEF R, k, e
      <4>4. Good(R)
        BY <3>1, <4>2, <4>3, LifetimeGood, SMTT(60)
      <4> QED
        BY <4>1, <4>4
    <3>4. CASE u.kind # "drop" /\ S.rec[k].expires # u.extended
      BY <2>2, <3>4 DEF Applied
    <3> QED
      BY <3>2, <3>3, <3>4
  <2> QED
    BY <2>1, <2>2
<1>WalkExists.
    ASSUME NEW S, NEW pend, NEW n \in Nat
    PROVE  \E f : Walks(S, pend, n, f)
  <2> DEFINE Fails == {j \in 0 .. n : ~\E g : WalksFrom(S, pend, n, j, g)}
  <2>1. Fails = {}
    <3> SUFFICES ASSUME Fails # {} PROVE FALSE
      OBVIOUS
    <3>1. Fails \in SUBSET Nat
      BY SMTT(60)
    <3>2. PICK j \in Fails : \A i \in Fails : j <= i
      <4> HIDE DEF Fails
      <4> QED
        BY <3>1, LeastNatural
    <3>3. j \in 0 .. n /\ ~\E g : WalksFrom(S, pend, n, j, g)
      OBVIOUS
    <3>4. CASE j = 0
      <4> DEFINE g == [i \in n .. n |-> S]
      <4>1. WalksFrom(S, pend, n, 0, g)
        BY SMTT(60) DEF WalksFrom
      <4> QED
        BY <3>3, <3>4, <4>1
    <3>5. CASE j # 0
      <4>1. j - 1 \in 0 .. n /\ j - 1 \notin Fails
        BY <3>2, <3>3, <3>5, SMTT(60)
      <4>2. PICK g : WalksFrom(S, pend, n, j - 1, g)
        BY <4>1
      <4> DEFINE h == [i \in (n - j) .. n |->
                         IF i = n - j THEN Back(g[i + 1], pend[i + 1]) ELSE g[i]]
      <4>3. h[n] = S
        BY <3>3, <3>5, <4>2, SMTT(60) DEF WalksFrom
      <4>4. ASSUME NEW i \in (n - j) .. n - 1 PROVE h[i] = Back(h[i + 1], pend[i + 1])
        <5>1. h[i + 1] = g[i + 1]
          BY <3>3, <3>5, SMTT(60)
        <5>2. CASE i = n - j
          BY <3>3, <3>5, <5>1, <5>2, SMTT(60)
        <5>3. CASE i # n - j
          <6>1. i \in (n - (j - 1)) .. n - 1 /\ h[i] = g[i]
            BY <3>3, <3>5, <5>3, SMTT(60)
          <6> QED
            BY <4>2, <5>1, <6>1 DEF WalksFrom
        <5> QED
          BY <5>2, <5>3
      <4>5. h = [i \in (n - j) .. n |-> h[i]]
        OBVIOUS
      <4> HIDE DEF h
      <4>6. WalksFrom(S, pend, n, j, h)
        BY <4>3, <4>4, <4>5 DEF WalksFrom
      <4> QED
        BY <3>3, <4>6
    <3> QED
      BY <3>4, <3>5
  <2>2. PICK g : WalksFrom(S, pend, n, n, g)
    BY <2>1, SMTT(60)
  <2>3. n - n = 0
    BY SMTT(60)
  <2>4. Walks(S, pend, n, g)
    BY <2>2, <2>3 DEF Walks, WalksFrom
  <2> QED
    BY <2>4
(* Undone ends where the walk ends. *)
<1>UndoneWalks.
    ASSUME NEW S, NEW pend, NEW n \in Nat, Len(pend) = n
    PROVE  \E f : Walks(S, pend, n, f) /\ Undone(S, pend) = f[0]
  <2> USE <1>UndoneWalks
  <2> DEFINE Step(f) == [i \in 0 .. Len(pend) |->
                           IF i = Len(pend) THEN S
                           ELSE IF pend[i + 1].result = "error"
                                THEN Applied(f[i + 1], pend[i + 1].undo) ELSE f[i + 1]]
             undo == CHOOSE f : f = Step(f)
  <2>1. Undone(S, pend) = undo[0]
    BY DEF Undone
  <2>2. PICK f : Walks(S, pend, n, f)
    BY <1>WalkExists
  <2>3. f = Step(f)
    <3>1. \A i \in 0 .. n : f[i] = Step(f)[i]
      <4> TAKE i \in 0 .. n
      <4>1. CASE i = n
        BY <2>2, <4>1 DEF Walks
      <4>2. CASE i # n
        <5>1. i \in 0 .. n - 1
          BY <4>2, SMTT(60)
        <5> QED
          BY <2>2, <4>2, <5>1 DEF Walks, Back
      <4> QED
        BY <4>1, <4>2
    <3>2. f = [i \in 0 .. n |-> f[i]]
      BY <2>2 DEF Walks
    <3> QED
      BY <3>1, <3>2
  <2>4. undo = Step(undo)
    <3> HIDE DEF Step
    <3> QED
      BY <2>3
  <2>5. Walks(S, pend, n, undo)
    <3> HIDE DEF undo
    <3>1. undo = [i \in 0 .. n |-> undo[i]]
      BY <2>4
    <3>2. undo[n] = S
      BY <2>4, SMTT(60)
    <3>3. \A i \in 0 .. n - 1 : undo[i] = Back(undo[i + 1], pend[i + 1])
      BY <2>4, SMTT(60) DEF Back
    <3> QED
      BY <3>1, <3>2, <3>3 DEF Walks
  <2> QED
    BY <2>1, <2>5
(* The undo of any part of the changes leaves the pool accounted for. *)
<1>UndoneGood.
    ASSUME NEW S, Good(S), NEW pend \in Seq(PendingSet)
    PROVE  Good(Undone(S, pend))
  <2> USE <1>UndoneGood
  <2>1. PICK n \in Nat : Len(pend) = n /\ \A i \in 1 .. n : pend[i] \in PendingSet
    BY SeqLen
  <2>2. PICK f : Walks(S, pend, n, f) /\ Undone(S, pend) = f[0]
    BY <2>1, <1>UndoneWalks
  <2> DEFINE Bad == {j \in 0 .. n : ~Good(f[n - j])}
  <2>3. Bad = {}
    <3> SUFFICES ASSUME Bad # {} PROVE FALSE
      OBVIOUS
    <3>1. Bad \in SUBSET Nat
      BY SMTT(60)
    <3>2. PICK j \in Bad : \A i \in Bad : j <= i
      <4> HIDE DEF Bad
      <4> QED
        BY <3>1, LeastNatural
    <3>3. j # 0
      BY <2>2, <3>2, SMTT(60) DEF Walks
    <3>4. j - 1 \in 0 .. n /\ j - 1 \notin Bad
      <4>1. j \in 0 .. n
        BY <3>2
      <4>2. j - 1 \in 0 .. n /\ ~(j <= j - 1)
        BY <3>3, <4>1, SMTT(60)
      <4> HIDE DEF Bad
      <4> QED
        BY <3>2, <4>2
    <3> DEFINE i == n - j
    <3>5. i \in 0 .. n - 1 /\ n - (j - 1) = i + 1 /\ i + 1 \in 1 .. n
      BY <3>2, <3>3, SMTT(60)
    <3>6. Good(f[i + 1]) /\ ~Good(f[i])
      BY <3>2, <3>4, <3>5
    <3>7. f[i] = Back(f[i + 1], pend[i + 1]) /\ pend[i + 1].undo \in UndoSet
      BY <2>1, <2>2, <3>5 DEF Walks, PendingSet
    <3> HIDE DEF i
    <3> QED
      BY <3>6, <3>7, <1>AppliedGood DEF Back
  <2>4. n \in 0 .. n /\ n - n = 0
    BY SMTT(60)
  <2>5. Good(f[n - n])
    BY <2>3, <2>4
  <2> QED
    BY <2>2, <2>4, <2>5
(* Nothing failed, nothing is undone. *)
<1>UndoneClean.
    ASSUME NEW S, NEW pend, NEW n \in Nat, Len(pend) = n,
           \A i \in 1 .. n : pend[i].result # "error"
    PROVE  Undone(S, pend) = S
  <2> USE <1>UndoneClean
  <2>2. PICK f : Walks(S, pend, n, f) /\ Undone(S, pend) = f[0]
    BY <1>UndoneWalks
  <2> DEFINE Bad == {j \in 0 .. n : f[n - j] # S}
  <2>3. Bad = {}
    <3> SUFFICES ASSUME Bad # {} PROVE FALSE
      OBVIOUS
    <3>1. Bad \in SUBSET Nat
      BY SMTT(60)
    <3>2. PICK j \in Bad : \A i \in Bad : j <= i
      <4> HIDE DEF Bad
      <4> QED
        BY <3>1, LeastNatural
    <3>3. j # 0
      BY <2>2, <3>2, SMTT(60) DEF Walks
    <3>4. j - 1 \in 0 .. n /\ j - 1 \notin Bad
      BY <3>2, <3>3, SMTT(60)
    <3> DEFINE i == n - j
    <3>5. i \in 0 .. n - 1 /\ n - (j - 1) = i + 1 /\ i + 1 \in 1 .. n
      BY <3>2, <3>3, SMTT(60)
    <3>6. f[i + 1] = S /\ f[i] # S
      BY <3>2, <3>4, <3>5
    <3>7. f[i] = Back(f[i + 1], pend[i + 1])
      BY <2>2, <3>5 DEF Walks
    <3> QED
      BY <3>5, <3>6, <3>7 DEF Back
  <2>4. n \in 0 .. n /\ n - n = 0
    BY SMTT(60)
  <2> QED
    BY <2>2, <2>3, <2>4
<1> QED
  BY <1>UndoneGood, <1>UndoneClean

-----------------------------------------------------------------------------
(* No locked section makes a change fail: what it adds waits for its result. *)

CleanSeq(s) == \E X : s \in Seq(X) /\ \A x \in X : x.result # "error"

Clean(S) ==
  DOMAIN S = {"rec", "alloc", "dec", "q", "pend", "ia"} /\ CleanSeq(S.pend)

LEMMA CleanSections ==
  now \in Nat =>
    \A S : \A t \in Nat, by \in Workers : Good(S) /\ Clean(S) /\ t <= now =>
      /\ \A r \in reclaim(S, t, by) : Clean(r.st)
      /\ \A type \in Types : \A k, ia : \A r \in AnswerFor(S, type, k, ia, t, by) : Clean(r.st)
<1>CleanConcat.
    ASSUME NEW s, CleanSeq(s), NEW t, CleanSeq(t)
    PROVE  CleanSeq(s \o t)
  <2> USE <1>CleanConcat
  <2>1. PICK X : s \in Seq(X) /\ \A x \in X : x.result # "error"
    BY DEF CleanSeq
  <2>2. PICK Y : t \in Seq(Y) /\ \A x \in Y : x.result # "error"
    BY DEF CleanSeq
  <2>3. s \in Seq(X \cup Y) /\ t \in Seq(X \cup Y)
    BY <2>1, <2>2, SMTT(60)
  <2>4. s \o t \in Seq(X \cup Y)
    BY <2>3, SeqConcat
  <2> QED
    BY <2>1, <2>2, <2>4, SMTT(60) DEF CleanSeq
<1>CleanAppend.
    ASSUME NEW s, CleanSeq(s), NEW e, e.result # "error"
    PROVE  CleanSeq(Append(s, e))
  <2> USE <1>CleanAppend
  <2>1. PICK X : s \in Seq(X) /\ \A x \in X : x.result # "error"
    BY DEF CleanSeq
  <2>2. s \in Seq(X \cup {e})
    BY <2>1, SMTT(60)
  <2>3. Append(s, e) \in Seq(X \cup {e})
    BY <2>2, SeqAppend
  <2> QED
    BY <2>1, <2>3, SMTT(60) DEF CleanSeq
<1>EnqueueClean.
    ASSUME NEW S, Clean(S), NEW c, NEW undo
    PROVE  Clean(Enqueue(S, c, undo))
  <2> USE <1>EnqueueClean
  <2> DEFINE p == Append(S.pend, [undo |-> undo, ia |-> S.ia, result |-> "waiting"])
  <2>1. CleanSeq(p)
    BY <1>CleanAppend DEF Clean
  <2> HIDE DEF p
  <2>2. Enqueue(S, c, undo) = [S EXCEPT !.q = Append(@, c), !.pend = p]
    BY DEF Enqueue, Clean, p
  <2> QED
    BY <2>1, <2>2 DEF Clean
(* Changes to the tables leave the results alone. *)
<1>TablesClean.
    ASSUME NEW S, Clean(S), NEW x, NEW y
    PROVE  /\ Clean([S EXCEPT !.rec = x]) /\ Clean([S EXCEPT !.alloc = x])
           /\ Clean([S EXCEPT !.dec = x]) /\ Clean([S EXCEPT !.dec = x, !.alloc = y])
  BY <1>TablesClean DEF Clean
<1>ReleaseClean.
    ASSUME NEW S, Clean(S), NEW k, NEW by
    PROVE  Clean(releaseLease(S, k, by))
  BY <1>ReleaseClean, <1>EnqueueClean, <1>TablesClean DEF releaseLease, FreeBit
<1>FreeDeclinedClean.
    ASSUME NEW S, Clean(S), NEW ips
    PROVE  Clean(freeDeclined(S, ips))
  BY <1>FreeDeclinedClean, <1>TablesClean DEF freeDeclined
<1>SweepClean.
    ASSUME NEW S, LockedOK(S), Clean(S), NEW t, NEW s \in SweepOrders(S, t), NEW by
    PROVE  Clean(sweepExpired(S, s, by))
  <2> USE <1>SweepClean
  <2>1. PICK n \in Nat : s \in [1 .. n -> DOMAIN S.rec]
    BY SweepOrderOK
  <2> DEFINE e == [undo |-> NoUndo, ia |-> S.ia, result |-> "waiting"]
             W == [i \in DOMAIN s |-> e]
             P == S.pend \o W
             rec == Without(S.rec, Elements(s))
             alloc == S.alloc \ {S.rec[k].ip : k \in Elements(s)}
             q == S.q \o [i \in DOMAIN s |-> Remove(s[i], S.rec[s[i]], by)]
  <2>2. e.result # "error"
    OBVIOUS
  <2> HIDE DEF e
  <2>3. W \in Seq({e})
    BY <2>1, SMTT(60)
  <2>4. CleanSeq(W)
    BY <2>2, <2>3, SMTT(60) DEF CleanSeq
  <2> HIDE DEF W
  <2>5. CleanSeq(P)
    BY <2>4, <1>CleanConcat DEF Clean
  <2> HIDE DEF P, rec, alloc, q
  <2>6. sweepExpired(S, s, by) = [S EXCEPT !.rec = rec, !.alloc = alloc, !.q = q, !.pend = P]
    BY DEF sweepExpired, rec, alloc, q, P, W, e, Clean
  <2> QED
    BY <2>5, <2>6 DEF Clean
<1>ReclaimClean.
    ASSUME NEW S, LockedOK(S), Clean(S), NEW t, NEW by
    PROVE  \A r \in reclaim(S, t, by) : Clean(r.st)
  BY <1>ReclaimClean, <1>SweepClean, <1>FreeDeclinedClean, SMTT(60) DEF reclaim
<1>TakeBitClean.
    ASSUME NEW S, Clean(S), NEW hint
    PROVE  Clean(TakeBit(S, hint).st)
  <2> USE <1>TakeBitClean
  <2>1. \A x : Clean([S EXCEPT !.alloc = x])
    BY <1>TablesClean
  <2> QED
    BY <2>1 DEF TakeBit
<1>AllocateClean.
    ASSUME NEW S, LockedOK(S), Clean(S), NEW hint, NEW by
    PROVE  \A a \in allocate(S, hint, by) : Clean(a.st)
  <2> USE <1>AllocateClean
  <2>1. Clean(TakeBit(S, hint).st)
    BY <1>TakeBitClean
  <2>2. ASSUME NEW r \in reclaim(S, now, by)
        PROVE  /\ Clean(r.st) /\ Clean(TakeBit(r.st, hint).st)
               /\ \A ip : Clean(TakeBit(freeDeclined(r.st, {ip}), hint).st)
    BY <1>ReclaimClean, <1>FreeDeclinedClean, <1>TakeBitClean
  <2> DEFINE Tries(r) == IF r.freed > 0 THEN {TakeBit(r.st, hint)}
                         ELSE IF Oldest(r.st) = {} THEN {[st |-> r.st, ip |-> NoOffset]}
                         ELSE {TakeBit(freeDeclined(r.st, {ip}), hint) : ip \in Oldest(r.st)}
  <2>3. ASSUME NEW r \in reclaim(S, now, by), NEW a \in Tries(r)
        PROVE  Clean(a.st)
    <3>1. \/ a = TakeBit(r.st, hint)
          \/ a = [st |-> r.st, ip |-> NoOffset]
          \/ \E ip : a = TakeBit(freeDeclined(r.st, {ip}), hint)
      BY <2>3
    <3>2. a = [st |-> r.st, ip |-> NoOffset] => a.st = r.st
      BY SMTT(60)
    <3> QED
      BY <2>2, <3>1, <3>2
  <2>4. allocate(S, hint, by) =
          IF TakeBit(S, hint).ip # NoOffset THEN {TakeBit(S, hint)}
          ELSE UNION {Tries(r) : r \in reclaim(S, now, by)}
    BY DEF allocate
  <2> HIDE DEF Tries
  <2> QED
    BY <2>1, <2>3, <2>4
<1>RecordClean.
    ASSUME NEW S, Clean(S), NEW k, NEW ip, NEW t, NEW by
    PROVE  Clean(recordLease(S, k, ip, t, by).st)
  <2> USE <1>RecordClean
  <2> DEFINE rec == [gen |-> NewGen(k), ip |-> ip, expires |-> RoundUnix(LeaseEnd(t))]
             T == Enqueue(S, Store(k, rec, by), DropUndo(k, rec.gen))
  <2>1. Clean([T EXCEPT !.rec = With(@, k, rec)])
    BY <1>EnqueueClean, <1>TablesClean
  <2>2. Clean(FreeBit(S, ip))
    BY <1>TablesClean DEF FreeBit
  <2> QED
    BY <2>1, <2>2 DEF recordLease
<1>AllocateLeaseClean.
    ASSUME NEW S, Good(S), Clean(S), now \in Nat, NEW k, NEW hint, NEW t \in Nat, t <= now,
           NEW by \in Workers
    PROVE  \A r \in allocateLease(S, k, hint, t, by) : Clean(r.st)
  <2> USE <1>AllocateLeaseClean
  <2> DEFINE Swept == IF BelowLimit(S) THEN {S} ELSE {r.st : r \in reclaim(S, t, by)}
  <2>1. \A T \in Swept : LockedOK(T) /\ Clean(T)
    BY ReclaimGood, <1>ReclaimClean, SMTT(60) DEF Good
  <2> HIDE DEF Swept
  <2>2. ASSUME NEW T \in Swept, NEW a \in allocate(T, hint, by)
        PROVE  Clean(recordLease(a.st, k, a.ip, t, by).st)
    BY <2>1, <1>AllocateClean, <1>RecordClean
  <2>3. allocateLease(S, k, hint, t, by) =
          UNION {IF ~BelowLimit(T) THEN {[st |-> T, ip |-> NoOffset]}
                 ELSE {recordLease(a.st, k, a.ip, t, by) : a \in allocate(T, hint, by)} :
                 T \in Swept}
    BY DEF allocateLease, Swept
  <2> QED
    BY <2>1, <2>2, <2>3, SMTT(60)
<1>RenewClean.
    ASSUME NEW S, Clean(S), NEW k, NEW t, NEW by
    PROVE  Clean(renew(S, k, t, by).st)
  <2> USE <1>RenewClean
  <2> DEFINE rec == S.rec[k]
             new == [rec EXCEPT !.expires = RoundUnix(LeaseEnd(t))]
             T == Enqueue(S, Store(k, new, by), RenewUndo(k, rec.gen, rec.expires, new.expires))
  <2>1. Clean([T EXCEPT !.rec = With(@, k, new)])
    BY <1>EnqueueClean, <1>TablesClean
  <2> QED
    BY <2>1 DEF renew
<1>RenewKnownClean.
    ASSUME NEW S, Good(S), Clean(S), now \in Nat, NEW k \in DOMAIN S.rec, NEW t \in Nat,
           t <= now, NEW by \in Workers
    PROVE  \A r \in renewKnown(S, k, t, by) : Clean(r.st)
  <2> USE <1>RenewKnownClean
  <2>1. Clean(renew(S, k, t, by).st)
    BY <1>RenewClean
  <2>2. ASSUME CanEnqueue(S)
        PROVE  Good(releaseLease(S, k, by)) /\ Clean(releaseLease(S, k, by))
    BY <2>2, ReleaseGood, <1>ReleaseClean
  <2>3. ASSUME CanEnqueue(S), NEW r \in allocateLease(releaseLease(S, k, by), k, S.rec[k].ip, t, by)
        PROVE  Clean(r.st)
    BY <2>2, <2>3, <1>AllocateLeaseClean
  <2>4. ASSUME CanEnqueue(S), NEW x
        PROVE  Clean(renew([releaseLease(S, k, by) EXCEPT !.rec = x], k, t, by).st)
    BY <2>2, <2>4, <1>TablesClean, <1>RenewClean
  <2> QED
    BY <2>1, <2>3, <2>4 DEF renewKnown, reallocateExpired
<1>QuarantineClean.
    ASSUME NEW S, Clean(S), NEW k, NEW t, NEW by
    PROVE  \A R \in quarantine(S, k, t, by) : Clean(R)
  <2> USE <1>QuarantineClean
  <2> DEFINE rec == S.rec[k]
             T == [Enqueue(S, Remove(k, rec, by), NoUndo) EXCEPT !.rec = Without(@, {k})]
             Room == IF Cardinality(DOMAIN T.dec) < DeclineMax THEN {T}
                     ELSE {freeDeclined(T, {ip}) : ip \in Oldest(T)}
             until == t + DeclineProbation * TicksPerSec
  <2>1. Clean(T)
    BY <1>EnqueueClean, <1>TablesClean
  <2> HIDE DEF T
  <2>2. \A R \in Room : Clean(R)
    BY <2>1, <1>FreeDeclinedClean
  <2> HIDE DEF Room
  <2>3. \A R \in Room : Clean([R EXCEPT !.dec = With(@, rec.ip, until)])
    BY <2>2, <1>TablesClean
  <2>4. Clean(releaseLease(S, k, by))
    BY <1>ReleaseClean
  <2>5. quarantine(S, k, t, by) =
          IF DeclineProbation = 0 \/ DeclineMax = 0 THEN {releaseLease(S, k, by)}
          ELSE {[R EXCEPT !.dec = With(@, rec.ip, until)] : R \in Room}
    BY DEF quarantine, Room, T
  <2> QED
    BY <2>3, <2>4, <2>5, SMTT(60)
<1>AnswerForClean.
    ASSUME NEW S, Good(S), Clean(S), now \in Nat, NEW type \in Types, NEW k, NEW ia,
           NEW t \in Nat, t <= now, NEW by \in Workers
    PROVE  \A r \in AnswerFor(S, type, k, ia, t, by) :
             Clean(r.st)
  <2> USE <1>AnswerForClean
  <2>1. CASE type = "bind"
    BY <2>1, <1>RenewKnownClean, <1>AllocateLeaseClean DEF AnswerFor, bind
  <2>2. CASE type = "extend"
    BY <2>2, <1>RenewKnownClean, SMTT(60) DEF AnswerFor, extend
  <2>3. CASE type = "release"
    BY <2>3, <1>ReleaseClean, SMTT(60) DEF AnswerFor, releaseIANA
  <2>4. CASE type = "decline"
    BY <2>4, <1>QuarantineClean, SMTT(60) DEF AnswerFor, declineIANA
  <2> QED
    BY <2>1, <2>2, <2>3, <2>4 DEF Types
<1> QED
  BY <1>ReclaimClean, <1>AnswerForClean DEF Good

LEMMA AnswerForClean ==
  ASSUME NEW S, Good(S), Clean(S), now \in Nat, NEW type \in Types, NEW k, NEW ia,
         NEW t \in Nat, t <= now, NEW by \in Workers
  PROVE  \A r \in AnswerFor(S, type, k, ia, t, by) :
           Clean(r.st)
BY CleanSections

=============================================================================
