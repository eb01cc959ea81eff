------------------------- MODULE RangeSectionProofs -------------------------
(***************************************************************************)
(* What a section under the plugin lock of Range does to the state S it    *)
(* works on, for every pool size, set of clients and queue length.         *)
(*                                                                         *)
(* It goes through intermediate states in which the bitmap, the lease      *)
(* table and the quarantine do not agree. The steps of the proof show      *)
(* operator by operator that they do again at the end (Good), or that      *)
(* exactly one address is in hand (Taken). And a section has one form: it  *)
(* first takes some records out, each with its delete queued (Cleared),    *)
(* and then stores at most one record (Stored), whatever sweeps and        *)
(* evictions it goes through.                                              *)
(***************************************************************************)
EXTENDS Range, BaseProofs, FiniteSetTheorems, TLAPS

(* Zenon proves the leaves, but for those that name another prover. *)
USE ZenonT(30)

LockedOK(S) ==
  /\ DOMAIN S = {"rec", "alloc", "dec", "q", "pend"}
  /\ IsMap(S.rec, Macs, Record) /\ IsMap(S.dec, IPs, Nat)
  /\ S.alloc \in SUBSET IPs
  /\ S.q \in Seq(WriteSet) /\ Len(S.q) <= QueueLen
  /\ S.pend \in Seq(PendingSet)

Leased(S) == {S.rec[m].ip : m \in DOMAIN S.rec}

Apart(S) ==
  /\ \A m, n \in DOMAIN S.rec : S.rec[m].ip = S.rec[n].ip => m = n
  /\ \A m \in DOMAIN S.rec : S.rec[m].ip \notin DOMAIN S.dec

Good(S) == LockedOK(S) /\ S.alloc = Leased(S) \cup DOMAIN S.dec /\ Apart(S)

(* The bit of ip is set and nothing in the tables accounts for it yet. *)
Taken(S, ip) ==
  /\ LockedOK(S) /\ Apart(S)
  /\ ip \in IPs /\ ip \notin Leased(S) /\ ip \notin DOMAIN S.dec
  /\ S.alloc = Leased(S) \cup DOMAIN S.dec \cup {ip}

(* What an allocation returns: an address in hand, or none. *)
Allocated(a) ==
  IF a.ip = NoOffset THEN Good(a.st) ELSE Taken(a.st, a.ip)

(* What leaseFor returns. *)
Answer(r) ==
  Good(r.st) /\ (r.ip = NoOffset \/ r.ip \in IPs)

(* The lease table, the queue and the section's own writes are the same. *)
Logged(S, T) == T.rec = S.rec /\ T.q = S.q /\ T.pend = S.pend

(* T is S without the records of D, whose deletes `by` has queued. *)
Cleared(S, T, D, by) ==
  /\ D \subseteq DOMAIN S.rec
  /\ DOMAIN T.rec = DOMAIN S.rec \ D
  /\ \A n \in DOMAIN T.rec : T.rec[n] = S.rec[n]
  /\ Len(S.q) <= Len(T.q)
  /\ \A i \in 1 .. Len(S.q) : T.q[i] = S.q[i]
  /\ \A i \in Len(S.q) + 1 .. Len(T.q) :
       /\ T.q[i].op = "remove" /\ T.q[i].by = by
       /\ T.q[i].mac \in D /\ T.q[i].ip = S.rec[T.q[i].mac].ip
  /\ \A m \in D : \E i \in Len(S.q) + 1 .. Len(T.q) : T.q[i].mac = m
  /\ Len(T.pend) + Len(S.q) = Len(S.pend) + Len(T.q)
  /\ \A i \in 1 .. Len(S.pend) : T.pend[i] = S.pend[i]
  /\ \A i \in Len(S.pend) + 1 .. Len(T.pend) :
       T.pend[i].undo.kind = "none" /\ T.pend[i].result = "waiting"

(* Only records that had lapsed were taken out. *)
Lapse(S, T, t, by) == \E D \in SUBSET ExpiredMacs(S, t) : Cleared(S, T, D, by)

(* U is T with m's record stored, and the write queued with an undo. *)
Stored(T, U, m, rec, kind, by) ==
  /\ U.rec = With(T.rec, m, rec)
  /\ U.q = Append(T.q, Store(m, rec, by))
  /\ \E u \in UndoSet : /\ u.kind = kind /\ u.mac = m /\ u.gen = rec.gen
                        /\ U.pend = Append(T.pend, Pending(u))

(* Only addresses whose probation is over have left the quarantine, and no    *)
(* bit was set.                                                               *)
Eased(S, T, t) ==
  /\ T.alloc \subseteq S.alloc
  /\ DOMAIN T.dec \subseteq DOMAIN S.dec
  /\ \A ip \in DOMAIN T.dec : T.dec[ip] = S.dec[ip]
  /\ \A ip \in DOMAIN S.dec \ DOMAIN T.dec : S.dec[ip] <= t

(* Probations are kept, unless the pool had no address left. *)
Held(S, T, t) ==
  /\ DOMAIN T.dec \subseteq DOMAIN S.dec
  /\ \A ip \in DOMAIN S.dec \ DOMAIN T.dec : S.dec[ip] <= t \/ S.alloc = IPs

(* The four outcomes of leaseFor: the client is turned away, has lease enough *)
(* left, has its lease extended, or gets a new one, on the address it had.    *)
Refused(S, r, t, by) == r.ip = NoOffset /\ Lapse(S, r.st, t, by)

Enough(S, r, m, t) ==
  /\ Logged(S, r.st) /\ m \in DOMAIN S.rec /\ r.ip = S.rec[m].ip
  /\ S.rec[m].expires * TicksPerSec >= LeaseEnd(t)

Renewed(S, r, m, t, by) ==
  /\ m \in DOMAIN S.rec /\ r.ip = S.rec[m].ip
  /\ S.rec[m].expires * TicksPerSec < LeaseEnd(t)
  /\ Stored(S, r.st, m, [S.rec[m] EXCEPT !.expires = RoundUnix(LeaseEnd(t))], "renew", by)

Granted(S, r, m, t, by) ==
  \E T : /\ LockedOK(T) /\ Lapse(S, T, t, by) /\ BelowLimit(T)
         /\ m \notin DOMAIN T.rec /\ r.ip \in IPs
         /\ \A n \in DOMAIN T.rec : T.rec[n].ip # r.ip
         /\ m \in DOMAIN S.rec => r.ip = S.rec[m].ip
         /\ Stored(T, r.st, m, [gen |-> NewGen(m), ip |-> r.ip, expires |-> Unix(LeaseEnd(t))],
                   "drop", by)

(* The outcomes of freeLease and quarantine: m's record is taken out, or the  *)
(* full queue leaves everything as it was; a quarantine that had room may     *)
(* take the address in.                                                       *)
GivenUp(S, T, m, by) == Cleared(S, T, {m}, by) \/ Logged(S, T)

TookIn(S, T) ==
  /\ \E ip : DOMAIN T.dec = DOMAIN S.dec \cup {ip}
  /\ ~(Cardinality(DOMAIN S.dec) >= DeclineMax)

LEMMA RecordFields ==
  ASSUME NEW r \in Record
  PROVE  r.gen \in Gens /\ r.ip \in IPs /\ r.expires \in Nat
BY DEF Record

LEMMA StoreOK ==
  ASSUME NEW m \in Macs, NEW rec \in Record, NEW by \in Workers
  PROVE  Store(m, rec, by) \in WriteSet /\ Remove(m, rec, by) \in WriteSet
BY DEF Store, Remove, WriteSet, Record

LEMMA UndoOK ==
  ASSUME NEW m \in Macs, NEW g \in Gens, NEW was \in Nat, NEW ext \in Nat
  PROVE  /\ NoUndo(m) \in UndoSet /\ DropUndo(m, g) \in UndoSet
         /\ RenewUndo(m, g, was, ext) \in UndoSet
BY DEF NoUndo, DropUndo, RenewUndo, Undo, UndoSet

LEMMA RenewUndoOK ==
  ASSUME NEW S, LockedOK(S), NEW m \in DOMAIN S.rec, NEW t \in Nat
  PROVE  /\ m \in Macs /\ S.rec[m] \in Record
         /\ [S.rec[m] EXCEPT !.expires = RoundUnix(LeaseEnd(t))] \in Record
         /\ [S.rec[m] EXCEPT !.expires = RoundUnix(LeaseEnd(t))].ip = S.rec[m].ip
         /\ RenewUndo(m, S.rec[m].gen, S.rec[m].expires,
              [S.rec[m] EXCEPT !.expires = RoundUnix(LeaseEnd(t))].expires) \in UndoSet
<1>1. m \in Macs /\ S.rec[m] \in Record
  BY DEF LockedOK, IsMap
<1>2. LeaseEnd(t) \in Nat /\ TicksPerSec \in Nat \ {0}
  BY RangeAssumption, SMTT(60) DEF LeaseEnd, RangeAssumption
<1>3. RoundUnix(LeaseEnd(t)) \in Nat
  BY <1>2, SMTT(60) DEF RoundUnix
<1> HIDE DEF RoundUnix
<1>4. /\ [S.rec[m] EXCEPT !.expires = RoundUnix(LeaseEnd(t))] \in Record
      /\ [S.rec[m] EXCEPT !.expires = RoundUnix(LeaseEnd(t))].ip = S.rec[m].ip
      /\ [S.rec[m] EXCEPT !.expires = RoundUnix(LeaseEnd(t))].expires \in Nat
      /\ S.rec[m].gen \in Gens /\ S.rec[m].expires \in Nat
  BY <1>1, <1>3 DEF Record
<1> QED
  BY <1>1, <1>4, UndoOK

(* E is S with the write w queued and the undo u waiting for its result. *)
Queued(S, E, w, u) ==
  /\ E.rec = S.rec /\ E.alloc = S.alloc /\ E.dec = S.dec
  /\ E.q = Append(S.q, w) /\ E.pend = Append(S.pend, Pending(u))
  /\ DOMAIN E = {"rec", "alloc", "dec", "q", "pend"}

LEMMA EnqueueFields ==
  ASSUME NEW S, LockedOK(S), NEW w, NEW u, NEW E, E = Enqueue(S, w, u)
  PROVE  Queued(S, E, w, u)
BY DEF LockedOK, Enqueue, Queued

LEMMA EnqueueOK ==
  ASSUME NEW S, LockedOK(S), CanEnqueue(S), NEW w \in WriteSet, NEW u \in UndoSet,
         NEW E, E = Enqueue(S, w, u)
  PROVE  LockedOK(E) /\ E.rec = S.rec /\ E.alloc = S.alloc /\ E.dec = S.dec
<1>1. /\ E.rec = S.rec /\ E.alloc = S.alloc /\ E.dec = S.dec
      /\ E.q = Append(S.q, w) /\ E.pend = Append(S.pend, Pending(u))
      /\ DOMAIN E = {"rec", "alloc", "dec", "q", "pend"}
  BY EnqueueFields, SMTT(60) DEF Queued
<1>2. Pending(u) \in PendingSet
  BY DEF Pending, PendingSet
<1>3. /\ Append(S.q, w) \in Seq(WriteSet) /\ Len(Append(S.q, w)) = Len(S.q) + 1
      /\ Append(S.pend, Pending(u)) \in Seq(PendingSet)
  BY <1>2, SeqAppend, SMTT(60) DEF LockedOK
<1>4. Len(S.q) + 1 <= QueueLen
  BY RangeAssumption, SeqLen, SMTT(60) DEF CanEnqueue, LockedOK, RangeAssumption
<1>5. LockedOK(E)
  BY <1>1, <1>3, <1>4 DEF LockedOK
<1> QED
  BY <1>1, <1>5

LEMMA LockedLens ==
  ASSUME NEW S, LockedOK(S)
  PROVE  Len(S.q) \in Nat /\ Len(S.pend) \in Nat
BY SeqLen DEF LockedOK

LEMMA ClearedNone ==
  ASSUME NEW S, LockedOK(S), NEW T, Logged(S, T), NEW by
  PROVE  Cleared(S, T, {}, by)
<1>1. Len(S.q) \in Nat /\ Len(S.pend) \in Nat
  BY LockedLens
<1> QED
  BY <1>1, SMTT(60) DEF Cleared, Logged

LEMMA LapseNone ==
  ASSUME NEW S, LockedOK(S), NEW T, Logged(S, T), NEW t, NEW by
  PROVE  Lapse(S, T, t, by)
BY ClearedNone DEF Lapse

-----------------------------------------------------------------------------
(* leaseFor, freeLease, quarantine, reclaim and the undo of a failed write    *)
(* start from tables that agree and leave tables that agree; and the first    *)
(* four have one of the outcomes above.                                       *)
LEMMA Sections ==
  /\ \A S : \A m \in Macs, t \in Nat, by \in Workers : Good(S) /\ NewGen(m) \in Gens =>
       \A r \in LeaseFor(S, m, t, by) :
         /\ Answer(r) /\ Held(S, r.st, t)
         /\ \/ Refused(S, r, t, by) \/ Enough(S, r, m, t)
            \/ Renewed(S, r, m, t, by) \/ Granted(S, r, m, t, by)
  /\ \A S : \A m \in DOMAIN S.rec, by \in Workers : Good(S) =>
       LET T == FreeLease(S, m, by) IN Good(T) /\ GivenUp(S, T, m, by) /\ T.dec = S.dec
  /\ \A S : \A m \in DOMAIN S.rec, t \in Nat, by \in Workers : Good(S) =>
       LET T == Quarantine(S, m, t, by)
       IN  Good(T) /\ GivenUp(S, T, m, by) /\ (T.dec = S.dec \/ TookIn(S, T))
  /\ \A S, t : \A by \in Workers : Good(S) =>
       \A T \in Reclaim(S, t, by) : Good(T) /\ Lapse(S, T, t, by) /\ Eased(S, T, t)
  /\ \A S : \A u \in UndoSet : Good(S) => Good(Apply(S, u))
(* Taking a lease apart. *)
(* Without the records of D, exactly their addresses are no longer leased. *)
<1>LeasedMinus.
    ASSUME NEW S, NEW R, NEW D \in SUBSET DOMAIN S.rec, Apart(S),
           DOMAIN R.rec = DOMAIN S.rec \ D,
           \A n \in DOMAIN R.rec : R.rec[n] = S.rec[n]
    PROVE  \A x : x \in Leased(R) <=> x \in Leased(S) /\ \A m \in D : S.rec[m].ip # x
  <2> USE <1>LeasedMinus
  <2>1. ASSUME NEW x \in Leased(R)
        PROVE  x \in Leased(S) /\ \A m \in D : S.rec[m].ip # x
    <3>1. PICK n \in DOMAIN R.rec : x = R.rec[n].ip
      BY <2>1 DEF Leased
    <3>2. n \in DOMAIN S.rec /\ n \notin D /\ x = S.rec[n].ip
      BY <3>1
    <3> QED
      BY <3>2 DEF Leased, Apart
  <2>2. ASSUME NEW x \in Leased(S), \A m \in D : S.rec[m].ip # x
        PROVE  x \in Leased(R)
    <3>1. PICK n \in DOMAIN S.rec : x = S.rec[n].ip
      BY <2>2 DEF Leased
    <3>2. n \in DOMAIN R.rec /\ x = R.rec[n].ip
      BY <2>2, <3>1
    <3> QED
      BY <3>2 DEF Leased
  <2> QED
    BY <2>1, <2>2
(* Dropping one client's record frees exactly its address. *)
<1>ReleaseGood.
    ASSUME NEW S, Good(S), CanEnqueue(S), NEW m \in DOMAIN S.rec, NEW by \in Workers
    PROVE  Good(ReleaseLease(S, m, by))
  <2> USE <1>ReleaseGood
  <2> DEFINE rec == S.rec[m]
             T == Enqueue(S, Remove(m, rec, by), NoUndo(m))
             R == ReleaseLease(S, m, by)
  <2>1. m \in Macs /\ rec \in Record /\ LockedOK(S)
    BY DEF Good, LockedOK, IsMap
  <2>2. LockedOK(T) /\ T.rec = S.rec /\ T.alloc = S.alloc /\ T.dec = S.dec
    <3>1. Remove(m, rec, by) \in WriteSet
      BY <2>1, StoreOK
    <3>2. NoUndo(m) \in UndoSet
      BY <2>1 DEF NoUndo, Undo, UndoSet
    <3>3. T = Enqueue(S, Remove(m, rec, by), NoUndo(m))
      OBVIOUS
    <3> HIDE DEF T, rec
    <3> QED
      BY <2>1, <3>1, <3>2, <3>3, EnqueueOK, SMTT(60)
  <2>3. /\ R.rec = Without(S.rec, {m}) /\ R.alloc = S.alloc \ {rec.ip}
        /\ R.dec = S.dec /\ R.q = T.q /\ R.pend = T.pend /\ DOMAIN R = DOMAIN T
    BY <2>2 DEF ReleaseLease, FreeBit, LockedOK
  <2> SUFFICES Good(R)
    OBVIOUS
  <2> HIDE DEF R, T
  <2>4. /\ IsMap(R.rec, Macs, Record) /\ DOMAIN R.rec = DOMAIN S.rec \ {m}
        /\ \A n \in DOMAIN R.rec : R.rec[n] = S.rec[n]
    <3>1. IsMap(S.rec, Macs, Record)
      BY <2>1 DEF LockedOK
    <3>2. /\ IsMap(Without(S.rec, {m}), Macs, Record)
          /\ DOMAIN Without(S.rec, {m}) = DOMAIN S.rec \ {m}
          /\ \A n \in DOMAIN S.rec \ {m} : Without(S.rec, {m})[n] = S.rec[n]
      BY <3>1 DEF IsMap, Without
    <3> QED
      BY <2>3, <3>2
  <2>5. LockedOK(R)
    BY <2>2, <2>3, <2>4 DEF LockedOK
  <2>6. Apart(R)
    BY <2>3, <2>4 DEF Good, Apart
  <2>7. R.alloc = Leased(R) \cup DOMAIN R.dec
    <3>. DEFINE D == {m}
    <3>0. D \in SUBSET DOMAIN S.rec /\ DOMAIN R.rec = DOMAIN S.rec \ D
      BY <2>4
    <3>. HIDE DEF D
    <3>1. \A x : x \in Leased(R) <=> x \in Leased(S) /\ \A n \in D : S.rec[n].ip # x
      <4>1. Apart(S) /\ \A n \in DOMAIN R.rec : R.rec[n] = S.rec[n]
        BY <2>4 DEF Good
      <4> QED
        BY <3>0, <4>1, <1>LeasedMinus, SMTT(60)
    <3>2. rec.ip \notin DOMAIN S.dec
      BY DEF Good, Apart
    <3> QED
      BY <2>3, <3>1, <3>2 DEF Good, D
  <2> QED
    BY <2>5, <2>6, <2>7 DEF Good
(* A sweep meets distinct expired leases, no more than the queue has room for. *)
<1>SweepOrderOK.
    ASSUME NEW S, LockedOK(S), NEW t, NEW s \in SweepOrders(S, t)
    PROVE  \E n \in Nat : /\ s \in [1 .. n -> DOMAIN S.rec]
                          /\ Len(S.q) + n <= QueueLen
  <2> USE <1>SweepOrderOK
  <2> DEFINE E == ExpiredMacs(S, t)
             room == QueueLen - Len(S.q)
             n == IF Cardinality(E) <= room THEN Cardinality(E) ELSE room
  <2>1. IsFiniteSet(E) /\ E \subseteq DOMAIN S.rec
    <3>1. E \subseteq DOMAIN S.rec /\ E \subseteq Macs
      BY DEF LockedOK, ExpiredMacs, IsMap
    <3> QED
      BY <3>1, RangeAssumption, FS_Subset DEF RangeAssumption
  <2>2. Cardinality(E) \in Nat
    BY <2>1, FS_CardinalityType
  <2>3. room \in Nat
    BY RangeAssumption, SeqLen, SMTT(60) DEF LockedOK, RangeAssumption
  <2>4. s \in [1 .. n -> E]
    BY DEF SweepOrders
  <2>5. n \in Nat /\ n <= room
    BY <2>2, <2>3, SMTT(60)
  <2>6. Len(S.q) \in Nat /\ QueueLen \in Nat
    BY RangeAssumption, SeqLen DEF LockedOK, RangeAssumption
  <2>7. Len(S.q) + n <= QueueLen
    <3> HIDE DEF n
    <3> QED
      BY <2>5, <2>6, SMTT(60)
  <2>8. s \in [1 .. n -> DOMAIN S.rec]
    <3> HIDE DEF n, E
    <3> QED
      BY <2>1, <2>4
  <2> HIDE DEF n
  <2> QED
    BY <2>5, <2>7, <2>8
<1>SweepExpiredGood.
    ASSUME NEW S, Good(S), NEW t, NEW s \in SweepOrders(S, t), NEW by \in Workers
    PROVE  Good(SweepExpired(S, s, by))
  <2> USE <1>SweepExpiredGood
  <2> DEFINE R == SweepExpired(S, s, by)
             D == Elements(s)
             Q == [i \in DOMAIN s |-> Remove(s[i], S.rec[s[i]], by)]
             P == [i \in DOMAIN s |-> Pending(NoUndo(s[i]))]
  <2> SUFFICES Good(R)
    OBVIOUS
  <2>0. LockedOK(S) /\ Apart(S)
    BY DEF Good
  <2>1. PICK n \in Nat : s \in [1 .. n -> DOMAIN S.rec] /\ Len(S.q) + n <= QueueLen
    BY <2>0, <1>SweepOrderOK
  <2>2. \A i \in 1 .. n : s[i] \in DOMAIN S.rec /\ s[i] \in Macs /\ S.rec[s[i]] \in Record
    BY <2>0, <2>1 DEF LockedOK, IsMap
  <2>3. Q \in [1 .. n -> WriteSet]
    BY <2>1, <2>2, StoreOK
  <2>4. P \in [1 .. n -> PendingSet]
    BY <2>1, <2>2 DEF Pending, PendingSet, NoUndo, Undo, UndoSet
  <2>5. /\ R.rec = Without(S.rec, D)
        /\ R.alloc = S.alloc \ {S.rec[m].ip : m \in D}
        /\ R.dec = S.dec /\ R.q = S.q \o Q /\ R.pend = S.pend \o P
        /\ DOMAIN R = DOMAIN S
    BY <2>0 DEF SweepExpired, LockedOK
  <2>6. D \in SUBSET DOMAIN S.rec
    BY <2>1 DEF Elements
  <2> HIDE DEF R, D, Q, P
  <2>7. /\ IsMap(R.rec, Macs, Record) /\ DOMAIN R.rec = DOMAIN S.rec \ D
        /\ \A m \in DOMAIN R.rec : R.rec[m] = S.rec[m]
    <3>1. IsMap(S.rec, Macs, Record)
      BY <2>0 DEF LockedOK
    <3>2. /\ IsMap(Without(S.rec, D), Macs, Record)
          /\ DOMAIN Without(S.rec, D) = DOMAIN S.rec \ D
          /\ \A m \in DOMAIN S.rec \ D : Without(S.rec, D)[m] = S.rec[m]
      BY <3>1 DEF IsMap, Without
    <3> QED
      BY <2>5, <3>2
  <2>8. R.q \in Seq(WriteSet) /\ Len(R.q) <= QueueLen
    <3>1. Q \in Seq(WriteSet) /\ Len(Q) = n
      BY <2>3, SeqLen, SMTT(60)
    <3>2. S.q \in Seq(WriteSet) /\ Len(S.q) \in Nat
      BY <2>0, SeqLen DEF LockedOK
    <3>3. S.q \o Q \in Seq(WriteSet) /\ Len(S.q \o Q) = Len(S.q) + Len(Q)
      BY <3>1, <3>2, SeqConcat
    <3> QED
      BY <2>1, <2>5, <3>1, <3>2, <3>3
  <2>9. R.pend \in Seq(PendingSet)
    <3>1. P \in Seq(PendingSet) /\ S.pend \in Seq(PendingSet)
      BY <2>0, <2>4, SMTT(60) DEF LockedOK
    <3> QED
      BY <2>5, <3>1, SeqConcat, SMTT(60)
  <2>10. LockedOK(R)
    <3>1. R.alloc \in SUBSET IPs
      BY <2>0, <2>5 DEF LockedOK
    <3> QED
      BY <2>0, <2>5, <2>7, <2>8, <2>9, <3>1 DEF LockedOK
  <2>11. Apart(R)
    BY <2>0, <2>5, <2>7 DEF Apart
  <2>12. R.alloc = Leased(R) \cup DOMAIN R.dec
    <3>1. \A x : x \in Leased(R) <=> x \in Leased(S) /\ \A m \in D : S.rec[m].ip # x
      BY <2>0, <2>6, <2>7, <1>LeasedMinus, SMTT(60)
    <3>2. \A m \in D : S.rec[m].ip \notin DOMAIN S.dec
      BY <2>0, <2>6 DEF Apart
    <3>3. S.alloc = Leased(S) \cup DOMAIN S.dec
      BY DEF Good
    <3> QED
      BY <2>5, <3>1, <3>2, <3>3, SMTT(30)
  <2> QED
    BY <2>10, <2>11, <2>12 DEF Good
<1>SweepDeclinedGood.
    ASSUME NEW S, Good(S), NEW t
    PROVE  Good(SweepDeclined(S, t))
  <2> USE <1>SweepDeclinedGood
  <2> DEFINE R == SweepDeclined(S, t)
             due == {ip \in DOMAIN S.dec : S.dec[ip] <= t} \cap S.alloc
  <2> SUFFICES Good(R)
    OBVIOUS
  <2>1. LockedOK(S) /\ Apart(S) /\ S.alloc = Leased(S) \cup DOMAIN S.dec
    BY DEF Good
  <2>2. /\ R.rec = S.rec /\ R.q = S.q /\ R.pend = S.pend /\ DOMAIN R = DOMAIN S
        /\ R.dec = Without(S.dec, due) /\ R.alloc = S.alloc \ due
    BY <2>1 DEF SweepDeclined, LockedOK
  <2>3. due \subseteq DOMAIN S.dec
    OBVIOUS
  <2> HIDE DEF R, due
  <2>4. IsMap(R.dec, IPs, Nat) /\ DOMAIN R.dec = DOMAIN S.dec \ due
    <3>1. IsMap(S.dec, IPs, Nat)
      BY <2>1 DEF LockedOK
    <3>2. /\ IsMap(Without(S.dec, due), IPs, Nat)
          /\ DOMAIN Without(S.dec, due) = DOMAIN S.dec \ due
      BY <3>1 DEF IsMap, Without
    <3> QED
      BY <2>2, <3>2
  <2>5. Leased(R) = Leased(S) /\ \A x \in Leased(S) : x \notin DOMAIN S.dec
    BY <2>1, <2>2, SMTT(60) DEF Leased, Apart
  <2>6. LockedOK(R)
    BY <2>1, <2>2, <2>4 DEF LockedOK
  <2>7. Apart(R)
    BY <2>1, <2>2, <2>4 DEF Apart
  <2>8. R.alloc = Leased(R) \cup DOMAIN R.dec
    BY <2>1, <2>2, <2>3, <2>4, <2>5
  <2> QED
    BY <2>6, <2>7, <2>8 DEF Good
<1>ReclaimGood.
    ASSUME NEW S, Good(S), NEW t, NEW by \in Workers
    PROVE  \A T \in Reclaim(S, t, by) : Good(T) /\ DOMAIN T.rec \subseteq DOMAIN S.rec
  <2> USE <1>ReclaimGood
  <2>1. SUFFICES ASSUME NEW s \in SweepOrders(S, t)
                 PROVE  LET T == SweepDeclined(SweepExpired(S, s, by), t)
                        IN  Good(T) /\ DOMAIN T.rec \subseteq DOMAIN S.rec
    BY DEF Reclaim
  <2> DEFINE R == SweepExpired(S, s, by)
  <2>2. Good(R) /\ Good(SweepDeclined(R, t))
    BY <1>SweepExpiredGood, <1>SweepDeclinedGood
  <2>3. R.rec = Without(S.rec, Elements(s))
    BY DEF SweepExpired, Good, LockedOK
  <2>4. SweepDeclined(R, t).rec = R.rec
    <3> HIDE DEF R
    <3> QED
      BY <2>2 DEF SweepDeclined, Good, LockedOK
  <2> QED
    BY <2>2, <2>3, <2>4 DEF Without
(* Taking an address. *)
<1>TakeBitTaken.
    ASSUME NEW S, Good(S), HasClear(S.alloc, PoolSize), NEW hint \in IPs \cup {NoOffset}
    PROVE  /\ Taken(TakeBit(S, hint).st, TakeBit(S, hint).ip)
           /\ TakeBit(S, hint).ip # NoOffset
           /\ TakeBit(S, hint).st.rec = S.rec
  <2> USE <1>TakeBitTaken
  <2> DEFINE ip == PickOffset(hint, S.alloc, PoolSize)
             R == [S EXCEPT !.alloc = @ \cup {ip}]
  <2>1. ip \in IPs /\ ip \notin S.alloc
    BY PickOffsetClear, RangeAssumption DEF IPs, RangeAssumption
  <2>2. TakeBit(S, hint).st = R /\ TakeBit(S, hint).ip = ip
    BY DEF TakeBit
  <2> HIDE DEF ip
  <2>3. /\ R.rec = S.rec /\ R.dec = S.dec /\ R.q = S.q /\ R.pend = S.pend
        /\ DOMAIN R = DOMAIN S /\ R.alloc = S.alloc \cup {ip}
    BY DEF Good, LockedOK
  <2> HIDE DEF R
  <2>4. LockedOK(R) /\ Apart(R) /\ Leased(R) = Leased(S)
    BY <2>1, <2>3, SMTT(30) DEF Good, LockedOK, Apart, Leased
  <2>5. S.alloc = Leased(S) \cup DOMAIN S.dec
    BY DEF Good
  <2>6. Taken(R, ip)
    BY <2>1, <2>3, <2>4, <2>5 DEF Taken
  <2>7. ip # NoOffset
    BY <2>1, RangeAssumption, SMTT(60) DEF IPs, NoOffset, RangeAssumption
  <2> QED
    BY <2>2, <2>3, <2>6, <2>7
<1>EvictGood.
    ASSUME NEW S, Good(S), NEW ip \in DOMAIN S.dec
    PROVE  /\ Good(EvictDeclined(S, ip)) /\ EvictDeclined(S, ip).rec = S.rec
           /\ HasClear(EvictDeclined(S, ip).alloc, PoolSize)
  <2> USE <1>EvictGood
  <2> DEFINE R == EvictDeclined(S, ip)
  <2> SUFFICES Good(R) /\ R.rec = S.rec /\ HasClear(R.alloc, PoolSize)
    OBVIOUS
  <2>1. LockedOK(S) /\ Apart(S) /\ S.alloc = Leased(S) \cup DOMAIN S.dec
    BY DEF Good
  <2>2. /\ R.rec = S.rec /\ R.q = S.q /\ R.pend = S.pend /\ DOMAIN R = DOMAIN S
        /\ R.dec = Without(S.dec, {ip}) /\ R.alloc = S.alloc \ {ip}
    BY <2>1 DEF EvictDeclined, FreeBit, LockedOK
  <2> HIDE DEF R
  <2>3. IsMap(R.dec, IPs, Nat) /\ DOMAIN R.dec = DOMAIN S.dec \ {ip}
    <3>1. IsMap(S.dec, IPs, Nat)
      BY <2>1 DEF LockedOK
    <3> DEFINE D == {ip}
    <3>2. R.dec = Without(S.dec, D)
      BY <2>2
    <3> HIDE DEF D
    <3>3. IsMap(Without(S.dec, D), IPs, Nat) /\ DOMAIN Without(S.dec, D) = DOMAIN S.dec \ D
      BY <3>1 DEF IsMap, Without
    <3> QED
      BY <3>2, <3>3 DEF D
  <2>4. Leased(R) = Leased(S) /\ \A x \in Leased(S) : x \notin DOMAIN S.dec
    BY <2>1, <2>2, SMTT(30) DEF Leased, Apart
  <2>5. LockedOK(R)
    BY <2>1, <2>2, <2>3 DEF LockedOK
  <2>6. Apart(R)
    BY <2>1, <2>2, <2>3 DEF Apart
  <2>7. R.alloc = Leased(R) \cup DOMAIN R.dec
    BY <2>1, <2>2, <2>3, <2>4
  <2>8. HasClear(R.alloc, PoolSize)
    BY <2>1, <2>2 DEF HasClear, LockedOK, IsMap, IPs
  <2> QED
    BY <2>2, <2>5, <2>6, <2>7, <2>8 DEF Good
(* allocate returns an address that is now in hand, or nothing. *)
<1>AllocateOK.
    ASSUME NEW S, Good(S), NEW hint \in IPs \cup {NoOffset}, NEW t, NEW by \in Workers
    PROVE  \A a \in Allocate(S, hint, t, by) :
             Allocated(a) /\ DOMAIN a.st.rec \subseteq DOMAIN S.rec
  <2> USE <1>AllocateOK
  <2>1. CASE HasClear(S.alloc, PoolSize)
    <3>1. Allocate(S, hint, t, by) = {TakeBit(S, hint)}
      BY <2>1 DEF Allocate
    <3> QED
      BY <2>1, <3>1, <1>TakeBitTaken DEF Allocated
  <2>2. CASE ~HasClear(S.alloc, PoolSize)
    <3> SUFFICES ASSUME NEW a \in Allocate(S, hint, t, by)
                 PROVE  Allocated(a) /\ DOMAIN a.st.rec \subseteq DOMAIN S.rec
      OBVIOUS
    <3>1. PICK T \in Reclaim(S, t, by) :
            a \in IF HasClear(T.alloc, PoolSize) THEN {TakeBit(T, hint)}
                  ELSE IF OldestDeclined(T) \cap T.alloc = {}
                  THEN {[st |-> T, ip |-> NoOffset]}
                  ELSE {TakeBit(EvictDeclined(T, ip), hint) :
                          ip \in OldestDeclined(T) \cap T.alloc}
      BY <2>2 DEF Allocate
    <3>2. Good(T) /\ DOMAIN T.rec \subseteq DOMAIN S.rec
      BY <1>ReclaimGood
    <3>3. CASE HasClear(T.alloc, PoolSize)
      <4>1. a = TakeBit(T, hint)
        BY <3>1, <3>3
      <4> QED
        BY <3>2, <3>3, <4>1, <1>TakeBitTaken DEF Allocated
    <3>4. CASE a = [st |-> T, ip |-> NoOffset]
      BY <3>2, <3>4 DEF Allocated
    <3>5. CASE \E ip \in OldestDeclined(T) : a = TakeBit(EvictDeclined(T, ip), hint)
      <4>1. PICK ip \in DOMAIN T.dec : a = TakeBit(EvictDeclined(T, ip), hint)
        BY <3>5 DEF OldestDeclined
      <4> DEFINE E == EvictDeclined(T, ip)
      <4>2. Good(E) /\ E.rec = T.rec /\ HasClear(E.alloc, PoolSize)
        BY <3>2, <1>EvictGood
      <4> HIDE DEF E
      <4>3. Taken(TakeBit(E, hint).st, TakeBit(E, hint).ip) /\ TakeBit(E, hint).ip # NoOffset
            /\ TakeBit(E, hint).st.rec = E.rec
        BY <4>2, <1>TakeBitTaken
      <4>4. a = TakeBit(E, hint)
        BY <4>1 DEF E
      <4> QED
        BY <3>2, <4>2, <4>3, <4>4 DEF Allocated
    <3> QED
      BY <3>1, <3>3, <3>4, <3>5
  <2> QED
    BY <2>1, <2>2
(* Replacing a client's record by one on the same address changes nothing     *)
(* the bitmap is about.                                                       *)
<1>SameAddressGood.
    ASSUME NEW S, Good(S), NEW T, LockedOK(T), NEW m \in DOMAIN S.rec, NEW r \in Record,
           r.ip = S.rec[m].ip,
           T.rec = With(S.rec, m, r), T.alloc = S.alloc, T.dec = S.dec
    PROVE  Good(T)
  <2> USE <1>SameAddressGood
  <2>1. LockedOK(S) /\ Apart(S) /\ S.alloc = Leased(S) \cup DOMAIN S.dec /\ m \in Macs
    BY DEF Good, LockedOK, IsMap
  <2>2. DOMAIN T.rec = DOMAIN S.rec /\ \A n \in DOMAIN S.rec : T.rec[n].ip = S.rec[n].ip
    BY DEF With
  <2>3. Apart(T)
    BY <2>1, <2>2 DEF Apart
  <2>4. Leased(T) = Leased(S)
    BY <2>2 DEF Leased
  <2> QED
    BY <2>1, <2>3, <2>4 DEF Good
<1>RenewOK.
    ASSUME NEW S, Good(S), NEW m \in DOMAIN S.rec, NEW t \in Nat, NEW by \in Workers
    PROVE  Answer(Renew(S, m, t, by))
  <2> USE <1>RenewOK
  <2> DEFINE rec == S.rec[m]
             new == [rec EXCEPT !.expires = RoundUnix(LeaseEnd(t))]
             undo == RenewUndo(m, rec.gen, rec.expires, new.expires)
             T == Enqueue(S, Store(m, new, by), undo)
             R == [T EXCEPT !.rec = With(@, m, new)]
  <2>1. LockedOK(S) /\ m \in Macs /\ rec \in Record /\ new \in Record
        /\ new.ip = rec.ip /\ undo \in UndoSet
    BY RenewUndoOK DEF Good
  <2>2. rec.ip \in IPs
    BY <2>1 DEF Record
  <2>3. \/ Renew(S, m, t, by) = [st |-> S, ip |-> rec.ip]
        \/ Renew(S, m, t, by) = [st |-> S, ip |-> NoOffset]
        \/ CanEnqueue(S) /\ Renew(S, m, t, by) = [st |-> R, ip |-> rec.ip]
    BY DEF Renew
  <2> HIDE DEF rec, new, undo
  <2>4. ASSUME CanEnqueue(S) PROVE Good(R)
    <3>1. Store(m, new, by) \in WriteSet
      BY <2>1, StoreOK
    <3>0. T = Enqueue(S, Store(m, new, by), undo)
      OBVIOUS
    <3> HIDE DEF T
    <3>2. LockedOK(T) /\ T.rec = S.rec /\ T.alloc = S.alloc /\ T.dec = S.dec
      BY <2>1, <2>4, <3>0, <3>1, EnqueueOK, SMTT(60)
    <3>3. /\ R.rec = With(S.rec, m, new) /\ R.alloc = S.alloc /\ R.dec = S.dec
          /\ R.q = T.q /\ R.pend = T.pend /\ DOMAIN R = DOMAIN T
      BY <3>2 DEF LockedOK
    <3> HIDE DEF R
    <3>4. IsMap(With(S.rec, m, new), Macs, Record)
      BY <2>1 DEF LockedOK, IsMap, With
    <3>5. LockedOK(R)
      BY <3>2, <3>3, <3>4 DEF LockedOK
    <3> QED
      BY <2>1, <3>3, <3>5, <1>SameAddressGood DEF rec
  <2> HIDE DEF R
  <2> QED
    BY <2>2, <2>3, <2>4, SMTT(30) DEF Answer
(* The address in hand goes into the lease table, or back to the pool. *)
<1>RecordLeaseOK.
    ASSUME NEW S, NEW ip, Allocated([st |-> S, ip |-> ip]),
           NEW m \in Macs, m \notin DOMAIN S.rec, NewGen(m) \in Gens,
           NEW t \in Nat, NEW by \in Workers
    PROVE  Answer(RecordLease(S, m, ip, t, by))
  <2> USE <1>RecordLeaseOK
  <2>1. CASE ip = NoOffset
    <3>1. RecordLease(S, m, ip, t, by) = [st |-> S, ip |-> NoOffset]
      BY <2>1 DEF RecordLease
    <3> QED
      BY <2>1, <3>1 DEF Allocated, Answer
  <2>2. CASE ip # NoOffset
    <3>1. Taken(S, ip)
      BY <2>2 DEF Allocated
    <3>2. /\ LockedOK(S) /\ Apart(S)
          /\ ip \in IPs /\ ip \notin Leased(S) /\ ip \notin DOMAIN S.dec
          /\ S.alloc = Leased(S) \cup DOMAIN S.dec \cup {ip}
      BY <3>1 DEF Taken
    <3>3. CASE ~CanEnqueue(S)
      <4> DEFINE R == FreeBit(S, ip)
      <4>1. RecordLease(S, m, ip, t, by) = [st |-> R, ip |-> NoOffset]
        BY <2>2, <3>3 DEF RecordLease
      <4>2. /\ R.rec = S.rec /\ R.dec = S.dec /\ R.q = S.q /\ R.pend = S.pend
            /\ DOMAIN R = DOMAIN S /\ R.alloc = S.alloc \ {ip}
        BY <3>2 DEF FreeBit, LockedOK
      <4> HIDE DEF R
      <4>3. LockedOK(R) /\ Apart(R) /\ Leased(R) = Leased(S)
        BY <3>2, <4>2, SMTT(30) DEF LockedOK, Apart, Leased
      <4>4. Good(R)
        BY <3>2, <4>2, <4>3 DEF Good
      <4> QED
        BY <4>1, <4>4, SMTT(60) DEF Answer
    <3>4. CASE CanEnqueue(S)
      <4> DEFINE rec == [gen |-> NewGen(m), ip |-> ip, expires |-> Unix(LeaseEnd(t))]
                 T == Enqueue(S, Store(m, rec, by), DropUndo(m, rec.gen))
                 R == [T EXCEPT !.rec = With(@, m, rec)]
      <4>1. RecordLease(S, m, ip, t, by) = [st |-> R, ip |-> ip]
        BY <2>2, <3>4 DEF RecordLease
      <4>2. Unix(LeaseEnd(t)) \in Nat
        BY RangeAssumption, SMTT(60) DEF Unix, LeaseEnd, RangeAssumption
      <4>3. rec \in Record /\ rec.gen \in Gens /\ rec.ip = ip
        BY <3>2, <4>2 DEF Record
      <4> HIDE DEF rec
      <4>4. Store(m, rec, by) \in WriteSet /\ DropUndo(m, rec.gen) \in UndoSet
        <5>1. 0 \in Nat
          OBVIOUS
        <5> QED
          BY <4>3, <5>1, StoreOK, UndoOK
      <4>0. T = Enqueue(S, Store(m, rec, by), DropUndo(m, rec.gen))
        OBVIOUS
      <4> HIDE DEF T
      <4>5. LockedOK(T) /\ T.rec = S.rec /\ T.alloc = S.alloc /\ T.dec = S.dec
        BY <3>2, <3>4, <4>0, <4>4, EnqueueOK, SMTT(60)
      <4>6. /\ R.rec = With(S.rec, m, rec) /\ R.alloc = S.alloc /\ R.dec = S.dec
            /\ R.q = T.q /\ R.pend = T.pend /\ DOMAIN R = DOMAIN T
        BY <4>5 DEF LockedOK
      <4> HIDE DEF R
      <4>7. IsMap(S.rec, Macs, Record)
        BY <3>2 DEF LockedOK
      <4>8. /\ IsMap(R.rec, Macs, Record) /\ DOMAIN R.rec = DOMAIN S.rec \cup {m}
            /\ R.rec[m] = rec /\ \A n \in DOMAIN S.rec : R.rec[n] = S.rec[n]
        <5>1. /\ IsMap(With(S.rec, m, rec), Macs, Record)
              /\ DOMAIN With(S.rec, m, rec) = DOMAIN S.rec \cup {m}
              /\ With(S.rec, m, rec)[m] = rec
              /\ \A n \in DOMAIN S.rec : n # m => With(S.rec, m, rec)[n] = S.rec[n]
          BY <4>3, <4>7, SMTT(30) DEF IsMap, With
        <5> QED
          BY <4>6, <5>1
      <4>9. LockedOK(R)
        BY <4>5, <4>6, <4>8 DEF LockedOK
      <4>10. \A n \in DOMAIN S.rec : S.rec[n].ip # ip
        BY <3>2 DEF Leased
      <4>11. Apart(R)
        BY <3>2, <4>3, <4>6, <4>8, <4>10, SMTT(30) DEF Apart
      <4>12. Leased(R) = Leased(S) \cup {ip}
        BY <4>3, <4>8, SMTT(30) DEF Leased
      <4>13. Good(R)
        BY <3>2, <4>6, <4>9, <4>11, <4>12 DEF Good
      <4> QED
        BY <3>2, <4>1, <4>13, SMTT(30) DEF Answer
    <3> QED
      BY <3>3, <3>4
  <2> QED
    BY <2>1, <2>2
<1>AllocateLeaseOK.
    ASSUME NEW S, Good(S), NEW m \in Macs, m \notin DOMAIN S.rec, NewGen(m) \in Gens,
           NEW hint \in IPs \cup {NoOffset}, NEW t \in Nat, NEW by \in Workers
    PROVE  \A r \in AllocateLease(S, m, hint, t, by) : Answer(r)
  <2> USE <1>AllocateLeaseOK
  <2> SUFFICES ASSUME NEW r \in AllocateLease(S, m, hint, t, by)
               PROVE  Answer(r)
    OBVIOUS
  <2>1. PICK T \in LimitSweep(S, t, by) :
          r \in IF ~BelowLimit(T) THEN {[st |-> T, ip |-> NoOffset]}
                ELSE {RecordLease(a.st, m, a.ip, t, by) : a \in Allocate(T, hint, t, by)}
    BY DEF AllocateLease
  <2>2. Good(T) /\ m \notin DOMAIN T.rec
    BY <1>ReclaimGood DEF LimitSweep
  <2>3. CASE r = [st |-> T, ip |-> NoOffset]
    BY <2>2, <2>3 DEF Answer
  <2>4. CASE \E a \in Allocate(T, hint, t, by) : r = RecordLease(a.st, m, a.ip, t, by)
    <3>1. PICK a \in Allocate(T, hint, t, by) : r = RecordLease(a.st, m, a.ip, t, by)
      BY <2>4
    <3>2. Allocated(a) /\ m \notin DOMAIN a.st.rec
      BY <2>2, <1>AllocateOK
    <3>3. Allocated([st |-> a.st, ip |-> a.ip])
      BY <3>2 DEF Allocated
    <3> QED
      BY <3>1, <3>2, <3>3, <1>RecordLeaseOK
  <2> QED
    BY <2>1, <2>3, <2>4
<1>LeaseForOK.
    ASSUME NEW S, Good(S), NEW m \in Macs, NewGen(m) \in Gens, NEW t \in Nat, NEW by \in Workers
    PROVE  \A r \in LeaseFor(S, m, t, by) : Answer(r)
  <2> USE <1>LeaseForOK
  <2>1. CASE m \notin DOMAIN S.rec
    <3>1. LeaseFor(S, m, t, by) = AllocateLease(S, m, NoOffset, t, by)
      BY <2>1 DEF LeaseFor
    <3> QED
      BY <2>1, <3>1, <1>AllocateLeaseOK
  <2>2. CASE m \in DOMAIN S.rec
    <3>1. Answer(Renew(S, m, t, by))
      BY <2>2, <1>RenewOK
    <3>2. ASSUME CanEnqueue(S), NEW r \in ReallocateExpired(S, m, t, by) PROVE Answer(r)
      <4> DEFINE T == ReleaseLease(S, m, by)
      <4>1. Good(T)
        BY <2>2, <3>2, <1>ReleaseGood
      <4>2. m \notin DOMAIN T.rec
        BY DEF ReleaseLease, FreeBit, Enqueue, Without, Good, LockedOK
      <4>3. S.rec[m].ip \in S.alloc /\ S.rec[m].ip \in IPs
        BY <2>2 DEF Good, Leased, LockedOK
      <4>4. r \in AllocateLease(T, m, S.rec[m].ip, t, by)
        BY <3>2, <4>3 DEF ReallocateExpired
      <4> HIDE DEF T
      <4> QED
        BY <4>1, <4>2, <4>3, <4>4, <1>AllocateLeaseOK
    <3>3. ASSUME ~CanEnqueue(S), NEW r \in ReallocateExpired(S, m, t, by) PROVE Answer(r)
      BY <3>1, <3>3 DEF ReallocateExpired
    <3> QED
      BY <2>2, <3>1, <3>2, <3>3 DEF LeaseFor
  <2> QED
    BY <2>1, <2>2
(* Giving an address up. *)
<1>FreeLeaseGood.
    ASSUME NEW S, Good(S), NEW m \in DOMAIN S.rec, NEW by \in Workers
    PROVE  Good(FreeLease(S, m, by))
  BY <1>FreeLeaseGood, <1>ReleaseGood DEF FreeLease
(* A declined address moves from the lease table to the quarantine and keeps  *)
(* its bit.                                                                   *)
<1>QuarantineGood.
    ASSUME NEW S, Good(S), NEW m \in DOMAIN S.rec, NEW t \in Nat, NEW by \in Workers
    PROVE  Good(Quarantine(S, m, t, by))
  <2> USE <1>QuarantineGood
  <2> DEFINE rec == S.rec[m]
             ip == rec.ip
             until == t + DeclineProbation * TicksPerSec
             T == Enqueue(S, Remove(m, rec, by), NoUndo(m))
             D == {m}
             R == [T EXCEPT !.rec = Without(@, D), !.dec = With(@, ip, until)]
  <2>1. \/ Quarantine(S, m, t, by) = FreeLease(S, m, by)
        \/ Quarantine(S, m, t, by) = S
        \/ CanEnqueue(S) /\ Quarantine(S, m, t, by) = R
    BY DEF Quarantine
  <2>2. ASSUME CanEnqueue(S) PROVE Good(R)
    <3>1. /\ m \in Macs /\ rec \in Record /\ LockedOK(S) /\ ip \in IPs
          /\ Apart(S) /\ S.alloc = Leased(S) \cup DOMAIN S.dec
      BY DEF Good, LockedOK, IsMap, Record
    <3>2. until \in Nat
      BY RangeAssumption, SMTT(60) DEF RangeAssumption
    <3>3. D \in SUBSET DOMAIN S.rec
      OBVIOUS
    <3>4. LockedOK(T) /\ T.rec = S.rec /\ T.alloc = S.alloc /\ T.dec = S.dec
      <4>1. Remove(m, rec, by) \in WriteSet
        BY <3>1, StoreOK
      <4>2. NoUndo(m) \in UndoSet
        BY <3>1 DEF NoUndo, Undo, UndoSet
      <4>3. T = Enqueue(S, Remove(m, rec, by), NoUndo(m))
        OBVIOUS
      <4> HIDE DEF T, rec
      <4> QED
        BY <2>2, <3>1, <4>1, <4>2, <4>3, EnqueueOK, SMTT(60)
    <3> HIDE DEF T, D, until
    <3>5. /\ R.rec = Without(S.rec, D) /\ R.dec = With(S.dec, ip, until)
          /\ R.alloc = S.alloc /\ R.q = T.q /\ R.pend = T.pend /\ DOMAIN R = DOMAIN T
      BY <3>4 DEF LockedOK
    <3> HIDE DEF R
    <3>6. /\ IsMap(R.rec, Macs, Record) /\ DOMAIN R.rec = DOMAIN S.rec \ D
          /\ \A n \in DOMAIN R.rec : R.rec[n] = S.rec[n]
      <4>1. IsMap(S.rec, Macs, Record)
        BY <3>1 DEF LockedOK
      <4>2. /\ IsMap(Without(S.rec, D), Macs, Record)
            /\ DOMAIN Without(S.rec, D) = DOMAIN S.rec \ D
            /\ \A n \in DOMAIN S.rec \ D : Without(S.rec, D)[n] = S.rec[n]
        BY <4>1 DEF IsMap, Without
      <4> QED
        BY <3>5, <4>2
    <3>7. IsMap(R.dec, IPs, Nat) /\ DOMAIN R.dec = DOMAIN S.dec \cup {ip}
      <4>1. IsMap(S.dec, IPs, Nat)
        BY <3>1 DEF LockedOK
      <4>2. /\ IsMap(With(S.dec, ip, until), IPs, Nat)
            /\ DOMAIN With(S.dec, ip, until) = DOMAIN S.dec \cup {ip}
        <5> HIDE DEF ip
        <5> QED
          BY <3>1, <3>2, <4>1, SMTT(30) DEF IsMap, With
      <4> QED
        BY <3>5, <4>2
    <3>8. LockedOK(R)
      BY <3>4, <3>5, <3>6, <3>7 DEF LockedOK
    <3>9. Apart(R)
      BY <3>1, <3>3, <3>6, <3>7 DEF Apart, D
    <3>10. R.alloc = Leased(R) \cup DOMAIN R.dec
      <4>1. \A x : x \in Leased(R) <=> x \in Leased(S) /\ \A n \in D : S.rec[n].ip # x
        <5>1. Apart(S)
          BY <3>1
        <5>2. /\ DOMAIN R.rec = DOMAIN S.rec \ D
              /\ \A n \in DOMAIN R.rec : R.rec[n] = S.rec[n]
          BY <3>6
        <5> QED
          BY <3>3, <5>1, <5>2, <1>LeasedMinus, SMTT(90)
      <4>2. ip \in Leased(S)
        BY DEF Leased
      <4> QED
        BY <3>1, <3>5, <3>7, <4>1, <4>2 DEF D
    <3> QED
      BY <3>8, <3>9, <3>10 DEF Good
  <2>3. Good(FreeLease(S, m, by))
    BY <1>FreeLeaseGood
  <2> HIDE DEF R
  <2> QED
    BY <2>1, <2>2, <2>3
(* Undoing a failed write keeps the three in agreement, whatever happened to  *)
(* the record since.                                                          *)
<1>ApplyGood.
    ASSUME NEW S, Good(S), NEW u \in UndoSet
    PROVE  Good(Apply(S, u))
  <2> USE <1>ApplyGood
  <2> DEFINE m == u.mac
             D == {m}
             rec == S.rec[m]
             back == [rec EXCEPT !.expires = u.was]
             Drop == FreeBit([S EXCEPT !.rec = Without(@, D)], rec.ip)
             Back == [S EXCEPT !.rec = With(@, m, back)]
  <2>1. /\ LockedOK(S) /\ Apart(S) /\ S.alloc = Leased(S) \cup DOMAIN S.dec
        /\ m \in Macs /\ u.was \in Nat
    BY DEF Good, UndoSet
  <2>2. \/ Apply(S, u) = S
        \/ m \in DOMAIN S.rec /\ Apply(S, u) = Drop
        \/ m \in DOMAIN S.rec /\ Apply(S, u) = Back
    BY DEF Apply
  <2>3. ASSUME m \in DOMAIN S.rec PROVE Good(Drop)
    <3>1. /\ Drop.rec = Without(S.rec, D) /\ Drop.alloc = S.alloc \ {rec.ip}
          /\ Drop.dec = S.dec /\ Drop.q = S.q /\ Drop.pend = S.pend /\ DOMAIN Drop = DOMAIN S
      BY <2>1 DEF FreeBit, LockedOK
    <3>2. D \in SUBSET DOMAIN S.rec /\ rec.ip \notin DOMAIN S.dec
      BY <2>1, <2>3 DEF Apart
    <3> HIDE DEF Drop, D
    <3>3. /\ IsMap(Drop.rec, Macs, Record) /\ DOMAIN Drop.rec = DOMAIN S.rec \ D
          /\ \A n \in DOMAIN Drop.rec : Drop.rec[n] = S.rec[n]
      <4>1. IsMap(S.rec, Macs, Record)
        BY <2>1 DEF LockedOK
      <4>2. /\ IsMap(Without(S.rec, D), Macs, Record)
            /\ DOMAIN Without(S.rec, D) = DOMAIN S.rec \ D
            /\ \A n \in DOMAIN S.rec \ D : Without(S.rec, D)[n] = S.rec[n]
        BY <4>1 DEF IsMap, Without
      <4> QED
        BY <3>1, <4>2
    <3>4. LockedOK(Drop)
      BY <2>1, <3>1, <3>3 DEF LockedOK
    <3>5. Apart(Drop)
      BY <2>1, <3>1, <3>3 DEF Apart
    <3>6. Drop.alloc = Leased(Drop) \cup DOMAIN Drop.dec
      <4>1. \A x : x \in Leased(Drop) <=> x \in Leased(S) /\ \A n \in D : S.rec[n].ip # x
        BY <2>1, <3>2, <3>3, <1>LeasedMinus, SMTT(30)
      <4> QED
        BY <2>1, <3>1, <3>2, <4>1 DEF D
    <3> QED
      BY <3>4, <3>5, <3>6 DEF Good
  <2>4. ASSUME m \in DOMAIN S.rec PROVE Good(Back)
    <3>1. rec \in Record
      BY <2>1, <2>4 DEF LockedOK, IsMap
    <3>2. back \in Record /\ back.ip = rec.ip
      BY <2>1, <3>1 DEF Record
    <3> HIDE DEF back
    <3>3. /\ Back.rec = With(S.rec, m, back) /\ Back.alloc = S.alloc /\ Back.dec = S.dec
          /\ Back.q = S.q /\ Back.pend = S.pend /\ DOMAIN Back = DOMAIN S
      BY <2>1 DEF LockedOK
    <3> HIDE DEF Back, m
    <3>4. IsMap(S.rec, Macs, Record)
      BY <2>1 DEF LockedOK
    <3>5. IsMap(With(S.rec, m, back), Macs, Record)
      BY <2>1, <3>2, <3>4 DEF IsMap, With
    <3>6. LockedOK(Back)
      BY <2>1, <3>3, <3>5 DEF LockedOK
    <3>7. m \in DOMAIN S.rec /\ back.ip = S.rec[m].ip
      BY <2>4, <3>2
    <3> HIDE DEF rec
    <3> QED
      BY <3>2, <3>3, <3>6, <3>7, <1>SameAddressGood
  <2> HIDE DEF Drop, Back, m
  <2> QED
    BY <2>2, <2>3, <2>4
(* Clearing records. *)
(* The elements of a concatenation, one part at a time. *)
<1>ConcatParts.
    ASSUME NEW X, NEW s1 \in Seq(X), NEW s2 \in Seq(X)
    PROVE  /\ Len(s1 \o s2) = Len(s1) + Len(s2)
           /\ \A i \in 1 .. Len(s1) : (s1 \o s2)[i] = s1[i]
           /\ \A i \in 1 .. Len(s2) : (s1 \o s2)[Len(s1) + i] = s2[i]
  <2>1. PICK a \in Nat, b \in Nat : a = Len(s1) /\ b = Len(s2)
    BY SeqLen
  <2>2. Len(s1 \o s2) = a + b
        /\ \A i \in 1 .. a + b : (s1 \o s2)[i] = IF i <= a THEN s1[i] ELSE s2[i - a]
    BY <2>1, SeqConcat
  <2>3. ASSUME NEW i \in 1 .. a PROVE (s1 \o s2)[i] = s1[i]
    <3>1. i \in 1 .. a + b /\ i <= a
      BY SMTT(60)
    <3> QED
      BY <2>2, <3>1
  <2>4. ASSUME NEW i \in 1 .. b PROVE (s1 \o s2)[a + i] = s2[i]
    <3>1. a + i \in 1 .. a + b /\ ~(a + i <= a) /\ (a + i) - a = i
      BY SMTT(60)
    <3> QED
      BY <2>2, <3>1
  <2> QED
    BY <2>1, <2>2, <2>3, <2>4
<1>ClearedLogged.
    ASSUME NEW S, NEW T, NEW D, NEW by, Cleared(S, T, D, by), NEW U, Logged(T, U)
    PROVE  Cleared(S, U, D, by)
  <2> USE <1>ClearedLogged
  <2>1. U.rec = T.rec /\ U.q = T.q /\ U.pend = T.pend
    BY DEF Logged
  <2>2. /\ D \subseteq DOMAIN S.rec
        /\ DOMAIN U.rec = DOMAIN S.rec \ D
        /\ \A n \in DOMAIN U.rec : U.rec[n] = S.rec[n]
    BY <2>1, SMTT(60) DEF Cleared
  <2>3. /\ Len(S.q) <= Len(U.q)
        /\ \A i \in 1 .. Len(S.q) : U.q[i] = S.q[i]
        /\ \A m \in D : \E i \in Len(S.q) + 1 .. Len(U.q) : U.q[i].mac = m
    BY <2>1, SMTT(60) DEF Cleared
  <2>4. \A i \in Len(S.q) + 1 .. Len(U.q) :
          /\ U.q[i].op = "remove" /\ U.q[i].by = by
          /\ U.q[i].mac \in D /\ U.q[i].ip = S.rec[U.q[i].mac].ip
    BY <2>1, SMTT(60) DEF Cleared
  <2>5. /\ Len(U.pend) + Len(S.q) = Len(S.pend) + Len(U.q)
        /\ \A i \in 1 .. Len(S.pend) : U.pend[i] = S.pend[i]
    BY <2>1 DEF Cleared
  <2>6. \A i \in Len(S.pend) + 1 .. Len(U.pend) :
          U.pend[i].undo.kind = "none" /\ U.pend[i].result = "waiting"
    BY <2>1 DEF Cleared
  <2> QED
    BY <2>2, <2>3, <2>4, <2>5, <2>6 DEF Cleared
<1>ClearedTwice.
    ASSUME NEW S, LockedOK(S), NEW T, LockedOK(T), NEW U, LockedOK(U), NEW D, NEW E, NEW by,
           Cleared(S, T, D, by), Cleared(T, U, E, by)
    PROVE  Cleared(S, U, D \cup E, by)
  <2> USE <1>ClearedTwice
  <2>1. /\ Len(S.q) \in Nat /\ Len(S.pend) \in Nat /\ Len(T.q) \in Nat
        /\ Len(T.pend) \in Nat /\ Len(U.q) \in Nat /\ Len(U.pend) \in Nat
    BY LockedLens
  <2>2. /\ D \cup E \subseteq DOMAIN S.rec
        /\ DOMAIN U.rec = DOMAIN S.rec \ (D \cup E)
        /\ \A n \in DOMAIN U.rec : U.rec[n] = S.rec[n]
    BY SMTT(60) DEF Cleared
  <2>3. Len(S.q) <= Len(U.q) /\ \A i \in 1 .. Len(S.q) : U.q[i] = S.q[i]
    BY <2>1, SMTT(60) DEF Cleared
  <2>4. \A i \in Len(S.q) + 1 .. Len(U.q) :
          /\ U.q[i].op = "remove" /\ U.q[i].by = by
          /\ U.q[i].mac \in D \cup E /\ U.q[i].ip = S.rec[U.q[i].mac].ip
    <3> TAKE i \in Len(S.q) + 1 .. Len(U.q)
    <3>1. CASE i <= Len(T.q)
      <4>1. i \in 1 .. Len(T.q) /\ i \in Len(S.q) + 1 .. Len(T.q)
        BY <2>1, <3>1, SMTT(60)
      <4>2. U.q[i] = T.q[i]
        BY <4>1 DEF Cleared
      <4>3. /\ T.q[i].op = "remove" /\ T.q[i].by = by
            /\ T.q[i].mac \in D /\ T.q[i].ip = S.rec[T.q[i].mac].ip
        BY <4>1 DEF Cleared
      <4> QED
        BY <4>2, <4>3
    <3>2. CASE i > Len(T.q)
      <4>1. /\ U.q[i].op = "remove" /\ U.q[i].by = by
            /\ U.q[i].mac \in E /\ U.q[i].ip = T.rec[U.q[i].mac].ip
        BY <2>1, <3>2, SMTT(60) DEF Cleared
      <4>2. E \subseteq DOMAIN T.rec /\ \A n \in DOMAIN T.rec : T.rec[n] = S.rec[n]
        BY DEF Cleared
      <4> QED
        BY <4>1, <4>2
    <3> QED
      BY <2>1, <3>1, <3>2, SMTT(60)
  <2>5. \A m \in D \cup E : \E i \in Len(S.q) + 1 .. Len(U.q) : U.q[i].mac = m
    <3> TAKE m \in D \cup E
    <3>1. CASE m \in D
      <4>1. PICK i \in Len(S.q) + 1 .. Len(T.q) : T.q[i].mac = m
        BY <3>1 DEF Cleared
      <4>2. i \in Len(S.q) + 1 .. Len(U.q) /\ U.q[i] = T.q[i]
        BY <2>1, SMTT(60) DEF Cleared
      <4> QED
        BY <4>1, <4>2
    <3>2. CASE m \in E
      <4>1. PICK i \in Len(T.q) + 1 .. Len(U.q) : U.q[i].mac = m
        BY <3>2 DEF Cleared
      <4>2. i \in Len(S.q) + 1 .. Len(U.q)
        BY <2>1, SMTT(60) DEF Cleared
      <4> QED
        BY <4>1, <4>2
    <3> QED
      BY <3>1, <3>2
  <2>6. /\ Len(U.pend) + Len(S.q) = Len(S.pend) + Len(U.q)
        /\ \A i \in 1 .. Len(S.pend) : U.pend[i] = S.pend[i]
        /\ \A i \in Len(S.pend) + 1 .. Len(U.pend) :
             U.pend[i].undo.kind = "none" /\ U.pend[i].result = "waiting"
    <3>1. /\ Len(T.pend) + Len(S.q) = Len(S.pend) + Len(T.q)
          /\ Len(U.pend) + Len(T.q) = Len(T.pend) + Len(U.q)
          /\ Len(S.q) <= Len(T.q) /\ Len(T.q) <= Len(U.q)
      BY DEF Cleared
    <3>2. /\ \A i \in 1 .. Len(S.pend) : T.pend[i] = S.pend[i]
          /\ \A i \in 1 .. Len(T.pend) : U.pend[i] = T.pend[i]
      BY DEF Cleared
    <3>3. /\ \A i \in Len(S.pend) + 1 .. Len(T.pend) :
               T.pend[i].undo.kind = "none" /\ T.pend[i].result = "waiting"
          /\ \A i \in Len(T.pend) + 1 .. Len(U.pend) :
               U.pend[i].undo.kind = "none" /\ U.pend[i].result = "waiting"
      BY DEF Cleared
    <3>4. Len(U.pend) + Len(S.q) = Len(S.pend) + Len(U.q) /\ Len(S.pend) <= Len(T.pend)
      <4> DEFINE sq == Len(S.q) tq == Len(T.q) uq == Len(U.q)
                 sp == Len(S.pend) tp == Len(T.pend) up == Len(U.pend)
      <4>1. /\ sq \in Nat /\ tq \in Nat /\ uq \in Nat /\ sp \in Nat /\ tp \in Nat /\ up \in Nat
            /\ tp + sq = sp + tq /\ up + tq = tp + uq /\ sq <= tq
        BY <2>1, <3>1
      <4>2. SUFFICES up + sq = sp + uq /\ sp <= tp
        OBVIOUS
      <4> HIDE DEF sq, tq, uq, sp, tp, up
      <4> QED
        BY <4>1, SMTT(60)
    <3>5. ASSUME NEW i \in 1 .. Len(S.pend) PROVE U.pend[i] = S.pend[i]
      <4>1. i \in 1 .. Len(T.pend)
        BY <2>1, <3>4, SMTT(60)
      <4> QED
        BY <3>2, <4>1
    <3>6. ASSUME NEW i \in Len(S.pend) + 1 .. Len(U.pend)
          PROVE  U.pend[i].undo.kind = "none" /\ U.pend[i].result = "waiting"
      <4>1. \/ i \in Len(T.pend) + 1 .. Len(U.pend)
            \/ i \in Len(S.pend) + 1 .. Len(T.pend) /\ i \in 1 .. Len(T.pend)
        BY <2>1, SMTT(60)
      <4> QED
        BY <3>2, <3>3, <4>1
    <3> QED
      BY <3>4, <3>5, <3>6
  <2> QED
    BY <2>2, <2>3, <2>4, <2>5, <2>6 DEF Cleared
<1>LapseTwice.
    ASSUME NEW S, LockedOK(S), NEW T, LockedOK(T), NEW U, LockedOK(U), NEW t, NEW by,
           Lapse(S, T, t, by), Lapse(T, U, t, by)
    PROVE  Lapse(S, U, t, by)
  <2> USE <1>LapseTwice
  <2>1. PICK D \in SUBSET ExpiredMacs(S, t) : Cleared(S, T, D, by)
    BY DEF Lapse
  <2>2. PICK E \in SUBSET ExpiredMacs(T, t) : Cleared(T, U, E, by)
    BY DEF Lapse
  <2>3. ExpiredMacs(T, t) \subseteq ExpiredMacs(S, t)
    BY <2>1 DEF ExpiredMacs, Cleared
  <2>4. Cleared(S, U, D \cup E, by)
    BY <2>1, <2>2, <1>ClearedTwice
  <2> QED
    BY <2>1, <2>2, <2>3, <2>4 DEF Lapse
<1>LapseLogged.
    ASSUME NEW S, NEW T, NEW t, NEW by, Lapse(S, T, t, by), NEW U, Logged(T, U)
    PROVE  Lapse(S, U, t, by)
  BY <1>LapseLogged, <1>ClearedLogged DEF Lapse
(* The operators of a section. *)
<1>DropCleared.
    ASSUME NEW S, LockedOK(S), NEW m \in DOMAIN S.rec, NEW by \in Workers, NEW T,
           T.rec = Without(S.rec, {m}), T.q = Append(S.q, Remove(m, S.rec[m], by)),
           T.pend = Append(S.pend, Pending(NoUndo(m)))
    PROVE  Cleared(S, T, {m}, by)
  <2> USE <1>DropCleared
  <2>1. m \in Macs /\ S.rec[m] \in Record
    BY DEF LockedOK, IsMap
  <2>2. Remove(m, S.rec[m], by) \in WriteSet /\ Pending(NoUndo(m)) \in PendingSet
    BY <2>1, StoreOK DEF Pending, PendingSet, NoUndo, Undo, UndoSet
  <2>3. Remove(m, S.rec[m], by).op = "remove" /\ Remove(m, S.rec[m], by).by = by
        /\ Remove(m, S.rec[m], by).mac = m /\ Remove(m, S.rec[m], by).ip = S.rec[m].ip
    BY DEF Remove
  <2>4. Pending(NoUndo(m)).undo.kind = "none" /\ Pending(NoUndo(m)).result = "waiting"
    BY DEF Pending, NoUndo, Undo
  <2>5. PICK a \in Nat, b \in Nat : a = Len(S.q) /\ b = Len(S.pend)
    BY LockedLens
  <2>6. /\ Len(T.q) = a + 1 /\ T.q[a + 1] = Remove(m, S.rec[m], by)
        /\ \A i \in 1 .. a : T.q[i] = S.q[i]
    <3>1. S.q \in Seq(WriteSet)
      BY DEF LockedOK
    <3> QED
      BY <2>2, <2>5, <3>1, SeqAppend, SMTT(60)
  <2>7. /\ Len(T.pend) = b + 1 /\ T.pend[b + 1] = Pending(NoUndo(m))
        /\ \A i \in 1 .. b : T.pend[i] = S.pend[i]
    <3>1. S.pend \in Seq(PendingSet)
      BY DEF LockedOK
    <3> QED
      BY <2>2, <2>5, <3>1, SeqAppend, SMTT(60)
  <2>8. /\ DOMAIN T.rec = DOMAIN S.rec \ {m}
        /\ \A n \in DOMAIN T.rec : T.rec[n] = S.rec[n]
    BY DEF Without
  <2>9. /\ \A i \in a + 1 .. a + 1 : i = a + 1
        /\ \A i \in b + 1 .. b + 1 : i = b + 1
        /\ a + 1 \in a + 1 .. a + 1 /\ a <= a + 1 /\ (b + 1) + a = b + (a + 1)
    BY SMTT(60)
  <2>10. \A i \in a + 1 .. a + 1 :
           /\ T.q[i].op = "remove" /\ T.q[i].by = by
           /\ T.q[i].mac \in {m} /\ T.q[i].ip = S.rec[T.q[i].mac].ip
    BY <2>3, <2>6, <2>9
  <2>11. \A n \in {m} : \E i \in a + 1 .. a + 1 : T.q[i].mac = n
    BY <2>3, <2>6, <2>9
  <2>12. \A i \in b + 1 .. b + 1 :
           T.pend[i].undo.kind = "none" /\ T.pend[i].result = "waiting"
    BY <2>4, <2>7, <2>9
  <2> QED
    BY <2>5, <2>6, <2>7, <2>8, <2>9, <2>10, <2>11, <2>12 DEF Cleared
<1>ReleaseCleared.
    ASSUME NEW S, LockedOK(S), NEW m \in DOMAIN S.rec, NEW by \in Workers
    PROVE  /\ Cleared(S, ReleaseLease(S, m, by), {m}, by)
           /\ ReleaseLease(S, m, by).alloc = S.alloc \ {S.rec[m].ip}
           /\ ReleaseLease(S, m, by).dec = S.dec
  <2> USE <1>ReleaseCleared
  <2> DEFINE T == Enqueue(S, Remove(m, S.rec[m], by), NoUndo(m))
             R == ReleaseLease(S, m, by)
  <2>0. T = Enqueue(S, Remove(m, S.rec[m], by), NoUndo(m))
    OBVIOUS
  <2>2. R = FreeBit([T EXCEPT !.rec = Without(@, {m})], S.rec[m].ip)
    BY DEF ReleaseLease
  <2> HIDE DEF T, R
  <2>1. /\ T.rec = S.rec /\ T.alloc = S.alloc /\ T.dec = S.dec
        /\ T.q = Append(S.q, Remove(m, S.rec[m], by))
        /\ T.pend = Append(S.pend, Pending(NoUndo(m)))
        /\ DOMAIN T = {"rec", "alloc", "dec", "q", "pend"}
    <3>1. Queued(S, T, Remove(m, S.rec[m], by), NoUndo(m))
      BY <2>0, EnqueueFields
    <3> QED
      BY <3>1 DEF Queued
  <2>3. /\ R.rec = Without(S.rec, {m}) /\ R.alloc = S.alloc \ {S.rec[m].ip}
        /\ R.dec = S.dec /\ R.q = T.q /\ R.pend = T.pend
    BY <2>1, <2>2 DEF FreeBit
  <2>4. Cleared(S, R, {m}, by)
    BY <2>1, <2>3, <1>DropCleared
  <2> QED
    BY <2>3, <2>4 DEF R
<1>SweepCleared.
    ASSUME NEW S, LockedOK(S), NEW t, NEW s \in SweepOrders(S, t), NEW by \in Workers
    PROVE  /\ Cleared(S, SweepExpired(S, s, by), Elements(s), by)
           /\ Elements(s) \subseteq ExpiredMacs(S, t)
  <2> USE <1>SweepCleared
  <2> DEFINE R == SweepExpired(S, s, by)
             D == Elements(s)
             Q == [i \in DOMAIN s |-> Remove(s[i], S.rec[s[i]], by)]
             P == [i \in DOMAIN s |-> Pending(NoUndo(s[i]))]
  <2>1. PICK n \in Nat : s \in [1 .. n -> DOMAIN S.rec] /\ Len(S.q) + n <= QueueLen
    BY <1>SweepOrderOK
  <2>2. \A i \in 1 .. n : s[i] \in DOMAIN S.rec /\ s[i] \in Macs /\ S.rec[s[i]] \in Record
    BY <2>1 DEF LockedOK, IsMap
  <2>3. Q \in [1 .. n -> WriteSet]
    BY <2>1, <2>2, StoreOK
  <2>4. P \in [1 .. n -> PendingSet]
    BY <2>1, <2>2 DEF Pending, PendingSet, NoUndo, Undo, UndoSet
  <2>5. \A i \in 1 .. n : /\ Q[i].op = "remove" /\ Q[i].by = by /\ Q[i].mac = s[i]
                          /\ Q[i].ip = S.rec[s[i]].ip
                          /\ P[i].undo.kind = "none" /\ P[i].result = "waiting"
    BY <2>1 DEF Remove, Pending, NoUndo, Undo
  <2>6. R.rec = Without(S.rec, D) /\ R.q = S.q \o Q /\ R.pend = S.pend \o P
    BY DEF SweepExpired, LockedOK
  <2>7. /\ D \subseteq DOMAIN S.rec
        /\ \A m \in D : \E i \in 1 .. n : s[i] = m
        /\ \A i \in 1 .. n : s[i] \in D
    BY <2>1 DEF Elements
  <2>8. D \subseteq ExpiredMacs(S, t)
    BY DEF SweepOrders, Elements
  <2> HIDE DEF R, D, Q, P
  <2>9. Q \in Seq(WriteSet) /\ Len(Q) = n /\ P \in Seq(PendingSet) /\ Len(P) = n
    BY <2>3, <2>4, SeqLen, SMTT(60)
  <2>10. PICK a \in Nat, b \in Nat : a = Len(S.q) /\ b = Len(S.pend)
    BY LockedLens
  <2>11. /\ Len(R.q) = a + n /\ \A i \in 1 .. a : R.q[i] = S.q[i]
         /\ \A i \in 1 .. n : R.q[a + i] = Q[i]
    <3>1. S.q \in Seq(WriteSet) /\ Q \in Seq(WriteSet)
      BY <2>9 DEF LockedOK
    <3>2. /\ Len(S.q \o Q) = Len(S.q) + Len(Q)
          /\ \A i \in 1 .. Len(S.q) : (S.q \o Q)[i] = S.q[i]
          /\ \A i \in 1 .. Len(Q) : (S.q \o Q)[Len(S.q) + i] = Q[i]
      BY <3>1, <1>ConcatParts, SMTT(60)
    <3> QED
      BY <2>6, <2>9, <2>10, <3>2
  <2>12. /\ Len(R.pend) = b + n /\ \A i \in 1 .. b : R.pend[i] = S.pend[i]
         /\ \A i \in 1 .. n : R.pend[b + i] = P[i]
    <3>1. S.pend \in Seq(PendingSet) /\ P \in Seq(PendingSet)
      BY <2>9 DEF LockedOK
    <3>2. /\ Len(S.pend \o P) = Len(S.pend) + Len(P)
          /\ \A i \in 1 .. Len(S.pend) : (S.pend \o P)[i] = S.pend[i]
          /\ \A i \in 1 .. Len(P) : (S.pend \o P)[Len(S.pend) + i] = P[i]
      BY <3>1, <1>ConcatParts, SMTT(60)
    <3> QED
      BY <2>6, <2>9, <2>10, <3>2
  <2>13. \A i \in a + 1 .. a + n :
           /\ R.q[i].op = "remove" /\ R.q[i].by = by
           /\ R.q[i].mac \in D /\ R.q[i].ip = S.rec[R.q[i].mac].ip
    <3> TAKE i \in a + 1 .. a + n
    <3>1. i - a \in 1 .. n /\ a + (i - a) = i
      BY SMTT(60)
    <3>2. R.q[i] = Q[i - a]
      BY <2>11, <3>1
    <3> QED
      BY <2>5, <2>7, <3>1, <3>2, SMTT(60)
  <2>14. \A m \in D : \E i \in a + 1 .. a + n : R.q[i].mac = m
    <3> TAKE m \in D
    <3>1. PICK i \in 1 .. n : s[i] = m
      BY <2>7
    <3>2. a + i \in a + 1 .. a + n /\ R.q[a + i] = Q[i]
      BY <2>11, SMTT(60)
    <3> QED
      BY <2>5, <3>1, <3>2
  <2>15. \A i \in b + 1 .. b + n :
           R.pend[i].undo.kind = "none" /\ R.pend[i].result = "waiting"
    <3> TAKE i \in b + 1 .. b + n
    <3>1. i - b \in 1 .. n /\ b + (i - b) = i
      BY SMTT(60)
    <3>2. R.pend[i] = P[i - b]
      BY <2>12, <3>1
    <3> QED
      BY <2>5, <3>1, <3>2
  <2>16. a <= a + n /\ (b + n) + a = b + (a + n)
    BY SMTT(60)
  <2>17. DOMAIN R.rec = DOMAIN S.rec \ D /\ \A m \in DOMAIN R.rec : R.rec[m] = S.rec[m]
    BY <2>6 DEF Without
  <2>18. Cleared(S, R, D, by)
    BY <2>7, <2>10, <2>11, <2>12, <2>13, <2>14, <2>15, <2>16, <2>17 DEF Cleared
  <2> QED
    BY <2>8, <2>18 DEF R, D
(* A sweep takes out lapsed leases and probations that are over. *)
<1>ReclaimForm.
    ASSUME NEW S, Good(S), NEW t, NEW by \in Workers, NEW T \in Reclaim(S, t, by)
    PROVE  Good(T) /\ Lapse(S, T, t, by) /\ Eased(S, T, t)
  <2> USE <1>ReclaimForm
  <2>1. PICK s \in SweepOrders(S, t) : T = SweepDeclined(SweepExpired(S, s, by), t)
    BY DEF Reclaim
  <2> DEFINE R == SweepExpired(S, s, by)
             due == {ip \in DOMAIN R.dec : R.dec[ip] <= t} \cap R.alloc
  <2>2. Good(R) /\ Good(T)
    BY <2>1, <1>SweepExpiredGood, <1>SweepDeclinedGood
  <2>3. Cleared(S, R, Elements(s), by) /\ Elements(s) \subseteq ExpiredMacs(S, t)
    BY <1>SweepCleared DEF Good
  <2>4. R.dec = S.dec /\ R.alloc \subseteq S.alloc
    BY DEF SweepExpired, Good, LockedOK
  <2> HIDE DEF R
  <2>5. Logged(R, T) /\ T.dec = Without(R.dec, due) /\ T.alloc = R.alloc \ due
    BY <2>1, <2>2 DEF SweepDeclined, Logged, Good, LockedOK, R
  <2>6. Lapse(S, T, t, by)
    BY <2>3, <2>5, <1>LapseLogged DEF Lapse
  <2>7. DOMAIN T.dec = DOMAIN S.dec \ due /\ \A ip \in DOMAIN T.dec : T.dec[ip] = S.dec[ip]
    BY <2>4, <2>5 DEF Without
  <2>8. Eased(S, T, t)
    BY <2>4, <2>5, <2>7 DEF Eased
  <2> QED
    BY <2>2, <2>6, <2>8
<1>TakeBitLogged.
    ASSUME NEW S, LockedOK(S), NEW hint
    PROVE  /\ Logged(S, TakeBit(S, hint).st) /\ TakeBit(S, hint).st.dec = S.dec
           /\ TakeBit(S, hint).ip = PickOffset(hint, S.alloc, PoolSize)
  BY <1>TakeBitLogged DEF TakeBit, Logged, LockedOK
<1>EvictLogged.
    ASSUME NEW S, LockedOK(S), NEW ip
    PROVE  /\ Logged(S, EvictDeclined(S, ip))
           /\ DOMAIN EvictDeclined(S, ip).dec = DOMAIN S.dec \ {ip}
           /\ DOMAIN EvictDeclined(S, ip) = DOMAIN S
  BY <1>EvictLogged DEF EvictDeclined, FreeBit, Logged, LockedOK, Without
(* allocate finds the hinted address when it is free, and evicts a declined   *)
(* one only when nothing is.                                                  *)
<1>AllocateForm.
    ASSUME NEW S, Good(S), NEW hint \in IPs \cup {NoOffset}, NEW t, NEW by \in Workers,
           NEW a \in Allocate(S, hint, t, by)
    PROVE  /\ Lapse(S, a.st, t, by) /\ Held(S, a.st, t)
           /\ hint \in IPs \ S.alloc => a.ip = hint
  <2> USE <1>AllocateForm
  <2>0. LockedOK(S) /\ S.alloc \subseteq IPs
    BY DEF Good, LockedOK
  <2>1. CASE HasClear(S.alloc, PoolSize)
    <3>1. a = TakeBit(S, hint)
      BY <2>1 DEF Allocate
    <3>2. Logged(S, a.st) /\ a.st.dec = S.dec /\ a.ip = PickOffset(hint, S.alloc, PoolSize)
      BY <2>0, <3>1, <1>TakeBitLogged
    <3>3. Lapse(S, a.st, t, by) /\ Held(S, a.st, t)
      BY <2>0, <3>2, LapseNone DEF Held
    <3>4. ASSUME hint \in IPs \ S.alloc PROVE a.ip = hint
      <4>1. hint # NoOffset
        BY <3>4, RangeAssumption, SMTT(60) DEF IPs, NoOffset, RangeAssumption
      <4> QED
        BY <3>2, <3>4, <4>1 DEF PickOffset, Test
    <3> QED
      BY <3>3, <3>4
  <2>2. CASE ~HasClear(S.alloc, PoolSize)
    <3>1. PICK T \in Reclaim(S, t, by) :
            a \in IF HasClear(T.alloc, PoolSize) THEN {TakeBit(T, hint)}
                  ELSE IF OldestDeclined(T) \cap T.alloc = {}
                  THEN {[st |-> T, ip |-> NoOffset]}
                  ELSE {TakeBit(EvictDeclined(T, ip), hint) :
                          ip \in OldestDeclined(T) \cap T.alloc}
      BY <2>2 DEF Allocate
    <3>2. Good(T) /\ Lapse(S, T, t, by) /\ Eased(S, T, t) /\ LockedOK(T)
      BY <1>ReclaimForm DEF Good
    <3>3. S.alloc = IPs
      BY <2>0, <2>2 DEF HasClear, IPs
    <3>4. ASSUME NEW ip \in DOMAIN T.dec, a = TakeBit(EvictDeclined(T, ip), hint)
          PROVE  Logged(T, a.st) /\ DOMAIN a.st.dec \subseteq DOMAIN T.dec
      <4> DEFINE E == EvictDeclined(T, ip)
      <4>1. Logged(T, E) /\ DOMAIN E.dec \subseteq DOMAIN T.dec
        <5>1. Logged(T, E)
          BY <3>2, <1>EvictLogged
        <5>2. DOMAIN E.dec = DOMAIN T.dec \ {ip}
          BY <3>2, <1>EvictLogged
        <5> QED
          BY <5>1, <5>2
      <4>0. LockedOK(E)
        BY <3>2, <1>EvictGood DEF Good
      <4> HIDE DEF E
      <4>2. Logged(E, TakeBit(E, hint).st) /\ TakeBit(E, hint).st.dec = E.dec
        BY <4>0, <1>TakeBitLogged
      <4>3. a = TakeBit(E, hint)
        BY <3>4 DEF E
      <4> QED
        BY <4>1, <4>2, <4>3 DEF Logged
    <3>5. Logged(T, a.st) /\ DOMAIN a.st.dec \subseteq DOMAIN T.dec
      <4>1. CASE a = TakeBit(T, hint)
        BY <3>2, <4>1, <1>TakeBitLogged
      <4>2. CASE a = [st |-> T, ip |-> NoOffset]
        BY <4>2 DEF Logged
      <4>3. CASE \E ip \in OldestDeclined(T) : a = TakeBit(EvictDeclined(T, ip), hint)
        BY <3>4, <4>3 DEF OldestDeclined
      <4> QED
        BY <3>1, <4>1, <4>2, <4>3
    <3>6. Lapse(S, a.st, t, by)
      BY <3>2, <3>5, <1>LapseLogged
    <3>7. Held(S, a.st, t)
      BY <3>2, <3>3, <3>5 DEF Held, Eased
    <3> QED
      BY <3>3, <3>6, <3>7
  <2> QED
    BY <2>1, <2>2
<1>EasedHeld.
    ASSUME NEW S, LockedOK(S), NEW T, NEW U, NEW t, Eased(S, T, t), Held(T, U, t)
    PROVE  Held(S, U, t)
  <2> USE <1>EasedHeld
  <2>1. T.alloc = IPs => S.alloc = IPs
    BY DEF Eased, LockedOK
  <2> QED
    BY <2>1 DEF Eased, Held
<1>BelowLimitKept.
    ASSUME NEW S, LockedOK(S), NEW T, DOMAIN T.rec \subseteq DOMAIN S.rec, BelowLimit(S)
    PROVE  BelowLimit(T)
  <2> USE <1>BelowLimitKept
  <2>1. IsFiniteSet(DOMAIN S.rec)
    BY RangeAssumption, FS_Subset DEF RangeAssumption, LockedOK, IsMap
  <2>2. /\ Cardinality(DOMAIN T.rec) <= Cardinality(DOMAIN S.rec)
        /\ Cardinality(DOMAIN T.rec) \in Nat /\ Cardinality(DOMAIN S.rec) \in Nat
    BY <2>1, FS_Subset, FS_CardinalityType
  <2>3. MaxLeases \in Nat
    BY RangeAssumption DEF RangeAssumption
  <2> QED
    BY <2>2, <2>3, SMTT(60) DEF BelowLimit
(* A new lease for a client that is not in the table. *)
<1>AllocateLeaseForm.
    ASSUME NEW S, Good(S), NEW m \in Macs, m \notin DOMAIN S.rec, NewGen(m) \in Gens,
           NEW hint \in IPs \cup {NoOffset}, NEW t \in Nat, NEW by \in Workers,
           NEW r \in AllocateLease(S, m, hint, t, by)
    PROVE  /\ Held(S, r.st, t)
           /\ \/ Refused(S, r, t, by)
              \/ Granted(S, r, m, t, by) /\ (hint \in IPs \ S.alloc => r.ip = hint)
  <2> USE <1>AllocateLeaseForm
  <2>1. PICK T \in LimitSweep(S, t, by) :
          r \in IF ~BelowLimit(T) THEN {[st |-> T, ip |-> NoOffset]}
                ELSE {RecordLease(a.st, m, a.ip, t, by) : a \in Allocate(T, hint, t, by)}
    BY DEF AllocateLease
  <2>2. LockedOK(S) /\ Good(T) /\ LockedOK(T) /\ Lapse(S, T, t, by) /\ Eased(S, T, t)
    <3>1. LockedOK(S)
      BY DEF Good
    <3>2. CASE T = S
      <4>1. Logged(S, T)
        BY <3>2 DEF Logged
      <4>2. Eased(S, T, t)
        BY <3>2 DEF Eased
      <4> QED
        BY <3>1, <3>2, <4>1, <4>2, LapseNone
    <3>3. CASE T \in Reclaim(S, t, by)
      BY <3>1, <3>3, <1>ReclaimForm DEF Good
    <3> QED
      BY <3>2, <3>3 DEF LimitSweep
  <2>3. CASE r = [st |-> T, ip |-> NoOffset]
    <3>1. r.st = T /\ r.ip = NoOffset
      BY <2>3
    <3>2. Held(S, r.st, t)
      BY <2>2, <3>1 DEF Held, Eased
    <3> QED
      BY <2>2, <3>1, <3>2 DEF Refused
  <2>4. CASE BelowLimit(T) /\ \E a \in Allocate(T, hint, t, by) :
               r = RecordLease(a.st, m, a.ip, t, by)
    <3>1. PICK a \in Allocate(T, hint, t, by) : r = RecordLease(a.st, m, a.ip, t, by)
      BY <2>4
    <3>2. /\ Lapse(T, a.st, t, by) /\ Held(T, a.st, t)
          /\ hint \in IPs \ T.alloc => a.ip = hint
      BY <2>2, <1>AllocateForm
    <3>3. Allocated(a) /\ DOMAIN a.st.rec \subseteq DOMAIN T.rec
      BY <2>2, <1>AllocateOK
    <3>4. LockedOK(a.st)
      BY <3>3 DEF Allocated, Good, Taken
    <3>5. Lapse(S, a.st, t, by) /\ Held(S, a.st, t) /\ BelowLimit(a.st)
      BY <2>2, <2>4, <3>2, <3>3, <3>4, <1>LapseTwice, <1>EasedHeld, <1>BelowLimitKept
    <3>6. T.alloc \subseteq S.alloc
      BY <2>2 DEF Eased
    <3>7. m \notin DOMAIN a.st.rec
      BY <2>2, <3>3 DEF Lapse, Cleared
    <3>8. CASE a.ip = NoOffset
      <4>1. r = [st |-> a.st, ip |-> NoOffset]
        BY <3>1, <3>8 DEF RecordLease
      <4> QED
        BY <3>5, <4>1 DEF Refused
    <3>9. CASE a.ip # NoOffset /\ ~CanEnqueue(a.st)
      <4>1. r = [st |-> FreeBit(a.st, a.ip), ip |-> NoOffset]
        BY <3>1, <3>9 DEF RecordLease
      <4>2. Logged(a.st, r.st) /\ r.st.dec = a.st.dec /\ r.ip = NoOffset
        BY <3>4, <4>1 DEF FreeBit, Logged, LockedOK
      <4>3. Lapse(S, r.st, t, by)
        BY <3>5, <4>2, <1>LapseLogged
      <4> QED
        BY <3>5, <4>2, <4>3 DEF Refused, Held
    <3>10. CASE a.ip # NoOffset /\ CanEnqueue(a.st)
      <4> DEFINE rec == [gen |-> NewGen(m), ip |-> a.ip, expires |-> Unix(LeaseEnd(t))]
                 u == DropUndo(m, rec.gen)
                 R == [Enqueue(a.st, Store(m, rec, by), u) EXCEPT !.rec = With(@, m, rec)]
      <4>1. r = [st |-> R, ip |-> a.ip]
        BY <3>1, <3>10 DEF RecordLease
      <4>2. u \in UndoSet /\ u.kind = "drop" /\ u.mac = m /\ u.gen = rec.gen
        BY DEF DropUndo, Undo, UndoSet
      <4>3. r.st = R /\ r.ip = a.ip
        BY <4>1
      <4> HIDE DEF u
      <4>4. Stored(a.st, R, m, rec, "drop", by) /\ R.dec = a.st.dec
        <5> DEFINE E == Enqueue(a.st, Store(m, rec, by), u)
        <5>1. /\ E.rec = a.st.rec /\ E.dec = a.st.dec /\ E.q = Append(a.st.q, Store(m, rec, by))
              /\ E.pend = Append(a.st.pend, Pending(u))
              /\ DOMAIN E = {"rec", "alloc", "dec", "q", "pend"}
          <6> HIDE DEF rec
          <6> QED
            BY <3>4, SMTT(30) DEF Enqueue, LockedOK
        <5> HIDE DEF rec, E
        <5>2. /\ R.rec = With(a.st.rec, m, rec) /\ R.dec = a.st.dec
              /\ R.q = Append(a.st.q, Store(m, rec, by)) /\ R.pend = Append(a.st.pend, Pending(u))
          BY <5>1 DEF E
        <5> HIDE DEF R
        <5> QED
          BY <4>2, <5>2 DEF Stored
      <4> HIDE DEF R
      <4>5. a.ip \in IPs /\ \A n \in DOMAIN a.st.rec : a.st.rec[n].ip # a.ip
        BY <3>3, <3>10 DEF Allocated, Taken, Leased
      <4>6. Granted(S, r, m, t, by)
        BY <3>4, <3>5, <3>7, <4>3, <4>4, <4>5 DEF Granted
      <4>7. Held(S, r.st, t)
        BY <3>5, <4>3, <4>4 DEF Held
      <4> QED
        BY <3>2, <3>6, <4>3, <4>6, <4>7
    <3> QED
      BY <3>8, <3>9, <3>10
  <2> QED
    BY <2>1, <2>3, <2>4
<1>RenewForm.
    ASSUME NEW S, Good(S), NEW m \in DOMAIN S.rec, NEW t \in Nat, NEW by \in Workers, NEW r,
           r = Renew(S, m, t, by)
    PROVE  /\ Held(S, r.st, t)
           /\ Refused(S, r, t, by) \/ Enough(S, r, m, t) \/ Renewed(S, r, m, t, by)
  <2> USE <1>RenewForm
  <2> DEFINE rec == S.rec[m]
             new == [rec EXCEPT !.expires = RoundUnix(LeaseEnd(t))]
             u == RenewUndo(m, rec.gen, rec.expires, new.expires)
             R == [Enqueue(S, Store(m, new, by), u) EXCEPT !.rec = With(@, m, new)]
  <2>1. LockedOK(S) /\ rec \in Record /\ u \in UndoSet
    BY RenewUndoOK DEF Good
  <2>2. CASE rec.expires * TicksPerSec >= LeaseEnd(t)
    <3>1. r = [st |-> S, ip |-> rec.ip]
      BY <2>2 DEF Renew
    <3> QED
      BY <2>2, <3>1, SMTT(60) DEF Enough, Held, Logged
  <2>3. CASE ~(rec.expires * TicksPerSec >= LeaseEnd(t)) /\ ~CanEnqueue(S)
    <3>1. r = [st |-> S, ip |-> NoOffset]
      BY <2>3 DEF Renew
    <3>2. Lapse(S, S, t, by)
      BY <2>1, LapseNone DEF Logged
    <3> QED
      BY <3>1, <3>2, SMTT(60) DEF Refused, Held
  <2>4. CASE ~(rec.expires * TicksPerSec >= LeaseEnd(t)) /\ CanEnqueue(S)
    <3>1. r = [st |-> R, ip |-> rec.ip]
      BY <2>4 DEF Renew
    <3>2. u.kind = "renew" /\ u.mac = m /\ u.gen = new.gen
      <4>1. new.gen = rec.gen
        BY <2>1 DEF Record
      <4> QED
        BY <4>1 DEF RenewUndo, Undo
    <3>3. rec.expires * TicksPerSec < LeaseEnd(t)
      <4>1. rec.expires \in Nat /\ TicksPerSec \in Nat /\ LeaseEnd(t) \in Nat
        BY <2>1, RecordFields, RangeAssumption, SMTT(60) DEF LeaseEnd, RangeAssumption
      <4>2. rec.expires * TicksPerSec \in Nat
        BY <4>1, SMTT(60)
      <4> QED
        BY <2>4, <4>1, <4>2, SMTT(60)
    <3> HIDE DEF u
    <3>4. Stored(S, R, m, new, "renew", by) /\ R.dec = S.dec
      <4> DEFINE E == Enqueue(S, Store(m, new, by), u)
      <4>0. E = Enqueue(S, Store(m, new, by), u)
        OBVIOUS
      <4> HIDE DEF new, E
      <4>1. /\ E.rec = S.rec /\ E.dec = S.dec /\ E.q = Append(S.q, Store(m, new, by))
            /\ E.pend = Append(S.pend, Pending(u))
            /\ DOMAIN E = {"rec", "alloc", "dec", "q", "pend"}
        <5>1. Queued(S, E, Store(m, new, by), u)
          BY <2>1, <4>0, EnqueueFields
        <5> QED
          BY <5>1 DEF Queued
      <4>2. /\ R.rec = With(S.rec, m, new) /\ R.dec = S.dec
            /\ R.q = Append(S.q, Store(m, new, by)) /\ R.pend = Append(S.pend, Pending(u))
        BY <4>0, <4>1
      <4> HIDE DEF R
      <4> QED
        BY <2>1, <3>2, <4>2 DEF Stored
    <3> HIDE DEF R
    <3>5. Held(S, r.st, t)
      BY <3>1, <3>4, SMTT(60) DEF Held
    <3>6. Renewed(S, r, m, t, by)
      BY <3>1, <3>3, <3>4, SMTT(60) DEF Renewed
    <3> QED
      BY <3>5, <3>6
  <2> QED
    BY <2>2, <2>3, <2>4
(* The four outcomes of leaseFor. *)
<1>LeaseForForm.
    ASSUME NEW S, Good(S), NEW m \in Macs, NewGen(m) \in Gens, NEW t \in Nat, NEW by \in Workers,
           NEW r \in LeaseFor(S, m, t, by)
    PROVE  /\ Held(S, r.st, t)
           /\ \/ Refused(S, r, t, by) \/ Enough(S, r, m, t)
              \/ Renewed(S, r, m, t, by) \/ Granted(S, r, m, t, by)
  <2> USE <1>LeaseForForm
  <2>0. LockedOK(S)
    BY DEF Good
  <2>1. CASE m \notin DOMAIN S.rec
    <3> DEFINE hint == NoOffset
    <3>1. r \in AllocateLease(S, m, hint, t, by)
      BY <2>1 DEF LeaseFor
    <3>2. hint \in IPs \cup {NoOffset}
      OBVIOUS
    <3> HIDE DEF hint
    <3> QED
      BY <2>1, <3>1, <3>2, <1>AllocateLeaseForm
  <2>2. CASE m \in DOMAIN S.rec /\ r = Renew(S, m, t, by)
    BY <2>2, <1>RenewForm
  <2>3. CASE m \in DOMAIN S.rec /\ Expired(S.rec[m], t) /\ CanEnqueue(S)
    <3> DEFINE T == ReleaseLease(S, m, by)
               ip == S.rec[m].ip
    <3>1. ip \in S.alloc /\ ip \in IPs
      BY <2>3 DEF Good, Leased, LockedOK
    <3>2. r \in AllocateLease(T, m, ip, t, by)
      BY <2>3, <3>1 DEF LeaseFor, ReallocateExpired
    <3>3. Good(T) /\ Cleared(S, T, {m}, by) /\ T.alloc = S.alloc \ {ip} /\ T.dec = S.dec
      BY <2>0, <2>3, <1>ReleaseGood, <1>ReleaseCleared
    <3> HIDE DEF T, ip
    <3>4. Lapse(S, T, t, by) /\ Eased(S, T, t) /\ m \notin DOMAIN T.rec /\ LockedOK(T)
      BY <2>3, <3>3 DEF Lapse, Eased, ExpiredMacs, Cleared, Good
    <3>5. /\ Held(T, r.st, t)
          /\ \/ Refused(T, r, t, by)
             \/ Granted(T, r, m, t, by) /\ (ip \in IPs \ T.alloc => r.ip = ip)
      <4>1. Good(T)
        BY <3>3
      <4>2. m \notin DOMAIN T.rec
        BY <3>4
      <4>3. ip \in IPs \cup {NoOffset}
        BY <3>1
      <4> QED
        BY <3>2, <4>1, <4>2, <4>3, <1>AllocateLeaseForm, SMTT(60)
    <3>6. Held(S, r.st, t)
      BY <2>0, <3>4, <3>5, <1>EasedHeld
    <3>7. Answer(r)
      <4>1. Good(T)
        BY <3>3
      <4>2. m \notin DOMAIN T.rec
        BY <3>4
      <4>3. ip \in IPs \cup {NoOffset}
        BY <3>1
      <4> QED
        BY <3>2, <4>1, <4>2, <4>3, <1>AllocateLeaseOK
    <3>8. CASE Refused(T, r, t, by)
      <4>1. Lapse(S, r.st, t, by)
        BY <2>0, <3>4, <3>7, <3>8, <1>LapseTwice DEF Refused, Answer, Good
      <4> QED
        BY <3>6, <3>8, <4>1 DEF Refused
    <3>9. CASE Granted(T, r, m, t, by) /\ r.ip = ip
      <4>1. PICK U :
              /\ LockedOK(U) /\ Lapse(T, U, t, by) /\ BelowLimit(U)
              /\ m \notin DOMAIN U.rec /\ r.ip \in IPs
              /\ \A n \in DOMAIN U.rec : U.rec[n].ip # r.ip
              /\ Stored(U, r.st, m,
                   [gen |-> NewGen(m), ip |-> r.ip, expires |-> Unix(LeaseEnd(t))], "drop", by)
        BY <3>9 DEF Granted
      <4>2. Lapse(S, U, t, by)
        BY <2>0, <3>4, <4>1, <1>LapseTwice
      <4>3. Granted(S, r, m, t, by)
        BY <3>9, <4>1, <4>2 DEF Granted, ip
      <4> QED
        BY <3>6, <4>3
    <3> QED
      BY <3>1, <3>3, <3>5, <3>8, <3>9
  <2> QED
    BY <2>1, <2>2, <2>3 DEF LeaseFor, ReallocateExpired
(* A client giving its address up. *)
<1>FreeLeaseForm.
    ASSUME NEW S, LockedOK(S), NEW m \in DOMAIN S.rec, NEW by \in Workers, NEW T,
           T = FreeLease(S, m, by)
    PROVE  GivenUp(S, T, m, by) /\ T.dec = S.dec
  BY <1>FreeLeaseForm, <1>ReleaseCleared DEF FreeLease, Logged, GivenUp
<1>QuarantineForm.
    ASSUME NEW S, LockedOK(S), NEW m \in DOMAIN S.rec, NEW t, NEW by \in Workers, NEW T,
           T = Quarantine(S, m, t, by)
    PROVE  GivenUp(S, T, m, by) /\ (T.dec = S.dec \/ TookIn(S, T))
  <2> USE <1>QuarantineForm
  <2> DEFINE until == t + DeclineProbation * TicksPerSec
             ip == S.rec[m].ip
             E == Enqueue(S, Remove(m, S.rec[m], by), NoUndo(m))
             D == {m}
             R == [E EXCEPT !.rec = Without(@, D), !.dec = With(@, ip, until)]
  <2>1. \/ T = FreeLease(S, m, by)
        \/ T = S
        \/ T = R /\ ~(Cardinality(DOMAIN S.dec) >= DeclineMax)
    BY DEF Quarantine
  <2>0. E = Enqueue(S, Remove(m, S.rec[m], by), NoUndo(m))
    OBVIOUS
  <2> HIDE DEF E, D, until, ip
  <2>2. /\ E.rec = S.rec /\ E.dec = S.dec /\ E.q = Append(S.q, Remove(m, S.rec[m], by))
        /\ E.pend = Append(S.pend, Pending(NoUndo(m)))
        /\ DOMAIN E = {"rec", "alloc", "dec", "q", "pend"}
    <3>1. Queued(S, E, Remove(m, S.rec[m], by), NoUndo(m))
      BY <2>0, EnqueueFields
    <3> QED
      BY <3>1 DEF Queued
  <2>3. /\ R.rec = Without(S.rec, D) /\ R.dec = With(S.dec, ip, until)
        /\ R.q = E.q /\ R.pend = E.pend
    BY <2>2
  <2> HIDE DEF R
  <2>4. Cleared(S, R, {m}, by)
    BY <2>2, <2>3, <1>DropCleared DEF D
  <2>5. DOMAIN R.dec = DOMAIN S.dec \cup {ip}
    BY <2>3 DEF With
  <2>6. CASE T = FreeLease(S, m, by)
    BY <2>6, <1>FreeLeaseForm, SMTT(60)
  <2>7. CASE T = S
    BY <2>7 DEF Logged, GivenUp
  <2>8. CASE T = R /\ ~(Cardinality(DOMAIN S.dec) >= DeclineMax)
    BY <2>4, <2>5, <2>8 DEF GivenUp, TookIn
  <2> QED
    BY <2>1, <2>6, <2>7, <2>8
<1>1. ASSUME NEW S, NEW m \in Macs, NEW t \in Nat, NEW by \in Workers, Good(S), NewGen(m) \in Gens,
             NEW r \in LeaseFor(S, m, t, by)
      PROVE  /\ Answer(r) /\ Held(S, r.st, t)
             /\ \/ Refused(S, r, t, by) \/ Enough(S, r, m, t)
                \/ Renewed(S, r, m, t, by) \/ Granted(S, r, m, t, by)
  BY <1>1, <1>LeaseForOK, <1>LeaseForForm
<1>2. ASSUME NEW S, NEW m \in DOMAIN S.rec, NEW by \in Workers, NEW T, Good(S),
             T = FreeLease(S, m, by)
      PROVE  Good(T) /\ GivenUp(S, T, m, by) /\ T.dec = S.dec
  <2>1. LockedOK(S)
    BY <1>2 DEF Good
  <2>2. Good(T)
    BY <1>2, <1>FreeLeaseGood
  <2>3. GivenUp(S, T, m, by) /\ T.dec = S.dec
    BY <1>2, <2>1, <1>FreeLeaseForm
  <2> QED
    BY <2>2, <2>3
<1>3. ASSUME NEW S, NEW m \in DOMAIN S.rec, NEW t \in Nat, NEW by \in Workers, NEW T, Good(S),
             T = Quarantine(S, m, t, by)
      PROVE  Good(T) /\ GivenUp(S, T, m, by) /\ (T.dec = S.dec \/ TookIn(S, T))
  <2>1. LockedOK(S)
    BY <1>3 DEF Good
  <2>2. Good(T)
    BY <1>3, <1>QuarantineGood
  <2>3. GivenUp(S, T, m, by) /\ (T.dec = S.dec \/ TookIn(S, T))
    BY <1>3, <2>1, <1>QuarantineForm
  <2> QED
    BY <2>2, <2>3
<1> QED
  BY <1>1, <1>2, <1>3, <1>ReclaimForm, <1>ApplyGood, SMTT(60)

LEMMA LeaseForOK ==
  ASSUME NEW S, Good(S), NEW m \in Macs, NewGen(m) \in Gens, NEW t \in Nat, NEW by \in Workers
  PROVE  \A r \in LeaseFor(S, m, t, by) : Answer(r)
BY Sections

LEMMA LeaseForForm ==
  ASSUME NEW S, Good(S), NEW m \in Macs, NewGen(m) \in Gens, NEW t \in Nat, NEW by \in Workers,
         NEW r \in LeaseFor(S, m, t, by)
  PROVE  /\ Held(S, r.st, t)
         /\ \/ Refused(S, r, t, by) \/ Enough(S, r, m, t)
            \/ Renewed(S, r, m, t, by) \/ Granted(S, r, m, t, by)
BY Sections

LEMMA FreeLeaseForm ==
  ASSUME NEW S, Good(S), NEW m \in DOMAIN S.rec, NEW by \in Workers, NEW T,
         T = FreeLease(S, m, by)
  PROVE  Good(T) /\ GivenUp(S, T, m, by) /\ T.dec = S.dec
BY Sections

LEMMA QuarantineForm ==
  ASSUME NEW S, Good(S), NEW m \in DOMAIN S.rec, NEW t \in Nat, NEW by \in Workers, NEW T,
         T = Quarantine(S, m, t, by)
  PROVE  Good(T) /\ GivenUp(S, T, m, by) /\ (T.dec = S.dec \/ TookIn(S, T))
BY Sections

LEMMA ReclaimForm ==
  ASSUME NEW S, Good(S), NEW t, NEW by \in Workers, NEW T \in Reclaim(S, t, by)
  PROVE  Good(T) /\ Lapse(S, T, t, by) /\ Eased(S, T, t)
BY Sections

LEMMA ApplyGood ==
  ASSUME NEW S, Good(S), NEW u \in UndoSet
  PROVE  Good(Apply(S, u))
BY Sections
=============================================================================
