-------------------------- MODULE RangeLeaseProofs --------------------------
(***************************************************************************)
(* Proofs about the leases of Range with writes that fail: a lease in      *)
(* memory is written or will be taken back.                                *)
(*                                                                         *)
(* The proof needs to know which queued write each goroutine waits for:    *)
(* Matched pairs the two, so that the result of an insert reaches the undo *)
(* that goes with it.                                                      *)
(***************************************************************************)
EXTENDS RangeProofs

(* Zenon proves the leaves, but for those that name another prover. *)
USE ZenonT(30)

Waiting(p, i) == p[i].result = "waiting"

(* The l results v waits for are those of its writes among the n of q, in     *)
(* order.                                                                     *)
Matched(q, n, v, p, l) ==
  \E g \in [1 .. l -> Int] :
    /\ \A i \in 1 .. l : Waiting(p, i) => g[i] \in 1 .. n /\ q[g[i]].by = v
    /\ \A i, j \in 1 .. l : Waiting(p, i) /\ Waiting(p, j) /\ i < j => g[i] < g[j]
    /\ \A k \in 1 .. n : q[k].by = v => \E i \in 1 .. l : Waiting(p, i) /\ g[i] = k

(* i is the entry the first write of q answers, and r is the rest of q. *)
Answers(q, r, n, v, p, l, i) ==
  /\ Waiting(p, i) /\ \A j \in 1 .. i - 1 : ~Waiting(p, j)
  /\ \A s : ~Waiting(s, i) /\ (\A j \in 1 .. l : j # i => (Waiting(s, j) <=> Waiting(p, j)))
            => Matched(r, n, v, s, l)
  /\ \A j \in 1 .. l : Waiting(p, j) /\ j # i => \E k \in 2 .. n + 1 : q[k].by = v
  /\ (\A j \in 1 .. l : Waiting(p, j) => j = i) => \A k \in 2 .. n + 1 : q[k].by # v

(* The row of m on ip is on disk, and stays. *)
Safe(q, n, table, m, ip) ==
  /\ <<m, ip>> \in DOMAIN table
  /\ \A i \in 1 .. n : OnRow(q, i, m, ip) => q[i].op = "store"

(* The last write of v in q inserts the row of m on ip, and the row stays. *)
Coming(q, n, v, m, ip) ==
  \E k \in 1 .. n :
    /\ q[k].by = v /\ q[k].op = "store" /\ OnRow(q, k, m, ip)
    /\ \A j \in k + 1 .. n : q[j].by # v /\ (OnRow(q, j, m, ip) => q[j].op = "store")

(* p is the pending insert of the record of m. *)
Guards(p, rec, m) == p.undo.kind = "drop" /\ p.undo.mac = m /\ p.undo.gen = rec[m].gen

LastOnly(p, l) == \A i \in 1 .. l - 1 : p[i].undo.kind = "none"

-----------------------------------------------------------------------------
(* Sections. *)

(* w has queued l writes after the first a, each with an entry to wait on. *)
Appended(S, w, a, b, l) ==
  /\ a <= b /\ l + a = b
  /\ \A i \in 1 .. a : S.q[i] = writes[i]
  /\ \A i \in a + 1 .. b : S.q[i].by = w
  /\ \A i \in 1 .. l : Waiting(S.pend, i)
  /\ LastOnly(S.pend, l)

(* The record of m is the one of before, and its row is not deleted. *)
Kept(S, a, b, m) ==
  /\ m \in DOMAIN records
  /\ S.rec[m].ip = records[m].ip /\ S.rec[m].gen = records[m].gen
  /\ \A i \in a + 1 .. b : S.q[i].mac = m => S.q[i].op = "store"

(* The record of m is new, and the last write queued is its insert. *)
Fresh(S, b, l, m) ==
  /\ l \in 1 .. b /\ Guards(S.pend[l], S.rec, m) /\ S.rec[m].gen \notin UsedGens(m)
  /\ S.q[b].op = "store" /\ OnRow(S.q, b, m, S.rec[m].ip)

SectionOf(S, w) ==
  \E a, b, l \in Nat :
    /\ a = Len(writes) /\ b = Len(S.q) /\ l = Len(S.pend)
    /\ Appended(S, w, a, b, l)
    /\ \A m \in DOMAIN S.rec : Kept(S, a, b, m) \/ Fresh(S, b, l, m)
    /\ \A i \in 1 .. l : S.pend[i].undo.kind = "drop" =>
         S.pend[i].undo.mac \in DOMAIN S.rec /\ Fresh(S, b, l, S.pend[i].undo.mac)

-----------------------------------------------------------------------------
(* The invariant. *)

Pends == [v \in Workers |-> workers[v].pend]

Guarded(rec, P, m) == \E v \in Workers : \E i \in 1 .. Len(P[v]) : Guards(P[v][i], rec, m)

(* What the result of a pending insert tells about its row. *)
Backed(q, n, table, v, m, ip, result) ==
  /\ result = "ok" => Safe(q, n, table, m, ip)
  /\ result = "waiting" => Coming(q, n, v, m, ip)

(* Every goroutine waits for its own writes, at most the last of which has an *)
(* undo; every record has a row that stays, or its insert is pending; and an  *)
(* insert that was not refused has its row on disk or on its way.             *)
LeasesOK(rec, q, n, table, P) ==
  /\ \A v \in Workers : Matched(q, n, v, P[v], Len(P[v])) /\ LastOnly(P[v], Len(P[v]))
  /\ \A m \in DOMAIN rec : Safe(q, n, table, m, rec[m].ip) \/ Guarded(rec, P, m)
  /\ \A m \in DOMAIN rec : \A v \in Workers : \A i \in 1 .. Len(P[v]) :
       Guards(P[v][i], rec, m) => Backed(q, n, table, v, m, rec[m].ip, P[v][i].result)

LeaseInv ==
  (status = "up" /\ writer # "off") => LeasesOK(records, writes, Len(writes), db, Pends)

(* The table after the writer's step. *)
Wrote(table, new, w, result) == IF result = "ok" THEN new = Exec(table, w) ELSE new = table

(* With any writes failing, at any moment and in any order, a lease in memory *)
(* has a row on disk or on its way, or is one whose own insert is still to be *)
(* settled and will be taken back (recordLease, settle, freeUnrecorded).      *)
THEOREM LeasesAreWritten == Spec => []LeaseWritten
<1>MatchedNone.
    ASSUME NEW q, NEW n \in Nat, NEW v, NEW p, NEW l \in Nat, Matched(q, n, v, p, l),
           \A i \in 1 .. l : ~Waiting(p, i)
    PROVE  /\ \A k \in 1 .. n : q[k].by # v
           /\ \A r : Matched(q, n, v, r, 0)
  <2> USE <1>MatchedNone
  <2>1. \A k \in 1 .. n : q[k].by # v
    BY DEF Matched
  <2>2. ASSUME NEW r PROVE Matched(q, n, v, r, 0)
    <3> DEFINE g == [i \in 1 .. 0 |-> 0]
    <3>1. g \in [1 .. 0 -> Int] /\ \A i \in 1 .. 0 : FALSE
      BY SMTT(60)
    <3> HIDE DEF g
    <3> QED
      BY <2>1, <3>1 DEF Matched
  <2> QED
    BY <2>1, <2>2
(* Another goroutine has queued writes. *)
<1>MatchedOther.
    ASSUME NEW q, NEW n \in Nat, NEW v, NEW p, NEW l \in Nat, Matched(q, n, v, p, l),
           NEW r, NEW b \in Nat, n <= b, \A i \in 1 .. n : r[i] = q[i],
           \A i \in n + 1 .. b : r[i].by # v
    PROVE  Matched(r, b, v, p, l)
  <2> USE <1>MatchedOther
  <2>1. PICK g \in [1 .. l -> Int] :
          /\ \A i \in 1 .. l : Waiting(p, i) => g[i] \in 1 .. n /\ q[g[i]].by = v
          /\ \A i, j \in 1 .. l : Waiting(p, i) /\ Waiting(p, j) /\ i < j => g[i] < g[j]
          /\ \A k \in 1 .. n : q[k].by = v => \E i \in 1 .. l : Waiting(p, i) /\ g[i] = k
    BY DEF Matched
  <2>2. \A k \in 1 .. n : k \in 1 .. b
    BY SMTT(60)
  <2>3. \A k \in 1 .. b : k \in 1 .. n \/ k \in n + 1 .. b
    BY SMTT(60)
  <2>4. \A i \in 1 .. l : Waiting(p, i) => g[i] \in 1 .. b /\ r[g[i]].by = v
    BY <2>1, <2>2
  <2>5. \A k \in 1 .. b : r[k].by = v => \E i \in 1 .. l : Waiting(p, i) /\ g[i] = k
    BY <2>1, <2>3
  <2> QED
    BY <2>1, <2>4, <2>5 DEF Matched
(* w has queued its writes, having had none. *)
<1>MatchedNew.
    ASSUME NEW q, NEW n \in Nat, NEW w, \A k \in 1 .. n : q[k].by # w,
           NEW r, NEW b \in Nat, n <= b, \A i \in 1 .. n : r[i] = q[i],
           \A i \in n + 1 .. b : r[i].by = w,
           NEW p, NEW l \in Nat, l + n = b, \A i \in 1 .. l : Waiting(p, i)
    PROVE  Matched(r, b, w, p, l)
  <2> USE <1>MatchedNew
  <2> DEFINE g == [i \in 1 .. l |-> n + i]
  <2>1. g \in [1 .. l -> Int] /\ \A i \in 1 .. l : g[i] = n + i
    BY SMTT(60)
  <2> HIDE DEF g
  <2>2. \A i \in 1 .. l : n + i \in 1 .. b /\ n + i \in n + 1 .. b
    BY SMTT(60)
  <2>3. \A i, j \in 1 .. l : i < j => g[i] < g[j]
    BY <2>1, SMTT(60)
  <2>4. \A k \in n + 1 .. b : k - n \in 1 .. l /\ n + (k - n) = k
    BY SMTT(60)
  <2>5. \A k \in 1 .. b : k \in 1 .. n \/ k \in n + 1 .. b
    BY SMTT(60)
  <2>6. ASSUME NEW k \in 1 .. b, r[k].by = w
        PROVE  \E i \in 1 .. l : Waiting(p, i) /\ g[i] = k
    <3>1. k \in n + 1 .. b
      BY <2>5, <2>6
    <3>2. k - n \in 1 .. l /\ g[k - n] = k
      BY <2>1, <2>4, <3>1
    <3> QED
      BY <3>2
  <2>7. \A i \in 1 .. l : g[i] \in 1 .. b /\ r[g[i]].by = w
    BY <2>1, <2>2
  <2> QED
    BY <2>1, <2>3, <2>6, <2>7 DEF Matched
(* The writer has taken a write of another goroutine ... *)
<1>MatchedTakeOther.
    ASSUME NEW q, NEW n \in Nat, NEW v, NEW p, NEW l \in Nat, Matched(q, n + 1, v, p, l),
           q[1].by # v, NEW r, \A i \in 1 .. n : r[i] = q[i + 1]
    PROVE  Matched(r, n, v, p, l)
  <2> USE <1>MatchedTakeOther
  <2>1. PICK g \in [1 .. l -> Int] :
          /\ \A i \in 1 .. l : Waiting(p, i) => g[i] \in 1 .. n + 1 /\ q[g[i]].by = v
          /\ \A i, j \in 1 .. l : Waiting(p, i) /\ Waiting(p, j) /\ i < j => g[i] < g[j]
          /\ \A k \in 1 .. n + 1 : q[k].by = v => \E i \in 1 .. l : Waiting(p, i) /\ g[i] = k
    BY DEF Matched
  <2> DEFINE h == [i \in 1 .. l |-> g[i] - 1]
  <2>2. h \in [1 .. l -> Int] /\ \A i \in 1 .. l : h[i] = g[i] - 1 /\ g[i] \in Int
    BY SMTT(60)
  <2> HIDE DEF h
  <2>3. \A x \in 1 .. n + 1 : x # 1 => x - 1 \in 1 .. n /\ (x - 1) + 1 = x
    BY SMTT(60)
  <2>4. ASSUME NEW i \in 1 .. l, Waiting(p, i) PROVE h[i] \in 1 .. n /\ r[h[i]].by = v
    <3>1. g[i] \in 1 .. n + 1 /\ g[i] # 1 /\ q[g[i]].by = v
      BY <2>1, <2>4
    <3>2. h[i] \in 1 .. n /\ h[i] + 1 = g[i]
      BY <2>2, <2>3, <3>1
    <3> QED
      BY <3>1, <3>2
  <2>5. ASSUME NEW i \in 1 .. l, NEW j \in 1 .. l, Waiting(p, i), Waiting(p, j), i < j
        PROVE  h[i] < h[j]
    <3>1. g[i] < g[j] /\ g[i] \in Int /\ g[j] \in Int
      BY <2>1, <2>5
    <3>2. g[i] - 1 < g[j] - 1
      BY <3>1, SMTT(60)
    <3> QED
      BY <2>2, <3>2
  <2>6. ASSUME NEW k \in 1 .. n, r[k].by = v PROVE \E i \in 1 .. l : Waiting(p, i) /\ h[i] = k
    <3>1. k + 1 \in 1 .. n + 1 /\ q[k + 1].by = v /\ (k + 1) - 1 = k
      BY <2>6, SMTT(60)
    <3>2. PICK i \in 1 .. l : Waiting(p, i) /\ g[i] = k + 1
      BY <2>1, <3>1
    <3> QED
      BY <2>2, <3>1, <3>2
  <2> QED
    BY <2>2, <2>4, <2>5, <2>6 DEF Matched
(* ... or v's own: its oldest waiting entry i is the one answered. *)
<1>MatchedTakeOwn.
    ASSUME NEW q, NEW n \in Nat, NEW v, NEW p, NEW l \in Nat, Matched(q, n + 1, v, p, l),
           q[1].by = v, NEW r, \A i \in 1 .. n : r[i] = q[i + 1]
    PROVE  \E i \in 1 .. l : Answers(q, r, n, v, p, l, i)
  <2> USE <1>MatchedTakeOwn
  <2>1. PICK g \in [1 .. l -> Int] :
          /\ \A i \in 1 .. l : Waiting(p, i) => g[i] \in 1 .. n + 1 /\ q[g[i]].by = v
          /\ \A i, j \in 1 .. l : Waiting(p, i) /\ Waiting(p, j) /\ i < j => g[i] < g[j]
          /\ \A k \in 1 .. n + 1 : q[k].by = v => \E i \in 1 .. l : Waiting(p, i) /\ g[i] = k
    BY DEF Matched
  <2>2. PICK i \in 1 .. l : Waiting(p, i) /\ g[i] = 1
    <3>1. 1 \in 1 .. n + 1
      BY SMTT(60)
    <3> QED
      BY <2>1, <3>1
  <2>3. ASSUME NEW j \in 1 .. l, Waiting(p, j), j # i
        PROVE  i < j /\ g[j] \in 2 .. n + 1 /\ q[g[j]].by = v
    <3>1. g[j] \in 1 .. n + 1 /\ q[g[j]].by = v
      BY <2>1, <2>3
    <3>2. ~(j < i)
      <4>1. j < i => g[j] < 1
        BY <2>1, <2>2, <2>3
      <4> QED
        BY <3>1, <4>1, SMTT(60)
    <3>3. i < j
      BY <2>3, <3>2, SMTT(60)
    <3>4. 1 < g[j]
      BY <2>1, <2>2, <2>3, <3>3
    <3> QED
      BY <3>1, <3>3, <3>4, SMTT(60)
  <2>4. \A j \in 1 .. i - 1 : ~Waiting(p, j)
    <3>1. \A j \in 1 .. i - 1 : j \in 1 .. l /\ j # i /\ ~(i < j)
      BY SMTT(60)
    <3> QED
      BY <2>3, <3>1
  <2>5. \A j \in 1 .. l : Waiting(p, j) /\ j # i => \E k \in 2 .. n + 1 : q[k].by = v
    BY <2>3
  <2>6. ASSUME \A j \in 1 .. l : Waiting(p, j) => j = i, NEW k \in 2 .. n + 1, q[k].by = v
        PROVE  FALSE
    <3>1. k \in 1 .. n + 1 /\ k # 1
      BY SMTT(60)
    <3>2. PICK j \in 1 .. l : Waiting(p, j) /\ g[j] = k
      BY <2>1, <2>6, <3>1
    <3> QED
      BY <2>2, <2>6, <3>1, <3>2
  <2>7. ASSUME NEW s, ~Waiting(s, i),
               \A j \in 1 .. l : j # i => (Waiting(s, j) <=> Waiting(p, j))
        PROVE  Matched(r, n, v, s, l)
    <3> DEFINE h == [j \in 1 .. l |-> g[j] - 1]
    <3>1. h \in [1 .. l -> Int] /\ \A j \in 1 .. l : h[j] = g[j] - 1 /\ g[j] \in Int
      BY SMTT(60)
    <3> HIDE DEF h
    <3>2. \A x \in 2 .. n + 1 : x - 1 \in 1 .. n /\ (x - 1) + 1 = x
      BY SMTT(60)
    <3>3. \A j \in 1 .. l : Waiting(s, j) => j # i /\ Waiting(p, j)
      BY <2>7
    <3>4. ASSUME NEW j \in 1 .. l, Waiting(s, j) PROVE h[j] \in 1 .. n /\ r[h[j]].by = v
      <4>1. g[j] \in 2 .. n + 1 /\ q[g[j]].by = v
        BY <2>3, <3>3, <3>4
      <4>2. h[j] \in 1 .. n /\ h[j] + 1 = g[j]
        BY <3>1, <3>2, <4>1
      <4> QED
        BY <4>1, <4>2
    <3>5. \A j, k \in 1 .. l : Waiting(s, j) /\ Waiting(s, k) /\ j < k => h[j] < h[k]
      <4>1. \A x, y \in Int : x < y => x - 1 < y - 1
        BY SMTT(60)
      <4> QED
        BY <2>1, <3>1, <3>3, <4>1, SMTT(60)
    <3>6. ASSUME NEW k \in 1 .. n, r[k].by = v PROVE \E j \in 1 .. l : Waiting(s, j) /\ h[j] = k
      <4>1. k + 1 \in 1 .. n + 1 /\ q[k + 1].by = v /\ (k + 1) - 1 = k /\ k + 1 # 1
        BY <3>6, SMTT(60)
      <4>2. PICK j \in 1 .. l : Waiting(p, j) /\ g[j] = k + 1
        BY <2>1, <4>1
      <4>3. j # i
        BY <2>2, <4>1, <4>2
      <4> QED
        BY <2>7, <3>1, <4>1, <4>2, <4>3
    <3> QED
      BY <3>1, <3>4, <3>5, <3>6 DEF Matched
  <2> QED
    BY <2>2, <2>4, <2>5, <2>6, <2>7 DEF Answers
<1>ClearedAppended.
    ASSUME LockedOK(Locked), NEW S, LockedOK(S), NEW w, NEW D, Cleared(Locked, S, D, w),
           NEW a \in Nat, NEW b \in Nat, NEW l \in Nat,
           a = Len(writes), b = Len(S.q), l = Len(S.pend)
    PROVE  /\ Appended(S, w, a, b, l) /\ Plain(S)
           /\ \A i \in a + 1 .. b : S.q[i].op = "remove" /\ S.q[i].mac \in D
           /\ \A m \in DOMAIN S.rec : m \in DOMAIN records \ D /\ S.rec[m] = records[m]
  <2> USE <1>ClearedAppended
  <2>1. Locked.q = writes /\ Locked.pend = <<>> /\ Locked.rec = records /\ Len(Locked.pend) = 0
    BY SeqEmpty DEF Locked
  <2>2. Plain(Locked)
    BY <2>1, SMTT(60) DEF Plain
  <2>3. Plain(S)
    BY <2>2, ClearedPlain
  <2>4. /\ a <= b /\ l + a = 0 + b
        /\ \A i \in 1 .. a : S.q[i] = writes[i]
        /\ \A i \in a + 1 .. b : /\ S.q[i].op = "remove" /\ S.q[i].by = w
                                 /\ S.q[i].mac \in D
    BY <2>1 DEF Cleared
  <2>5. \A i \in 1 .. l : Waiting(S.pend, i) /\ S.pend[i].undo.kind = "none"
    BY <2>3 DEF Plain, Waiting
  <2>6. LastOnly(S.pend, l)
    BY <2>5, SMTT(60) DEF LastOnly
  <2>7. \A m \in DOMAIN S.rec : m \in DOMAIN records \ D /\ S.rec[m] = records[m]
    BY <2>1 DEF Cleared
  <2>8. l + a = b
    BY <2>4, SMTT(60)
  <2> QED
    BY <2>3, <2>4, <2>5, <2>6, <2>7, <2>8 DEF Appended
<1>ClearedSection.
    ASSUME LockedOK(Locked), NEW S, LockedOK(S), NEW w, NEW D, Cleared(Locked, S, D, w)
    PROVE  SectionOf(S, w)
  <2> USE <1>ClearedSection
  <2>1. PICK a \in Nat, b \in Nat, l \in Nat : a = Len(writes) /\ b = Len(S.q) /\ l = Len(S.pend)
    <3>1. Locked.q = writes
      BY DEF Locked
    <3> QED
      BY <3>1, LockedLens
  <2>2. /\ Appended(S, w, a, b, l) /\ Plain(S)
        /\ \A i \in a + 1 .. b : S.q[i].op = "remove" /\ S.q[i].mac \in D
        /\ \A m \in DOMAIN S.rec : m \in DOMAIN records \ D /\ S.rec[m] = records[m]
    BY <2>1, <1>ClearedAppended, SMTT(60)
  <2>3. \A m \in DOMAIN S.rec : Kept(S, a, b, m)
    BY <2>2, SMTT(60) DEF Kept
  <2>4. \A i \in 1 .. l : S.pend[i].undo.kind # "drop"
    BY <2>1, <2>2 DEF Plain
  <2> QED
    BY <2>1, <2>2, <2>3, <2>4, SMTT(60) DEF SectionOf
<1>StoredSection.
    ASSUME LockedOK(Locked), NEW T, LockedOK(T), NEW w \in Workers, NEW D, Cleared(Locked, T, D, w),
           NEW S, LockedOK(S), NEW m \in Macs, NEW rec \in Record, NEW kind, Stored(T, S, m, rec, kind, w),
           \/ kind = "drop" /\ rec.gen \notin UsedGens(m)
           \/ /\ kind = "renew" /\ m \in DOMAIN T.rec
              /\ rec.ip = T.rec[m].ip /\ rec.gen = T.rec[m].gen
    PROVE  SectionOf(S, w)
  <2> USE <1>StoredSection
  <2>1. PICK a \in Nat, b \in Nat, l \in Nat : a = Len(writes) /\ b = Len(T.q) /\ l = Len(T.pend)
    <3>1. Locked.q = writes
      BY DEF Locked
    <3> QED
      BY <3>1, LockedLens
  <2>2. /\ Appended(T, w, a, b, l) /\ Plain(T)
        /\ \A i \in a + 1 .. b : T.q[i].op = "remove" /\ T.q[i].mac \in D
        /\ \A n \in DOMAIN T.rec : n \in DOMAIN records \ D /\ T.rec[n] = records[n]
    BY <2>1, <1>ClearedAppended, SMTT(60)
  <2>3. PICK u \in UndoSet : /\ u.kind = kind /\ u.mac = m /\ u.gen = rec.gen
                             /\ S.pend = Append(T.pend, Pending(u))
    BY DEF Stored
  <2>4. /\ T.q \in Seq(WriteSet) /\ Store(m, rec, w) \in WriteSet
        /\ T.pend \in Seq(PendingSet) /\ Pending(u) \in PendingSet
        /\ Pending(u).undo = u /\ Pending(u).result = "waiting"
    BY DEF LockedOK, Store, WriteSet, Record, Pending, PendingSet
  <2>5. /\ Len(S.q) = b + 1 /\ \A i \in 1 .. b : S.q[i] = T.q[i]
        /\ S.q[b + 1] = Store(m, rec, w)
    BY <2>1, <2>4, SeqAppend, SMTT(60) DEF Stored
  <2>6. /\ Len(S.pend) = l + 1 /\ \A i \in 1 .. l : S.pend[i] = T.pend[i]
        /\ S.pend[l + 1] = Pending(u)
    BY <2>1, <2>3, <2>4, SeqAppend, SMTT(60)
  <2>7. /\ S.q[b + 1].op = "store" /\ S.q[b + 1].by = w
        /\ S.q[b + 1].mac = m /\ S.q[b + 1].ip = rec.ip
    BY <2>5, SMTT(60) DEF Store
  <2>8. /\ DOMAIN S.rec = DOMAIN T.rec \cup {m} /\ S.rec[m] = rec
        /\ \A n \in DOMAIN T.rec \ {m} : S.rec[n] = T.rec[n]
    BY DEF Stored, With
  <2>9. /\ \A i \in a + 1 .. b + 1 : i \in a + 1 .. b \/ i = b + 1
        /\ \A i \in 1 .. l + 1 : i \in 1 .. l \/ i = l + 1
        /\ \A i \in 1 .. (l + 1) - 1 : i \in 1 .. l
        /\ a <= b /\ l + a = b
        /\ \A i \in 1 .. a : i \in 1 .. b
        /\ \A i \in a + 1 .. b : i \in 1 .. b
    BY <2>2, SMTT(60) DEF Appended
  <2>10. Appended(S, w, a, b + 1, l + 1)
    <3>1. a <= b + 1 /\ (l + 1) + a = b + 1
      BY <2>9, SMTT(60)
    <3>2. \A i \in 1 .. a : S.q[i] = writes[i]
      BY <2>2, <2>5, <2>9 DEF Appended
    <3>3. \A i \in a + 1 .. b + 1 : S.q[i].by = w
      BY <2>2, <2>5, <2>7, <2>9, SMTT(60) DEF Appended
    <3>4. \A i \in 1 .. l + 1 : Waiting(S.pend, i)
      BY <2>2, <2>4, <2>6, <2>9 DEF Appended, Waiting
    <3>5. LastOnly(S.pend, l + 1)
      BY <2>1, <2>2, <2>6, <2>9, ZenonT(60) DEF Plain, LastOnly
    <3> QED
      BY <3>1, <3>2, <3>3, <3>4, <3>5 DEF Appended
  <2>11. ASSUME NEW n \in DOMAIN T.rec \ {m} PROVE Kept(S, a, b + 1, n)
    <3>1. S.rec[n] = records[n] /\ n \in DOMAIN records \ D
      BY <2>2, <2>8
    <3>2. \A i \in a + 1 .. b + 1 : S.q[i].mac # n
      BY <2>2, <2>5, <2>7, <2>9, <3>1, SMTT(60)
    <3> QED
      BY <3>1, <3>2 DEF Kept
  <2>12. kind = "drop" => Fresh(S, b + 1, l + 1, m)
    <3>1. l + 1 \in 1 .. b + 1
      BY <2>9, SMTT(60)
    <3> QED
      BY <2>3, <2>4, <2>6, <2>7, <2>8, <3>1 DEF Fresh, Guards, OnRow
  <2>13. kind = "renew" => Kept(S, a, b + 1, m)
    <3> SUFFICES ASSUME kind = "renew" PROVE Kept(S, a, b + 1, m)
      OBVIOUS
    <3>1. m \in DOMAIN records \ D /\ rec.ip = records[m].ip /\ rec.gen = records[m].gen
      BY <2>2
    <3>2. \A i \in a + 1 .. b : S.q[i].mac \in D
      <4>1. \A i \in a + 1 .. b : S.q[i] = T.q[i] /\ T.q[i].mac \in D
        BY <2>2, <2>5, <2>9
      <4> QED
        BY <4>1
    <3>3. \A i \in a + 1 .. b : S.q[i].mac # m
      BY <3>1, <3>2
    <3> QED
      BY <2>7, <2>8, <2>9, <3>1, <3>3 DEF Kept
  <2>14. \A i \in 1 .. l + 1 : S.pend[i].undo.kind = "drop" =>
           S.pend[i].undo.mac = m /\ kind = "drop"
    BY <2>1, <2>2, <2>3, <2>4, <2>6, <2>9, SMTT(60) DEF Plain
  <2>15. \A n \in DOMAIN S.rec : Kept(S, a, b + 1, n) \/ Fresh(S, b + 1, l + 1, n)
    BY <2>8, <2>11, <2>12, <2>13
  <2>16. \A i \in 1 .. l + 1 : S.pend[i].undo.kind = "drop" =>
           S.pend[i].undo.mac \in DOMAIN S.rec /\ Fresh(S, b + 1, l + 1, S.pend[i].undo.mac)
    BY <2>8, <2>12, <2>14
  <2>17. b + 1 \in Nat /\ l + 1 \in Nat
    BY SMTT(60)
  <2> QED
    BY <2>1, <2>5, <2>6, <2>10, <2>15, <2>16, <2>17 DEF SectionOf
<1>LeaseForSection.
    ASSUME Good(Locked), NEW m \in Macs, NewGen(m) \in Gens \ UsedGens(m), NEW t \in Nat,
           NEW w \in Workers, NEW r \in LeaseFor(Locked, m, t, w)
    PROVE  SectionOf(r.st, w)
  <2> USE <1>LeaseForSection
  <2>1. \/ Refused(Locked, r, t, w) \/ Enough(Locked, r, m, t)
        \/ Renewed(Locked, r, m, t, w) \/ Granted(Locked, r, m, t, w)
    BY LeaseForForm
  <2>2. LockedOK(Locked) /\ LockedOK(r.st)
    BY LeaseForOK DEF Answer, Good
  <2>3. CASE Refused(Locked, r, t, w)
    BY <2>2, <2>3, <1>ClearedSection DEF Refused, Lapse
  <2>4. CASE Enough(Locked, r, m, t)
    <3>1. Cleared(Locked, r.st, {}, w)
      BY <2>2, <2>4, ClearedNone DEF Enough
    <3> QED
      BY <2>2, <3>1, <1>ClearedSection
  <2>5. CASE Renewed(Locked, r, m, t, w)
    <3> DEFINE new == [Locked.rec[m] EXCEPT !.expires = RoundUnix(LeaseEnd(t))]
    <3>1. m \in DOMAIN Locked.rec /\ Stored(Locked, r.st, m, new, "renew", w)
      BY <2>5 DEF Renewed
    <3>2. new \in Record /\ new.ip = Locked.rec[m].ip
      BY <2>2, <3>1, RenewUndoOK
    <3>3. new.gen = Locked.rec[m].gen
      <4>1. Locked.rec[m] \in Record
        BY <2>2, <3>1 DEF LockedOK, IsMap
      <4> QED
        BY <4>1 DEF Record
    <3>4. Cleared(Locked, Locked, {}, w)
      BY <2>2, ClearedNone DEF Logged
    <3> HIDE DEF new
    <3> QED
      BY <2>2, <3>1, <3>2, <3>3, <3>4, <1>StoredSection
  <2>6. CASE Granted(Locked, r, m, t, w)
    <3> DEFINE new == [gen |-> NewGen(m), ip |-> r.ip, expires |-> Unix(LeaseEnd(t))]
    <3>1. PICK T : /\ LockedOK(T) /\ Lapse(Locked, T, t, w) /\ r.ip \in IPs
                   /\ Stored(T, r.st, m, new, "drop", w)
      BY <2>6 DEF Granted
    <3>2. PICK D : Cleared(Locked, T, D, w)
      BY <3>1 DEF Lapse
    <3>3. new \in Record /\ new.gen \notin UsedGens(m)
      <4>1. Unix(LeaseEnd(t)) \in Nat
        BY RangeAssumption, SMTT(60) DEF Unix, LeaseEnd, RangeAssumption
      <4> QED
        BY <3>1, <4>1 DEF Record
    <3> HIDE DEF new
    <3> QED
      BY <2>2, <3>1, <3>2, <3>3, <1>StoredSection
  <2> QED
    BY <2>1, <2>3, <2>4, <2>5, <2>6
<1>PendTypes.
    ASSUME IndInv, NEW v \in Workers
    PROVE  /\ Pends[v] = workers[v].pend /\ Pends[v] \in Seq(PendingSet)
           /\ Len(Pends[v]) \in Nat
           /\ \A i \in 1 .. Len(Pends[v]) : Pends[v][i] \in PendingSet
  <2> USE <1>PendTypes
  <2>1. Pends[v] = workers[v].pend /\ Pends[v] \in Seq(PendingSet)
    BY DEF Pends, IndInv, RestOK, WorkerSet
  <2> QED
    BY <2>1, SeqLen
<1>SafeExtend.
    ASSUME NEW q, NEW a \in Nat, NEW table, NEW m, NEW ip, NEW r, NEW b \in Nat, a <= b,
           \A i \in 1 .. a : r[i] = q[i],
           \A i \in a + 1 .. b : r[i].mac = m => r[i].op = "store",
           Safe(q, a, table, m, ip)
    PROVE  Safe(r, b, table, m, ip)
  <2> USE <1>SafeExtend
  <2>1. \A i \in 1 .. b : i \in 1 .. a \/ i \in a + 1 .. b
    BY SMTT(60)
  <2> QED
    BY <2>1 DEF Safe, OnRow
<1>ComingExtend.
    ASSUME NEW q, NEW a \in Nat, NEW m, NEW ip, NEW r, NEW b \in Nat, a <= b,
           \A i \in 1 .. a : r[i] = q[i],
           \A i \in a + 1 .. b : r[i].mac = m => r[i].op = "store",
           NEW v, \A i \in a + 1 .. b : r[i].by # v, Coming(q, a, v, m, ip)
    PROVE  Coming(r, b, v, m, ip)
  <2> USE <1>ComingExtend
  <2>1. PICK k \in 1 .. a :
          /\ q[k].by = v /\ q[k].op = "store" /\ OnRow(q, k, m, ip)
          /\ \A j \in k + 1 .. a : q[j].by # v /\ (OnRow(q, j, m, ip) => q[j].op = "store")
    BY DEF Coming
  <2>2. k \in 1 .. b /\ r[k] = q[k]
    BY SMTT(60)
  <2>3. \A j \in k + 1 .. b : (j \in k + 1 .. a /\ j \in 1 .. a) \/ j \in a + 1 .. b
    BY SMTT(60)
  <2>4. \A j \in k + 1 .. b : r[j].by # v /\ (OnRow(r, j, m, ip) => r[j].op = "store")
    BY <2>1, <2>3 DEF OnRow
  <2> QED
    BY <2>1, <2>2, <2>4 DEF Coming, OnRow
<1>SectionLeases.
    ASSUME IndInv, Resting, LeaseInv, NEW w, NEW S, Worked(w, S), SectionOf(S, w)
    PROVE  LeaseInv'
  <2> USE <1>SectionLeases
  <2> SUFFICES ASSUME status' = "up", writer' # "off"
               PROVE  LeasesOK(S.rec, S.q, Len(S.q), db, Pends')
    BY DEF LeaseInv, Worked
  <2>1. PICK a \in Nat, b \in Nat, l \in Nat :
          /\ a = Len(writes) /\ b = Len(S.q) /\ l = Len(S.pend)
          /\ Appended(S, w, a, b, l)
          /\ \A m \in DOMAIN S.rec : Kept(S, a, b, m) \/ Fresh(S, b, l, m)
          /\ \A i \in 1 .. l : S.pend[i].undo.kind = "drop" =>
               S.pend[i].undo.mac \in DOMAIN S.rec /\ Fresh(S, b, l, S.pend[i].undo.mac)
    BY DEF SectionOf
  <2>2. LeasesOK(records, writes, a, db, Pends) /\ w \in Workers
    BY <2>1 DEF LeaseInv, Worked
  <2>3. Pends[w] = <<>> /\ Len(Pends[w]) = 0
    BY <2>2, SeqEmpty DEF Resting, Worked, Pends
  <2>4. Pends'[w] = S.pend /\ \A v \in Workers \ {w} : Pends'[v] = Pends[v]
    BY <2>2 DEF Worked, Pends
  <2>5. /\ a <= b /\ l + a = b
        /\ \A i \in 1 .. a : S.q[i] = writes[i]
        /\ \A i \in a + 1 .. b : S.q[i].by = w
        /\ \A i \in 1 .. l : Waiting(S.pend, i)
        /\ LastOnly(S.pend, l)
    BY <2>1 DEF Appended
  <2>6. ASSUME NEW v \in Workers
        PROVE  Matched(S.q, b, v, Pends'[v], Len(Pends'[v])) /\ LastOnly(Pends'[v], Len(Pends'[v]))
    <3>1. CASE v # w
      <4>1. PICK n \in Nat : n = Len(Pends[v])
        BY <1>PendTypes
      <4>2. Matched(writes, a, v, Pends[v], n) /\ LastOnly(Pends[v], n)
        BY <2>2, <4>1 DEF LeasesOK
      <4>3. \A i \in a + 1 .. b : S.q[i].by # v
        BY <2>5, <3>1
      <4>4. Matched(S.q, b, v, Pends[v], n)
        BY <2>5, <4>2, <4>3, <1>MatchedOther
      <4> QED
        BY <2>4, <3>1, <4>1, <4>2, <4>4
    <3>2. CASE v = w
      <4>1. Matched(writes, a, w, Pends[w], 0)
        BY <2>2, <2>3 DEF LeasesOK
      <4>2. \A i \in 1 .. 0 : ~Waiting(Pends[w], i)
        BY SMTT(60)
      <4>3. \A k \in 1 .. a : writes[k].by # w
        BY <4>1, <4>2, <1>MatchedNone
      <4>4. Matched(S.q, b, w, S.pend, l)
        BY <2>5, <4>3, <1>MatchedNew
      <4> QED
        BY <2>1, <2>4, <2>5, <3>2, <4>4
    <3> QED
      BY <3>1, <3>2
  <2>7. ASSUME NEW m \in DOMAIN S.rec, Kept(S, a, b, m)
        PROVE  /\ m \in DOMAIN records /\ S.rec[m].ip = records[m].ip
               /\ S.rec[m].gen = records[m].gen
               /\ Safe(writes, a, db, m, records[m].ip) => Safe(S.q, b, db, m, S.rec[m].ip)
               /\ \A v \in Workers \ {w} :
                    Coming(writes, a, v, m, records[m].ip) => Coming(S.q, b, v, m, S.rec[m].ip)
    <3>1. PICK ip : ip = S.rec[m].ip
      OBVIOUS
    <3>2. /\ m \in DOMAIN records /\ ip = records[m].ip /\ S.rec[m].gen = records[m].gen
          /\ \A i \in a + 1 .. b : S.q[i].mac = m => S.q[i].op = "store"
      BY <2>7, <3>1 DEF Kept
    <3>3. ASSUME Safe(writes, a, db, m, ip) PROVE Safe(S.q, b, db, m, ip)
      BY <2>5, <3>2, <3>3, <1>SafeExtend
    <3>4. ASSUME NEW v \in Workers \ {w}, Coming(writes, a, v, m, ip) PROVE Coming(S.q, b, v, m, ip)
      <4>1. \A i \in a + 1 .. b : S.q[i].by # v
        BY <2>5
      <4> QED
        BY <2>5, <3>2, <3>4, <4>1, <1>ComingExtend
    <3> QED
      BY <3>1, <3>2, <3>3, <3>4
  <2>8. ASSUME NEW m \in DOMAIN S.rec
        PROVE  Safe(S.q, b, db, m, S.rec[m].ip) \/ Guarded(S.rec, Pends', m)
    <3>1. CASE Fresh(S, b, l, m)
      <4>1. l \in 1 .. l /\ Guards(S.pend[l], S.rec, m)
        BY <3>1, SMTT(60) DEF Fresh
      <4> QED
        BY <2>1, <2>2, <2>4, <4>1 DEF Guarded
    <3>2. CASE Kept(S, a, b, m)
      <4>1. m \in DOMAIN records /\ S.rec[m].gen = records[m].gen
        BY <2>7, <3>2
      <4>2. CASE Safe(writes, a, db, m, records[m].ip)
        BY <2>7, <3>2, <4>2
      <4>3. ASSUME NEW v \in Workers, NEW i \in 1 .. Len(Pends[v]), Guards(Pends[v][i], records, m)
            PROVE  Guarded(S.rec, Pends', m)
        <5>1. v # w
          BY <2>3, <4>3, SMTT(60)
        <5>2. Guards(Pends'[v][i], S.rec, m) /\ i \in 1 .. Len(Pends'[v])
          BY <2>4, <4>1, <4>3, <5>1 DEF Guards
        <5> QED
          BY <5>2 DEF Guarded
      <4> QED
        BY <2>2, <4>1, <4>2, <4>3 DEF LeasesOK, Guarded
    <3> QED
      BY <2>1, <3>1, <3>2
  <2>9. ASSUME NEW m \in DOMAIN S.rec, NEW v \in Workers, NEW i \in 1 .. Len(Pends'[v]),
               Guards(Pends'[v][i], S.rec, m)
        PROVE  Backed(S.q, b, db, v, m, S.rec[m].ip, Pends'[v][i].result)
    <3>1. CASE v = w
      <4>1. i \in 1 .. l /\ Pends'[v][i] = S.pend[i] /\ S.pend[i].result = "waiting"
        BY <2>1, <2>4, <2>5, <2>9, <3>1 DEF Waiting
      <4>2. Fresh(S, b, l, m)
        BY <2>1, <2>9, <4>1 DEF Guards
      <4>3. b \in 1 .. b /\ b \in a + 1 .. b /\ \A j \in b + 1 .. b : FALSE
        BY <2>5, <4>2, SMTT(60) DEF Fresh
      <4>4. Coming(S.q, b, v, m, S.rec[m].ip)
        BY <2>5, <3>1, <4>2, <4>3 DEF Fresh, Coming
      <4> QED
        BY <4>1, <4>4 DEF Backed
    <3>2. CASE v # w
      <4>1. i \in 1 .. Len(Pends[v]) /\ Pends'[v][i] = Pends[v][i]
        BY <2>4, <2>9, <3>2
      <4>2. ~Fresh(S, b, l, m)
        <5>1. Pends[v][i] \in Elements(workers[v].pend)
          BY <4>1, <1>PendTypes, SeqLen DEF Elements
        <5>2. Pends[v][i].undo.mac = m /\ Pends[v][i].undo.gen = S.rec[m].gen
          BY <2>9, <4>1 DEF Guards
        <5>3. S.rec[m].gen \in UsedGens(m)
          BY <5>1, <5>2, SMTT(60) DEF UsedGens
        <5> QED
          BY <5>3 DEF Fresh
      <4>3. Kept(S, a, b, m)
        BY <2>1, <4>2
      <4>4. m \in DOMAIN records /\ Guards(Pends[v][i], records, m)
        BY <2>7, <2>9, <4>1, <4>3 DEF Guards
      <4>5. Backed(writes, a, db, v, m, records[m].ip, Pends[v][i].result)
        BY <2>2, <4>1, <4>4 DEF LeasesOK
      <4> QED
        BY <2>7, <3>2, <4>1, <4>3, <4>5 DEF Backed
    <3> QED
      BY <3>1, <3>2
  <2> QED
    BY <2>1, <2>6, <2>8, <2>9 DEF LeasesOK
<1>SafeTake.
    ASSUME NEW q, NEW n \in Nat, NEW table, NEW m, NEW ip, NEW r, \A i \in 1 .. n : r[i] = q[i + 1],
           NEW new, NEW result, Wrote(table, new, q[1], result), Safe(q, n + 1, table, m, ip)
    PROVE  Safe(r, n, new, m, ip)
  <2> USE <1>SafeTake
  <2>1. 1 \in 1 .. n + 1 /\ \A i \in 1 .. n : i + 1 \in 1 .. n + 1
    BY SMTT(60)
  <2>2. \A i \in 1 .. n : OnRow(r, i, m, ip) => r[i].op = "store"
    BY <2>1 DEF Safe, OnRow
  <2>3. <<m, ip>> \in DOMAIN table /\ (OnRow(q, 1, m, ip) => q[1].op = "store")
    BY <2>1 DEF Safe
  <2>4. <<m, ip>> \in DOMAIN new
    <3>1. CASE new = table
      BY <2>3, <3>1
    <3>2. CASE new = Exec(table, q[1])
      <4>1. CASE q[1].op = "store"
        BY <2>3, <3>2, <4>1 DEF Exec, With
      <4>2. CASE q[1].op # "store"
        <5>1. <<m, ip>> # <<q[1].mac, q[1].ip>>
          BY <2>3, <4>2 DEF OnRow
        <5> QED
          BY <2>3, <3>2, <4>2, <5>1 DEF Exec, Without
      <4> QED
        BY <4>1, <4>2
    <3> QED
      BY <3>1, <3>2 DEF Wrote
  <2> QED
    BY <2>2, <2>4 DEF Safe
(* An insert that is not the write taken is still to come. *)
<1>ComingTake.
    ASSUME NEW q, NEW n \in Nat, NEW v, NEW m, NEW ip, NEW r, \A i \in 1 .. n : r[i] = q[i + 1],
           Coming(q, n + 1, v, m, ip), q[1].by # v \/ \E k \in 2 .. n + 1 : q[k].by = v
    PROVE  Coming(r, n, v, m, ip)
  <2> USE <1>ComingTake
  <2>1. PICK k \in 1 .. n + 1 :
          /\ q[k].by = v /\ q[k].op = "store" /\ OnRow(q, k, m, ip)
          /\ \A j \in k + 1 .. n + 1 : q[j].by # v /\ (OnRow(q, j, m, ip) => q[j].op = "store")
    BY DEF Coming
  <2>2. k # 1
    BY <2>1, SMTT(60)
  <2>3. PICK h \in 1 .. n : h + 1 = k
    <3>1. k - 1 \in 1 .. n /\ (k - 1) + 1 = k
      BY <2>2, SMTT(60)
    <3> QED
      BY <3>1
  <2>4. \A j \in h + 1 .. n : j \in 1 .. n /\ j + 1 \in k + 1 .. n + 1
    BY <2>3, SMTT(60)
  <2>5. \A j \in h + 1 .. n : r[j].by # v /\ (OnRow(r, j, m, ip) => r[j].op = "store")
    BY <2>1, <2>4, SMTT(60) DEF OnRow
  <2> QED
    BY <2>1, <2>3, <2>5 DEF Coming, OnRow
(* An insert that is the write taken is on disk. *)
<1>ComingWritten.
    ASSUME NEW q, NEW n \in Nat, NEW v, NEW m, NEW ip, NEW r, \A i \in 1 .. n : r[i] = q[i + 1],
           Coming(q, n + 1, v, m, ip), \A k \in 2 .. n + 1 : q[k].by # v, NEW table
    PROVE  Safe(r, n, Exec(table, q[1]), m, ip)
  <2> USE <1>ComingWritten
  <2>1. PICK k \in 1 .. n + 1 :
          /\ q[k].by = v /\ q[k].op = "store" /\ OnRow(q, k, m, ip)
          /\ \A j \in k + 1 .. n + 1 : q[j].by # v /\ (OnRow(q, j, m, ip) => q[j].op = "store")
    BY DEF Coming
  <2>2. k = 1
    BY <2>1, SMTT(60)
  <2>3. \A j \in 1 .. n : j + 1 \in 1 + 1 .. n + 1
    BY SMTT(60)
  <2>4. \A j \in 1 .. n : OnRow(r, j, m, ip) => r[j].op = "store"
    BY <2>1, <2>2, <2>3, SMTT(60) DEF OnRow
  <2>5. <<m, ip>> \in DOMAIN Exec(table, q[1])
    BY <2>1, <2>2 DEF Exec, With, OnRow
  <2> QED
    BY <2>4, <2>5 DEF Safe
(* Only the oldest waiting entry is answered. *)
<1>DeliverAt.
    ASSUME NEW p \in Seq(PendingSet), NEW result \in {"ok", "error"}, NEW i \in 1 .. Len(p),
           Waiting(p, i), \A j \in 1 .. i - 1 : ~Waiting(p, j)
    PROVE  /\ Deliver(p, result)[i].result = result
           /\ \A j \in 1 .. Len(p) : j # i => Deliver(p, result)[j].result = p[j].result
  <2> USE <1>DeliverAt
  <2>1. PICK l \in Nat : l = Len(p)
    BY SeqLen
  <2>2. \A j \in 1 .. l :
          Deliver(p, result)[j].result =
            IF /\ p[j].result = "waiting"
               /\ \A k \in 1 .. j - 1 : p[k].result # "waiting"
            THEN result ELSE p[j].result
    BY <2>1, DeliverForm
  <2>3. Deliver(p, result)[i].result = result
    BY <2>1, <2>2 DEF Waiting
  <2>4. ASSUME NEW j \in 1 .. l, j # i PROVE Deliver(p, result)[j].result = p[j].result
    <3>1. i \in 1 .. l /\ (j \in 1 .. i - 1 \/ i \in 1 .. j - 1)
      BY <2>1, <2>4, SMTT(60)
    <3> QED
      BY <2>2, <3>1 DEF Waiting
  <2> QED
    BY <2>1, <2>3, <2>4
<1>TakeLeases.
    ASSUME IndInv, LeaseInv, NEW result \in {"ok", "error"}, TakeWrite(result),
           Wrote(db, db', writes[1], result)
    PROVE  LeaseInv'
  <2> USE <1>TakeLeases
  <2>1. PICK n \in Nat : Len(writes) = n + 1 /\ Len(writes') = n
    <3>1. Len(writes) \in Nat \ {0} /\ Len(writes') = Len(writes) - 1
      BY TakeWriteForm
    <3>2. Len(writes) - 1 \in Nat /\ Len(writes) = (Len(writes) - 1) + 1
      BY <3>1, SMTT(60)
    <3> QED
      BY <3>1, <3>2
  <2>2. \A i \in 1 .. n : writes'[i] = writes[i + 1]
    BY <2>1, TakeWriteForm
  <2>3. LeasesOK(records, writes, n + 1, db, Pends) /\ records' = records
    BY <2>1, TakeWriteForm DEF LeaseInv
  <2>4. PICK by \in Workers : by = writes[1].by
    BY TakeWriteForm DEF WriteSet
  <2>5. /\ Pends'[by] = Deliver(Pends[by], result)
        /\ \A v \in Workers \ {by} : Pends'[v] = Pends[v]
    BY <2>4, TakeWriteForm DEF Pends
  <2>6. PICK l \in Nat : l = Len(Pends[by])
    BY <1>PendTypes
  <2>7. Pends[by] \in Seq(PendingSet)
    BY <1>PendTypes
  <2>8. Len(Pends'[by]) = l /\ \A i \in 1 .. l : Pends'[by][i].undo = Pends[by][i].undo
    BY <2>5, <2>6, <2>7, DeliverForm, SMTT(60)
  <2>9. Matched(writes, n + 1, by, Pends[by], l) /\ LastOnly(Pends[by], l)
    BY <2>3, <2>6 DEF LeasesOK
  <2>10. PICK i \in 1 .. l : Answers(writes, writes', n, by, Pends[by], l, i)
    BY <2>2, <2>4, <2>9, <1>MatchedTakeOwn
  <2>11. /\ Pends'[by][i].result = result
         /\ \A j \in 1 .. l : j # i => Pends'[by][j].result = Pends[by][j].result
    BY <2>5, <2>6, <2>7, <2>10, <1>DeliverAt, SMTT(60) DEF Answers
  <2>12. ASSUME NEW v \in Workers
         PROVE  Matched(writes', n, v, Pends'[v], Len(Pends'[v])) /\ LastOnly(Pends'[v], Len(Pends'[v]))
    <3>1. CASE v = by
      <4>1. ~Waiting(Pends'[by], i)
        BY <2>11 DEF Waiting
      <4>2. \A j \in 1 .. l : j # i => (Waiting(Pends'[by], j) <=> Waiting(Pends[by], j))
        BY <2>11 DEF Waiting
      <4>3. Matched(writes', n, by, Pends'[by], l)
        BY <2>10, <4>1, <4>2 DEF Answers
      <4>4. LastOnly(Pends'[by], l)
        BY <2>8, <2>9, SMTT(60) DEF LastOnly
      <4> QED
        BY <2>8, <3>1, <4>3, <4>4
    <3>2. CASE v # by
      <4>1. PICK k \in Nat : k = Len(Pends[v])
        BY <1>PendTypes
      <4>2. Matched(writes, n + 1, v, Pends[v], k) /\ LastOnly(Pends[v], k)
        BY <2>3, <4>1 DEF LeasesOK
      <4>3. Matched(writes', n, v, Pends[v], k)
        BY <2>2, <2>4, <3>2, <4>2, <1>MatchedTakeOther
      <4> QED
        BY <2>5, <3>2, <4>1, <4>2, <4>3
    <3> QED
      BY <3>1, <3>2
  <2>13. ASSUME NEW m, NEW ip, Safe(writes, n + 1, db, m, ip) PROVE Safe(writes', n, db', m, ip)
    BY <2>2, <2>13, <1>SafeTake
  <2>14. ASSUME NEW m \in DOMAIN records
         PROVE  Safe(writes', n, db', m, records[m].ip) \/ Guarded(records, Pends', m)
    <3>1. CASE Safe(writes, n + 1, db, m, records[m].ip)
      BY <2>13, <3>1
    <3>2. ASSUME NEW v \in Workers, NEW j \in 1 .. Len(Pends[v]), Guards(Pends[v][j], records, m)
          PROVE  Guarded(records, Pends', m)
      <4>1. j \in 1 .. Len(Pends'[v]) /\ Guards(Pends'[v][j], records, m)
        BY <2>5, <2>6, <2>8, <3>2 DEF Guards
      <4> QED
        BY <4>1 DEF Guarded
    <3> QED
      BY <2>3, <3>1, <3>2 DEF LeasesOK, Guarded
  <2>15. ASSUME NEW m \in DOMAIN records, NEW v \in Workers, NEW j \in 1 .. Len(Pends'[v]),
                Guards(Pends'[v][j], records, m)
         PROVE  Backed(writes', n, db', v, m, records[m].ip, Pends'[v][j].result)
    <3>1. PICK ip : ip = records[m].ip
      OBVIOUS
    <3>2. j \in 1 .. Len(Pends[v]) /\ Guards(Pends[v][j], records, m)
      BY <2>5, <2>6, <2>8, <2>15 DEF Guards
    <3>3. Backed(writes, n + 1, db, v, m, ip, Pends[v][j].result)
      BY <2>3, <3>1, <3>2 DEF LeasesOK
    <3>4. CASE v # by
      <4>1. Coming(writes, n + 1, v, m, ip) => Coming(writes', n, v, m, ip)
        BY <2>2, <2>4, <3>4, <1>ComingTake
      <4>2. Pends'[v] = Pends[v]
        BY <2>5, <3>4
      <4> QED
        BY <2>13, <3>1, <3>3, <4>1, <4>2 DEF Backed
    <3>5. CASE v = by /\ j # i
      <4>1. j \in 1 .. l /\ Pends'[v][j].result = Pends[v][j].result
        BY <2>6, <2>11, <3>2, <3>5
      <4>2. ASSUME Pends[v][j].result = "waiting" PROVE Coming(writes', n, v, m, ip)
        <5>1. Waiting(Pends[by], j)
          BY <3>5, <4>2 DEF Waiting
        <5>2. \E k \in 2 .. n + 1 : writes[k].by = v
          BY <2>10, <3>5, <4>1, <5>1 DEF Answers
        <5>3. Coming(writes, n + 1, v, m, ip)
          BY <3>3, <4>2 DEF Backed
        <5> QED
          BY <2>2, <5>2, <5>3, <1>ComingTake
      <4> QED
        BY <2>13, <3>1, <3>3, <4>1, <4>2 DEF Backed
    <3>6. CASE v = by /\ j = i
      <4>1. Pends'[v][j].result = result
        BY <2>11, <3>6
      <4>2. ASSUME result = "ok" PROVE Safe(writes', n, db', m, ip)
        <5>1. Coming(writes, n + 1, by, m, ip)
          BY <2>10, <3>3, <3>6 DEF Answers, Backed, Waiting
        <5>2. ~(i \in 1 .. l - 1)
          BY <2>9, <3>2, <3>6 DEF LastOnly, Guards
        <5>3. ASSUME NEW k \in 1 .. l, Waiting(Pends[by], k) PROVE k = i
          <6>1. ~(k \in 1 .. i - 1)
            BY <2>10, <5>3 DEF Answers
          <6> QED
            BY <5>2, <6>1, SMTT(60)
        <5>4. \A k \in 2 .. n + 1 : writes[k].by # by
          BY <2>10, <5>3 DEF Answers
        <5>5. db' = Exec(db, writes[1])
          BY <4>2 DEF Wrote
        <5> QED
          BY <2>2, <5>1, <5>4, <5>5, <1>ComingWritten
      <4> QED
        BY <3>1, <4>1, <4>2 DEF Backed
    <3> QED
      BY <3>4, <3>5, <3>6
  <2>16. LeasesOK(records', writes', Len(writes'), db', Pends')
    BY <2>1, <2>3, <2>12, <2>14, <2>15 DEF LeasesOK
  <2> QED
    BY <2>16 DEF LeaseInv
(* A goroutine that goes on either has its row on disk or takes its record    *)
(* back.                                                                      *)
<1>SettleLeases.
    ASSUME IndInv, LeaseInv, NEW w \in Workers, Settle(w)
    PROVE  LeaseInv'
  <2> USE <1>SettleLeases
  <2> SUFFICES ASSUME status' = "up", writer' # "off"
               PROVE  LeasesOK(records', writes', Len(writes'), db', Pends')
    BY DEF LeaseInv
  <2>1. /\ status = "up" /\ UNCHANGED <<now, status, writer, db, writes>>
        /\ workers'[w] = Idle /\ (\A v \in Workers \ {w} : workers'[v] = workers[v])
        /\ records' = Undone(w).rec /\ DOMAIN records' \subseteq DOMAIN records
        /\ \A m \in DOMAIN records' : /\ records'[m].ip = records[m].ip
                                      /\ records'[m].gen = records[m].gen
    BY SettleForm
  <2>2. PICK n \in Nat : n = Len(writes)
    BY SeqLen DEF IndInv, TablesOK
  <2>3. LeasesOK(records, writes, n, db, Pends)
    BY <2>1, <2>2 DEF LeaseInv
  <2>4. /\ Pends'[w] = <<>> /\ Len(Pends'[w]) = 0
        /\ \A v \in Workers \ {w} : Pends'[v] = Pends[v]
    <3>1. Pends'[w] = <<>> /\ \A v \in Workers \ {w} : Pends'[v] = Pends[v]
      BY <2>1, SMTT(60) DEF Pends, Idle
    <3> QED
      BY <3>1, SeqEmpty
  <2>5. PICK l \in Nat : l = Len(Pends[w])
    BY <1>PendTypes
  <2>6. /\ \A i \in 1 .. l : Pends[w][i] \in PendingSet /\ Pends[w][i] \in Elements(workers[w].pend)
        /\ \A p \in Elements(workers[w].pend) : \E i \in 1 .. l : p = Pends[w][i]
    <3>1. Pends[w] = workers[w].pend /\ Pends[w] \in Seq(PendingSet)
      BY <1>PendTypes
    <3>2. DOMAIN workers[w].pend = 1 .. l /\ \A i \in 1 .. l : Pends[w][i] \in PendingSet
      BY <2>5, <3>1, SeqLen
    <3> QED
      BY <3>1, <3>2 DEF Elements
  <2>7. \A i \in 1 .. l : ~Waiting(Pends[w], i) /\ Pends[w][i].result \in {"ok", "error"}
    <3>1. \A p \in Elements(workers[w].pend) : p.result # "waiting"
      BY <2>1 DEF Settle, Answered
    <3> QED
      BY <2>6, <3>1 DEF Waiting, PendingSet
  <2>8. ASSUME NEW v \in Workers
        PROVE  Matched(writes, n, v, Pends'[v], Len(Pends'[v])) /\ LastOnly(Pends'[v], Len(Pends'[v]))
    <3>1. CASE v # w
      BY <2>3, <2>4, <3>1 DEF LeasesOK
    <3>2. CASE v = w
      <4>1. Matched(writes, n, w, Pends[w], l)
        BY <2>3, <2>5 DEF LeasesOK
      <4>2. Matched(writes, n, w, Pends'[w], 0)
        BY <2>7, <4>1, <1>MatchedNone
      <4>3. LastOnly(Pends'[w], 0)
        BY SMTT(60) DEF LastOnly
      <4> QED
        BY <2>4, <3>2, <4>2, <4>3
    <3> QED
      BY <3>1, <3>2
  <2>9. ASSUME NEW m \in DOMAIN records', NEW i \in 1 .. l, Guards(Pends[w][i], records, m)
        PROVE  Safe(writes, n, db, m, records[m].ip)
    <3>1. CASE Pends[w][i].result = "ok"
      BY <2>1, <2>3, <2>5, <2>9, <3>1 DEF LeasesOK, Backed
    <3>2. CASE Pends[w][i].result = "error"
      <4> DEFINE failed == {p \in Failed(w) : p.undo.kind # "none"}
      <4>1. LastOnly(Pends[w], l) /\ Pends[w][i].undo.kind = "drop"
        BY <2>3, <2>5, <2>9 DEF LeasesOK, Guards
      <4>2. \A j \in 1 .. l : j # i => Pends[w][j].undo.kind = "none"
        <5>1. ~(i \in 1 .. l - 1)
          BY <4>1 DEF LastOnly
        <5>2. \A j \in 1 .. l : j # i => j \in 1 .. l - 1
          BY <5>1, SMTT(60)
        <5> QED
          BY <4>1, <5>2 DEF LastOnly
      <4>3. failed = {Pends[w][i]}
        BY <2>6, <3>2, <4>1, <4>2, SMTT(60) DEF Failed
      <4>4. Undone(w) = Apply(Locked, Pends[w][i].undo)
        <5>1. (CHOOSE p \in failed : TRUE) = Pends[w][i]
          BY <4>3
        <5> QED
          BY <4>3, <5>1 DEF Undone
      <4> HIDE DEF failed
      <4>5. Locked.rec = records /\ LockedOK(Locked) /\ m \in DOMAIN records
        BY <2>1, LockedGood DEF IndInv, Good, Locked
      <4>6. Undone(w).rec = Without(records, {m})
        <5> DEFINE D == {m}
        <5>1. Undone(w) = FreeBit([Locked EXCEPT !.rec = Without(@, D)], records[m].ip)
          BY <2>9, <4>1, <4>4, <4>5 DEF Apply, Guards
        <5> HIDE DEF D
        <5>2. Undone(w).rec = Without(records, D)
          BY <4>5, <5>1 DEF FreeBit, LockedOK
        <5> QED
          BY <5>2 DEF D
      <4> QED
        BY <2>1, <4>6 DEF Without
    <3> QED
      BY <2>7, <3>1, <3>2
  <2>10. ASSUME NEW m \in DOMAIN records'
         PROVE  Safe(writes, n, db, m, records'[m].ip) \/ Guarded(records', Pends', m)
    <3>1. m \in DOMAIN records /\ records'[m].ip = records[m].ip /\ records'[m].gen = records[m].gen
      BY <2>1
    <3>2. CASE Safe(writes, n, db, m, records[m].ip)
      BY <3>1, <3>2
    <3>3. ASSUME NEW v \in Workers, NEW i \in 1 .. Len(Pends[v]), Guards(Pends[v][i], records, m)
          PROVE  Safe(writes, n, db, m, records'[m].ip) \/ Guarded(records', Pends', m)
      <4>1. CASE v = w
        BY <2>5, <2>9, <3>1, <3>3, <4>1
      <4>2. CASE v # w
        <5>1. i \in 1 .. Len(Pends'[v]) /\ Guards(Pends'[v][i], records', m)
          BY <2>4, <3>1, <3>3, <4>2 DEF Guards
        <5> QED
          BY <5>1 DEF Guarded
      <4> QED
        BY <4>1, <4>2
    <3> QED
      BY <2>3, <3>1, <3>2, <3>3 DEF LeasesOK, Guarded
  <2>11. ASSUME NEW m \in DOMAIN records', NEW v \in Workers, NEW i \in 1 .. Len(Pends'[v]),
                Guards(Pends'[v][i], records', m)
         PROVE  Backed(writes, n, db, v, m, records'[m].ip, Pends'[v][i].result)
    <3>1. v # w
      BY <2>4, <2>11, SMTT(60)
    <3>2. /\ m \in DOMAIN records /\ records'[m].ip = records[m].ip
          /\ i \in 1 .. Len(Pends[v]) /\ Pends'[v][i] = Pends[v][i]
          /\ Guards(Pends[v][i], records, m)
      BY <2>1, <2>4, <2>11, <3>1 DEF Guards
    <3> QED
      BY <2>3, <3>2 DEF LeasesOK
  <2> QED
    BY <2>1, <2>2, <2>8, <2>10, <2>11 DEF LeasesOK
<1>RestartLeases.
    ASSUME IndInv, Resting, Restart
    PROVE  LeaseInv'
  <2> USE <1>RestartLeases
  <2>1. /\ writes = <<>> /\ UNCHANGED <<writes, workers, db>>
        /\ \A w \in Workers : Pends'[w] = <<>>
    BY DEF Restart, Resting, Pends
  <2>2. PICK f \in Loads :
          records' = [m \in DOMAIN f |-> [gen |-> CHOOSE g \in Gens : TRUE, ip |-> f[m],
                                          expires |-> db[<<m, f[m]>>]]]
    BY DEF Restart
  <2>3. \A m \in DOMAIN records' : <<m, records'[m].ip>> \in DOMAIN db
    <3>1. \A m \in DOMAIN f : <<m, f[m]>> \in DOMAIN db
      BY DEF Loads
    <3>2. DOMAIN records' = DOMAIN f /\ \A m \in DOMAIN f : records'[m].ip = f[m]
      BY <2>2
    <3> QED
      BY <3>1, <3>2
  <2>4. \A v : Matched(<<>>, 0, v, <<>>, 0) /\ LastOnly(<<>>, 0)
    <3> DEFINE g == [i \in 1 .. 0 |-> 0]
    <3>1. g \in [1 .. 0 -> Int] /\ (\A i \in 1 .. 0 : FALSE) /\ \A i \in 1 .. 0 - 1 : FALSE
      BY SMTT(60)
    <3> HIDE DEF g
    <3> QED
      BY <3>1 DEF Matched, LastOnly
  <2>5. \A m \in DOMAIN records' : Safe(<<>>, 0, db, m, records'[m].ip)
    <3>1. \A i \in 1 .. 0 : FALSE
      BY SMTT(60)
    <3>2. \A m, ip : <<m, ip>> \in DOMAIN db => Safe(<<>>, 0, db, m, ip)
      BY <3>1 DEF Safe
    <3> QED
      BY <2>3, <3>2
  <2>6. Len(<<>>) = 0 /\ \A i \in 1 .. 0 : FALSE
    BY SMTT(60)
  <2>7. LeasesOK(records', <<>>, 0, db, Pends')
    BY <2>1, <2>4, <2>5, <2>6 DEF LeasesOK
  <2> QED
    BY <2>1, <2>6, <2>7 DEF LeaseInv
<1>EveryLease.
    ASSUME IndInv, Resting, LeaseInv, [Next]_vars
    PROVE  LeaseInv'
  <2> USE <1>EveryLease
  <2>1. ASSUME NEW w \in Handlers, NEW m \in Macs, Request(w, m) PROVE LeaseInv'
    <3>1. /\ Good(Locked) /\ w \in Workers /\ now \in Nat /\ NewGen(m) \in Gens \ UsedGens(m)
          /\ \E r \in LeaseFor(Locked, m, now, w) : Worked(w, r.st)
      BY <2>1, RequestWorked
    <3>2. PICK r \in LeaseFor(Locked, m, now, w) : Worked(w, r.st)
      BY <3>1
    <3>3. SectionOf(r.st, w)
      BY <3>1, <1>LeaseForSection
    <3> QED
      BY <3>2, <3>3, <1>SectionLeases
  <2>2. ASSUME NEW w, NEW S, NEW D, LockedOK(Locked), Worked(w, S), Cleared(Locked, S, D, w)
        PROVE  LeaseInv'
    <3>1. SectionOf(S, w)
      BY <2>2, <1>ClearedSection DEF Worked
    <3> QED
      BY <2>2, <3>1, <1>SectionLeases
  <2>3. ASSUME NEW w \in Handlers, NEW m \in Macs, NEW ip \in IPs,
               Release(w, m, ip) \/ Decline(w, m, ip)
        PROVE  LeaseInv'
    <3>1. LockedOK(Locked) /\ \E S : Worked(w, S) /\ GivenUp(Locked, S, m, w)
      BY <2>3, GiveUpWorked
    <3>2. PICK S : Worked(w, S) /\ GivenUp(Locked, S, m, w)
      BY <3>1
    <3>3. \E D : Cleared(Locked, S, D, w)
      BY <3>1, <3>2, ClearedNone DEF GivenUp
    <3> QED
      BY <2>2, <3>1, <3>2, <3>3
  <2>4. CASE SweepOnce
    <3>1. LockedOK(Locked) /\ \E S : Worked(Sweeper, S) /\ Lapse(Locked, S, now, Sweeper)
      BY <2>4, SweepWorked
    <3>2. PICK S, D : Worked(Sweeper, S) /\ Cleared(Locked, S, D, Sweeper)
      BY <3>1 DEF Lapse
    <3> QED
      BY <2>2, <3>1, <3>2
  <2>5. ASSUME NEW w \in Workers, Settle(w) PROVE LeaseInv'
    BY <2>5, <1>SettleLeases
  <2>6. CASE Write
    <3>1. TakeWrite("ok") /\ Wrote(db, db', writes[1], "ok")
      BY <2>6, TakeWriteForm DEF Write, Wrote
    <3> QED
      BY <3>1, <1>TakeLeases
  <2>7. CASE WriteFails
    <3>1. TakeWrite("error") /\ Wrote(db, db', writes[1], "error")
      BY <2>7 DEF WriteFails, Wrote
    <3> QED
      BY <3>1, <1>TakeLeases
  <2>8. CASE Close \/ WriterExits \/ Tick \/ UNCHANGED vars
    <3>1. /\ UNCHANGED <<status, records, writes, db, workers>>
          /\ writer' # "off" => writer # "off"
      BY <2>8 DEF Close, WriterExits, Tick, vars
    <3>2. Pends' = Pends
      BY <3>1 DEF Pends
    <3> QED
      BY <3>1, <3>2 DEF LeaseInv
  <2>9. CASE Crash \/ RestartRefused
    BY <2>9 DEF Crash, RestartRefused, LeaseInv
  <2>10. CASE Restart
    BY <2>10, <1>RestartLeases
  <2> QED
    BY <2>1, <2>3, <2>4, <2>5, <2>6, <2>7, <2>8, <2>9, <2>10 DEF Next
<1>LeasesInductive. Spec => []LeaseInv
  <2>1. Init => LeaseInv
    <3> SUFFICES ASSUME Init PROVE LeasesOK(records, writes, Len(writes), db, Pends)
      BY DEF LeaseInv
    <3>1. writes = <<>> /\ DOMAIN records = {} /\ \A w \in Workers : Pends[w] = <<>>
      BY DEF Init, EmptyMap, Idle, Pends
    <3>2. \A v : Matched(<<>>, 0, v, <<>>, 0) /\ LastOnly(<<>>, 0)
      <4> DEFINE g == [i \in 1 .. 0 |-> 0]
      <4>1. g \in [1 .. 0 -> Int] /\ (\A i \in 1 .. 0 : FALSE) /\ \A i \in 1 .. 0 - 1 : FALSE
        BY SMTT(60)
      <4> HIDE DEF g
      <4> QED
        BY <4>1 DEF Matched, LastOnly
    <3>3. Len(<<>>) = 0
      OBVIOUS
    <3> QED
      BY <3>1, <3>2, <3>3 DEF LeasesOK
  <2>2. IndInv /\ Resting /\ LeaseInv /\ [Next]_vars => LeaseInv'
    BY <1>EveryLease
  <2> QED
    BY <2>1, <2>2, Inductive, AlwaysResting, PTL DEF Spec
<1>1. IndInv /\ LeaseInv => LeaseWritten
  <2> SUFFICES ASSUME IndInv, LeaseInv, status = "up", writer # "off", NEW m \in DOMAIN records
               PROVE  \/ RowAfterQueue(m, records[m].ip) # {}
                      \/ \E w \in Workers : \E p \in Elements(workers[w].pend) :
                           p.undo.kind = "drop" /\ p.undo.mac = m /\ p.undo.gen = records[m].gen
    BY DEF LeaseWritten
  <2>1. PICK n \in Nat : n = Len(writes)
    BY SeqLen DEF IndInv, TablesOK
  <2>2. Safe(writes, n, db, m, records[m].ip) \/ Guarded(records, Pends, m)
    BY <2>1 DEF LeaseInv, LeasesOK
  <2>3. CASE Guarded(records, Pends, m)
    <3>1. PICK v \in Workers : \E i \in 1 .. Len(Pends[v]) : Guards(Pends[v][i], records, m)
      BY <2>3 DEF Guarded
    <3>2. PICK i \in 1 .. Len(Pends[v]) : Guards(Pends[v][i], records, m)
      BY <3>1
    <3>3. Pends[v][i] \in Elements(workers[v].pend)
      BY <3>2, <1>PendTypes, SeqLen DEF Elements
    <3> QED
      BY <3>2, <3>3 DEF Guards
  <2>4. CASE Safe(writes, n, db, m, records[m].ip)
    <3>1. PICK ip : ip = records[m].ip
      OBVIOUS
    <3>2. <<m, ip>> \in DOMAIN db /\ \A i \in 1 .. n : OnRow(writes, i, m, ip) => writes[i].op = "store"
      BY <2>4, <3>1 DEF Safe
    <3>3. \E e : RowAfterQueue(m, ip) = {e}
      BY <2>1, <3>2, QueueLast
    <3> QED
      BY <3>1, <3>3
  <2> QED
    BY <2>2, <2>3, <2>4
<1> QED
  BY <1>1, Inductive, <1>LeasesInductive, PTL

=============================================================================
