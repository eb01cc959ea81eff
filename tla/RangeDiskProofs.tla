--------------------------- MODULE RangeDiskProofs ---------------------------
(***************************************************************************)
(* Proofs about Range as long as the database takes its writes: memory and *)
(* disk do not drift apart, every part of the write queue leaves a lease   *)
(* file that loads, and a lease a client was told about stays its own.     *)
(*                                                                         *)
(* RowAt says what is in the table after the first k writes of a queue, so *)
(* an invariant about every k covers every crash. The sections of          *)
(* RangeSectionProofs keep it: what they clear they delete, and what they  *)
(* store they write.                                                       *)
(*                                                                         *)
(* A reply is sent after the section that decided it, so the invariant of  *)
(* the last theorem covers the replies still to be sent as well as those   *)
(* that were: the lease table has the address until the second promised.   *)
(***************************************************************************)
EXTENDS RangeProofs

(* Zenon proves the leaves, but for those that name another prover. *)
USE ZenonT(30)

(* The row of m on ip expires at e, once the first k writes of q are applied  *)
(* to the table.                                                              *)
RowAt(q, table, k, m, ip, e) ==
  \/ \E i \in 1 .. k : /\ OnRow(q, i, m, ip) /\ q[i].op = "store" /\ q[i].expires = e
                       /\ \A j \in i + 1 .. k : ~OnRow(q, j, m, ip)
  \/ /\ \A i \in 1 .. k : ~OnRow(q, i, m, ip)
     /\ <<m, ip>> \in DOMAIN table /\ table[<<m, ip>>] = e

(* The clients with a row. *)
MacsAt(q, table, k) == {m \in Macs : \E ip \in IPs : \E e \in Nat : RowAt(q, table, k, m, ip, e)}

(* One row per client and one client per address. *)
ApartAt(q, table, k) ==
  \A m, n \in Macs : \A ip, jp \in IPs : \A e, f \in Nat :
    /\ RowAt(q, table, k, m, ip, e) /\ RowAt(q, table, k, n, jp, f)
    /\ m = n \/ ip = jp
    => m = n /\ ip = jp

Few(D) == MaxLeases > 0 => Cardinality(D) <= MaxLeases

CleanAt(q, table, k) == ApartAt(q, table, k) /\ Few(MacsAt(q, table, k))

(* The rows are the lease table. *)
AgreeAt(q, table, k, rec) ==
  \A m \in Macs : \A ip \in IPs : \A e \in Nat :
    RowAt(q, table, k, m, ip, e) <=> (m \in DOMAIN rec /\ rec[m].ip = ip /\ rec[m].expires = e)

Journal(S, table) ==
  /\ \A k \in 0 .. Len(S.q) : CleanAt(S.q, table, k)
  /\ AgreeAt(S.q, table, Len(S.q), S.rec)

-----------------------------------------------------------------------------
(* Rows. *)

LEMMA RowZero ==
  ASSUME NEW q, NEW table, NEW m, NEW ip, NEW e
  PROVE  RowAt(q, table, 0, m, ip, e) <=> (<<m, ip>> \in DOMAIN table /\ table[<<m, ip>>] = e)
BY SMTT(60) DEF RowAt

-----------------------------------------------------------------------------
(* The lease file, as long as the database takes its writes. *)

Unfailed(pend) == \A i \in 1 .. Len(pend) : pend[i].result # "error"

(* Every prefix of the queue leaves a lease file that loads, the whole queue  *)
(* leaves the lease table, and no goroutine has a write to undo. While the    *)
(* process is down, or its writer gone, the file alone loads.                 *)
DiskInv ==
  /\ Few(DOMAIN records)
  /\ CleanAt(<<>>, db, 0)
  /\ status # "refused"
  /\ (status = "up" /\ writer # "off") => Journal(Locked, db)
  /\ \A w \in Workers : Unfailed(workers[w].pend)

LEMMA FileRows ==
  ASSUME NEW table, IsMap(table, Macs \X IPs, Nat), CleanAt(<<>>, table, 0)
  PROVE  \A r, s \in DOMAIN table : (r[1] = s[1] \/ r[2] = s[2]) => r = s
<1> SUFFICES ASSUME NEW r \in DOMAIN table, NEW s \in DOMAIN table, r[1] = s[1] \/ r[2] = s[2]
             PROVE  r = s
  OBVIOUS
<1>1. /\ r = <<r[1], r[2]>> /\ r[1] \in Macs /\ r[2] \in IPs /\ table[r] \in Nat
      /\ s = <<s[1], s[2]>> /\ s[1] \in Macs /\ s[2] \in IPs /\ table[s] \in Nat
  BY SMTT(60) DEF IsMap
<1>2. RowAt(<<>>, table, 0, r[1], r[2], table[r]) /\ RowAt(<<>>, table, 0, s[1], s[2], table[s])
  BY <1>1, RowZero, SMTT(60)
<1>3. r[1] = s[1] /\ r[2] = s[2]
  BY <1>1, <1>2, SMTT(60) DEF CleanAt, ApartAt
<1> QED
  BY <1>1, <1>3

LEMMA FileInductive ==
  ASSUME ~WritesFail
  PROVE  Spec => []DiskInv
(* Deletes and refused writes at the end of a queue only take rows out. *)
<1>RowExtend.
    ASSUME NEW q, NEW r, NEW table, NEW a \in Nat, NEW k \in Nat, a <= k,
           \A i \in 1 .. a : r[i] = q[i],
           \A i \in a + 1 .. k : r[i].op = "remove",
           NEW m, NEW ip, NEW e
    PROVE  RowAt(r, table, k, m, ip, e) <=>
             (RowAt(q, table, a, m, ip, e) /\ \A i \in a + 1 .. k : ~OnRow(r, i, m, ip))
  <2> USE <1>RowExtend
  <2>1. \A i \in 1 .. a : i \in 1 .. k /\ (OnRow(r, i, m, ip) <=> OnRow(q, i, m, ip))
    BY SMTT(60) DEF OnRow
  <2>2. ASSUME RowAt(r, table, k, m, ip, e)
        PROVE  RowAt(q, table, a, m, ip, e) /\ \A i \in a + 1 .. k : ~OnRow(r, i, m, ip)
    <3>1. ASSUME NEW i \in 1 .. k, OnRow(r, i, m, ip), r[i].op = "store", r[i].expires = e,
                 \A j \in i + 1 .. k : ~OnRow(r, j, m, ip)
          PROVE  RowAt(q, table, a, m, ip, e) /\ \A j \in a + 1 .. k : ~OnRow(r, j, m, ip)
      <4>1. i \in 1 .. a
        BY <3>1, SMTT(60)
      <4>2. \A j \in i + 1 .. a : j \in 1 .. a /\ j \in i + 1 .. k
        BY <4>1, SMTT(60)
      <4>3. \A j \in a + 1 .. k : j \in i + 1 .. k
        BY <4>1, SMTT(60)
      <4>4. \A j \in i + 1 .. a : ~OnRow(q, j, m, ip)
        BY <2>1, <3>1, <4>2
      <4>5. OnRow(q, i, m, ip) /\ q[i].op = "store" /\ q[i].expires = e
        BY <2>1, <3>1, <4>1
      <4> QED
        BY <3>1, <4>1, <4>3, <4>4, <4>5 DEF RowAt
    <3>2. ASSUME \A i \in 1 .. k : ~OnRow(r, i, m, ip),
                 <<m, ip>> \in DOMAIN table, table[<<m, ip>>] = e
          PROVE  RowAt(q, table, a, m, ip, e) /\ \A j \in a + 1 .. k : ~OnRow(r, j, m, ip)
      <4>1. \A j \in a + 1 .. k : j \in 1 .. k
        BY SMTT(60)
      <4> QED
        BY <2>1, <3>2, <4>1 DEF RowAt
    <3> QED
      BY <2>2, <3>1, <3>2 DEF RowAt
  <2>3. ASSUME RowAt(q, table, a, m, ip, e), \A i \in a + 1 .. k : ~OnRow(r, i, m, ip)
        PROVE  RowAt(r, table, k, m, ip, e)
    <3>1. \A j \in 1 .. k : j \in 1 .. a \/ j \in a + 1 .. k
      BY SMTT(60)
    <3>2. ASSUME NEW i \in 1 .. a, OnRow(q, i, m, ip), q[i].op = "store", q[i].expires = e,
                 \A j \in i + 1 .. a : ~OnRow(q, j, m, ip)
          PROVE  RowAt(r, table, k, m, ip, e)
      <4>1. i \in 1 .. k /\ OnRow(r, i, m, ip) /\ r[i].op = "store" /\ r[i].expires = e
        BY <2>1, <3>2
      <4>2. \A j \in i + 1 .. k : (j \in i + 1 .. a /\ j \in 1 .. a) \/ j \in a + 1 .. k
        BY SMTT(60)
      <4>3. \A j \in i + 1 .. k : ~OnRow(r, j, m, ip)
        BY <2>1, <2>3, <3>2, <4>2
      <4> QED
        BY <4>1, <4>3 DEF RowAt
    <3>3. ASSUME \A i \in 1 .. a : ~OnRow(q, i, m, ip),
                 <<m, ip>> \in DOMAIN table, table[<<m, ip>>] = e
          PROVE  RowAt(r, table, k, m, ip, e)
      BY <2>1, <2>3, <3>1, <3>3 DEF RowAt
    <3> QED
      BY <2>3, <3>2, <3>3 DEF RowAt
  <2> QED
    BY <2>2, <2>3
<1>RowSame.
    ASSUME NEW q, NEW r, NEW table, NEW k \in Nat, \A i \in 1 .. k : r[i] = q[i],
           NEW m, NEW ip, NEW e
    PROVE  RowAt(r, table, k, m, ip, e) <=> RowAt(q, table, k, m, ip, e)
  <2> USE <1>RowSame
  <2>1. k <= k /\ \A i \in k + 1 .. k : FALSE
    BY SMTT(60)
  <2> QED
    BY <2>1, <1>RowExtend
(* A store at the end of a queue decides its own row and no other. *)
<1>RowStore.
    ASSUME NEW q, NEW r, NEW table, NEW k \in Nat, \A i \in 1 .. k : r[i] = q[i],
           r[k + 1].op = "store", NEW m, NEW ip, NEW e
    PROVE  /\ OnRow(r, k + 1, m, ip) =>
                (RowAt(r, table, k + 1, m, ip, e) <=> r[k + 1].expires = e)
           /\ ~OnRow(r, k + 1, m, ip) =>
                (RowAt(r, table, k + 1, m, ip, e) <=> RowAt(q, table, k, m, ip, e))
  <2> USE <1>RowStore
  <2>1. /\ \A i \in 1 .. k : i \in 1 .. k + 1 /\ (OnRow(r, i, m, ip) <=> OnRow(q, i, m, ip))
        /\ \A i \in 1 .. k + 1 : i = k + 1 \/ i \in 1 .. k
        /\ k + 1 \in 1 .. k + 1 /\ \A j \in (k + 1) + 1 .. k + 1 : FALSE
        /\ \A i \in 1 .. k : k + 1 \in i + 1 .. k + 1
        /\ \A i \in 1 .. k : \A j \in i + 1 .. k + 1 : j = k + 1 \/ (j \in i + 1 .. k /\ j \in 1 .. k)
        /\ \A i \in 1 .. k : \A j \in i + 1 .. k : j \in i + 1 .. k + 1 /\ j \in 1 .. k
    BY SMTT(60) DEF OnRow
  <2>2. ASSUME OnRow(r, k + 1, m, ip)
        PROVE  RowAt(r, table, k + 1, m, ip, e) <=> r[k + 1].expires = e
    BY <2>1, <2>2 DEF RowAt
  <2>3. ASSUME ~OnRow(r, k + 1, m, ip), RowAt(r, table, k + 1, m, ip, e)
        PROVE  RowAt(q, table, k, m, ip, e)
    BY <2>1, <2>3 DEF RowAt
  <2>4. ASSUME ~OnRow(r, k + 1, m, ip), RowAt(q, table, k, m, ip, e)
        PROVE  RowAt(r, table, k + 1, m, ip, e)
    BY <2>1, <2>4, SMTT(60) DEF RowAt
  <2> QED
    BY <2>2, <2>3, <2>4
(* Executing the first write of the queue changes nothing after it. *)
<1>RowShift.
    ASSUME NEW q, NEW r, NEW table, NEW k \in Nat, \A i \in 1 .. k : r[i] = q[i + 1],
           q[1].op \in {"store", "remove"}, NEW m, NEW ip, NEW e
    PROVE  RowAt(r, Exec(table, q[1]), k, m, ip, e) <=> RowAt(q, table, k + 1, m, ip, e)
  <2> USE <1>RowShift
  <2>1. /\ \A i \in 1 .. k : i + 1 \in 1 .. k + 1 /\ (OnRow(r, i, m, ip) <=> OnRow(q, i + 1, m, ip))
        /\ 1 \in 1 .. k + 1
        /\ \A j \in 1 + 1 .. k + 1 : j - 1 \in 1 .. k /\ (j - 1) + 1 = j
        /\ \A i \in 1 .. k + 1 : i = 1 \/ (i - 1 \in 1 .. k /\ (i - 1) + 1 = i)
    BY SMTT(60) DEF OnRow
  <2>2. \A i \in 1 .. k : \A j \in i + 1 .. k : j + 1 \in (i + 1) + 1 .. k + 1 /\ j \in 1 .. k
    BY SMTT(60)
  <2>3. \A i \in 1 .. k : \A j \in (i + 1) + 1 .. k + 1 :
          j - 1 \in i + 1 .. k /\ (j - 1) + 1 = j /\ j - 1 \in 1 .. k
    BY SMTT(60)
  <2> DEFINE new == Exec(table, q[1])
  <2>4. ASSUME ~OnRow(q, 1, m, ip)
        PROVE  (<<m, ip>> \in DOMAIN new <=> <<m, ip>> \in DOMAIN table)
               /\ (<<m, ip>> \in DOMAIN table => new[<<m, ip>>] = table[<<m, ip>>])
    <3>1. <<m, ip>> # <<q[1].mac, q[1].ip>>
      BY <2>4 DEF OnRow
    <3> QED
      BY <3>1 DEF Exec, With, Without
  <2>5. ASSUME OnRow(q, 1, m, ip)
        PROVE  /\ q[1].op = "store" => <<m, ip>> \in DOMAIN new /\ new[<<m, ip>>] = q[1].expires
               /\ q[1].op = "remove" => <<m, ip>> \notin DOMAIN new
    BY <2>5 DEF Exec, With, Without, OnRow
  <2> HIDE DEF new
  <2>6. ASSUME RowAt(r, new, k, m, ip, e) PROVE RowAt(q, table, k + 1, m, ip, e)
    <3>1. ASSUME NEW i \in 1 .. k, OnRow(r, i, m, ip), r[i].op = "store", r[i].expires = e,
                 \A j \in i + 1 .. k : ~OnRow(r, j, m, ip)
          PROVE  RowAt(q, table, k + 1, m, ip, e)
      <4>1. i + 1 \in 1 .. k + 1 /\ OnRow(q, i + 1, m, ip) /\ q[i + 1].op = "store"
            /\ q[i + 1].expires = e
        BY <2>1, <3>1
      <4>2. \A j \in (i + 1) + 1 .. k + 1 : ~OnRow(q, j, m, ip)
        BY <2>1, <2>3, <3>1, SMTT(60)
      <4> QED
        BY <4>1, <4>2 DEF RowAt
    <3>2. ASSUME \A i \in 1 .. k : ~OnRow(r, i, m, ip),
                 <<m, ip>> \in DOMAIN new, new[<<m, ip>>] = e
          PROVE  RowAt(q, table, k + 1, m, ip, e)
      <4>1. \A j \in 1 + 1 .. k + 1 : ~OnRow(q, j, m, ip)
        BY <2>1, <3>2, SMTT(60)
      <4>2. CASE OnRow(q, 1, m, ip)
        BY <2>1, <2>5, <3>2, <4>1, <4>2 DEF RowAt
      <4>3. CASE ~OnRow(q, 1, m, ip)
        BY <2>1, <2>4, <3>2, <4>1, <4>3, SMTT(60) DEF RowAt
      <4> QED
        BY <4>2, <4>3
    <3> QED
      BY <2>6, <3>1, <3>2 DEF RowAt
  <2>7. ASSUME RowAt(q, table, k + 1, m, ip, e) PROVE RowAt(r, new, k, m, ip, e)
    <3>1. ASSUME NEW i \in 1 .. k + 1, OnRow(q, i, m, ip), q[i].op = "store", q[i].expires = e,
                 \A j \in i + 1 .. k + 1 : ~OnRow(q, j, m, ip)
          PROVE  RowAt(r, new, k, m, ip, e)
      <4>1. CASE i = 1
        <5>1. \A j \in 1 .. k : j + 1 \in i + 1 .. k + 1
          BY <4>1, SMTT(60)
        <5>2. \A j \in 1 .. k : ~OnRow(r, j, m, ip)
          BY <2>1, <3>1, <5>1
        <5> QED
          BY <2>5, <3>1, <4>1, <5>2 DEF RowAt
      <4>2. CASE i - 1 \in 1 .. k /\ (i - 1) + 1 = i
        <5>1. OnRow(r, i - 1, m, ip) /\ r[i - 1].op = "store" /\ r[i - 1].expires = e
          BY <2>1, <3>1, <4>2
        <5>2. \A j \in (i - 1) + 1 .. k : j + 1 \in i + 1 .. k + 1 /\ j \in 1 .. k
          BY <2>2, <4>2
        <5>3. \A j \in (i - 1) + 1 .. k : ~OnRow(r, j, m, ip)
          BY <2>1, <3>1, <5>2
        <5> QED
          BY <4>2, <5>1, <5>3 DEF RowAt
      <4> QED
        BY <2>1, <4>1, <4>2
    <3>2. ASSUME \A i \in 1 .. k + 1 : ~OnRow(q, i, m, ip),
                 <<m, ip>> \in DOMAIN table, table[<<m, ip>>] = e
          PROVE  RowAt(r, new, k, m, ip, e)
      <4>1. ~OnRow(q, 1, m, ip) /\ \A i \in 1 .. k : ~OnRow(r, i, m, ip)
        BY <2>1, <3>2
      <4> QED
        BY <2>4, <3>2, <4>1 DEF RowAt
    <3> QED
      BY <2>7, <3>1, <3>2 DEF RowAt
  <2> QED
    BY <2>6, <2>7 DEF new
<1>FewSubset.
    ASSUME NEW D, NEW E, E \subseteq Macs, D \subseteq E, Few(E)
    PROVE  Few(D)
  <2> USE <1>FewSubset
  <2>1. IsFiniteSet(E)
    BY RangeAssumption, FS_Subset DEF RangeAssumption
  <2>2. Cardinality(D) <= Cardinality(E) /\ Cardinality(D) \in Nat /\ Cardinality(E) \in Nat
    BY <2>1, FS_Subset, FS_CardinalityType
  <2>3. MaxLeases \in Nat
    BY RangeAssumption DEF RangeAssumption
  <2> QED
    BY <2>2, <2>3, SMTT(60) DEF Few
(* Fewer rows are as clean. *)
<1>CleanFewer.
    ASSUME NEW q, NEW table, NEW a, CleanAt(q, table, a), NEW r, NEW new, NEW k,
           \A m \in Macs : \A ip \in IPs : \A e \in Nat :
             RowAt(r, new, k, m, ip, e) => RowAt(q, table, a, m, ip, e)
    PROVE  CleanAt(r, new, k)
  <2> USE <1>CleanFewer
  <2>1. ApartAt(r, new, k)
    BY SMTT(60) DEF CleanAt, ApartAt
  <2>2. MacsAt(r, new, k) \subseteq MacsAt(q, table, a) /\ MacsAt(q, table, a) \subseteq Macs
    BY DEF MacsAt
  <2>3. Few(MacsAt(r, new, k))
    BY <2>2, <1>FewSubset DEF CleanAt
  <2> QED
    BY <2>1, <2>3 DEF CleanAt
(* Rows that are the lease table are clean when the lease table is. *)
<1>CleanAgree.
    ASSUME NEW q, NEW table, NEW k, NEW rec, AgreeAt(q, table, k, rec), IsMap(rec, Macs, Record),
           \A m, n \in DOMAIN rec : rec[m].ip = rec[n].ip => m = n, Few(DOMAIN rec)
    PROVE  CleanAt(q, table, k)
  <2> USE <1>CleanAgree
  <2>1. ApartAt(q, table, k)
    BY SMTT(60) DEF ApartAt, AgreeAt
  <2>2. MacsAt(q, table, k) \subseteq DOMAIN rec /\ DOMAIN rec \subseteq Macs
    BY DEF MacsAt, AgreeAt, IsMap
  <2>3. Few(MacsAt(q, table, k))
    BY <2>2, <1>FewSubset
  <2> QED
    BY <2>1, <2>3 DEF CleanAt
<1>LoggedJournal.
    ASSUME NEW S, NEW table, Journal(S, table), NEW T, Logged(S, T)
    PROVE  Journal(T, table)
  BY <1>LoggedJournal DEF Journal, Logged
<1>ClearedJournal.
    ASSUME NEW S, LockedOK(S), NEW table, Journal(S, table), NEW T, LockedOK(T), NEW D, NEW by,
           Cleared(S, T, D, by)
    PROVE  Journal(T, table)
  <2> USE <1>ClearedJournal
  <2>1. PICK a \in Nat, b \in Nat : a = Len(S.q) /\ b = Len(T.q)
    BY LockedLens
  <2>2. /\ a <= b /\ \A i \in 1 .. a : T.q[i] = S.q[i]
        /\ \A i \in a + 1 .. b : /\ T.q[i].op = "remove" /\ T.q[i].mac \in D
                                 /\ T.q[i].ip = S.rec[T.q[i].mac].ip
        /\ \A m \in D : \E i \in a + 1 .. b : T.q[i].mac = m
        /\ D \subseteq DOMAIN S.rec
        /\ DOMAIN T.rec = DOMAIN S.rec \ D
        /\ \A n \in DOMAIN T.rec : T.rec[n] = S.rec[n]
    BY <2>1 DEF Cleared
  <2>3. ASSUME NEW k \in a .. b, NEW m, NEW ip, NEW e
        PROVE  RowAt(T.q, table, k, m, ip, e) <=>
                 (RowAt(S.q, table, a, m, ip, e) /\ \A i \in a + 1 .. k : ~OnRow(T.q, i, m, ip))
    <3>1. k \in Nat /\ a <= k /\ \A i \in a + 1 .. k : T.q[i].op = "remove"
      BY <2>2, SMTT(60)
    <3> QED
      BY <2>2, <3>1, <1>RowExtend
  <2>4. ASSUME NEW k \in 0 .. b PROVE CleanAt(T.q, table, k)
    <3>1. CASE k <= a
      <4>1. k \in Nat /\ CleanAt(S.q, table, k) /\ \A i \in 1 .. k : T.q[i] = S.q[i]
        BY <2>1, <2>2, <3>1, SMTT(60) DEF Journal
      <4>2. \A m \in Macs : \A ip \in IPs : \A e \in Nat :
              RowAt(T.q, table, k, m, ip, e) => RowAt(S.q, table, k, m, ip, e)
        BY <4>1, <1>RowSame
      <4> QED
        BY <4>1, <4>2, <1>CleanFewer
    <3>2. CASE k > a
      <4>1. k \in a .. b /\ CleanAt(S.q, table, a)
        BY <2>1, <3>2, SMTT(60) DEF Journal
      <4>2. \A m \in Macs : \A ip \in IPs : \A e \in Nat :
              RowAt(T.q, table, k, m, ip, e) => RowAt(S.q, table, a, m, ip, e)
        BY <2>3, <4>1
      <4> QED
        BY <4>1, <4>2, <1>CleanFewer
    <3> QED
      BY <3>1, <3>2, SMTT(60)
  <2>5. AgreeAt(T.q, table, b, T.rec)
    <3> SUFFICES ASSUME NEW m \in Macs, NEW ip \in IPs, NEW e \in Nat
                 PROVE  RowAt(T.q, table, b, m, ip, e) <=>
                          (m \in DOMAIN T.rec /\ T.rec[m].ip = ip /\ T.rec[m].expires = e)
      BY DEF AgreeAt
    <3>1. RowAt(T.q, table, b, m, ip, e) <=>
            (RowAt(S.q, table, a, m, ip, e) /\ \A i \in a + 1 .. b : ~OnRow(T.q, i, m, ip))
      BY <2>2, <2>3, SMTT(60)
    <3>2. RowAt(S.q, table, a, m, ip, e) <=>
            (m \in DOMAIN S.rec /\ S.rec[m].ip = ip /\ S.rec[m].expires = e)
      BY <2>1 DEF Journal, AgreeAt
    <3>3. CASE m \in D
      <4>1. PICK i \in a + 1 .. b : T.q[i].mac = m
        BY <2>2, <3>3
      <4>2. OnRow(T.q, i, m, S.rec[m].ip)
        BY <2>2, <4>1 DEF OnRow
      <4> QED
        BY <2>2, <3>1, <3>2, <3>3, <4>2
    <3>4. CASE m \notin D
      <4>1. \A i \in a + 1 .. b : ~OnRow(T.q, i, m, ip)
        BY <2>2, <3>4 DEF OnRow
      <4> QED
        BY <2>2, <3>1, <3>2, <3>4, <4>1
    <3> QED
      BY <3>3, <3>4
  <2> QED
    BY <2>1, <2>4, <2>5 DEF Journal
<1>LapseJournal.
    ASSUME NEW S, LockedOK(S), NEW table, Journal(S, table), NEW T, LockedOK(T), NEW t, NEW by,
           Lapse(S, T, t, by)
    PROVE  Journal(T, table)
  BY <1>LapseJournal, <1>ClearedJournal DEF Lapse
(* The record stored keeps its client's address, and no other client has it.  *)
<1>StoredJournal.
    ASSUME NEW S, LockedOK(S), NEW table, Journal(S, table), NEW T, LockedOK(T),
           NEW m \in Macs, NEW rec \in Record, NEW kind, NEW by \in Workers,
           Stored(S, T, m, rec, kind, by),
           m \in DOMAIN S.rec => S.rec[m].ip = rec.ip,
           \A x, y \in DOMAIN T.rec : T.rec[x].ip = T.rec[y].ip => x = y,
           Few(DOMAIN T.rec)
    PROVE  Journal(T, table)
  <2> USE <1>StoredJournal
  <2> DEFINE w == Store(m, rec, by)
  <2>1. PICK a \in Nat : a = Len(S.q)
    BY LockedLens
  <2>2. w \in WriteSet /\ S.q \in Seq(WriteSet)
    BY StoreOK DEF LockedOK
  <2>3. w.op = "store" /\ w.mac = m /\ w.ip = rec.ip /\ w.expires = rec.expires
    BY DEF Store
  <2> HIDE DEF w
  <2>4. T.q = Append(S.q, w) /\ T.rec = With(S.rec, m, rec)
    BY DEF Stored, w
  <2>5. /\ Len(T.q) = a + 1 /\ \A i \in 1 .. a : T.q[i] = S.q[i]
        /\ T.q[a + 1] = w
    BY <2>1, <2>2, <2>4, SeqAppend, SMTT(60)
  <2>6. /\ DOMAIN T.rec = DOMAIN S.rec \cup {m} /\ T.rec[m] = rec
        /\ \A n \in DOMAIN S.rec : n # m => T.rec[n] = S.rec[n]
    BY <2>4 DEF With
  <2>7. AgreeAt(T.q, table, a + 1, T.rec)
    <3> SUFFICES ASSUME NEW n \in Macs, NEW ip \in IPs, NEW e \in Nat
                 PROVE  RowAt(T.q, table, a + 1, n, ip, e) <=>
                          (n \in DOMAIN T.rec /\ T.rec[n].ip = ip /\ T.rec[n].expires = e)
      BY DEF AgreeAt
    <3>1. T.q[a + 1].op = "store"
      BY <2>3, <2>5
    <3>2. /\ OnRow(T.q, a + 1, n, ip) =>
               (RowAt(T.q, table, a + 1, n, ip, e) <=> T.q[a + 1].expires = e)
          /\ ~OnRow(T.q, a + 1, n, ip) =>
               (RowAt(T.q, table, a + 1, n, ip, e) <=> RowAt(S.q, table, a, n, ip, e))
      BY <2>5, <3>1, <1>RowStore
    <3>3. OnRow(T.q, a + 1, n, ip) <=> n = m /\ ip = rec.ip
      BY <2>3, <2>5 DEF OnRow
    <3>4. RowAt(S.q, table, a, n, ip, e) <=>
            (n \in DOMAIN S.rec /\ S.rec[n].ip = ip /\ S.rec[n].expires = e)
      BY <2>1 DEF Journal, AgreeAt
    <3>5. CASE n = m /\ ip = rec.ip
      BY <2>3, <2>5, <2>6, <3>2, <3>3, <3>5
    <3>6. CASE n = m /\ ip # rec.ip
      BY <2>6, <3>2, <3>3, <3>4, <3>6
    <3>7. CASE n # m
      BY <2>6, <3>2, <3>3, <3>4, <3>7
    <3> QED
      BY <3>5, <3>6, <3>7
  <2>8. CleanAt(T.q, table, a + 1)
    BY <2>7, <1>CleanAgree DEF LockedOK
  <2>9. ASSUME NEW k \in 0 .. a PROVE CleanAt(T.q, table, k)
    <3>1. k \in Nat /\ CleanAt(S.q, table, k) /\ \A i \in 1 .. k : T.q[i] = S.q[i]
      BY <2>1, <2>5, SMTT(60) DEF Journal
    <3>2. \A n \in Macs : \A ip \in IPs : \A e \in Nat :
            RowAt(T.q, table, k, n, ip, e) => RowAt(S.q, table, k, n, ip, e)
      BY <3>1, <1>RowSame
    <3> QED
      BY <3>1, <3>2, <1>CleanFewer
  <2>10. \A k \in 0 .. a + 1 : k = a + 1 \/ k \in 0 .. a
    BY SMTT(60)
  <2> QED
    BY <2>5, <2>7, <2>8, <2>9, <2>10 DEF Journal
(* leaseFor checks max-leases on the table it stores into. *)
<1>LeaseForFew.
    ASSUME NEW S, Good(S), Few(DOMAIN S.rec), NEW m \in Macs, NewGen(m) \in Gens, NEW t \in Nat,
           NEW by \in Workers, NEW r \in LeaseFor(S, m, t, by)
    PROVE  Few(DOMAIN r.st.rec)
  <2> USE <1>LeaseForFew
  <2>1. \/ Refused(S, r, t, by) \/ Enough(S, r, m, t)
        \/ Renewed(S, r, m, t, by) \/ Granted(S, r, m, t, by)
    BY LeaseForForm
  <2>2. DOMAIN S.rec \subseteq Macs
    BY DEF Good, LockedOK, IsMap
  <2>3. CASE Refused(S, r, t, by)
    <3>1. DOMAIN r.st.rec \subseteq DOMAIN S.rec
      BY <2>3 DEF Refused, Lapse, Cleared
    <3> QED
      BY <2>2, <3>1, <1>FewSubset
  <2>4. CASE Enough(S, r, m, t)
    BY <2>4 DEF Enough, Logged
  <2>5. CASE Renewed(S, r, m, t, by)
    <3>1. DOMAIN r.st.rec = DOMAIN S.rec
      BY <2>5 DEF Renewed, Stored, With
    <3> QED
      BY <3>1
  <2>6. CASE Granted(S, r, m, t, by)
    <3>1. PICK T : LockedOK(T) /\ BelowLimit(T) /\ DOMAIN r.st.rec = DOMAIN T.rec \cup {m}
      BY <2>6 DEF Granted, Stored, With
    <3>2. IsFiniteSet(DOMAIN T.rec) /\ Cardinality(DOMAIN T.rec) \in Nat
      BY <3>1, RangeAssumption, FS_Subset, FS_CardinalityType DEF RangeAssumption, LockedOK, IsMap
    <3>3. \/ Cardinality(DOMAIN r.st.rec) = Cardinality(DOMAIN T.rec)
          \/ Cardinality(DOMAIN r.st.rec) = Cardinality(DOMAIN T.rec) + 1
      BY <3>1, <3>2, FS_AddElement
    <3>4. MaxLeases \in Nat
      BY RangeAssumption DEF RangeAssumption
    <3>5. MaxLeases = 0 \/ Cardinality(DOMAIN T.rec) < MaxLeases
      BY <3>1 DEF BelowLimit
    <3> QED
      BY <3>2, <3>3, <3>4, <3>5, SMTT(60) DEF Few
  <2> QED
    BY <2>1, <2>3, <2>4, <2>5, <2>6
<1>LeaseForJournal.
    ASSUME NEW S, Good(S), Few(DOMAIN S.rec), NEW table, Journal(S, table),
           NEW m \in Macs, NewGen(m) \in Gens, NEW t \in Nat, NEW by \in Workers,
           NEW r \in LeaseFor(S, m, t, by)
    PROVE  Journal(r.st, table)
  <2> USE <1>LeaseForJournal
  <2>1. \/ Refused(S, r, t, by) \/ Enough(S, r, m, t)
        \/ Renewed(S, r, m, t, by) \/ Granted(S, r, m, t, by)
    BY LeaseForForm
  <2>2. LockedOK(S) /\ LockedOK(r.st)
        /\ \A x, y \in DOMAIN r.st.rec : r.st.rec[x].ip = r.st.rec[y].ip => x = y
    <3>1. Good(r.st)
      BY LeaseForOK DEF Answer
    <3> QED
      BY <3>1 DEF Good, Apart
  <2>3. Few(DOMAIN r.st.rec)
    BY <1>LeaseForFew
  <2>4. CASE Refused(S, r, t, by)
    BY <2>2, <2>4, <1>LapseJournal DEF Refused
  <2>5. CASE Enough(S, r, m, t)
    BY <2>5, <1>LoggedJournal DEF Enough
  <2>6. CASE Renewed(S, r, m, t, by)
    <3> DEFINE new == [S.rec[m] EXCEPT !.expires = RoundUnix(LeaseEnd(t))]
    <3>1. m \in DOMAIN S.rec /\ Stored(S, r.st, m, new, "renew", by)
      BY <2>6 DEF Renewed
    <3>2. new \in Record /\ new.ip = S.rec[m].ip
      BY <2>2, <3>1, RenewUndoOK, SMTT(60)
    <3> HIDE DEF new
    <3> QED
      BY <2>2, <2>3, <3>1, <3>2, <1>StoredJournal
  <2>7. CASE Granted(S, r, m, t, by)
    <3> DEFINE new == [gen |-> NewGen(m), ip |-> r.ip, expires |-> Unix(LeaseEnd(t))]
    <3>1. PICK T : /\ LockedOK(T) /\ Lapse(S, T, t, by) /\ m \notin DOMAIN T.rec /\ r.ip \in IPs
                   /\ Stored(T, r.st, m, new, "drop", by)
      BY <2>7 DEF Granted
    <3>2. new \in Record
      <4>1. Unix(LeaseEnd(t)) \in Nat
        BY RangeAssumption, SMTT(60) DEF Unix, LeaseEnd, RangeAssumption
      <4> QED
        BY <3>1, <4>1 DEF Record
    <3>3. Journal(T, table)
      BY <2>2, <3>1, <1>LapseJournal
    <3> HIDE DEF new
    <3> QED
      BY <2>2, <2>3, <3>1, <3>2, <3>3, <1>StoredJournal
  <2> QED
    BY <2>1, <2>4, <2>5, <2>6, <2>7
<1>PlainUnsettled.
    ASSUME NEW S, LockedOK(S), Plain(S)
    PROVE  Unsettled(S)
  <2> USE <1>PlainUnsettled
  <2>1. Len(S.pend) \in Nat
    BY LockedLens
  <2> QED
    BY <2>1, SMTT(60) DEF Plain, Unsettled
<1>StoredUnsettled.
    ASSUME NEW S, LockedOK(S), Plain(S), NEW T, NEW m, NEW rec, NEW kind, NEW by,
           Stored(S, T, m, rec, kind, by)
    PROVE  Unsettled(T)
  <2> USE <1>StoredUnsettled
  <2>1. PICK u \in UndoSet : T.pend = Append(S.pend, Pending(u))
    BY DEF Stored
  <2>2. PICK a \in Nat : a = Len(S.pend)
    BY LockedLens
  <2>3. Pending(u) \in PendingSet /\ Pending(u).result = "waiting" /\ S.pend \in Seq(PendingSet)
    BY DEF Pending, PendingSet, LockedOK
  <2>4. /\ Len(T.pend) = a + 1 /\ \A i \in 1 .. a : T.pend[i] = S.pend[i]
        /\ T.pend[a + 1] = Pending(u)
    BY <2>1, <2>2, <2>3, SeqAppend, SMTT(60)
  <2>5. /\ \A i \in 1 .. a + 1 : i \in 1 .. a \/ i = a + 1
        /\ \A i \in 1 .. (a + 1) - 1 : i \in 1 .. a
    BY SMTT(60)
  <2>6. \A i \in 1 .. a : S.pend[i].result = "waiting" /\ S.pend[i].undo.kind = "none"
    BY <2>2 DEF Plain
  <2> QED
    BY <2>3, <2>4, <2>5, <2>6 DEF Unsettled
<1>LeaseForUnsettled.
    ASSUME NEW S, Good(S), Plain(S), NEW m \in Macs, NewGen(m) \in Gens, NEW t \in Nat,
           NEW by \in Workers, NEW r \in LeaseFor(S, m, t, by)
    PROVE  Unsettled(r.st)
  <2> USE <1>LeaseForUnsettled
  <2>1. \/ Refused(S, r, t, by) \/ Enough(S, r, m, t)
        \/ Renewed(S, r, m, t, by) \/ Granted(S, r, m, t, by)
    BY LeaseForForm
  <2>2. LockedOK(S) /\ LockedOK(r.st)
    BY LeaseForOK DEF Answer, Good
  <2>3. CASE Refused(S, r, t, by)
    BY <2>2, <2>3, ClearedPlain, <1>PlainUnsettled DEF Refused, Lapse
  <2>4. CASE Enough(S, r, m, t)
    <3>1. Plain(r.st)
      BY <2>4 DEF Enough, Logged, Plain
    <3> QED
      BY <2>2, <3>1, <1>PlainUnsettled
  <2>5. CASE Renewed(S, r, m, t, by)
    BY <2>2, <2>5, <1>StoredUnsettled DEF Renewed
  <2>6. CASE Granted(S, r, m, t, by)
    <3>1. PICK T, rec : LockedOK(T) /\ Lapse(S, T, t, by) /\ Stored(T, r.st, m, rec, "drop", by)
      BY <2>6 DEF Granted
    <3>2. Plain(T)
      BY <2>2, <3>1, ClearedPlain DEF Lapse
    <3> QED
      BY <3>1, <3>2, <1>StoredUnsettled
  <2> QED
    BY <2>1, <2>3, <2>4, <2>5, <2>6
<1>JournalSame.
    ASSUME NEW S, NEW T, S.q = T.q, S.rec = T.rec, NEW table, Journal(S, table)
    PROVE  Journal(T, table)
  BY <1>JournalSame DEF Journal
<1>WorkedDisk.
    ASSUME DiskInv, NEW w, NEW S, Worked(w, S), Few(DOMAIN S.rec), Unsettled(S),
           Journal(Locked, db) => Journal(S, db)
    PROVE  DiskInv'
  <2> USE <1>WorkedDisk
  <2>1. /\ Locked'.q = S.q /\ Locked'.rec = S.rec
    BY DEF Worked, Locked
  <2>2. (status = "up" /\ writer # "off") => Journal(Locked, db)
    BY DEF DiskInv
  <2>3. (status' = "up" /\ writer' # "off") => Journal(Locked, db)'
    BY <2>1, <2>2, <1>JournalSame DEF Worked
  <2>4. ASSUME NEW v \in Workers PROVE Unfailed(workers'[v].pend)
    <3>1. CASE v = w
      BY <3>1 DEF Worked, Unfailed, Unsettled
    <3>2. CASE v # w
      BY <3>2 DEF Worked, DiskInv
    <3> QED
      BY <3>1, <3>2
  <2> QED
    BY <2>3, <2>4 DEF DiskInv, Worked
<1>SectionsDisk.
    ASSUME IndInv, DiskInv,
           \/ \E w \in Handlers, m \in Macs :
                Request(w, m) \/ \E ip \in IPs : Release(w, m, ip) \/ Decline(w, m, ip)
           \/ SweepOnce
    PROVE  DiskInv'
  <2> USE <1>SectionsDisk
  <2>1. Plain(Locked) /\ LockedOK(Locked) /\ Locked.rec = records /\ DOMAIN records \subseteq Macs
    <3>1. LockedOK(Locked) /\ Locked.rec = records /\ Locked.pend = <<>>
      BY LockedGood DEF IndInv, Good, Locked
    <3>2. DOMAIN records \subseteq Macs
      BY <3>1 DEF LockedOK, IsMap
    <3> QED
      BY <3>1, <3>2, SeqEmpty, SMTT(60) DEF Plain
  <2>2. Few(DOMAIN records)
    BY DEF DiskInv
  <2>3. ASSUME NEW w, NEW S, Worked(w, S), NEW D, Cleared(Locked, S, D, w) PROVE DiskInv'
    <3>1. LockedOK(S) /\ DOMAIN S.rec \subseteq DOMAIN records
      BY <2>1, <2>3 DEF Cleared, Worked
    <3>2. Few(DOMAIN S.rec)
      BY <2>1, <2>2, <3>1, <1>FewSubset
    <3>3. Unsettled(S)
      BY <2>1, <2>3, <3>1, ClearedPlain, <1>PlainUnsettled
    <3>4. Journal(Locked, db) => Journal(S, db)
      BY <2>1, <2>3, <3>1, <1>ClearedJournal
    <3> QED
      BY <2>3, <3>2, <3>3, <3>4, <1>WorkedDisk
  <2>4. ASSUME NEW w \in Handlers, NEW m \in Macs, Request(w, m) PROVE DiskInv'
    <3>1. Good(Locked) /\ w \in Workers /\ now \in Nat /\ NewGen(m) \in Gens
      BY <2>4, RequestWorked
    <3>2. PICK r \in LeaseFor(Locked, m, now, w) : Worked(w, r.st)
      BY <2>4, RequestWorked
    <3>3. Few(DOMAIN r.st.rec)
      BY <2>1, <2>2, <3>1, <1>LeaseForFew
    <3>4. Unsettled(r.st)
      BY <2>1, <3>1, <1>LeaseForUnsettled
    <3>5. Journal(Locked, db) => Journal(r.st, db)
      BY <2>1, <2>2, <3>1, <1>LeaseForJournal
    <3> QED
      BY <3>2, <3>3, <3>4, <3>5, <1>WorkedDisk
  <2>5. ASSUME NEW w \in Handlers, NEW m \in Macs, NEW ip \in IPs,
               Release(w, m, ip) \/ Decline(w, m, ip)
        PROVE  DiskInv'
    <3>1. PICK S : Worked(w, S) /\ GivenUp(Locked, S, m, w)
      BY <2>5, GiveUpWorked
    <3>2. \E D : Cleared(Locked, S, D, w)
      BY <2>1, <3>1, ClearedNone DEF GivenUp
    <3> QED
      BY <2>3, <3>1, <3>2
  <2>6. CASE SweepOnce
    BY <2>3, <2>6, SweepWorked DEF Lapse
  <2> QED
    BY <2>4, <2>5, <2>6
<1>WriteDisk.
    ASSUME IndInv, DiskInv, Write
    PROVE  DiskInv'
  <2> USE <1>WriteDisk
  <2>1. TakeWrite("ok") /\ db' = Exec(db, writes[1]) /\ writes[1] \in WriteSet
    BY TakeWriteForm DEF Write
  <2>2. PICK a \in Nat : Len(writes) = a + 1 /\ Len(writes') = a
    <3>1. Len(writes) \in Nat \ {0} /\ Len(writes') = Len(writes) - 1
      BY <2>1, TakeWriteForm
    <3>2. Len(writes) - 1 \in Nat /\ Len(writes) = (Len(writes) - 1) + 1
      BY <3>1, SMTT(60)
    <3> QED
      BY <3>1, <3>2
  <2>3. \A i \in 1 .. a : writes'[i] = writes[i + 1]
    BY <2>1, <2>2, TakeWriteForm
  <2>4. Journal(Locked, db) /\ Locked.q = writes /\ Locked.rec = records
        /\ Locked'.q = writes' /\ Locked'.rec = records' /\ records' = records
    BY <2>1, TakeWriteForm DEF DiskInv, Locked
  <2>5. ASSUME NEW k \in 0 .. a, NEW m, NEW ip, NEW e
        PROVE  RowAt(writes', db', k, m, ip, e) <=> RowAt(writes, db, k + 1, m, ip, e)
    <3>1. /\ k \in Nat /\ \A i \in 1 .. k : writes'[i] = writes[i + 1]
      BY <2>3, SMTT(60)
    <3>2. writes[1].op \in {"store", "remove"}
      BY <2>1 DEF WriteSet
    <3> QED
      BY <2>1, <3>1, <3>2, <1>RowShift
  <2>6. \A k \in 0 .. a + 1 : CleanAt(writes, db, k)
    BY <2>2, <2>4 DEF Journal
  <2>7. ASSUME NEW k \in 0 .. a PROVE CleanAt(writes', db', k)
    <3>1. CleanAt(writes, db, k + 1)
      BY <2>6, SMTT(60)
    <3>2. PICK j : j = k + 1
      OBVIOUS
    <3>3. \A m \in Macs : \A ip \in IPs : \A e \in Nat :
            RowAt(writes', db', k, m, ip, e) => RowAt(writes, db, j, m, ip, e)
      BY <2>5, <3>2
    <3> QED
      BY <3>1, <3>2, <3>3, <1>CleanFewer
  <2>8. AgreeAt(writes', db', a, records')
    <3>1. AgreeAt(writes, db, a + 1, records)
      BY <2>2, <2>4 DEF Journal
    <3>2. a \in 0 .. a
      BY SMTT(60)
    <3> QED
      BY <2>4, <2>5, <3>1, <3>2, SMTT(60) DEF AgreeAt
  <2>9. Journal(Locked, db)'
    BY <2>2, <2>4, <2>7, <2>8 DEF Journal
  <2>10. CleanAt(<<>>, db', 0)
    <3>1. CleanAt(writes', db', 0)
      BY <2>7, SMTT(60)
    <3>2. \A m \in Macs : \A ip \in IPs : \A e \in Nat :
            RowAt(<<>>, db', 0, m, ip, e) => RowAt(writes', db', 0, m, ip, e)
      BY RowZero, ZenonT(60)
    <3> QED
      BY <3>1, <3>2, <1>CleanFewer
  <2>11. ASSUME NEW v \in Workers PROVE Unfailed(workers'[v].pend)
    <3>1. workers[v].pend \in Seq(PendingSet) /\ Unfailed(workers[v].pend)
      BY DEF IndInv, RestOK, WorkerSet, DiskInv
    <3>2. workers'[v].pend = workers[v].pend
          \/ workers'[v].pend = Deliver(workers[v].pend, "ok")
      BY <2>1, TakeWriteForm
    <3>3. /\ Len(Deliver(workers[v].pend, "ok")) = Len(workers[v].pend)
          /\ \A i \in 1 .. Len(workers[v].pend) :
               \/ Deliver(workers[v].pend, "ok")[i].result = "ok"
               \/ Deliver(workers[v].pend, "ok")[i].result = workers[v].pend[i].result
      BY <3>1, DeliverForm
    <3> QED
      BY <3>1, <3>2, <3>3 DEF Unfailed
  <2>12. status' # "refused" /\ Few(DOMAIN records')
    BY <2>1, <2>4, TakeWriteForm DEF DiskInv
  <2> QED
    BY <2>9, <2>10, <2>11, <2>12 DEF DiskInv
(* A goroutine that has all its results has nothing to undo. *)
<1>SettleDisk.
    ASSUME IndInv, DiskInv, NEW w \in Workers, Settle(w)
    PROVE  DiskInv'
  <2> USE <1>SettleDisk
  <2>1. /\ status = "up" /\ UNCHANGED <<status, writer, db, writes>>
        /\ workers'[w] = Idle /\ \A v \in Workers \ {w} : workers'[v] = workers[v]
        /\ records' = Undone(w).rec /\ DOMAIN records' \subseteq DOMAIN records
    BY SettleForm
  <2>2. Few(DOMAIN records')
    <3>1. DOMAIN records \subseteq Macs
      BY DEF IndInv, TablesOK, IsMap
    <3> QED
      BY <2>1, <3>1, <1>FewSubset DEF DiskInv
  <2>3. ASSUME NEW v \in Workers PROVE Unfailed(workers'[v].pend)
    <3>1. Unfailed(Idle.pend)
      BY SeqEmpty, SMTT(60) DEF Idle, Unfailed
    <3> QED
      BY <2>1, <3>1 DEF DiskInv
  <2>4. ASSUME writer' # "off" PROVE Journal(Locked, db)'
    <3>1. \A p \in Elements(workers[w].pend) : p.result # "waiting"
      BY <2>1, <2>4 DEF Settle, Answered
    <3>2. \A p \in Elements(workers[w].pend) : p.result = "ok"
      <4>1. workers[w].pend \in Seq(PendingSet)
        BY DEF IndInv, RestOK, WorkerSet
      <4>2. workers[w].pend \in [1 .. Len(workers[w].pend) -> PendingSet]
        BY <4>1, SeqLen
      <4>3. \A p \in Elements(workers[w].pend) : p \in PendingSet /\ p.result # "error"
        BY <4>2 DEF Elements, DiskInv, Unfailed
      <4> QED
        BY <3>1, <4>3 DEF PendingSet
    <3>3. Failed(w) = {}
      BY <3>2 DEF Failed
    <3>4. Undone(w) = Locked
      BY <3>3 DEF Undone
    <3>5. Locked'.q = Locked.q /\ Locked'.rec = Locked.rec
      BY <2>1, <3>4 DEF Locked
    <3>6. Journal(Locked, db)
      BY <2>1, <2>4 DEF DiskInv
    <3> QED
      BY <2>1, <3>5, <3>6, <1>JournalSame
  <2> QED
    BY <2>1, <2>2, <2>3, <2>4 DEF DiskInv
(* What is loaded from the lease file is what is in it. *)
<1>LoadsAll.
    ASSUME IndInv, CleanAt(<<>>, db, 0), NEW f \in Loads
    PROVE  /\ OneEach(f) /\ DOMAIN f \subseteq MacsAt(<<>>, db, 0)
           /\ \A m \in DOMAIN f : f[m] \in IPs /\ <<m, f[m]>> \in DOMAIN db
           /\ \A m \in Macs : \A ip \in IPs :
                <<m, ip>> \in DOMAIN db => m \in DOMAIN f /\ f[m] = ip
  <2> USE <1>LoadsAll
  <2>1. IsMap(db, Macs \X IPs, Nat)
    BY DEF IndInv, RestOK
  <2>2. /\ f \in [DOMAIN f -> IPs] /\ DOMAIN f = {r[1] : r \in DOMAIN db}
        /\ \A m \in DOMAIN f : <<m, f[m]>> \in DOMAIN db
    BY DEF Loads
  <2>3. \A r, s \in DOMAIN db : (r[1] = s[1] \/ r[2] = s[2]) => r = s
    BY <2>1, FileRows
  <2>4. ASSUME NEW m \in DOMAIN f, NEW n \in DOMAIN f, f[m] = f[n] PROVE m = n
    <3>1. <<m, f[m]>> = <<n, f[n]>>
      BY <2>2, <2>3, <2>4
    <3> QED
      BY <3>1
  <2>5. ASSUME NEW m \in DOMAIN f PROVE m \in MacsAt(<<>>, db, 0)
    <3>1. <<m, f[m]>> \in DOMAIN db /\ m \in Macs /\ f[m] \in IPs /\ db[<<m, f[m]>>] \in Nat
      BY <2>1, <2>2 DEF IsMap
    <3>2. RowAt(<<>>, db, 0, m, f[m], db[<<m, f[m]>>])
      BY <3>1, RowZero, SMTT(60)
    <3> QED
      BY <3>1, <3>2 DEF MacsAt
  <2>6. ASSUME NEW m \in Macs, NEW ip \in IPs, <<m, ip>> \in DOMAIN db
        PROVE  m \in DOMAIN f /\ f[m] = ip
    <3>1. m \in DOMAIN f
      BY <2>2, <2>6, SMTT(60)
    <3>2. <<m, f[m]>> = <<m, ip>>
      BY <2>2, <2>3, <2>6, <3>1
    <3> QED
      BY <3>1, <3>2
  <2> QED
    BY <2>2, <2>4, <2>5, <2>6 DEF OneEach
<1>RestartDisk.
    ASSUME IndInv, DiskInv, Resting, Restart \/ RestartRefused
    PROVE  DiskInv'
  <2> USE <1>RestartDisk
  <2>1. CleanAt(<<>>, db, 0) /\ status = "down" /\ writes = <<>> /\ IsMap(db, Macs \X IPs, Nat)
    BY DEF DiskInv, Restart, RestartRefused, Resting, IndInv, RestOK
  <2>2. CASE RestartRefused
    BY <2>1, <2>2, <1>LoadsAll DEF RestartRefused
  <2>3. CASE Restart
    <3>1. PICK f \in Loads :
            records' = [m \in DOMAIN f |-> [gen |-> CHOOSE g \in Gens : TRUE, ip |-> f[m],
                                            expires |-> db[<<m, f[m]>>]]]
      BY <2>3 DEF Restart
    <3>2. /\ DOMAIN f \subseteq MacsAt(<<>>, db, 0)
          /\ \A m \in DOMAIN f : f[m] \in IPs /\ <<m, f[m]>> \in DOMAIN db
          /\ \A m \in Macs : \A ip \in IPs :
               <<m, ip>> \in DOMAIN db => m \in DOMAIN f /\ f[m] = ip
      BY <2>1, <1>LoadsAll
    <3>3. /\ DOMAIN records' = DOMAIN f
          /\ \A m \in DOMAIN f : records'[m].ip = f[m] /\ records'[m].expires = db[<<m, f[m]>>]
      BY <3>1
    <3>4. Few(DOMAIN records')
      <4>1. MacsAt(<<>>, db, 0) \subseteq Macs /\ Few(MacsAt(<<>>, db, 0))
        BY <2>1 DEF MacsAt, CleanAt
      <4> QED
        BY <3>2, <3>3, <4>1, <1>FewSubset
    <3>5. /\ UNCHANGED <<db, writer, workers, writes>> /\ status' = "up"
          /\ Locked'.q = <<>> /\ Locked'.rec = records'
      BY <2>1, <2>3 DEF Restart, Locked
    <3>6. AgreeAt(<<>>, db, 0, records')
      <4> SUFFICES ASSUME NEW m \in Macs, NEW ip \in IPs, NEW e \in Nat
                   PROVE  RowAt(<<>>, db, 0, m, ip, e) <=>
                            (m \in DOMAIN records' /\ records'[m].ip = ip /\ records'[m].expires = e)
        BY DEF AgreeAt
      <4>1. RowAt(<<>>, db, 0, m, ip, e) <=> (<<m, ip>> \in DOMAIN db /\ db[<<m, ip>>] = e)
        BY RowZero
      <4> QED
        BY <3>2, <3>3, <4>1, ZenonT(60)
    <3>7. Journal(Locked, db)'
      <4>1. Len(<<>>) = 0 /\ \A k \in 0 .. 0 : k = 0
        BY SMTT(60)
      <4> QED
        BY <2>1, <3>5, <3>6, <4>1 DEF Journal
    <3> QED
      BY <2>1, <3>4, <3>5, <3>7 DEF DiskInv
  <2> QED
    BY <2>2, <2>3
<1>OthersDisk.
    ASSUME DiskInv, Close \/ WriterExits \/ Tick \/ Crash \/ UNCHANGED vars
    PROVE  DiskInv'
  <2> USE <1>OthersDisk
  <2>1. CASE Crash
    <3>1. /\ DOMAIN records' = {} /\ db' = db /\ status' = "down"
          /\ \A w \in Workers : workers'[w].pend = <<>>
      BY <2>1 DEF Crash, Forget, EmptyMap, Idle
    <3>2. Few({}) /\ Unfailed(<<>>)
      BY RangeAssumption, FS_EmptySet, SeqEmpty, SMTT(60) DEF Few, Unfailed, RangeAssumption
    <3> QED
      BY <3>1, <3>2 DEF DiskInv
  <2>2. CASE Close \/ WriterExits \/ Tick \/ UNCHANGED vars
    <3>1. /\ UNCHANGED <<status, records, writes, db, workers>>
          /\ writer' # "off" => writer # "off"
          /\ Locked'.q = Locked.q /\ Locked'.rec = Locked.rec
      BY <2>2 DEF Close, WriterExits, Tick, vars, Locked
    <3>2. Journal(Locked, db) => Journal(Locked, db)'
      BY <3>1, <1>JournalSame
    <3> QED
      BY <3>1, <3>2 DEF DiskInv
  <2> QED
    BY <2>1, <2>2
<1>EveryDisk.
    ASSUME ~WritesFail, IndInv, DiskInv, Resting, [Next]_vars
    PROVE  DiskInv'
  <2> USE <1>EveryDisk
  <2>1. ~WriteFails
    BY DEF WriteFails
  <2>2. ASSUME NEW w \in Workers, Settle(w) PROVE DiskInv'
    BY <2>2, <1>SettleDisk
  <2> QED
    BY <2>1, <2>2, <1>SectionsDisk, <1>WriteDisk, <1>RestartDisk, <1>OthersDisk DEF Next
<1>1. Init => DiskInv
  <2> SUFFICES ASSUME Init PROVE DiskInv
    OBVIOUS
  <2>1. /\ DOMAIN records = {} /\ DOMAIN db = {} /\ status = "up" /\ writes = <<>>
        /\ \A w \in Workers : workers[w].pend = <<>>
        /\ Locked.q = <<>> /\ Locked.rec = records
    BY DEF Init, EmptyMap, Idle, Locked
  <2>2. Few({}) /\ Unfailed(<<>>)
    BY RangeAssumption, FS_EmptySet, SeqEmpty, SMTT(60) DEF Few, Unfailed, RangeAssumption
  <2>3. \A m, ip, e : ~RowAt(<<>>, db, 0, m, ip, e)
    BY <2>1, RowZero
  <2>4. CleanAt(<<>>, db, 0)
    <3>1. MacsAt(<<>>, db, 0) = {}
      BY <2>3 DEF MacsAt
    <3> QED
      BY <2>2, <2>3, <3>1 DEF CleanAt, ApartAt
  <2>5. Journal(Locked, db)
    <3>1. Len(<<>>) = 0 /\ \A k \in 0 .. 0 : k = 0
      BY SMTT(60)
    <3>2. AgreeAt(<<>>, db, 0, records)
      BY <2>1, <2>3 DEF AgreeAt
    <3> QED
      BY <2>1, <2>4, <3>1, <3>2 DEF Journal
  <2> QED
    BY <2>1, <2>2, <2>4, <2>5 DEF DiskInv
<1>2. IndInv /\ DiskInv /\ Resting /\ [Next]_vars => DiskInv'
  BY <1>EveryDisk
<1> QED
  BY <1>1, <1>2, Inductive, AlwaysResting, PTL DEF Spec

(* With a database that takes its writes, the queue always leads from what is *)
(* on disk to exactly the lease table: no sweep, renewal, decline, undo,      *)
(* crash or restart lets memory and disk drift apart (enqueue, settle).       *)
THEOREM DiskNeverDrifts ==
  ASSUME ~WritesFail
  PROVE  Spec => []DiskCatchesUp
<1>QueueLeadsTo.
    ASSUME IndInv, NEW m, NEW ip, NEW e
    PROVE  e \in RowAfterQueue(m, ip) <=> RowAt(writes, db, Len(writes), m, ip, e)
  <2> USE <1>QueueLeadsTo
  <2>1. PICK n \in Nat : n = Len(writes)
    BY SeqLen DEF IndInv, TablesOK
  <2>2. CASE /\ \A i \in 1 .. n : ~OnRow(writes, i, m, ip)
             /\ RowAfterQueue(m, ip) = IF <<m, ip>> \in DOMAIN db THEN {db[<<m, ip>>]} ELSE {}
    <3>1. e \in RowAfterQueue(m, ip) <=> (<<m, ip>> \in DOMAIN db /\ db[<<m, ip>>] = e)
      BY <2>2
    <3> QED
      BY <2>1, <2>2, <3>1 DEF RowAt
  <2>3. ASSUME NEW k \in 1 .. n,
               OnRow(writes, k, m, ip), \A j \in k + 1 .. n : ~OnRow(writes, j, m, ip),
               RowAfterQueue(m, ip) = IF writes[k].op = "store" THEN {writes[k].expires} ELSE {}
        PROVE  e \in RowAfterQueue(m, ip) <=> RowAt(writes, db, Len(writes), m, ip, e)
    <3>1. e \in RowAfterQueue(m, ip) <=> (writes[k].op = "store" /\ writes[k].expires = e)
      BY <2>3
    <3>2. ASSUME RowAt(writes, db, n, m, ip, e)
          PROVE  writes[k].op = "store" /\ writes[k].expires = e
      <4>1. PICK i \in 1 .. n :
              /\ OnRow(writes, i, m, ip) /\ writes[i].op = "store" /\ writes[i].expires = e
              /\ \A j \in i + 1 .. n : ~OnRow(writes, j, m, ip)
        BY <2>3, <3>2 DEF RowAt
      <4>2. ~(k \in i + 1 .. n) /\ ~(i \in k + 1 .. n)
        BY <2>3, <4>1
      <4>3. i = k
        BY <4>2, SMTT(60)
      <4> QED
        BY <4>1, <4>3
    <3>3. (writes[k].op = "store" /\ writes[k].expires = e) => RowAt(writes, db, n, m, ip, e)
      BY <2>3 DEF RowAt
    <3> QED
      BY <2>1, <3>1, <3>2, <3>3
  <2> QED
    BY <2>1, <2>2, <2>3, QueueLast
<1>1. IndInv /\ DiskInv => DiskCatchesUp
  <2> SUFFICES ASSUME IndInv, DiskInv, status = "up", writer # "off", NEW m \in Macs, NEW ip \in IPs
               PROVE  RowAfterQueue(m, ip) = RowInMemory(m, ip)
    BY DEF DiskCatchesUp
  <2>1. AgreeAt(writes, db, Len(writes), records)
    BY DEF DiskInv, Journal, Locked
  <2>2. PICK n \in Nat : n = Len(writes)
    BY SeqLen DEF IndInv, TablesOK
  <2>3. /\ IsMap(records, Macs, Record) /\ IsMap(db, Macs \X IPs, Nat)
        /\ \A i \in 1 .. n : writes[i] \in WriteSet
    BY <2>2, SeqLen DEF IndInv, TablesOK, RestOK
  <2>4. RowInMemory(m, ip) \subseteq Nat
    BY <2>3 DEF RowInMemory, IsMap, Record
  <2>5. RowAfterQueue(m, ip) \subseteq Nat
    <3>1. \A i \in 1 .. n : writes[i].expires \in Nat
      BY <2>3 DEF WriteSet
    <3>2. <<m, ip>> \in DOMAIN db => db[<<m, ip>>] \in Nat
      BY <2>3 DEF IsMap
    <3>3. CASE RowAfterQueue(m, ip) = IF <<m, ip>> \in DOMAIN db THEN {db[<<m, ip>>]} ELSE {}
      BY <3>2, <3>3
    <3>4. ASSUME NEW k \in 1 .. n,
                 RowAfterQueue(m, ip) = IF writes[k].op = "store" THEN {writes[k].expires} ELSE {}
          PROVE  RowAfterQueue(m, ip) \subseteq Nat
      BY <3>1, <3>4, SMTT(60)
    <3> QED
      BY <2>2, <3>3, <3>4, QueueLast
  <2>6. ASSUME NEW e \in Nat PROVE e \in RowAfterQueue(m, ip) <=> e \in RowInMemory(m, ip)
    <3>1. e \in RowInMemory(m, ip)
            <=> (m \in DOMAIN records /\ records[m].ip = ip /\ records[m].expires = e)
      BY DEF RowInMemory
    <3>2. e \in RowAfterQueue(m, ip) <=> RowAt(writes, db, Len(writes), m, ip, e)
      BY <1>QueueLeadsTo
    <3> QED
      BY <2>1, <3>1, <3>2 DEF AgreeAt
  <2> QED
    BY <2>4, <2>5, <2>6
<1> QED
  BY <1>1, Inductive, FileInductive, PTL

(* With a database that takes its writes, the lease table keeps to max-leases *)
(* and the quarantine to decline-max, and whatever part of the queue a crash  *)
(* throws away, the lease file has one address per client and one client per  *)
(* address, so that every start succeeds (atLeaseLimit, quarantine, enqueue). *)
THEOREM TablesAlwaysBounded ==
  ASSUME ~WritesFail
  PROVE  Spec => []TablesBounded
<1>1. IndInv /\ DiskInv /\ QuarantineBounded => TablesBounded
  <2> SUFFICES ASSUME IndInv, DiskInv, QuarantineBounded PROVE LimitsHeld /\ RowsApart
    BY DEF TablesBounded
  <2>1. LimitsHeld
    BY DEF DiskInv, Few, QuarantineBounded, LimitsHeld
  <2>2. RowsApart
    BY FileRows DEF DiskInv, IndInv, RestOK, RowsApart
  <2> QED
    BY <2>1, <2>2
<1> QED
  BY <1>1, Inductive, FileInductive, QuarantineKeepsBound, PTL

-----------------------------------------------------------------------------
(* What clients were told. *)

(* The lease table has m on ip until at least the second of `until`. *)
Covers(rec, m, ip, until) ==
  m \in DOMAIN rec /\ rec[m].ip = ip /\ rec[m].expires >= Unix(until)

(* Leases that have not lapsed are where they were, and no shorter. *)
KeepsLive(S, T, t) ==
  \A n \in DOMAIN S.rec : ~Expired(S.rec[n], t) =>
    /\ n \in DOMAIN T.rec /\ T.rec[n].ip = S.rec[n].ip
    /\ T.rec[n].expires >= S.rec[n].expires

(* A promise that has not lapsed is covered. *)
Honoured(rec, m, ip, until) == Unix(until) > Unix(now) => Covers(rec, m, ip, until)

PromiseInv ==
  /\ status = "up" /\ writer = "on"
  /\ \A m \in DOMAIN told : Honoured(records, m, told[m].ip, told[m].until)
  /\ \A w \in Workers : \A r \in workers[w].reply : Honoured(records, r.mac, r.ip, r.until)

(* While the server runs and its database takes its writes, a lease a client  *)
(* was told about stays its own, to the second, until it lapses or the client *)
(* gives it up: no sweep, eviction, renewal or late reply takes the address   *)
(* away or shortens the lease (leaseFor, renew, reclaim).                     *)
THEOREM PromisesAreKept ==
  ASSUME ~WritesFail, ~Crashes, ~Closes
  PROVE  Spec => []PromiseKept
<1>UnixTypes.
    ASSUME NEW t \in Nat
    PROVE  /\ Unix(t) \in Nat /\ RoundUnix(t) \in Nat /\ Unix(t) <= RoundUnix(t)
           /\ LeaseEnd(t) \in Nat /\ Unix(t) <= Unix(t + 1)
  BY RangeAssumption, SMTT(60) DEF RangeAssumption, Unix, RoundUnix, LeaseEnd
(* An expiry at or after t counts t's seconds, and one before t is no later   *)
(* than t rounded.                                                            *)
<1>UnixBounds.
    ASSUME NEW e \in Nat, NEW t \in Nat
    PROVE  /\ e * TicksPerSec >= t => e >= Unix(t)
           /\ e * TicksPerSec < t => e <= RoundUnix(t)
  <2>1. TicksPerSec \in Nat \ {0}
    BY RangeAssumption DEF RangeAssumption
  <2>2. e * TicksPerSec >= t => e >= Unix(t)
    BY <2>1, SMTT(60) DEF Unix
  <2>3. e * TicksPerSec < t => e <= Unix(t)
    BY <2>1, SMTT(60) DEF Unix
  <2> QED
    BY <2>2, <2>3, <1>UnixTypes, SMTT(60)
<1>LapseKeeps.
    ASSUME NEW S, LockedOK(S), NEW T, NEW t, NEW by, Lapse(S, T, t, by)
    PROVE  /\ KeepsLive(S, T, t)
           /\ \A n \in DOMAIN S.rec : ~Expired(S.rec[n], t) => T.rec[n] = S.rec[n]
  <2> USE <1>LapseKeeps
  <2>1. PICK D \in SUBSET ExpiredMacs(S, t) : Cleared(S, T, D, by)
    BY DEF Lapse
  <2>2. \A n \in DOMAIN S.rec : ~Expired(S.rec[n], t) => n \in DOMAIN T.rec /\ T.rec[n] = S.rec[n]
    BY <2>1 DEF Cleared, ExpiredMacs
  <2>3. \A n \in DOMAIN S.rec : S.rec[n].expires \in Nat
    BY DEF LockedOK, IsMap, Record
  <2>4. \A x \in Nat : x >= x
    BY SMTT(60)
  <2> QED
    BY <2>2, <2>3, <2>4 DEF KeepsLive
<1>LeaseForKeeps.
    ASSUME NEW S, Good(S), NEW m \in Macs, NewGen(m) \in Gens, NEW t \in Nat, NEW by \in Workers,
           NEW r \in LeaseFor(S, m, t, by)
    PROVE  /\ KeepsLive(S, r.st, t)
           /\ r.ip # NoOffset => Covers(r.st.rec, m, r.ip, LeaseEnd(t))
  <2> USE <1>LeaseForKeeps
  <2>1. \/ Refused(S, r, t, by) \/ Enough(S, r, m, t)
        \/ Renewed(S, r, m, t, by) \/ Granted(S, r, m, t, by)
    BY LeaseForForm
  <2>2. LockedOK(S) /\ \A n \in DOMAIN S.rec : S.rec[n] \in Record /\ S.rec[n].expires \in Nat
    BY DEF Good, LockedOK, IsMap, Record
  <2>3. PICK end \in Nat : end = LeaseEnd(t) /\ Unix(end) \in Nat /\ RoundUnix(end) \in Nat
                           /\ Unix(end) <= RoundUnix(end)
    BY <1>UnixTypes
  <2>4. CASE Refused(S, r, t, by)
    BY <2>2, <2>4, <1>LapseKeeps DEF Refused
  <2>5. CASE Enough(S, r, m, t)
    <3>1. r.st.rec = S.rec /\ m \in DOMAIN S.rec /\ r.ip = S.rec[m].ip
          /\ S.rec[m].expires * TicksPerSec >= end
      BY <2>3, <2>5 DEF Enough, Logged
    <3>2. S.rec[m].expires >= Unix(end)
      BY <2>2, <3>1, <1>UnixBounds
    <3>3. KeepsLive(S, r.st, t)
      BY <2>2, <3>1, SMTT(60) DEF KeepsLive
    <3> QED
      BY <2>3, <3>1, <3>2, <3>3 DEF Covers
  <2>6. CASE Renewed(S, r, m, t, by)
    <3> DEFINE new == [S.rec[m] EXCEPT !.expires = RoundUnix(LeaseEnd(t))]
    <3>1. /\ m \in DOMAIN S.rec /\ r.ip = S.rec[m].ip /\ S.rec[m].expires * TicksPerSec < end
          /\ r.st.rec = With(S.rec, m, new)
      BY <2>3, <2>6 DEF Renewed, Stored
    <3>2. new.ip = S.rec[m].ip /\ new.expires = RoundUnix(end)
      BY <2>2, <2>3, <3>1 DEF Record
    <3> HIDE DEF new
    <3>3. S.rec[m].expires <= RoundUnix(end)
      BY <2>2, <3>1, <1>UnixBounds
    <3>4. /\ DOMAIN r.st.rec = DOMAIN S.rec /\ r.st.rec[m] = new
          /\ \A n \in DOMAIN S.rec \ {m} : r.st.rec[n] = S.rec[n]
      BY <3>1 DEF With
    <3>5. Covers(r.st.rec, m, r.ip, LeaseEnd(t))
      BY <2>3, <3>1, <3>2, <3>4 DEF Covers
    <3>6. KeepsLive(S, r.st, t)
      <4>1. r.st.rec[m].expires >= S.rec[m].expires
        BY <2>2, <2>3, <3>1, <3>2, <3>3, <3>4
      <4>2. \A n \in DOMAIN S.rec \ {m} : r.st.rec[n].expires >= S.rec[n].expires
        BY <2>2, <3>4, SMTT(60)
      <4> QED
        BY <3>2, <3>4, <4>1, <4>2 DEF KeepsLive
    <3> QED
      BY <3>5, <3>6
  <2>7. CASE Granted(S, r, m, t, by)
    <3> DEFINE new == [gen |-> NewGen(m), ip |-> r.ip, expires |-> Unix(LeaseEnd(t))]
    <3>1. PICK T : Lapse(S, T, t, by) /\ m \notin DOMAIN T.rec /\ r.st.rec = With(T.rec, m, new)
      BY <2>7 DEF Granted, Stored
    <3>2. new.ip = r.ip /\ new.expires = Unix(end)
      BY <2>3
    <3> HIDE DEF new
    <3>3. /\ DOMAIN r.st.rec = DOMAIN T.rec \cup {m} /\ r.st.rec[m] = new
          /\ \A n \in DOMAIN T.rec : r.st.rec[n] = T.rec[n]
      BY <3>1 DEF With
    <3>4. Covers(r.st.rec, m, r.ip, LeaseEnd(t))
      BY <2>3, <3>2, <3>3, SMTT(60) DEF Covers
    <3>5. KeepsLive(S, T, t)
      BY <2>2, <3>1, <1>LapseKeeps
    <3>6. KeepsLive(S, r.st, t)
      BY <3>3, <3>5 DEF KeepsLive
    <3> QED
      BY <3>4, <3>6
  <2> QED
    BY <2>1, <2>4, <2>5, <2>6, <2>7
<1>LiveKept.
    ASSUME IndInv, NEW S, LockedOK(S), KeepsLive(Locked, S, now), NEW m, NEW ip, NEW until \in Nat,
           Honoured(records, m, ip, until)
    PROVE  Honoured(S.rec, m, ip, until)
  <2> USE <1>LiveKept
  <2> SUFFICES ASSUME Unix(until) > Unix(now) PROVE Covers(S.rec, m, ip, until)
    BY DEF Honoured
  <2>1. m \in DOMAIN records /\ records[m].ip = ip /\ records[m].expires >= Unix(until)
    BY DEF Honoured, Covers
  <2>2. now \in Nat /\ Unix(now) \in Nat /\ Unix(until) \in Nat /\ Locked.rec = records
    BY NowIsNat, <1>UnixTypes DEF Locked
  <2>3. records[m].expires \in Nat
    BY <2>1 DEF IndInv, TablesOK, IsMap, Record
  <2>4. ~Expired(records[m], now)
    BY <2>1, <2>2, <2>3, SMTT(60) DEF Expired
  <2>5. m \in DOMAIN S.rec /\ S.rec[m].ip = ip /\ S.rec[m].expires >= records[m].expires
    BY <2>1, <2>2, <2>4 DEF KeepsLive
  <2>6. S.rec[m].expires \in Nat
    BY <2>5 DEF LockedOK, IsMap, Record
  <2>7. S.rec[m].expires >= Unix(until)
    BY <2>1, <2>2, <2>3, <2>5, <2>6, SMTT(60)
  <2> QED
    BY <2>5, <2>7 DEF Covers
<1>PromiseTypes.
    ASSUME IndInv
    PROVE  /\ \A m \in DOMAIN told : told[m].until \in Nat
           /\ \A w \in Workers : workers[w] \in WorkerSet
           /\ \A w \in Workers : \A r \in workers[w].reply : r.until \in Nat
  <2> USE <1>PromiseTypes
  <2>1. \A m \in DOMAIN told : told[m].until \in Nat
    BY DEF IndInv, RestOK, IsMap
  <2>2. \A w \in Workers : workers[w] \in WorkerSet
    BY DEF IndInv, RestOK
  <2>3. \A w \in Workers : \A r \in workers[w].reply : r.until \in Nat
    BY <2>2 DEF WorkerSet, ReplySet
  <2> QED
    BY <2>1, <2>2, <2>3
(* A section that takes no lease from anybody keeps every promise. *)
<1>AwaitPromise.
    ASSUME IndInv, PromiseInv, NEW w \in Workers, NEW S, LockedOK(S), KeepsLive(Locked, S, now),
           NEW reply, NEW left, Await(w, S, reply, left),
           \A r \in reply : Honoured(S.rec, r.mac, r.ip, r.until),
           \A m \in DOMAIN told' : m \in DOMAIN told /\ told'[m] = told[m]
    PROVE  PromiseInv'
  <2> USE <1>AwaitPromise
  <2>1. records' = S.rec /\ now' = now /\ status' = status /\ writer' = writer
    BY DEF Await, Install
  <2>2. ASSUME NEW m \in DOMAIN told' PROVE Honoured(S.rec, m, told'[m].ip, told'[m].until)
    BY <2>2, <1>PromiseTypes, <1>LiveKept DEF PromiseInv
  <2>3. ASSUME NEW v \in Workers, NEW r \in workers'[v].reply
        PROVE  Honoured(S.rec, r.mac, r.ip, r.until)
    <3>1. CASE v = w
      <4>1. workers'[v] = [busy |-> TRUE, reply |-> reply, pend |-> S.pend]
        BY <3>1 DEF Await
      <4> QED
        BY <2>3, <4>1, SMTT(60)
    <3>2. CASE v # w
      <4>1. workers'[v] = [workers[v] EXCEPT !.reply = {x \in @ : x.mac \notin left}]
        BY <3>2 DEF Await
      <4>2. workers[v] \in WorkerSet
        BY <1>PromiseTypes
      <4>3. workers'[v].reply = {x \in workers[v].reply : x.mac \notin left}
        BY <4>1, <4>2 DEF WorkerSet
      <4>4. r \in workers[v].reply
        BY <2>3, <4>3
      <4> QED
        BY <4>4, <1>PromiseTypes, <1>LiveKept DEF PromiseInv
    <3> QED
      BY <3>1, <3>2
  <2>4. \A m, ip, until : Honoured(S.rec, m, ip, until) => Honoured(records, m, ip, until)'
    BY <2>1 DEF Honoured, Covers, Unix
  <2> QED
    BY <2>1, <2>2, <2>3, <2>4 DEF PromiseInv
<1>RequestPromise.
    ASSUME IndInv, PromiseInv, NEW w \in Handlers, NEW m \in Macs, Request(w, m)
    PROVE  PromiseInv'
  <2> USE <1>RequestPromise
  <2>1. Good(Locked) /\ w \in Workers /\ now \in Nat /\ NewGen(m) \in Gens
    BY RequestWorked
  <2>2. PICK r \in LeaseFor(Locked, m, now, w) :
          Await(w, r.st, IF r.ip = NoOffset THEN {}
                         ELSE {[mac |-> m, ip |-> r.ip, until |-> LeaseEnd(now)]}, {})
    BY DEF Request
  <2>3. LockedOK(r.st)
    BY <2>1, LeaseForOK DEF Answer, Good
  <2>4. /\ KeepsLive(Locked, r.st, now)
        /\ r.ip # NoOffset => Covers(r.st.rec, m, r.ip, LeaseEnd(now))
    BY <2>1, <1>LeaseForKeeps
  <2>5. PICK reply : reply = IF r.ip = NoOffset THEN {}
                             ELSE {[mac |-> m, ip |-> r.ip, until |-> LeaseEnd(now)]}
    OBVIOUS
  <2>6. \A x \in reply : Honoured(r.st.rec, x.mac, x.ip, x.until)
    BY <2>4, <2>5, SMTT(60) DEF Honoured
  <2>7. told' = told
    BY DEF Request
  <2> QED
    BY <2>1, <2>2, <2>3, <2>4, <2>5, <2>6, <2>7, <1>AwaitPromise
(* A client that gives up its address is promised nothing any more, and no    *)
(* other client's lease is touched.                                           *)
<1>GiveUpPromise.
    ASSUME IndInv, PromiseInv, NEW w \in Handlers, NEW m \in Macs, NEW ip \in IPs,
           Release(w, m, ip) \/ Decline(w, m, ip)
    PROVE  PromiseInv'
  <2> USE <1>GiveUpPromise
  <2>1. Good(Locked) /\ LockedOK(Locked) /\ w \in Workers /\ now \in Nat /\ Locked.rec = records
    BY LockedGood, NowIsNat DEF IndInv, Workers, Good, Locked
  <2>2. GaveUp(m, ip)
    BY DEF Release, Decline
  <2>3. /\ \A n \in DOMAIN told' : n \in DOMAIN told /\ told'[n] = told[n]
        /\ m \in DOMAIN told' => told[m].ip # ip
    BY <2>2 DEF GaveUp, Without
  <2>4. ASSUME Await(w, Locked, {}, {m}) PROVE PromiseInv'
    <3>1. KeepsLive(Locked, Locked, now)
      <4>1. Logged(Locked, Locked)
        BY DEF Logged
      <4> QED
        BY <2>1, <4>1, LapseNone, <1>LapseKeeps
    <3> QED
      BY <2>1, <2>3, <2>4, <3>1, <1>AwaitPromise, SMTT(60)
  <2>5. ASSUME NEW S, LockedOK(S), Cleared(Locked, S, {m}, w), m \in DOMAIN records, records[m].ip = ip,
               Await(w, S, {}, {m})
        PROVE  PromiseInv'
    <3>1. records' = S.rec /\ now' = now /\ status' = status /\ writer' = writer
      BY <2>5 DEF Await, Install
    <3>2. \A n \in DOMAIN records \ {m} : n \in DOMAIN S.rec /\ S.rec[n] = records[n]
      BY <2>1, <2>5 DEF Cleared
    <3>3. ASSUME NEW n, NEW jp, NEW until, Honoured(records, n, jp, until), n # m \/ jp # ip
          PROVE  Honoured(S.rec, n, jp, until)
      BY <2>5, <3>2, <3>3 DEF Honoured, Covers
    <3>4. \A n, jp, until : Honoured(S.rec, n, jp, until) => Honoured(records, n, jp, until)'
      BY <3>1 DEF Honoured, Covers, Unix
    <3>5. ASSUME NEW n \in DOMAIN told' PROVE Honoured(S.rec, n, told'[n].ip, told'[n].until)
      BY <2>3, <3>3, <3>5 DEF PromiseInv
    <3>6. ASSUME NEW v \in Workers, NEW r \in workers'[v].reply
          PROVE  Honoured(S.rec, r.mac, r.ip, r.until)
      <4>1. v # w
        <5>1. workers'[w] = [busy |-> TRUE, reply |-> {}, pend |-> S.pend]
          BY <2>1, <2>5 DEF Await
        <5> QED
          BY <3>6, <5>1, SMTT(60)
      <4>2. workers'[v] = [workers[v] EXCEPT !.reply = {x \in @ : x.mac \notin {m}}]
        BY <2>5, <4>1 DEF Await
      <4>3. workers[v] \in WorkerSet
        BY <1>PromiseTypes
      <4>4. workers'[v].reply = {x \in workers[v].reply : x.mac \notin {m}}
        BY <4>2, <4>3 DEF WorkerSet
      <4>5. r \in workers[v].reply /\ r.mac # m
        BY <3>6, <4>4
      <4> QED
        BY <3>3, <4>5 DEF PromiseInv
    <3> QED
      BY <3>1, <3>4, <3>5, <3>6 DEF PromiseInv
  <2>6. ASSUME NEW S, LockedOK(S), GivenUp(Locked, S, m, w), m \in DOMAIN records, records[m].ip = ip,
               Await(w, S, {}, {m})
        PROVE  PromiseInv'
    <3>1. CASE Cleared(Locked, S, {m}, w)
      BY <2>5, <2>6, <3>1
    <3>2. CASE Logged(Locked, S)
      <4>1. KeepsLive(Locked, S, now)
        BY <2>1, <3>2, LapseNone, <1>LapseKeeps
      <4> QED
        BY <2>1, <2>3, <2>6, <4>1, <1>AwaitPromise, SMTT(60)
    <3> QED
      BY <2>6, <3>1, <3>2 DEF GivenUp
  <2>7. CASE m \in DOMAIN records /\ records[m].ip = ip
    <3>1. PICK S : \/ S = FreeLease(Locked, m, w) /\ Await(w, S, {}, {m})
                   \/ S = Quarantine(Locked, m, now, w) /\ Await(w, S, {}, {m})
      BY <2>7 DEF Release, Decline
    <3>2. CASE S = FreeLease(Locked, m, w) /\ Await(w, S, {}, {m})
      <4>1. GivenUp(Locked, S, m, w)
        BY <2>1, <2>7, <3>2, FreeLeaseForm
      <4>2. Good(S)
        BY <2>1, <2>7, <3>2, FreeLeaseForm
      <4> QED
        BY <2>6, <2>7, <3>2, <4>1, <4>2 DEF Good
    <3>3. CASE S = Quarantine(Locked, m, now, w) /\ Await(w, S, {}, {m})
      <4>1. GivenUp(Locked, S, m, w)
        BY <2>1, <2>7, <3>3, QuarantineForm
      <4>2. Good(S)
        BY <2>1, <2>7, <3>3, QuarantineForm
      <4> QED
        BY <2>6, <2>7, <3>3, <4>1, <4>2 DEF Good
    <3> QED
      BY <3>1, <3>2, <3>3
  <2>8. CASE ~(m \in DOMAIN records /\ records[m].ip = ip)
    <3>1. Await(w, Locked, {}, {m})
      BY <2>8 DEF Release, Decline
    <3> QED
      BY <2>4, <3>1
  <2> QED
    BY <2>7, <2>8
<1>SettlePromise.
    ASSUME IndInv, PromiseInv, DiskInv, NEW w \in Workers, Settle(w)
    PROVE  PromiseInv'
  <2> USE <1>SettlePromise
  <2>1. /\ UNCHANGED <<now, status, writer>>
        /\ workers'[w] = Idle /\ (\A v \in Workers \ {w} : workers'[v] = workers[v])
        /\ records' = Undone(w).rec
    BY SettleForm
  <2>2. Failed(w) = {}
    <3>1. workers[w].pend \in Seq(PendingSet) /\ Unfailed(workers[w].pend)
      BY DEF IndInv, RestOK, WorkerSet, DiskInv
    <3>2. workers[w].pend \in [1 .. Len(workers[w].pend) -> PendingSet]
      BY <3>1, SeqLen
    <3>3. \A p \in Elements(workers[w].pend) : p \in PendingSet /\ p.result # "error"
      BY <3>1, <3>2 DEF Elements, Unfailed
    <3>4. \A p \in Elements(workers[w].pend) : p.result # "waiting"
      BY DEF Settle, Answered, PromiseInv
    <3> QED
      BY <3>3, <3>4 DEF Failed, PendingSet
  <2>3. records' = records
    BY <2>1, <2>2 DEF Undone, Locked
  <2>4. told' = [m \in DOMAIN told \cup {r.mac : r \in workers[w].reply} |->
                   IF \E r \in workers[w].reply : r.mac = m
                   THEN LET r == CHOOSE r \in workers[w].reply : r.mac = m
                        IN  [ip |-> r.ip, until |-> r.until]
                   ELSE told[m]]
    BY <2>2 DEF Settle
  <2>5. ASSUME NEW m \in DOMAIN told'
        PROVE  Honoured(records, m, told'[m].ip, told'[m].until)
    <3>1. CASE \E r \in workers[w].reply : r.mac = m
      <4>1. PICK r : r = CHOOSE x \in workers[w].reply : x.mac = m
        OBVIOUS
      <4>2. r \in workers[w].reply /\ r.mac = m
        BY <3>1, <4>1
      <4>3. told'[m] = [ip |-> r.ip, until |-> r.until]
        BY <2>4, <2>5, <3>1, <4>1
      <4>4. told'[m].ip = r.ip /\ told'[m].until = r.until
        BY <4>3, SMTT(60)
      <4> QED
        BY <4>2, <4>4 DEF PromiseInv
    <3>2. CASE ~\E r \in workers[w].reply : r.mac = m
      <4>1. m \in DOMAIN told /\ told'[m] = told[m]
        BY <2>4, <2>5, <3>2
      <4> QED
        BY <4>1 DEF PromiseInv
    <3> QED
      BY <3>1, <3>2
  <2>6. \A v \in Workers : \A r \in workers'[v].reply : Honoured(records, r.mac, r.ip, r.until)
    <3>1. workers'[w].reply = {}
      BY <2>1, SMTT(60) DEF Idle
    <3> QED
      BY <2>1, <3>1 DEF PromiseInv
  <2>7. \A m, ip, until : Honoured(records, m, ip, until) => Honoured(records, m, ip, until)'
    BY <2>1, <2>3 DEF Honoured, Covers, Unix
  <2> QED
    BY <2>1, <2>5, <2>6, <2>7 DEF PromiseInv
<1>TickPromise.
    ASSUME IndInv, PromiseInv, Tick
    PROVE  PromiseInv'
  <2> USE <1>TickPromise
  <2>1. now \in Nat /\ now' = now + 1 /\ Unix(now) \in Nat /\ Unix(now + 1) \in Nat
        /\ Unix(now) <= Unix(now + 1)
    BY NowIsNat, <1>UnixTypes, SMTT(60) DEF Tick
  <2>2. ASSUME NEW m, NEW ip, NEW until \in Nat, Honoured(records, m, ip, until)
        PROVE  Honoured(records, m, ip, until)'
    <3>1. Unix(until) \in Nat /\ Unix(now)' = Unix(now + 1)
      BY <2>1, <1>UnixTypes DEF Unix
    <3>2. Unix(until) > Unix(now + 1) => Unix(until) > Unix(now)
      BY <2>1, <3>1, SMTT(60)
    <3>3. records' = records
      BY DEF Tick
    <3> QED
      BY <2>2, <3>1, <3>2, <3>3 DEF Honoured, Covers, Unix
  <2>3. \A m \in DOMAIN told' : m \in DOMAIN told /\ told'[m] = told[m]
    BY DEF Tick, Without
  <2>4. UNCHANGED <<workers, status, writer>>
    BY DEF Tick
  <2>5. ASSUME NEW m \in DOMAIN told'
        PROVE  \E ip, until : /\ told'[m].ip = ip /\ told'[m].until = until
                              /\ Honoured(records, m, ip, until)'
    <3>1. PICK ip, until : told[m].ip = ip /\ told[m].until = until
      OBVIOUS
    <3>2. m \in DOMAIN told /\ told'[m].ip = ip /\ told'[m].until = until
      BY <2>3, <2>5, <3>1
    <3>3. until \in Nat /\ Honoured(records, m, ip, until)
      BY <3>1, <3>2, <1>PromiseTypes DEF PromiseInv
    <3> QED
      BY <2>2, <3>2, <3>3
  <2>6. \A w \in Workers : \A r \in workers'[w].reply : Honoured(records, r.mac, r.ip, r.until)'
    BY <2>2, <2>4, <1>PromiseTypes DEF PromiseInv
  <2> QED
    BY <2>4, <2>5, <2>6 DEF PromiseInv
<1>EveryPromise.
    ASSUME ~WritesFail, ~Crashes, ~Closes, IndInv, DiskInv, PromiseInv, [Next]_vars
    PROVE  PromiseInv'
  <2> USE <1>EveryPromise
  <2>1. ~WriteFails /\ ~Crash /\ ~Close /\ ~WriterExits /\ ~Restart /\ ~RestartRefused
    BY DEF WriteFails, Crash, Close, WriterExits, Restart, RestartRefused, PromiseInv
  <2>2. ASSUME NEW w \in Handlers, NEW m \in Macs, Request(w, m) PROVE PromiseInv'
    BY <2>2, <1>RequestPromise
  <2>3. ASSUME NEW w \in Handlers, NEW m \in Macs, NEW ip \in IPs,
               Release(w, m, ip) \/ Decline(w, m, ip)
        PROVE  PromiseInv'
    BY <2>3, <1>GiveUpPromise
  <2>4. CASE SweepOnce
    <3>1. Good(Locked) /\ LockedOK(Locked) /\ Sweeper \in Workers /\ told' = told
      BY <2>4, LockedGood DEF IndInv, Workers, Good, SweepOnce
    <3>2. PICK S \in Reclaim(Locked, now, Sweeper) : Await(Sweeper, S, {}, {})
      BY <2>4 DEF SweepOnce
    <3>3. LockedOK(S) /\ Lapse(Locked, S, now, Sweeper)
      BY <3>1, ReclaimForm DEF Good
    <3>4. KeepsLive(Locked, S, now)
      BY <3>1, <3>3, <1>LapseKeeps
    <3> QED
      BY <3>1, <3>2, <3>3, <3>4, <1>AwaitPromise, SMTT(60)
  <2>5. ASSUME NEW w \in Workers, Settle(w) PROVE PromiseInv'
    BY <2>5, <1>SettlePromise
  <2>6. CASE Write
    <3>1. TakeWrite("ok")
      BY <2>6 DEF Write
    <3>2. UNCHANGED <<now, status, writer, records, told>>
      BY <3>1 DEF TakeWrite
    <3>3. ASSUME NEW v \in Workers PROVE workers'[v].reply = workers[v].reply
      <4>1. PICK by \in Workers : by = Head(writes).by
        BY <3>1, TakeWriteForm DEF WriteSet
      <4>2. workers' = [workers EXCEPT ![by].pend = Deliver(@, "ok")]
        BY <3>1, <4>1 DEF TakeWrite
      <4>3. workers \in [Workers -> WorkerSet] /\ workers[v] \in WorkerSet
        BY DEF IndInv, RestOK
      <4>4. workers'[v] = workers[v] \/ workers'[v] = [workers[v] EXCEPT !.pend = Deliver(@, "ok")]
        BY <4>2, <4>3
      <4> QED
        BY <4>3, <4>4 DEF WorkerSet
    <3>4. \A m, ip, until : Honoured(records, m, ip, until) => Honoured(records, m, ip, until)'
      BY <3>2 DEF Honoured, Covers, Unix
    <3> QED
      BY <3>2, <3>3, <3>4 DEF PromiseInv
  <2>7. CASE Tick
    BY <2>7, <1>TickPromise
  <2>8. CASE UNCHANGED vars
    BY <2>8 DEF vars, PromiseInv, Honoured, Covers, Unix
  <2> QED
    BY <2>1, <2>2, <2>3, <2>4, <2>5, <2>6, <2>7, <2>8 DEF Next
<1>1. Init => PromiseInv
  BY SMTT(60) DEF Init, EmptyMap, Idle, PromiseInv
<1>2. IndInv /\ DiskInv /\ PromiseInv /\ [Next]_vars => PromiseInv'
  BY <1>EveryPromise
<1>3. PromiseInv => PromiseKept
  BY DEF PromiseInv, PromiseKept, Live, Honoured, Covers
<1> QED
  BY <1>1, <1>2, <1>3, Inductive, FileInductive, PTL DEF Spec

=============================================================================
