---------------------------- MODULE RangeProofs ----------------------------
(***************************************************************************)
(* Proofs about Range, for every pool size, set of clients, queue length,  *)
(* set of handlers and choice of failures and crashes: the types, that the *)
(* bitmap, the lease table and the quarantine always agree, that addresses *)
(* stay where they were settled, and the bound of the quarantine.          *)
(*                                                                         *)
(* RangeSectionProofs is about the sections under the plugin lock; here    *)
(* are the steps of the server around them, and at the end what each does  *)
(* to the write queue and to the results the goroutines wait for.          *)
(***************************************************************************)
EXTENDS RangeSectionProofs

(* Zenon proves the leaves, but for those that name another prover. *)
USE ZenonT(30)

(* What a locked section may change ... *)
TablesOK ==
  /\ IsMap(records, Macs, Record) /\ IsMap(declined, IPs, Nat)
  /\ allocated \in SUBSET IPs
  /\ writes \in Seq(WriteSet) /\ Len(writes) <= QueueLen
  /\ PoolAccounted /\ NoSharedAddress

(* ... and the rest. *)
RestOK ==
  /\ now \in 0 .. MaxTick
  /\ status \in {"up", "down", "refused"}
  /\ writer \in {"on", "draining", "off"}
  /\ IsMap(db, Macs \X IPs, Nat)
  /\ workers \in [Workers -> WorkerSet]
  /\ IsMap(told, Macs, [ip : IPs, until : Nat])

(* A dead process holds no quarantine, so what Restart loads is all there is. *)
DownForgets == status = "down" => DOMAIN declined = {}

IndInv == TablesOK /\ RestOK /\ DownForgets

LEMMA LockedGood ==
  ASSUME TablesOK PROVE Good(Locked)
<1>1. /\ Locked.rec = records /\ Locked.alloc = allocated /\ Locked.dec = declined
      /\ Locked.q = writes /\ Locked.pend = <<>>
      /\ DOMAIN Locked = {"rec", "alloc", "dec", "q", "pend"}
  BY DEF Locked
<1>2. <<>> \in Seq(PendingSet)
  BY SeqEmpty
<1>3. LockedOK(Locked)
  BY <1>1, <1>2 DEF TablesOK, LockedOK
<1>4. Apart(Locked)
  BY <1>1 DEF TablesOK, Apart, NoSharedAddress
<1>5. Locked.alloc = Leased(Locked) \cup DOMAIN Locked.dec
  BY <1>1 DEF TablesOK, Leased, PoolAccounted
<1> QED
  BY <1>3, <1>4, <1>5 DEF Good

(* The clock of a reachable state is a number. *)
LEMMA NowIsNat ==
  ASSUME IndInv
  PROVE  now \in Nat
BY RangeAssumption, SMTT(60) DEF IndInv, RestOK, RangeAssumption

LEMMA DeliverOK ==
  ASSUME NEW pend \in Seq(PendingSet), NEW result \in {"ok", "error"}
  PROVE  Deliver(pend, result) \in Seq(PendingSet)
<1>1. pend \in [1 .. Len(pend) -> PendingSet] /\ Len(pend) \in Nat
  BY SeqLen
<1>2. \A i \in 1 .. Len(pend) : [pend[i] EXCEPT !.result = result] \in PendingSet
  BY <1>1 DEF PendingSet
<1>3. Deliver(pend, result) \in [1 .. Len(pend) -> PendingSet]
  BY <1>1, <1>2 DEF Deliver
<1> QED
  BY <1>1, <1>3, SMTT(60)

LEMMA Inductive == Spec => []IndInv
<1>InstallOK.
    ASSUME NEW STATE S, Good(S), Install(S)
    PROVE  TablesOK'
  <2> USE <1>InstallOK
  <2>1. records' = S.rec /\ allocated' = S.alloc /\ declined' = S.dec /\ writes' = S.q
    BY DEF Install
  <2>2. LockedOK(S) /\ Apart(S) /\ S.alloc = Leased(S) \cup DOMAIN S.dec
    BY DEF Good
  <2>3. PoolAccounted'
    BY <2>1, <2>2 DEF PoolAccounted, Leased
  <2>4. NoSharedAddress'
    BY <2>1, <2>2 DEF NoSharedAddress, Apart
  <2> QED
    BY <2>1, <2>2, <2>3, <2>4 DEF TablesOK, LockedOK
<1>AwaitOK.
    ASSUME IndInv, status = "up", NEW w \in Workers, NEW STATE S, Good(S),
           NEW STATE reply, reply \in SUBSET ReplySet, NEW left, Await(w, S, reply, left),
           IsMap(told', Macs, [ip : IPs, until : Nat])
    PROVE  IndInv'
  <2> USE <1>AwaitOK
  <2>1. TablesOK'
    BY <1>InstallOK DEF Await
  <2>2. S.pend \in Seq(PendingSet)
    BY DEF Good, LockedOK
  <2>3. workers \in [Workers -> WorkerSet]
    BY DEF IndInv, RestOK
  <2>4. \A v \in Workers : [workers[v] EXCEPT !.reply = {r \in @ : r.mac \notin left}] \in WorkerSet
    BY <2>3 DEF WorkerSet
  <2>5. [busy |-> TRUE, reply |-> reply, pend |-> S.pend] \in WorkerSet
    BY <2>2 DEF WorkerSet
  <2>6. workers' \in [Workers -> WorkerSet]
    BY <2>4, <2>5 DEF Await
  <2>7. RestOK'
    BY <2>6 DEF IndInv, RestOK, Await
  <2>8. DownForgets'
    BY DEF DownForgets, Await
  <2> QED
    BY <2>1, <2>7, <2>8 DEF IndInv
(* A client never hears of an address outside the pool. *)
<1>GaveUpOK.
    ASSUME IndInv, NEW m, NEW ip, GaveUp(m, ip)
    PROVE  IsMap(told', Macs, [ip : IPs, until : Nat])
  BY <1>GaveUpOK DEF GaveUp, IndInv, RestOK, IsMap, Without
<1>RequestStep.
    ASSUME IndInv, NEW w \in Handlers, NEW m \in Macs, Request(w, m)
    PROVE  IndInv'
  <2> USE <1>RequestStep
  <2>1. Good(Locked) /\ w \in Workers /\ now \in Nat /\ status = "up"
    <3>1. Good(Locked)
      BY LockedGood DEF IndInv
    <3>2. w \in Workers
      BY DEF Workers
    <3>3. status = "up"
      BY DEF Request, Ready
    <3> QED
      BY <3>1, <3>2, <3>3, NowIsNat
  <2>2. NewGen(m) \in Gens
    BY DEF Request, NewGen
  <2>3. PICK r \in LeaseFor(Locked, m, now, w) :
          Await(w, r.st, IF r.ip = NoOffset THEN {}
                         ELSE {[mac |-> m, ip |-> r.ip, until |-> LeaseEnd(now)]}, {})
    BY DEF Request
  <2>4. Answer(r)
    BY <2>1, <2>2, LeaseForOK
  <2>5. LeaseEnd(now) \in Nat
    BY <2>1, RangeAssumption, SMTT(60) DEF LeaseEnd, RangeAssumption
  <2> DEFINE reply == IF r.ip = NoOffset THEN {}
                      ELSE {[mac |-> m, ip |-> r.ip, until |-> LeaseEnd(now)]}
  <2>6. reply \in SUBSET ReplySet /\ Good(r.st)
    BY <2>4, <2>5, SMTT(60) DEF Answer, ReplySet
  <2>7. IsMap(told', Macs, [ip : IPs, until : Nat])
    BY DEF Request, IndInv, RestOK
  <2>8. Await(w, r.st, reply, {})
    BY <2>3
  <2> HIDE DEF reply
  <2> QED
    BY <2>1, <2>6, <2>7, <2>8, <1>AwaitOK
<1>ReleaseStep.
    ASSUME IndInv, NEW w \in Handlers, NEW m \in Macs, NEW ip \in IPs, Release(w, m, ip)
    PROVE  IndInv'
  <2> USE <1>ReleaseStep
  <2> DEFINE S == IF m \in DOMAIN records /\ records[m].ip = ip
                  THEN FreeLease(Locked, m, w) ELSE Locked
  <2>1. Good(Locked) /\ w \in Workers /\ status = "up" /\ Locked.rec = records
    <3>1. Good(Locked)
      BY LockedGood DEF IndInv
    <3>2. w \in Workers
      BY DEF Workers
    <3>3. status = "up"
      BY DEF Release, Ready
    <3>4. Locked.rec = records
      BY DEF Locked
    <3> QED
      BY <3>1, <3>2, <3>3, <3>4
  <2>2. Good(S)
    BY <2>1, FreeLeaseForm
  <2>3. Await(w, S, {}, {m}) /\ GaveUp(m, ip)
    BY DEF Release
  <2>4. IsMap(told', Macs, [ip : IPs, until : Nat])
    BY <2>3, <1>GaveUpOK
  <2>5. {} \in SUBSET ReplySet
    OBVIOUS
  <2> HIDE DEF S
  <2> QED
    BY <2>1, <2>2, <2>3, <2>4, <2>5, <1>AwaitOK
<1>DeclineStep.
    ASSUME IndInv, NEW w \in Handlers, NEW m \in Macs, NEW ip \in IPs, Decline(w, m, ip)
    PROVE  IndInv'
  <2> USE <1>DeclineStep
  <2> DEFINE S == IF m \in DOMAIN records /\ records[m].ip = ip
                  THEN Quarantine(Locked, m, now, w) ELSE Locked
  <2>1. /\ Good(Locked) /\ w \in Workers /\ status = "up" /\ Locked.rec = records
        /\ now \in Nat
    <3>1. Good(Locked)
      BY LockedGood DEF IndInv
    <3>2. w \in Workers
      BY DEF Workers
    <3>3. status = "up"
      BY DEF Decline, Ready
    <3>4. Locked.rec = records
      BY DEF Locked
    <3> QED
      BY <3>1, <3>2, <3>3, <3>4, NowIsNat
  <2>2. Good(S)
    BY <2>1, QuarantineForm
  <2>3. Await(w, S, {}, {m}) /\ GaveUp(m, ip)
    BY DEF Decline
  <2>4. IsMap(told', Macs, [ip : IPs, until : Nat])
    BY <2>3, <1>GaveUpOK
  <2>5. {} \in SUBSET ReplySet
    OBVIOUS
  <2> HIDE DEF S
  <2> QED
    BY <2>1, <2>2, <2>3, <2>4, <2>5, <1>AwaitOK
<1>SweepStep.
    ASSUME IndInv, SweepOnce
    PROVE  IndInv'
  <2> USE <1>SweepStep
  <2>1. Good(Locked) /\ Sweeper \in Workers /\ status = "up"
    <3>1. Good(Locked)
      BY LockedGood DEF IndInv
    <3>2. Sweeper \in Workers
      BY DEF Workers
    <3>3. status = "up"
      BY DEF SweepOnce, Ready
    <3> QED
      BY <3>1, <3>2, <3>3
  <2>2. PICK S \in Reclaim(Locked, now, Sweeper) : Await(Sweeper, S, {}, {})
    BY DEF SweepOnce
  <2>3. Good(S)
    BY <2>1, ReclaimForm
  <2>4. IsMap(told', Macs, [ip : IPs, until : Nat])
    BY DEF SweepOnce, IndInv, RestOK
  <2>5. {} \in SUBSET ReplySet
    OBVIOUS
  <2> QED
    BY <2>1, <2>2, <2>3, <2>4, <2>5, <1>AwaitOK
<1>SettleStep.
    ASSUME IndInv, NEW w \in Workers, Settle(w)
    PROVE  IndInv'
  <2> USE <1>SettleStep
  <2>1. Good(Locked) /\ workers \in [Workers -> WorkerSet] /\ status = "up"
    BY LockedGood DEF IndInv, RestOK, Settle
  <2>2. workers[w].pend \in Seq(PendingSet) /\ workers[w].reply \in SUBSET ReplySet
    BY <2>1 DEF WorkerSet
  <2>3. \A p \in Failed(w) : p.undo \in UndoSet
    <3>1. workers[w].pend \in [1 .. Len(workers[w].pend) -> PendingSet]
      BY <2>2, SeqLen
    <3>2. \A p \in Failed(w) : p \in PendingSet
      BY <3>1 DEF Failed, Elements
    <3> QED
      BY <3>2 DEF PendingSet
  <2>4. Good(Undone(w))
    <3> DEFINE failed == {p \in Failed(w) : p.undo.kind # "none"}
               u == (CHOOSE p \in failed : TRUE).undo
    <3>1. CASE failed = {}
      BY <2>1, <3>1 DEF Undone
    <3>2. CASE failed # {}
      <4>1. u \in UndoSet
        BY <2>3, <3>2
      <4>2. Undone(w) = Apply(Locked, u)
        BY <3>2 DEF Undone
      <4> HIDE DEF u
      <4> QED
        BY <2>1, <4>1, <4>2, ApplyGood
    <3> QED
      BY <3>1, <3>2
  <2>5. TablesOK'
    BY <2>4, <1>InstallOK DEF Settle
  <2>6. Idle \in WorkerSet
    BY SeqEmpty DEF Idle, WorkerSet
  <2>7. workers' \in [Workers -> WorkerSet]
    BY <2>1, <2>6 DEF Settle
  <2>8. IsMap(told', Macs, [ip : IPs, until : Nat])
    <3>1. IsMap(told, Macs, [ip : IPs, until : Nat])
      BY DEF IndInv, RestOK
    <3>2. \A r \in workers[w].reply : r.mac \in Macs /\ r.ip \in IPs /\ r.until \in Nat
      BY <2>2 DEF ReplySet
    <3>3. CASE Failed(w) # {}
      BY <3>1, <3>3 DEF Settle
    <3>4. CASE Failed(w) = {}
      <4> DEFINE D == DOMAIN told \cup {r.mac : r \in workers[w].reply}
                 e(m) == IF \E r \in workers[w].reply : r.mac = m
                         THEN LET r == CHOOSE r \in workers[w].reply : r.mac = m
                              IN  [ip |-> r.ip, until |-> r.until]
                         ELSE told[m]
      <4>1. told' = [m \in D |-> e(m)]
        BY <3>4 DEF Settle
      <4>2. D \subseteq Macs
        BY <3>1, <3>2 DEF IsMap
      <4>3. ASSUME NEW m \in D PROVE e(m) \in [ip : IPs, until : Nat]
        <5>1. CASE \E r \in workers[w].reply : r.mac = m
          BY <3>2, <5>1
        <5>2. CASE ~\E r \in workers[w].reply : r.mac = m
          BY <3>1, <5>2 DEF IsMap
        <5> QED
          BY <5>1, <5>2
      <4> HIDE DEF D, e
      <4> QED
        BY <4>1, <4>2, <4>3 DEF IsMap
    <3> QED
      BY <3>3, <3>4
  <2>9. RestOK'
    BY <2>7, <2>8 DEF IndInv, RestOK, Settle
  <2>10. DownForgets'
    BY DEF DownForgets, Settle
  <2> QED
    BY <2>5, <2>9, <2>10 DEF IndInv
<1>TakeWriteStep.
    ASSUME IndInv, NEW result \in {"ok", "error"}, TakeWrite(result),
           IsMap(db', Macs \X IPs, Nat)
    PROVE  IndInv'
  <2> USE <1>TakeWriteStep
  <2> DEFINE by == Head(writes).by
  <2>1. writes \in Seq(WriteSet) /\ writes # <<>> /\ workers \in [Workers -> WorkerSet]
    BY DEF IndInv, TablesOK, RestOK, TakeWrite
  <2>2. Head(writes) \in WriteSet /\ Tail(writes) \in Seq(WriteSet) /\ Len(Tail(writes)) = Len(writes) - 1
        /\ Len(writes) \in Nat
    BY <2>1, SeqHeadTail, SeqLen
  <2>3. by \in Workers
    BY <2>2 DEF WriteSet
  <2> HIDE DEF by
  <2>4. workers' \in [Workers -> WorkerSet]
    <3>1. workers[by] \in WorkerSet /\ workers[by].pend \in Seq(PendingSet)
      BY <2>1, <2>3 DEF WorkerSet
    <3> DEFINE p == Deliver(workers[by].pend, result)
    <3>2. p \in Seq(PendingSet)
      BY <3>1, DeliverOK
    <3>3. workers' = [workers EXCEPT ![by].pend = p]
      BY DEF TakeWrite, by
    <3> HIDE DEF p
    <3>4. [workers[by] EXCEPT !.pend = p] \in WorkerSet
      BY <3>1, <3>2 DEF WorkerSet
    <3> QED
      BY <2>1, <2>3, <3>3, <3>4
  <2>5. writes' \in Seq(WriteSet) /\ Len(writes') <= QueueLen
    BY <2>2, RangeAssumption, SMTT(60) DEF TakeWrite, IndInv, TablesOK, RangeAssumption
  <2>6. TablesOK'
    BY <2>5 DEF IndInv, TablesOK, TakeWrite, PoolAccounted, NoSharedAddress
  <2>7. RestOK'
    BY <2>4 DEF IndInv, RestOK, TakeWrite
  <2>8. DownForgets'
    BY DEF IndInv, DownForgets, TakeWrite
  <2> QED
    BY <2>6, <2>7, <2>8 DEF IndInv
<1>WriteStep.
    ASSUME IndInv, Write \/ WriteFails
    PROVE  IndInv'
  <2> USE <1>WriteStep
  <2>1. IsMap(db, Macs \X IPs, Nat) /\ writes \in Seq(WriteSet)
    BY DEF IndInv, TablesOK, RestOK
  <2>2. CASE WriteFails
    <3>1. TakeWrite("error") /\ IsMap(db', Macs \X IPs, Nat)
      BY <2>1, <2>2 DEF WriteFails
    <3> QED
      BY <3>1, <1>TakeWriteStep
  <2>3. CASE Write
    <3> DEFINE w == Head(writes)
               row == <<w.mac, w.ip>>
               D == {row}
    <3>1. TakeWrite("ok") /\ db' = Exec(db, w)
      BY <2>3 DEF Write
    <3>2. w \in WriteSet
      BY <2>1, <3>1, SeqHeadTail DEF TakeWrite
    <3>3. row \in Macs \X IPs /\ w.expires \in Nat
      BY <3>2 DEF WriteSet
    <3>4. db' = With(db, row, w.expires) \/ db' = Without(db, D)
      BY <3>1 DEF Exec
    <3> HIDE DEF w, row, D
    <3>5. IsMap(With(db, row, w.expires), Macs \X IPs, Nat)
      BY <2>1, <3>3 DEF With, IsMap
    <3>6. IsMap(Without(db, D), Macs \X IPs, Nat)
      BY <2>1 DEF Without, IsMap
    <3>7. IsMap(db', Macs \X IPs, Nat)
      BY <3>4, <3>5, <3>6
    <3> QED
      BY <3>1, <3>7, <1>TakeWriteStep
  <2> QED
    BY <2>2, <2>3
<1>TickStep.
    ASSUME IndInv, Tick
    PROVE  IndInv'
  <2> USE <1>TickStep
  <2>1. now' \in 0 .. MaxTick
    BY RangeAssumption, SMTT(60) DEF Tick, IndInv, RestOK, RangeAssumption
  <2>2. IsMap(told', Macs, [ip : IPs, until : Nat])
    <3> DEFINE D == {m \in DOMAIN told : Unix(told[m].until) <= Unix(now')}
    <3>1. told' = Without(told, D) /\ IsMap(told, Macs, [ip : IPs, until : Nat])
      BY DEF Tick, IndInv, RestOK
    <3> HIDE DEF D
    <3> QED
      BY <3>1 DEF IsMap, Without
  <2>3. TablesOK'
    BY DEF IndInv, TablesOK, Tick, PoolAccounted, NoSharedAddress
  <2>4. RestOK'
    BY <2>1, <2>2 DEF IndInv, RestOK, Tick
  <2> QED
    BY <2>3, <2>4 DEF IndInv, DownForgets, Tick
(* A process that dies takes everything but the lease file with it. *)
<1>CrashStep.
    ASSUME IndInv, Crash
    PROVE  IndInv'
  <2> USE <1>CrashStep
  <2>1. IsMap(EmptyMap, Macs, Record) /\ IsMap(EmptyMap, IPs, Nat) /\ DOMAIN EmptyMap = {}
    BY DEF EmptyMap, IsMap
  <2>2. <<>> \in Seq(WriteSet) /\ Len(<<>>) = 0 /\ 0 <= QueueLen
    BY SeqEmpty, RangeAssumption, SMTT(60) DEF RangeAssumption
  <2>3. Idle \in WorkerSet
    BY SeqEmpty DEF Idle, WorkerSet
  <2>4. records' = EmptyMap /\ declined' = EmptyMap /\ allocated' = {} /\ writes' = <<>>
    BY DEF Crash, Forget
  <2>5. PoolAccounted' /\ NoSharedAddress'
    BY <2>1, <2>4 DEF PoolAccounted, NoSharedAddress
  <2>6. TablesOK'
    BY <2>1, <2>2, <2>4, <2>5 DEF TablesOK
  <2>7. workers' \in [Workers -> WorkerSet]
    BY <2>3 DEF Crash, Forget
  <2>8. RestOK'
    BY <2>7 DEF IndInv, RestOK, Crash, Forget
  <2>9. DownForgets'
    BY <2>1, <2>4 DEF DownForgets
  <2> QED
    BY <2>6, <2>8, <2>9 DEF IndInv
(* What loadRecords and the setup rebuild from the lease file. *)
<1>RestartStep.
    ASSUME IndInv, Restart
    PROVE  IndInv'
  <2> USE <1>RestartStep
  <2>1. PICK f \in Loads :
          /\ OneEach(f)
          /\ records' = [m \in DOMAIN f |->
                           [gen |-> CHOOSE g \in Gens : TRUE, ip |-> f[m],
                            expires |-> db[<<m, f[m]>>]]]
          /\ allocated' = Elements(f)
    BY DEF Restart
  <2>2. IsMap(db, Macs \X IPs, Nat)
    BY DEF IndInv, RestOK
  <2>3. /\ f \in [DOMAIN f -> IPs] /\ DOMAIN f \subseteq Macs
        /\ \A m \in DOMAIN f : <<m, f[m]>> \in DOMAIN db
    BY <2>2 DEF Loads, IsMap
  <2>4. (CHOOSE g \in Gens : TRUE) \in Gens
    BY RangeAssumption DEF RangeAssumption
  <2>5. \A m \in DOMAIN f : db[<<m, f[m]>>] \in Nat
    BY <2>2, <2>3 DEF IsMap
  <2>6. IsMap(records', Macs, Record)
    BY <2>1, <2>3, <2>4, <2>5 DEF IsMap, Record
  <2>7. DOMAIN records' = DOMAIN f /\ \A m \in DOMAIN f : records'[m].ip = f[m]
    BY <2>1
  <2>8. DOMAIN declined' = {} /\ declined' = declined /\ writes' = writes
    BY DEF Restart, IndInv, DownForgets
  <2>9. PoolAccounted'
    BY <2>1, <2>7, <2>8 DEF PoolAccounted, Elements
  <2>10. NoSharedAddress'
    BY <2>1, <2>7, <2>8 DEF NoSharedAddress, OneEach
  <2>11. allocated' \in SUBSET IPs
    BY <2>1, <2>3 DEF Elements
  <2>12. TablesOK'
    BY <2>6, <2>8, <2>9, <2>10, <2>11 DEF IndInv, TablesOK
  <2>13. RestOK'
    BY DEF IndInv, RestOK, Restart
  <2> QED
    BY <2>12, <2>13 DEF IndInv, DownForgets, Restart
<1>InitInv. ASSUME Init PROVE IndInv
  <2> USE <1>InitInv
  <2>1. /\ IsMap(EmptyMap, Macs, Record) /\ IsMap(EmptyMap, IPs, Nat) /\ DOMAIN EmptyMap = {}
        /\ IsMap(EmptyMap, Macs \X IPs, Nat) /\ IsMap(EmptyMap, Macs, [ip : IPs, until : Nat])
    BY DEF EmptyMap, IsMap
  <2>2. <<>> \in Seq(WriteSet) /\ Len(<<>>) = 0 /\ 0 <= QueueLen
    BY SeqEmpty, RangeAssumption, SMTT(60) DEF RangeAssumption
  <2>3. Idle \in WorkerSet
    BY SeqEmpty DEF Idle, WorkerSet
  <2>4. PoolAccounted /\ NoSharedAddress
    BY <2>1 DEF Init, PoolAccounted, NoSharedAddress
  <2>5. TablesOK
    BY <2>1, <2>2, <2>4 DEF Init, TablesOK
  <2>6. RestOK
    BY <2>1, <2>3, RangeAssumption, SMTT(60) DEF Init, RestOK, RangeAssumption
  <2> QED
    BY <2>1, <2>5, <2>6 DEF IndInv, DownForgets, Init
<1>NextInv. ASSUME IndInv, [Next]_vars PROVE IndInv'
  <2> USE <1>NextInv
  <2>1. ASSUME NEW w \in Handlers, NEW m \in Macs, Request(w, m) PROVE IndInv'
    BY <2>1, <1>RequestStep
  <2>2. ASSUME NEW w \in Handlers, NEW m \in Macs, NEW ip \in IPs, Release(w, m, ip) PROVE IndInv'
    BY <2>2, <1>ReleaseStep
  <2>3. ASSUME NEW w \in Handlers, NEW m \in Macs, NEW ip \in IPs, Decline(w, m, ip) PROVE IndInv'
    BY <2>3, <1>DeclineStep
  <2>4. ASSUME NEW w \in Workers, Settle(w) PROVE IndInv'
    BY <2>4, <1>SettleStep
  <2>5. CASE SweepOnce
    BY <2>5, <1>SweepStep
  <2>6. CASE Write \/ WriteFails
    BY <2>6, <1>WriteStep
  <2>7. CASE Close \/ WriterExits \/ RestartRefused
    <3>1. TablesOK'
      BY <2>7 DEF IndInv, TablesOK, PoolAccounted, NoSharedAddress, Close, WriterExits, RestartRefused
    <3>2. RestOK'
      BY <2>7 DEF IndInv, RestOK, Close, WriterExits, RestartRefused
    <3> QED
      BY <2>7, <3>1, <3>2 DEF IndInv, DownForgets, Close, WriterExits, RestartRefused
  <2>8. CASE Tick
    BY <2>8, <1>TickStep
  <2>9. CASE Crash
    BY <2>9, <1>CrashStep
  <2>10. CASE Restart
    BY <2>10, <1>RestartStep
  <2>11. CASE UNCHANGED vars
    BY <2>11 DEF vars, IndInv, TablesOK, RestOK, DownForgets, PoolAccounted, NoSharedAddress
  <2> QED
    BY <2>1, <2>2, <2>3, <2>4, <2>5, <2>6, <2>7, <2>8, <2>9, <2>10, <2>11 DEF Next
<1> QED
  BY <1>InitInv, <1>NextInv, PTL DEF Spec

(* Every variable keeps its type, the write queue its bound included. *)
THEOREM TypesCorrect == Spec => []TypeOK
<1>1. IndInv => TypeOK
  BY DEF IndInv, TablesOK, RestOK, TypeOK
<1> QED
  BY <1>1, Inductive, PTL

(* The bitmap holds exactly the leased and the quarantined addresses in every  *)
(* reachable state, with refused writes, full queues, undos, sweeps, crashes   *)
(* and restarts, for every pool and every number of clients and handlers.      *)
THEOREM PoolAlwaysAccounted == Spec => []PoolAccounted
<1>1. IndInv => PoolAccounted
  BY DEF IndInv, TablesOK
<1> QED
  BY <1>1, Inductive, PTL

(* No two clients ever hold the same address in the lease table, and no leased *)
(* address is in quarantine.                                                   *)
THEOREM AddressesNeverShared == Spec => []NoSharedAddress
<1>1. IndInv => NoSharedAddress
  BY DEF IndInv, TablesOK
<1> QED
  BY <1>1, Inductive, PTL

-----------------------------------------------------------------------------
(* Addresses stay where they were settled. *)

(* A section of either form leaves every client that stays in the table on    *)
(* its address.                                                               *)
Sticky(S, T) == \A m \in DOMAIN S.rec \cap DOMAIN T.rec : T.rec[m].ip = S.rec[m].ip

(* A process that is not up has no lease table. *)
DownEmpty == status # "up" => DOMAIN records = {}

(* What a step does to the lease table and the quarantine. *)
SettledStep ==
  /\ AddressStickyStep /\ ProbationHeldStep
  /\ DOMAIN declined' \subseteq DOMAIN declined
       \/ \E ip : /\ DOMAIN declined' = DOMAIN declined \cup {ip}
                  /\ ~(Cardinality(DOMAIN declined) >= DeclineMax)
  /\ DownEmpty'

LEMMA EverySettled ==
  ASSUME IndInv, DownEmpty, [Next]_vars
  PROVE  SettledStep
<1>ClearedSticky.
    ASSUME NEW S, NEW T, NEW D, NEW by, Cleared(S, T, D, by) \/ Logged(S, T)
    PROVE  Sticky(S, T)
  BY <1>ClearedSticky DEF Cleared, Logged, Sticky
<1>LeaseForSticky.
    ASSUME NEW S, Good(S), NEW m \in Macs, NewGen(m) \in Gens, NEW t \in Nat, NEW by \in Workers,
           NEW r \in LeaseFor(S, m, t, by)
    PROVE  Sticky(S, r.st)
  <2> USE <1>LeaseForSticky
  <2>1. \/ Refused(S, r, t, by) \/ Enough(S, r, m, t)
        \/ Renewed(S, r, m, t, by) \/ Granted(S, r, m, t, by)
    BY LeaseForForm
  <2>2. CASE Refused(S, r, t, by)
    BY <2>2, <1>ClearedSticky DEF Refused, Lapse
  <2>3. CASE Enough(S, r, m, t)
    BY <2>3 DEF Enough, Logged, Sticky
  <2>4. CASE Renewed(S, r, m, t, by)
    <3> DEFINE new == [S.rec[m] EXCEPT !.expires = RoundUnix(LeaseEnd(t))]
    <3>1. m \in DOMAIN S.rec /\ r.st.rec = With(S.rec, m, new)
      BY <2>4 DEF Renewed, Stored
    <3>2. new.ip = S.rec[m].ip
      <4>1. S.rec[m] \in Record
        BY <3>1 DEF Good, LockedOK, IsMap
      <4> QED
        BY <4>1 DEF Record
    <3> HIDE DEF new
    <3> QED
      BY <3>1, <3>2 DEF With, Sticky
  <2>5. CASE Granted(S, r, m, t, by)
    <3> DEFINE new == [gen |-> NewGen(m), ip |-> r.ip, expires |-> Unix(LeaseEnd(t))]
    <3>1. PICK T : /\ Lapse(S, T, t, by) /\ m \notin DOMAIN T.rec
                   /\ m \in DOMAIN S.rec => r.ip = S.rec[m].ip
                   /\ Stored(T, r.st, m, new, "drop", by)
      BY <2>5 DEF Granted
    <3>2. r.st.rec = With(T.rec, m, new) /\ new.ip = r.ip
      BY <3>1 DEF Stored
    <3> HIDE DEF new
    <3>3. \A n \in DOMAIN T.rec : n \in DOMAIN S.rec /\ T.rec[n] = S.rec[n]
      BY <3>1 DEF Lapse, Cleared
    <3> QED
      BY <3>1, <3>2, <3>3 DEF With, Sticky
  <2> QED
    BY <2>1, <2>2, <2>3, <2>4, <2>5
(* Undoing a failed write moves no client either. *)
<1>ApplySticky.
    ASSUME NEW S, LockedOK(S), NEW u
    PROVE  Sticky(S, Apply(S, u)) /\ Apply(S, u).dec = S.dec
  <2> USE <1>ApplySticky
  <2> DEFINE m == u.mac
             D == {m}
             back == [S.rec[m] EXCEPT !.expires = u.was]
             Drop == FreeBit([S EXCEPT !.rec = Without(@, D)], S.rec[m].ip)
             Back == [S EXCEPT !.rec = With(@, m, back)]
  <2>1. \/ Apply(S, u) = S
        \/ m \in DOMAIN S.rec /\ Apply(S, u) = Drop
        \/ m \in DOMAIN S.rec /\ Apply(S, u) = Back
    BY DEF Apply
  <2>2. Drop.rec = Without(S.rec, D) /\ Drop.dec = S.dec
    BY DEF FreeBit, LockedOK
  <2>3. ASSUME m \in DOMAIN S.rec PROVE back.ip = S.rec[m].ip
    <3>1. S.rec[m] \in Record
      BY <2>3 DEF LockedOK, IsMap
    <3> QED
      BY <3>1 DEF Record
  <2> HIDE DEF back
  <2>4. Back.rec = With(S.rec, m, back) /\ Back.dec = S.dec
    BY DEF LockedOK
  <2> HIDE DEF Drop, Back, D, m
  <2>5. Sticky(S, Drop)
    BY <2>2 DEF Sticky, Without
  <2>6. m \in DOMAIN S.rec => Sticky(S, Back)
    BY <2>3, <2>4 DEF Sticky, With
  <2>7. Sticky(S, S)
    BY DEF Sticky
  <2> QED
    BY <2>1, <2>2, <2>4, <2>5, <2>6, <2>7
<1>SectionSettled.
    ASSUME NEW STATE S, Sticky(Locked, S), Install(S), status = "up", UNCHANGED status,
           Held(Locked, S, now) \/ S.dec = declined
    PROVE  SettledStep
  <2> USE <1>SectionSettled
  <2>1. /\ records' = S.rec /\ declined' = S.dec
        /\ Locked.rec = records /\ Locked.dec = declined /\ Locked.alloc = allocated
    BY DEF Install, Locked
  <2>2. AddressStickyStep
    BY <2>1 DEF Sticky, AddressStickyStep
  <2>3. ProbationHeldStep /\ DOMAIN declined' \subseteq DOMAIN declined
    BY <2>1 DEF Held, ProbationHeldStep
  <2> QED
    BY <2>2, <2>3 DEF SettledStep, DownEmpty
<1>RequestSettled.
    ASSUME IndInv, NEW w \in Handlers, NEW m \in Macs, Request(w, m)
    PROVE  SettledStep
  <2> USE <1>RequestSettled
  <2>1. Good(Locked) /\ w \in Workers /\ now \in Nat /\ status = "up" /\ NewGen(m) \in Gens
    BY LockedGood, NowIsNat DEF IndInv, Request, Ready, Workers, NewGen
  <2>2. PICK r \in LeaseFor(Locked, m, now, w) : Install(r.st)
    BY DEF Request, Await
  <2>3. Held(Locked, r.st, now)
    BY <2>1, LeaseForForm
  <2>4. Sticky(Locked, r.st)
    BY <2>1, <1>LeaseForSticky
  <2>5. UNCHANGED status
    BY DEF Request, Await
  <2> QED
    BY <2>1, <2>2, <2>3, <2>4, <2>5, <1>SectionSettled
<1>GiveUpSettled.
    ASSUME IndInv, NEW w \in Handlers, NEW m \in Macs, NEW ip \in IPs,
           Release(w, m, ip) \/ Decline(w, m, ip)
    PROVE  SettledStep
  <2> USE <1>GiveUpSettled
  <2>1. /\ Good(Locked) /\ LockedOK(Locked) /\ w \in Workers /\ now \in Nat
        /\ status = "up" /\ UNCHANGED status
    <3>1. Good(Locked) /\ LockedOK(Locked) /\ w \in Workers /\ now \in Nat
      BY LockedGood, NowIsNat DEF IndInv, Workers, Good
    <3> QED
      BY <3>1 DEF Release, Decline, Ready, Await
  <2>2. Locked.rec = records /\ Locked.dec = declined
    BY DEF Locked
  <2>3. ASSUME Install(Locked) PROVE SettledStep
    <3>1. Sticky(Locked, Locked)
      BY DEF Sticky
    <3> QED
      BY <2>1, <2>2, <2>3, <3>1, <1>SectionSettled
  <2>4. ASSUME m \in DOMAIN records, Install(FreeLease(Locked, m, w)) PROVE SettledStep
    <3> DEFINE S == FreeLease(Locked, m, w)
    <3>1. S = FreeLease(Locked, m, w) /\ Install(S)
      BY <2>4
    <3> HIDE DEF S
    <3>2. GivenUp(Locked, S, m, w) /\ S.dec = declined
      BY <2>1, <2>2, <2>4, <3>1, FreeLeaseForm
    <3>3. Sticky(Locked, S)
      BY <3>2, <1>ClearedSticky DEF GivenUp
    <3> QED
      BY <2>1, <3>1, <3>2, <3>3, <1>SectionSettled
  <2>5. ASSUME m \in DOMAIN records, Install(Quarantine(Locked, m, now, w)) PROVE SettledStep
    <3> DEFINE S == Quarantine(Locked, m, now, w)
    <3>1. S = Quarantine(Locked, m, now, w) /\ Install(S)
      BY <2>5
    <3> HIDE DEF S
    <3>2. GivenUp(Locked, S, m, w) /\ (S.dec = declined \/ TookIn(Locked, S))
      BY <2>1, <2>2, <2>5, <3>1, QuarantineForm
    <3>3. Sticky(Locked, S)
      BY <3>2, <1>ClearedSticky DEF GivenUp
    <3>4. CASE S.dec = declined
      BY <2>1, <3>1, <3>3, <3>4, <1>SectionSettled
    <3>5. CASE TookIn(Locked, S)
      <4>1. records' = S.rec /\ declined' = S.dec
        BY <3>1 DEF Install
      <4>2. AddressStickyStep
        BY <2>2, <3>3, <4>1 DEF Sticky, AddressStickyStep
      <4>3. /\ \E x : DOMAIN declined' = DOMAIN declined \cup {x}
            /\ ~(Cardinality(DOMAIN declined) >= DeclineMax)
        BY <2>2, <3>5, <4>1 DEF TookIn
      <4>4. ProbationHeldStep
        BY <4>3 DEF ProbationHeldStep
      <4> QED
        BY <2>1, <4>2, <4>3, <4>4 DEF SettledStep, DownEmpty
    <3> QED
      BY <3>2, <3>4, <3>5
  <2>6. CASE Release(w, m, ip)
    <3>1. Install(Locked) \/ (m \in DOMAIN records /\ Install(FreeLease(Locked, m, w)))
      BY <2>6 DEF Release, Await
    <3> QED
      BY <2>3, <2>4, <3>1
  <2>7. CASE Decline(w, m, ip)
    <3>1. Install(Locked) \/ (m \in DOMAIN records /\ Install(Quarantine(Locked, m, now, w)))
      BY <2>7 DEF Decline, Await
    <3> QED
      BY <2>3, <2>5, <3>1
  <2> QED
    BY <2>6, <2>7
<1>OthersSettled.
    ASSUME IndInv,
           \/ SweepOnce \/ (\E w \in Workers : Settle(w)) \/ Write \/ WriteFails
           \/ Close \/ WriterExits \/ Tick \/ Crash \/ Restart \/ RestartRefused
           \/ UNCHANGED vars,
           DownEmpty
    PROVE  SettledStep
  <2> USE <1>OthersSettled
  <2>1. Good(Locked) /\ LockedOK(Locked) /\ Locked.dec = declined /\ Locked.rec = records
    BY LockedGood DEF IndInv, Good, Locked
  <2>2. CASE SweepOnce
    <3>1. PICK S \in Reclaim(Locked, now, Sweeper) : Install(S)
      BY <2>2 DEF SweepOnce, Await
    <3>2. Sweeper \in Workers /\ status = "up" /\ UNCHANGED status
      BY <2>2 DEF Workers, SweepOnce, Ready, Await
    <3>3. Lapse(Locked, S, now, Sweeper) /\ Eased(Locked, S, now)
      BY <2>1, <3>2, ReclaimForm
    <3>4. Sticky(Locked, S) /\ Held(Locked, S, now)
      BY <3>3, <1>ClearedSticky DEF Lapse, Eased, Held
    <3> QED
      BY <3>1, <3>2, <3>4, <1>SectionSettled
  <2>3. ASSUME NEW w \in Workers, Settle(w) PROVE SettledStep
    <3>1. Install(Undone(w)) /\ status = "up" /\ UNCHANGED status
      BY <2>3 DEF Settle
    <3>2. Sticky(Locked, Undone(w)) /\ Undone(w).dec = declined
      <4> DEFINE failed == {p \in Failed(w) : p.undo.kind # "none"}
                 u == (CHOOSE p \in failed : TRUE).undo
      <4>1. Undone(w) = Locked \/ Undone(w) = Apply(Locked, u)
        BY DEF Undone
      <4>2. Sticky(Locked, Locked)
        BY DEF Sticky
      <4> HIDE DEF u
      <4>3. Sticky(Locked, Apply(Locked, u)) /\ Apply(Locked, u).dec = Locked.dec
        BY <2>1, <1>ApplySticky
      <4> QED
        BY <2>1, <4>1, <4>2, <4>3
    <3> QED
      BY <3>1, <3>2, <1>SectionSettled
  <2>4. CASE Write \/ WriteFails \/ Close \/ WriterExits \/ Tick \/ RestartRefused \/ UNCHANGED vars
    <3>1. records' = records /\ declined' = declined /\ (status' # "up" => status # "up")
      BY <2>4 DEF Write, WriteFails, TakeWrite, Close, WriterExits, Tick, RestartRefused, vars
    <3> QED
      BY <3>1 DEF SettledStep, AddressStickyStep, ProbationHeldStep, DownEmpty
  <2>5. CASE Crash
    <3>1. DOMAIN records' = {} /\ DOMAIN declined' = {} /\ status' = "down"
      BY <2>5 DEF Crash, Forget, EmptyMap
    <3> QED
      BY <3>1 DEF SettledStep, AddressStickyStep, ProbationHeldStep, DownEmpty
  <2>6. CASE Restart
    <3>1. DOMAIN records = {} /\ declined' = declined /\ status' = "up"
      BY <2>6 DEF Restart, DownEmpty
    <3> QED
      BY <3>1 DEF SettledStep, AddressStickyStep, ProbationHeldStep, DownEmpty
  <2> QED
    BY <2>2, <2>3, <2>4, <2>5, <2>6
<1>1. ASSUME NEW w \in Handlers, NEW m \in Macs, Request(w, m) PROVE SettledStep
  BY <1>1, <1>RequestSettled
<1>2. ASSUME NEW w \in Handlers, NEW m \in Macs, NEW ip \in IPs,
             Release(w, m, ip) \/ Decline(w, m, ip)
      PROVE  SettledStep
  BY <1>2, <1>GiveUpSettled
<1>3. CASE \/ SweepOnce \/ (\E w \in Workers : Settle(w)) \/ Write \/ WriteFails
           \/ Close \/ WriterExits \/ Tick \/ Crash \/ Restart \/ RestartRefused
           \/ UNCHANGED vars
  BY <1>3, <1>OthersSettled
<1> QED
  BY <1>1, <1>2, <1>3 DEF Next

LEMMA DownIsEmpty == Spec => []DownEmpty
<1>1. Init => DownEmpty
  BY DEF Init, DownEmpty
<1>2. IndInv /\ DownEmpty /\ [Next]_vars => DownEmpty'
  BY EverySettled DEF SettledStep
<1> QED
  BY <1>1, <1>2, Inductive, PTL DEF Spec

(* No step of the server, a refused write's undo and a restart included,      *)
(* moves a client that stays in the lease table to another address, lapsed    *)
(* lease or not, and no step ends a probation early unless the whole pool was *)
(* taken (reallocateExpired, evictOldestDeclined).                            *)
THEOREM AddressesStaySettled == Spec => AddressesSettled
<1>1. IndInv /\ DownEmpty /\ [Next]_vars => [AddressStickyStep /\ ProbationHeldStep]_vars
  BY EverySettled DEF SettledStep
<1> QED
  BY <1>1, Inductive, DownIsEmpty, PTL DEF Spec, AddressesSettled

QuarantineBounded == Cardinality(DOMAIN declined) <= DeclineMax

(* The quarantine never holds more than decline-max addresses, with failing   *)
(* writes, crashes and evictions (quarantine).                                *)
THEOREM QuarantineKeepsBound == Spec => []QuarantineBounded
<1>1. Init => QuarantineBounded
  <2>1. ASSUME Init PROVE QuarantineBounded
    <3>1. DOMAIN declined = {} /\ DeclineMax \in Nat
      BY <2>1, RangeAssumption DEF Init, EmptyMap, RangeAssumption
    <3> QED
      BY <3>1, FS_EmptySet, SMTT(60) DEF QuarantineBounded
  <2> QED
    BY <2>1
<1>2. ASSUME IndInv, DownEmpty, QuarantineBounded, [Next]_vars PROVE QuarantineBounded'
  <2>1. DOMAIN declined' \subseteq DOMAIN declined
          \/ \E ip : /\ DOMAIN declined' = DOMAIN declined \cup {ip}
                     /\ ~(Cardinality(DOMAIN declined) >= DeclineMax)
    BY <1>2, EverySettled DEF SettledStep
  <2>2. IsFiniteSet(DOMAIN declined) /\ Cardinality(DOMAIN declined) \in Nat
    <3>1. DOMAIN declined \subseteq 0 .. PoolSize - 1 /\ PoolSize \in Nat
      BY <1>2, RangeAssumption DEF IndInv, TablesOK, IsMap, IPs, RangeAssumption
    <3>2. IsFiniteSet(0 .. PoolSize - 1)
      BY <3>1, FS_Interval, SMTT(60)
    <3> QED
      BY <3>1, <3>2, FS_Subset, FS_CardinalityType
  <2>3. DeclineMax \in Nat
    BY RangeAssumption DEF RangeAssumption
  <2>4. CASE DOMAIN declined' \subseteq DOMAIN declined
    <3>1. Cardinality(DOMAIN declined') <= Cardinality(DOMAIN declined)
          /\ Cardinality(DOMAIN declined') \in Nat
      BY <2>2, <2>4, FS_Subset, FS_CardinalityType
    <3> QED
      BY <1>2, <2>2, <2>3, <3>1, SMTT(60) DEF QuarantineBounded
  <2>5. ASSUME NEW ip, DOMAIN declined' = DOMAIN declined \cup {ip},
               ~(Cardinality(DOMAIN declined) >= DeclineMax)
        PROVE  QuarantineBounded'
    <3>1. \/ Cardinality(DOMAIN declined') = Cardinality(DOMAIN declined)
          \/ Cardinality(DOMAIN declined') = Cardinality(DOMAIN declined) + 1
      BY <2>2, <2>5, FS_AddElement
    <3> QED
      BY <2>2, <2>3, <2>5, <3>1, SMTT(60) DEF QuarantineBounded
  <2> QED
    BY <2>1, <2>4, <2>5
<1>3. IndInv /\ DownEmpty /\ QuarantineBounded /\ [Next]_vars => QuarantineBounded'
  BY <1>2
<1> QED
  BY <1>1, <1>3, Inductive, DownIsEmpty, PTL DEF Spec

-----------------------------------------------------------------------------
(* What the actions do to the queue and to what the goroutines wait for. *)

(* A section's own writes are all waiting, and only the last has an undo. *)
Unsettled(S) ==
  /\ \A i \in 1 .. Len(S.pend) : S.pend[i].result = "waiting"
  /\ \A i \in 1 .. Len(S.pend) - 1 : S.pend[i].undo.kind = "none"

Plain(S) ==
  \A i \in 1 .. Len(S.pend) : S.pend[i].result = "waiting" /\ S.pend[i].undo.kind = "none"

LEMMA ClearedPlain ==
  ASSUME NEW S, LockedOK(S), Plain(S), NEW T, LockedOK(T), NEW D, NEW by, Cleared(S, T, D, by)
  PROVE  Plain(T)
<1>1. PICK a \in Nat, b \in Nat : a = Len(S.pend) /\ b = Len(T.pend)
  BY LockedLens
<1>2. /\ \A i \in 1 .. a : T.pend[i] = S.pend[i]
      /\ \A i \in a + 1 .. b : T.pend[i].undo.kind = "none" /\ T.pend[i].result = "waiting"
  BY <1>1 DEF Cleared
<1>3. \A i \in 1 .. b : i \in 1 .. a \/ i \in a + 1 .. b
  BY SMTT(60)
<1>4. \A i \in 1 .. a : S.pend[i].result = "waiting" /\ S.pend[i].undo.kind = "none"
  BY <1>1 DEF Plain
<1> QED
  BY <1>1, <1>2, <1>3, <1>4, SMTT(60) DEF Plain

(* w has run a locked section that left S. *)
Worked(w, S) ==
  /\ w \in Workers /\ status = "up" /\ ~workers[w].busy
  /\ LockedOK(S) /\ records' = S.rec /\ writes' = S.q
  /\ UNCHANGED <<now, status, writer, db>>
  /\ workers'[w].busy /\ workers'[w].pend = S.pend
  /\ \A v \in Workers \ {w} : /\ workers'[v].pend = workers[v].pend
                              /\ workers'[v].busy = workers[v].busy

(* Nobody waits for a result of a queue that is gone. *)
Resting ==
  /\ status # "up" => writes = <<>> /\ \A w \in Workers : workers[w].pend = <<>>
  /\ \A w \in Workers : ~workers[w].busy => workers[w].pend = <<>>

LEMMA AwaitWorked ==
  ASSUME IndInv, NEW w \in Workers, Ready(w), NEW S, LockedOK(S), NEW reply, NEW left,
         Await(w, S, reply, left)
  PROVE  Worked(w, S)
<1>1. workers \in [Workers -> WorkerSet]
  BY DEF IndInv, RestOK
<1>2. workers'[w] = [busy |-> TRUE, reply |-> reply, pend |-> S.pend]
  BY DEF Await
<1>3. ASSUME NEW v \in Workers \ {w}
      PROVE  workers'[v].pend = workers[v].pend /\ workers'[v].busy = workers[v].busy
  <2>1. workers'[v] = [workers[v] EXCEPT !.reply = {r \in @ : r.mac \notin left}]
    BY DEF Await
  <2>2. workers[v] \in WorkerSet
    BY <1>1
  <2> QED
    BY <2>1, <2>2 DEF WorkerSet
<1>4. /\ records' = S.rec /\ writes' = S.q /\ UNCHANGED <<now, status, writer, db>>
  BY DEF Await, Install
<1> QED
  BY <1>2, <1>3, <1>4, SMTT(60) DEF Worked, Ready

LEMMA RequestWorked ==
  ASSUME IndInv, NEW w \in Handlers, NEW m \in Macs, Request(w, m)
  PROVE  /\ Good(Locked) /\ w \in Workers /\ now \in Nat /\ NewGen(m) \in Gens \ UsedGens(m)
         /\ \E r \in LeaseFor(Locked, m, now, w) : Worked(w, r.st)
<1>1. Good(Locked) /\ w \in Workers /\ now \in Nat /\ NewGen(m) \in Gens \ UsedGens(m)
  BY LockedGood, NowIsNat DEF IndInv, Request, Workers, NewGen
<1>2. PICK r \in LeaseFor(Locked, m, now, w) :
        Await(w, r.st, IF r.ip = NoOffset THEN {}
                       ELSE {[mac |-> m, ip |-> r.ip, until |-> LeaseEnd(now)]}, {})
  BY DEF Request
<1>3. LockedOK(r.st) /\ Ready(w)
  BY <1>1, LeaseForOK DEF Answer, Good, Request
<1>4. Worked(w, r.st)
  BY <1>1, <1>2, <1>3, AwaitWorked
<1> QED
  BY <1>1, <1>4

LEMMA GiveUpWorked ==
  ASSUME IndInv, NEW w \in Handlers, NEW m \in Macs, NEW ip \in IPs,
         Release(w, m, ip) \/ Decline(w, m, ip)
  PROVE  /\ LockedOK(Locked)
         /\ \E S : Worked(w, S) /\ GivenUp(Locked, S, m, w)
<1>1. Good(Locked) /\ LockedOK(Locked) /\ w \in Workers /\ now \in Nat /\ Ready(w)
  <2>1. Good(Locked) /\ LockedOK(Locked) /\ w \in Workers /\ now \in Nat
    BY LockedGood, NowIsNat DEF IndInv, Workers, Good
  <2> QED
    BY <2>1 DEF Release, Decline
<1>2. Locked.rec = records /\ GivenUp(Locked, Locked, m, w)
  BY DEF Locked, GivenUp, Logged
<1>3. ASSUME NEW S, LockedOK(S), GivenUp(Locked, S, m, w), Await(w, S, {}, {m})
      PROVE  \E T : Worked(w, T) /\ GivenUp(Locked, T, m, w)
  BY <1>1, <1>3, AwaitWorked
<1>4. CASE Release(w, m, ip)
  <2>1. CASE ~(m \in DOMAIN records /\ records[m].ip = ip)
    <3>1. Await(w, Locked, {}, {m})
      BY <1>4, <2>1 DEF Release
    <3> QED
      BY <1>1, <1>2, <1>3, <3>1
  <2>2. CASE m \in DOMAIN records /\ records[m].ip = ip
    <3>1. PICK S : S = FreeLease(Locked, m, w)
      OBVIOUS
    <3>2. Await(w, S, {}, {m})
      BY <1>4, <2>2, <3>1 DEF Release
    <3>3. GivenUp(Locked, S, m, w)
      BY <1>1, <1>2, <2>2, <3>1, FreeLeaseForm
    <3>4. Good(S)
      BY <1>1, <1>2, <2>2, <3>1, FreeLeaseForm
    <3> QED
      BY <1>1, <1>3, <3>2, <3>3, <3>4 DEF Good
  <2> QED
    BY <2>1, <2>2
<1>5. CASE Decline(w, m, ip)
  <2>1. CASE ~(m \in DOMAIN records /\ records[m].ip = ip)
    <3>1. Await(w, Locked, {}, {m})
      BY <1>5, <2>1 DEF Decline
    <3> QED
      BY <1>1, <1>2, <1>3, <3>1
  <2>2. CASE m \in DOMAIN records /\ records[m].ip = ip
    <3>1. PICK S : S = Quarantine(Locked, m, now, w)
      OBVIOUS
    <3>2. Await(w, S, {}, {m})
      BY <1>5, <2>2, <3>1 DEF Decline
    <3>3. GivenUp(Locked, S, m, w)
      BY <1>1, <1>2, <2>2, <3>1, QuarantineForm
    <3>4. Good(S)
      BY <1>1, <1>2, <2>2, <3>1, QuarantineForm
    <3> QED
      BY <1>1, <1>3, <3>2, <3>3, <3>4 DEF Good
  <2> QED
    BY <2>1, <2>2
<1> QED
  BY <1>1, <1>4, <1>5

LEMMA SweepWorked ==
  ASSUME IndInv, SweepOnce
  PROVE  /\ LockedOK(Locked)
         /\ \E S : Worked(Sweeper, S) /\ Lapse(Locked, S, now, Sweeper)
<1>1. Good(Locked) /\ LockedOK(Locked) /\ Sweeper \in Workers /\ Ready(Sweeper)
  BY LockedGood DEF IndInv, Workers, Good, SweepOnce
<1>2. PICK S \in Reclaim(Locked, now, Sweeper) : Await(Sweeper, S, {}, {})
  BY DEF SweepOnce
<1>3. LockedOK(S) /\ Lapse(Locked, S, now, Sweeper)
  BY <1>1, ReclaimForm DEF Good
<1>4. Worked(Sweeper, S)
  BY <1>1, <1>2, <1>3, AwaitWorked
<1> QED
  BY <1>1, <1>3, <1>4

(* What the writer's step leaves. *)
LEMMA TakeWriteForm ==
  ASSUME IndInv, NEW result \in {"ok", "error"}, TakeWrite(result)
  PROVE  /\ status = "up" /\ writer # "off" /\ UNCHANGED <<now, status, writer, records>>
         /\ writes[1] \in WriteSet /\ Head(writes) = writes[1]
         /\ Len(writes) \in Nat \ {0} /\ Len(writes') = Len(writes) - 1
         /\ \A i \in 1 .. Len(writes') : writes'[i] = writes[i + 1]
         /\ \A v \in Workers : workers'[v].busy = workers[v].busy
         /\ workers'[writes[1].by].pend = Deliver(workers[writes[1].by].pend, result)
         /\ \A v \in Workers \ {writes[1].by} : workers'[v] = workers[v]
<1>1. writes \in Seq(WriteSet) /\ writes # <<>> /\ workers \in [Workers -> WorkerSet]
  BY DEF IndInv, TablesOK, RestOK, TakeWrite
<1>2. /\ Head(writes) = writes[1] /\ writes[1] \in WriteSet /\ Len(writes) \in Nat \ {0}
      /\ Len(Tail(writes)) = Len(writes) - 1
      /\ \A i \in 1 .. Len(Tail(writes)) : Tail(writes)[i] = writes[i + 1]
  <2>1. Head(writes) \in WriteSet /\ Len(Tail(writes)) = Len(writes) - 1
        /\ \A i \in 1 .. Len(Tail(writes)) : Tail(writes)[i] = writes[i + 1]
    BY <1>1, SeqHeadTail
  <2>2. Len(writes) \in Nat /\ Len(writes) # 0
    BY <1>1, SeqEmpty, SeqLen
  <2>3. Head(writes) = writes[1]
    BY <1>1, SMTT(60)
  <2> QED
    BY <2>1, <2>2, <2>3
<1>3. PICK by \in Workers : by = writes[1].by
  BY <1>2 DEF WriteSet
<1>4. /\ writes' = Tail(writes)
      /\ workers' = [workers EXCEPT ![by].pend = Deliver(workers[by].pend, result)]
      /\ status = "up" /\ writer # "off" /\ UNCHANGED <<now, status, writer, records>>
  BY <1>2, <1>3 DEF TakeWrite
<1>5. /\ workers'[by].pend = Deliver(workers[by].pend, result)
      /\ workers'[by].busy = workers[by].busy
      /\ \A v \in Workers \ {by} : workers'[v] = workers[v]
  <2>1. workers[by] \in WorkerSet
    BY <1>1
  <2>2. workers'[by] = [workers[by] EXCEPT !.pend = Deliver(workers[by].pend, result)]
    BY <1>1, <1>4
  <2> QED
    BY <1>1, <1>4, <2>1, <2>2 DEF WorkerSet
<1> QED
  BY <1>2, <1>3, <1>4, <1>5

(* A result goes to a waiting entry and changes nothing else. *)
LEMMA DeliverForm ==
  ASSUME NEW pend \in Seq(PendingSet), NEW result \in {"ok", "error"}
  PROVE  /\ Deliver(pend, result) \in Seq(PendingSet)
         /\ Len(Deliver(pend, result)) = Len(pend)
         /\ \A i \in 1 .. Len(pend) :
              /\ Deliver(pend, result)[i].undo = pend[i].undo
              /\ Deliver(pend, result)[i].result =
                   IF /\ pend[i].result = "waiting"
                      /\ \A j \in 1 .. i - 1 : pend[j].result # "waiting"
                   THEN result ELSE pend[i].result
<1>1. pend \in [1 .. Len(pend) -> PendingSet] /\ Len(pend) \in Nat
  BY SeqLen
<1>2. Deliver(pend, result) \in Seq(PendingSet)
  BY DeliverOK
<1>3. DOMAIN Deliver(pend, result) = 1 .. Len(pend)
  BY <1>1 DEF Deliver
<1>4. Len(Deliver(pend, result)) = Len(pend)
  BY <1>1, <1>2, <1>3, SeqLen, SMTT(60)
<1>5. ASSUME NEW i \in 1 .. Len(pend)
      PROVE  /\ Deliver(pend, result)[i].undo = pend[i].undo
             /\ Deliver(pend, result)[i].result =
                   IF /\ pend[i].result = "waiting"
                      /\ \A j \in 1 .. i - 1 : pend[j].result # "waiting"
                   THEN result ELSE pend[i].result
  <2>1. Deliver(pend, result)[i] =
          IF /\ pend[i].result = "waiting"
             /\ \A j \in 1 .. i - 1 : pend[j].result # "waiting"
          THEN [pend[i] EXCEPT !.result = result] ELSE pend[i]
    BY <1>1 DEF Deliver
  <2>2. pend[i] \in PendingSet
    BY <1>1
  <2>3. /\ [pend[i] EXCEPT !.result = result].undo = pend[i].undo
        /\ [pend[i] EXCEPT !.result = result].result = result
    BY <2>2 DEF PendingSet
  <2> QED
    BY <2>1, <2>3
<1> QED
  BY <1>2, <1>4, <1>5

(* Settling: the goroutine stops waiting, and at most the lease table changes. *)
LEMMA SettleForm ==
  ASSUME IndInv, NEW w \in Workers, Settle(w)
  PROVE  /\ status = "up" /\ UNCHANGED <<now, status, writer, db, writes>>
         /\ workers'[w] = Idle /\ \A v \in Workers \ {w} : workers'[v] = workers[v]
         /\ records' = Undone(w).rec
         /\ DOMAIN records' \subseteq DOMAIN records
         /\ \A m \in DOMAIN records' : /\ records'[m].ip = records[m].ip
                                       /\ records'[m].gen = records[m].gen
<1>1. /\ status = "up" /\ UNCHANGED <<now, status, writer, db>>
      /\ workers'[w] = Idle /\ \A v \in Workers \ {w} : workers'[v] = workers[v]
  BY DEF Settle, IndInv, RestOK
<1>2. records' = Undone(w).rec /\ writes' = Undone(w).q
  BY DEF Settle, Install
<1> DEFINE failed == {p \in Failed(w) : p.undo.kind # "none"}
           u == (CHOOSE p \in failed : TRUE).undo
<1>3. Undone(w) = Locked \/ Undone(w) = Apply(Locked, u)
  BY DEF Undone
<1>4. LockedOK(Locked) /\ Locked.rec = records /\ Locked.q = writes
  BY LockedGood DEF IndInv, Good, Locked
<1> HIDE DEF u
<1>5. /\ Apply(Locked, u).q = writes
      /\ DOMAIN Apply(Locked, u).rec \subseteq DOMAIN records
      /\ \A m \in DOMAIN Apply(Locked, u).rec :
           /\ Apply(Locked, u).rec[m].ip = records[m].ip
           /\ Apply(Locked, u).rec[m].gen = records[m].gen
  <2> DEFINE m == u.mac
             D == {m}
             back == [Locked.rec[m] EXCEPT !.expires = u.was]
             Drop == FreeBit([Locked EXCEPT !.rec = Without(@, D)], Locked.rec[m].ip)
             Back == [Locked EXCEPT !.rec = With(@, m, back)]
  <2>1. \/ Apply(Locked, u) = Locked
        \/ m \in DOMAIN Locked.rec /\ Apply(Locked, u) = Drop
        \/ m \in DOMAIN Locked.rec /\ Apply(Locked, u) = Back
    BY DEF Apply
  <2>2. Drop.q = writes /\ Drop.rec = Without(records, D)
    BY <1>4 DEF LockedOK, FreeBit
  <2>3. Back.q = writes /\ Back.rec = With(records, m, back)
    BY <1>4 DEF LockedOK
  <2>4. m \in DOMAIN records => back.ip = records[m].ip /\ back.gen = records[m].gen
    BY <1>4, RecordFields DEF LockedOK, IsMap, Record
  <2> HIDE DEF D, back, Drop, Back
  <2>5. CASE Apply(Locked, u) = Locked
    BY <1>4, <2>5
  <2>6. CASE m \in DOMAIN Locked.rec /\ Apply(Locked, u) = Drop
    BY <2>2, <2>6 DEF Without
  <2>7. CASE m \in DOMAIN Locked.rec /\ Apply(Locked, u) = Back
    BY <1>4, <2>3, <2>4, <2>7 DEF With
  <2> QED
    BY <2>1, <2>5, <2>6, <2>7
<1> QED
  BY <1>1, <1>2, <1>3, <1>4, <1>5

LEMMA AlwaysResting == Spec => []Resting
<1>RestingKept.
    ASSUME IndInv, Resting, [Next]_vars
    PROVE  Resting'
  <2> USE <1>RestingKept
  <2>1. ASSUME NEW w, NEW S, Worked(w, S) PROVE Resting'
    BY <2>1 DEF Worked, Resting
  <2>2. ASSUME NEW w \in Handlers, NEW m \in Macs, Request(w, m) PROVE Resting'
    BY <2>1, <2>2, RequestWorked
  <2>3. ASSUME NEW w \in Handlers, NEW m \in Macs, NEW ip \in IPs,
               Release(w, m, ip) \/ Decline(w, m, ip)
        PROVE  Resting'
    BY <2>1, <2>3, GiveUpWorked
  <2>4. CASE SweepOnce
    BY <2>1, <2>4, SweepWorked
  <2>5. ASSUME NEW w \in Workers, Settle(w) PROVE Resting'
    <3>1. Idle.pend = <<>>
      BY DEF Idle
    <3> QED
      BY <2>5, <3>1, SettleForm DEF Resting
  <2>6. CASE Write \/ WriteFails
    <3>1. PICK result \in {"ok", "error"} : TakeWrite(result)
      BY <2>6 DEF Write, WriteFails
    <3>2. PICK by \in Workers : by = writes[1].by
      BY <3>1, TakeWriteForm DEF WriteSet
    <3>3. workers[by].pend = <<>> => Deliver(workers[by].pend, result) = <<>>
      BY SMTT(60) DEF Deliver
    <3>4. /\ status' = "up" /\ \A v \in Workers : workers'[v].busy = workers[v].busy
          /\ workers'[by].pend = Deliver(workers[by].pend, result)
          /\ \A v \in Workers \ {by} : workers'[v] = workers[v]
      BY <3>1, <3>2, TakeWriteForm
    <3> QED
      BY <3>3, <3>4 DEF Resting
  <2>7. CASE Close \/ WriterExits \/ Tick \/ Restart \/ RestartRefused \/ UNCHANGED vars
    <3>1. /\ UNCHANGED <<writes, workers>>
          /\ status' # "up" => status # "up"
      BY <2>7 DEF Close, WriterExits, Tick, Restart, RestartRefused, vars
    <3> QED
      BY <3>1 DEF Resting
  <2>8. CASE Crash
    BY <2>8 DEF Crash, Forget, Idle, Resting
  <2> QED
    BY <2>2, <2>3, <2>4, <2>5, <2>6, <2>7, <2>8 DEF Next
<1>1. Init => Resting
  BY SMTT(60) DEF Init, Idle, Resting
<1> QED
  BY <1>1, <1>RestingKept, Inductive, PTL DEF Spec

OnRow(q, i, m, ip) == q[i].mac = m /\ q[i].ip = ip

LEMMA QueueLast ==
  ASSUME IndInv, NEW m, NEW ip, NEW n \in Nat, n = Len(writes)
  PROVE  \/ /\ \A i \in 1 .. n : ~OnRow(writes, i, m, ip)
            /\ RowAfterQueue(m, ip) = IF <<m, ip>> \in DOMAIN db THEN {db[<<m, ip>>]} ELSE {}
         \/ \E k \in 1 .. n :
              /\ OnRow(writes, k, m, ip) /\ \A j \in k + 1 .. n : ~OnRow(writes, j, m, ip)
              /\ RowAfterQueue(m, ip) = IF writes[k].op = "store" THEN {writes[k].expires} ELSE {}
<1> DEFINE onRow == {i \in DOMAIN writes : writes[i].mac = m /\ writes[i].ip = ip}
           last == CHOOSE i \in onRow : \A j \in onRow : j <= i
<1>1. DOMAIN writes = 1 .. n
  BY SeqLen DEF IndInv, TablesOK
<1>2. RowAfterQueue(m, ip) =
        IF onRow # {}
        THEN IF writes[last].op = "store" THEN {writes[last].expires} ELSE {}
        ELSE IF <<m, ip>> \in DOMAIN db THEN {db[<<m, ip>>]} ELSE {}
  BY DEF RowAfterQueue
<1>3. \A i : i \in onRow <=> (i \in 1 .. n /\ OnRow(writes, i, m, ip))
  BY <1>1 DEF OnRow
<1>4. CASE onRow = {}
  BY <1>2, <1>3, <1>4
<1>5. CASE onRow # {}
  <2>1. onRow \in SUBSET (1 .. n)
    BY <1>1
  <2> HIDE DEF onRow
  <2>2. \E x \in onRow : \A y \in onRow : y <= x
    BY <1>5, <2>1, GreatestNatural
  <2>3. last \in onRow /\ \A y \in onRow : y <= last
    BY <2>2
  <2> HIDE DEF last
  <2>4. last \in 1 .. n /\ OnRow(writes, last, m, ip)
    BY <1>3, <2>3
  <2>5. \A j \in last + 1 .. n : ~OnRow(writes, j, m, ip)
    <3>1. ASSUME NEW j \in last + 1 .. n, OnRow(writes, j, m, ip) PROVE FALSE
      <4>1. j \in 1 .. n /\ ~(j <= last)
        BY <2>4, SMTT(60)
      <4> QED
        BY <1>3, <2>3, <3>1, <4>1
    <3> QED
      BY <3>1
  <2> QED
    BY <1>2, <1>5, <2>4, <2>5
<1> QED
  BY <1>4, <1>5

=============================================================================
