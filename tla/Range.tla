-------------------------------- MODULE Range --------------------------------
(***************************************************************************)
(* The DHCPv4 range plugin (plugins/range): the lease table, the address   *)
(* bitmap, the quarantine of declined addresses, the single goroutine that *)
(* owns every write to the lease database, and the packet handlers and the *)
(* sweeper that share them.                                                *)
(*                                                                         *)
(* A handler runs in two steps, as in the code: the section under the      *)
(* plugin lock (Request, Release, Decline, SweepOnce), which changes       *)
(* memory and queues the matching database writes, and Settle, which waits *)
(* for the results of those writes, undoes what could not be written and   *)
(* only then answers the client. Between the two any other handler, the    *)
(* writer, the clock or a crash may step in.                               *)
(*                                                                         *)
(* Addresses are offsets 0 .. PoolSize - 1 into the pool. Time is counted  *)
(* in ticks, TicksPerSec to the second, because the code mixes durations   *)
(* with expiry times truncated or rounded to the second.                   *)
(***************************************************************************)
EXTENDS Integers, Sequences, FiniteSets, Bitset, TLC

CONSTANTS
  Macs,              \* hardware addresses of the clients
  PoolSize,          \* addresses in the configured range
  LeaseTime,         \* lease time in seconds
  DeclineProbation,  \* probation of a declined address in seconds, 0: off
  DeclineMax,        \* most addresses in quarantine at once, 0: off
  MaxLeases,         \* bound on the lease table, 0: off
  QueueLen,          \* capacity of the write queue (writeQueueLen)
  Handlers,          \* packet handler goroutines
  Sweeper,           \* the background sweeper goroutine
  TicksPerSec,       \* resolution of the clock
  MaxTick,           \* bound on the clock
  Gens,              \* stand-ins for record pointers
  WritesFail,        \* whether the database may refuse a write
  Crashes,           \* whether the process may die and be started again
  Closes             \* whether an embedding program may call Close

ASSUME RangeAssumption ==
  /\ PoolSize \in Nat \ {0} /\ LeaseTime \in Nat \ {0}
  /\ DeclineProbation \in Nat /\ DeclineMax \in Nat /\ MaxLeases \in Nat
  /\ QueueLen \in Nat \ {0} /\ TicksPerSec \in Nat \ {0} /\ MaxTick \in Nat
  /\ IsFiniteSet(Macs) /\ Sweeper \notin Handlers
  /\ Gens \subseteq Nat /\ Gens # {}
  /\ {WritesFail, Crashes, Closes} \subseteq BOOLEAN

VARIABLES
  now,        \* the clock, in ticks
  status,     \* "up", "down" (crashed) or "refused" (setup failed)
  records,    \* Recordsv4: MAC -> [gen, ip, expires]
  allocated,  \* the bits set in the allocator
  declined,   \* quarantine: address -> tick its probation ends
  writes,     \* the queue to the writer goroutine
  writer,     \* "on", "draining" (stopWriter was called) or "off"
  db,         \* the table leases4: <<MAC, address>> -> expiry
  workers,    \* what every goroutine is waiting for in settle
  told        \* what each client has been told: MAC -> [ip, until]

vars == <<now, status, records, allocated, declined, writes, writer, db,
          workers, told>>

IPs == 0 .. PoolSize - 1
Workers == Handlers \cup {Sweeper}

(* A Go map as a function over its keys. *)
Without(f, D) == [k \in DOMAIN f \ D |-> f[k]]
With(f, k, v) == [x \in DOMAIN f \cup {k} |-> IF x = k THEN v ELSE f[x]]
Elements(s) == {s[i] : i \in DOMAIN s}
EmptyMap == [k \in {} |-> 0]

(* time.Time.Unix truncates, time.Time.Round(time.Second) rounds half up. *)
Unix(t) == t \div TicksPerSec
RoundUnix(t) == (2 * t + TicksPerSec) \div (2 * TicksPerSec)
LeaseEnd(t) == t + LeaseTime * TicksPerSec

Expired(rec, t) == rec.expires <= Unix(t)

-----------------------------------------------------------------------------
(* Queued writes and what to do when one fails. *)

Undo(kind, m, g, was, ext) ==
  [kind |-> kind, mac |-> m, gen |-> g, was |-> was, extended |-> ext]
NoUndo(m) == Undo("none", m, 0, 0, 0)
DropUndo(m, g) == Undo("drop", m, g, 0, 0)
RenewUndo(m, g, was, ext) == Undo("renew", m, g, was, ext)

Pending(undo) == [undo |-> undo, result |-> "waiting"]

Store(m, rec, by) ==
  [op |-> "store", mac |-> m, ip |-> rec.ip, expires |-> rec.expires, by |-> by]
Remove(m, rec, by) ==
  [op |-> "remove", mac |-> m, ip |-> rec.ip, expires |-> 0, by |-> by]

(* What a section under the plugin lock works on: the maps, the bitmap, the *)
(* queue, and the writes it has queued itself (p.pending).                  *)
Locked == [rec |-> records, alloc |-> allocated, dec |-> declined,
           q |-> writes, pend |-> <<>>]

CanEnqueue(S) == Len(S.q) < QueueLen

Enqueue_Front(S, w, undo) ==
  [S EXCEPT !.q = <<w>> \o @, !.pend = Append(@, Pending(undo))]

Enqueue(S, w, undo) ==
  [S EXCEPT !.q = Append(@, w), !.pend = Append(@, Pending(undo))]

(* The generations of m's records that something still points to. *)
UsedGens(m) ==
  {records[k].gen : k \in DOMAIN records \cap {m}}
    \cup UNION {{p.undo.gen : p \in {q \in Elements(workers[w].pend) : q.undo.mac = m}} :
                w \in Workers}

(* The pointer of a new Record. *)
NewGen(m) == CHOOSE g \in Gens : g \notin UsedGens(m)

-----------------------------------------------------------------------------
(* Under the plugin lock. Every operator below takes the state S of the      *)
(* locked section and the goroutine `by` running it; the ones whose outcome  *)
(* depends on the iteration order of a Go map return the set of states they  *)
(* can leave.                                                                *)

FreeBit(S, ip) == [S EXCEPT !.alloc = @ \ {ip}]

(* The queued delete, the dropped record and the cleared bit of releaseLease *)
(* once the delete was accepted by the queue.                                *)
ReleaseLease(S, m, by) ==
  LET rec == S.rec[m]
      T == Enqueue(S, Remove(m, rec, by), NoUndo(m))
  IN  FreeBit([T EXCEPT !.rec = Without(@, {m})], rec.ip)

ExpiredMacs(S, t) == {m \in DOMAIN S.rec : Expired(S.rec[m], t)}

(* The orders in which a sweep meets the expired leases whose delete still   *)
(* fits in the queue.                                                        *)
SweepOrders(S, t) ==
  LET E == ExpiredMacs(S, t)
      room == QueueLen - Len(S.q)
      n == IF Cardinality(E) <= room THEN Cardinality(E) ELSE room
  IN  {s \in [1 .. n -> E] : \A i, j \in 1 .. n : s[i] = s[j] => i = j}

SweepExpired(S, s, by) ==
  [S EXCEPT
     !.rec   = Without(@, Elements(s)),
     !.alloc = @ \ {S.rec[m].ip : m \in Elements(s)},
     !.q     = @ \o [i \in DOMAIN s |-> Remove(s[i], S.rec[s[i]], by)],
     !.pend  = @ \o [i \in DOMAIN s |-> Pending(NoUndo(s[i]))]]

(* An address the allocator would not free stays in the quarantine. *)
SweepDeclined(S, t) ==
  LET due == {ip \in DOMAIN S.dec : S.dec[ip] <= t} \cap S.alloc
  IN  [S EXCEPT !.dec = Without(@, due), !.alloc = @ \ due]

Reclaim_DeclinedOnly(S, t, by) == {SweepDeclined(S, t)}

Reclaim(S, t, by) ==
  {SweepDeclined(SweepExpired(S, s, by), t) : s \in SweepOrders(S, t)}

(* The addresses whose probation ends first. *)
OldestDeclined(S) ==
  {ip \in DOMAIN S.dec : \A other \in DOMAIN S.dec : S.dec[ip] <= S.dec[other]}

EvictDeclined(S, ip) == FreeBit([S EXCEPT !.dec = Without(@, {ip})], ip)

(* allocator.Allocate, on a bitmap with a clear bit. *)
TakeBit(S, hint) ==
  LET ip == PickOffset(hint, S.alloc, PoolSize)
  IN  [st |-> [S EXCEPT !.alloc = @ \cup {ip}], ip |-> ip]

(* A sweep that freed anything left a clear bit, and one that freed nothing  *)
(* left none, since the allocation before it had failed.                     *)
Allocate(S, hint, t, by) ==
  IF HasClear(S.alloc, PoolSize) THEN {TakeBit(S, hint)}
  ELSE UNION {IF HasClear(T.alloc, PoolSize) THEN {TakeBit(T, hint)}
              ELSE IF OldestDeclined(T) \cap T.alloc = {}
              THEN {[st |-> T, ip |-> NoOffset]}
              ELSE {TakeBit(EvictDeclined(T, ip), hint) :
                      ip \in OldestDeclined(T) \cap T.alloc} :
              T \in Reclaim(S, t, by)}

BelowLimit(S) == MaxLeases = 0 \/ Cardinality(DOMAIN S.rec) < MaxLeases

(* atLeaseLimit sweeps before it turns a client away. *)
LimitSweep(S, t, by) == IF BelowLimit(S) THEN {S} ELSE Reclaim(S, t, by)

RecordLease_KeepBit(S, m, ip, t, by) ==
  LET rec == [gen |-> NewGen(m), ip |-> ip, expires |-> Unix(LeaseEnd(t))]
      T == Enqueue(S, Store(m, rec, by), DropUndo(m, rec.gen))
  IN  IF ip = NoOffset \/ ~CanEnqueue(S) THEN [st |-> S, ip |-> NoOffset]
      ELSE [st |-> [T EXCEPT !.rec = With(@, m, rec)], ip |-> ip]

(* The new record goes in with its insert, or the address goes back when the *)
(* queue is full.                                                            *)
RecordLease(S, m, ip, t, by) ==
  LET rec == [gen |-> NewGen(m), ip |-> ip, expires |-> Unix(LeaseEnd(t))]
      T == Enqueue(S, Store(m, rec, by), DropUndo(m, rec.gen))
  IN  IF ip = NoOffset THEN [st |-> S, ip |-> NoOffset]
      ELSE IF ~CanEnqueue(S) THEN [st |-> FreeBit(S, ip), ip |-> NoOffset]
      ELSE [st |-> [T EXCEPT !.rec = With(@, m, rec)], ip |-> ip]

AllocateLease(S, m, hint, t, by) ==
  UNION {IF ~BelowLimit(T) THEN {[st |-> T, ip |-> NoOffset]}
         ELSE {RecordLease(a.st, m, a.ip, t, by) : a \in Allocate(T, hint, t, by)} :
         T \in LimitSweep(S, t, by)}

Renew_Never(S, m, t, by) == [st |-> S, ip |-> S.rec[m].ip]

(* An extension that the queue refuses is rolled back before the lock is     *)
(* released, so it leaves no trace.                                          *)
Renew(S, m, t, by) ==
  LET rec == S.rec[m]
      new == [rec EXCEPT !.expires = RoundUnix(LeaseEnd(t))]
      T == Enqueue(S, Store(m, new, by),
                   RenewUndo(m, rec.gen, rec.expires, new.expires))
  IN  IF rec.expires * TicksPerSec >= LeaseEnd(t) THEN [st |-> S, ip |-> rec.ip]
      ELSE IF ~CanEnqueue(S) THEN [st |-> S, ip |-> NoOffset]
      ELSE [st |-> [T EXCEPT !.rec = With(@, m, new)], ip |-> rec.ip]

ReallocateExpired_NoHint(S, m, t, by) ==
  IF CanEnqueue(S) THEN AllocateLease(ReleaseLease(S, m, by), m, NoOffset, t, by)
  ELSE {Renew(S, m, t, by)}

(* A lease that cannot be taken apart is kept and renewed. *)
ReallocateExpired(S, m, t, by) ==
  LET rec == S.rec[m]
      T == ReleaseLease(S, m, by)
  IN  IF ~CanEnqueue(S) THEN {Renew(S, m, t, by)}
      ELSE IF rec.ip \notin S.alloc
      THEN {Renew([T EXCEPT !.rec = With(@, m, rec)], m, t, by)}
      ELSE AllocateLease(T, m, rec.ip, t, by)

LeaseFor(S, m, t, by) ==
  IF m \notin DOMAIN S.rec THEN AllocateLease(S, m, NoOffset, t, by)
  ELSE IF Expired(S.rec[m], t) THEN ReallocateExpired(S, m, t, by)
  ELSE {Renew(S, m, t, by)}

(* A refused delete leaves everything as it was. *)
FreeLease(S, m, by) == IF CanEnqueue(S) THEN ReleaseLease(S, m, by) ELSE S

Quarantine_KeepRow(S, m, t, by) ==
  [S EXCEPT !.rec = Without(@, {m}),
            !.dec = With(@, S.rec[m].ip, t + DeclineProbation * TicksPerSec)]

Quarantine(S, m, t, by) ==
  LET rec == S.rec[m]
      T == Enqueue(S, Remove(m, rec, by), NoUndo(m))
  IN  IF \/ DeclineProbation = 0 \/ DeclineMax = 0
         \/ Cardinality(DOMAIN S.dec) >= DeclineMax
      THEN FreeLease(S, m, by)
      ELSE IF ~CanEnqueue(S) THEN S
      ELSE [T EXCEPT !.rec = Without(@, {m}),
                     !.dec = With(@, rec.ip, t + DeclineProbation * TicksPerSec)]

-----------------------------------------------------------------------------
(* The handlers. Each installs the result of its locked section and leaves   *)
(* its goroutine waiting in settle, with the reply it will send, if any.     *)

Idle == [busy |-> FALSE, reply |-> {}, pend |-> <<>>]

Install(S) ==
  /\ records' = S.rec
  /\ allocated' = S.alloc
  /\ declined' = S.dec
  /\ writes' = S.q

(* The clients in `left` no longer listen for a reply to an earlier message. *)
Await(w, S, reply, left) ==
  /\ Install(S)
  /\ workers' = [v \in Workers |->
                   IF v = w THEN [busy |-> TRUE, reply |-> reply, pend |-> S.pend]
                   ELSE [workers[v] EXCEPT !.reply = {r \in @ : r.mac \notin left}]]
  /\ UNCHANGED <<now, status, writer, db>>

Ready(w) == status = "up" /\ ~workers[w].busy

(* A DISCOVER or a REQUEST from m, answered with the lease time: the client  *)
(* counts on the address until LeaseEnd(now).                                *)
Request(w, m) ==
  /\ Ready(w)
  /\ Gens \ UsedGens(m) # {}
  /\ \E r \in LeaseFor(Locked, m, now, w) :
       Await(w, r.st, IF r.ip = NoOffset THEN {}
                      ELSE {[mac |-> m, ip |-> r.ip, until |-> LeaseEnd(now)]}, {})
  /\ UNCHANGED told

(* The client no longer uses an address it has given up. *)
GaveUp(m, ip) == told' = Without(told, {k \in DOMAIN told \cap {m} : told[k].ip = ip})

(* A RELEASE from m with ip in ciaddr: only the holder frees a lease. *)
Release(w, m, ip) ==
  /\ Ready(w)
  /\ Await(w, IF m \in DOMAIN records /\ records[m].ip = ip
              THEN FreeLease(Locked, m, w) ELSE Locked, {}, {m})
  /\ GaveUp(m, ip)

(* A DECLINE from m with ip in option 50. *)
Decline(w, m, ip) ==
  /\ Ready(w)
  /\ Await(w, IF m \in DOMAIN records /\ records[m].ip = ip
              THEN Quarantine(Locked, m, now, w) ELSE Locked, {}, {m})
  /\ GaveUp(m, ip)

SweepOnce ==
  /\ Ready(Sweeper)
  /\ writer = "on"
  /\ \E S \in Reclaim(Locked, now, Sweeper) : Await(Sweeper, S, {}, {})
  /\ UNCHANGED told

(* The in-memory effect of a failed write is put back only while the record  *)
(* is still the one the write was for.                                       *)
Apply(S, u) ==
  IF u.kind = "none" \/ u.mac \notin DOMAIN S.rec \/ S.rec[u.mac].gen # u.gen THEN S
  ELSE IF u.kind = "drop"
       THEN FreeBit([S EXCEPT !.rec = Without(@, {u.mac})], S.rec[u.mac].ip)
  ELSE IF S.rec[u.mac].expires = u.extended
       THEN [S EXCEPT !.rec = With(@, u.mac, [S.rec[u.mac] EXCEPT !.expires = u.was])]
  ELSE S

(* A result that never came is ErrWriterStopped. *)
Failed(w) == {p \in Elements(workers[w].pend) : p.result # "ok"}

Undone_Never(w) == Locked

(* A locked section queues at most one write that has an undo. *)
Undone(w) ==
  LET failed == {p \in Failed(w) : p.undo.kind # "none"}
  IN  IF failed = {} THEN Locked ELSE Apply(Locked, (CHOOSE p \in failed : TRUE).undo)

Answered_NoStop(w) == \A p \in Elements(workers[w].pend) : p.result # "waiting"

(* Every result is in, or the writer has gone and no more will come. *)
Answered(w) ==
  writer = "off" \/ \A p \in Elements(workers[w].pend) : p.result # "waiting"

Settle(w) ==
  /\ status = "up"
  /\ workers[w].busy
  /\ Answered(w)
  /\ Install(Undone(w))
  /\ workers' = [workers EXCEPT ![w] = Idle]
  /\ told' = IF Failed(w) # {} THEN told
             ELSE [m \in DOMAIN told \cup {r.mac : r \in workers[w].reply} |->
                     IF \E r \in workers[w].reply : r.mac = m
                     THEN LET r == CHOOSE r \in workers[w].reply : r.mac = m
                          IN  [ip |-> r.ip, until |-> r.until]
                     ELSE told[m]]
  /\ UNCHANGED <<now, status, writer, db>>

-----------------------------------------------------------------------------
(* The writer goroutine. *)

(* insert or replace, and delete where mac and ip match. *)
Exec(table, w) ==
  IF w.op = "store" THEN With(table, <<w.mac, w.ip>>, w.expires)
  ELSE Without(table, {<<w.mac, w.ip>>})

(* The result goes to the oldest write its goroutine still waits for. *)
Deliver(pend, result) ==
  [i \in DOMAIN pend |->
     IF /\ pend[i].result = "waiting"
        /\ \A j \in 1 .. i - 1 : pend[j].result # "waiting"
     THEN [pend[i] EXCEPT !.result = result] ELSE pend[i]]

TakeWrite(result) ==
  /\ status = "up"
  /\ writer # "off"
  /\ writes # <<>>
  /\ writes' = Tail(writes)
  /\ workers' = [workers EXCEPT ![Head(writes).by].pend = Deliver(@, result)]
  /\ UNCHANGED <<now, status, records, allocated, declined, writer, told>>

Write ==
  /\ TakeWrite("ok")
  /\ db' = Exec(db, Head(writes))

(* The database stayed busy through every retry, the write's context ran     *)
(* out, or the disk refused it.                                              *)
WriteFails ==
  /\ WritesFail
  /\ TakeWrite("error")
  /\ UNCHANGED db

(* Close stops the sweeper, waits for it, and asks the writer to drain. *)
Close ==
  /\ Closes /\ status = "up" /\ writer = "on" /\ ~workers[Sweeper].busy
  /\ writer' = "draining"
  /\ UNCHANGED <<now, status, records, allocated, declined, writes, db, workers, told>>

WriterExits ==
  /\ status = "up" /\ writer = "draining" /\ writes = <<>>
  /\ writer' = "off"
  /\ UNCHANGED <<now, status, records, allocated, declined, writes, db, workers, told>>

-----------------------------------------------------------------------------
(* The clock, and the process dying and being started again on the same      *)
(* lease file.                                                               *)

Tick ==
  /\ now < MaxTick
  /\ now' = now + 1
  /\ told' = Without(told, {m \in DOMAIN told : Unix(told[m].until) <= Unix(now')})
  /\ UNCHANGED <<status, records, allocated, declined, writes, writer, db, workers>>

Forget ==
  /\ records' = EmptyMap
  /\ allocated' = {}
  /\ declined' = EmptyMap
  /\ writes' = <<>>
  /\ writer' = "on"
  /\ workers' = [w \in Workers |-> Idle]

Crash ==
  /\ Crashes /\ status = "up"
  /\ status' = "down"
  /\ Forget
  /\ UNCHANGED <<now, db, told>>

(* One row per MAC survives loadRecords, the last one read. *)
Loads == {f \in [{r[1] : r \in DOMAIN db} -> IPs] :
            \A m \in DOMAIN f : <<m, f[m]>> \in DOMAIN db}

OneEach(f) == \A m, n \in DOMAIN f : f[m] = f[n] => m = n

(* Every loaded lease takes its bit; the allocator offering another address  *)
(* fails the setup.                                                          *)
Restart ==
  /\ status = "down"
  /\ \E f \in Loads :
       /\ OneEach(f)
       /\ records' = [m \in DOMAIN f |->
                        [gen |-> CHOOSE g \in Gens : TRUE, ip |-> f[m],
                         expires |-> db[<<m, f[m]>>]]]
       /\ allocated' = Elements(f)
  /\ status' = "up"
  /\ UNCHANGED <<now, declined, writes, writer, db, workers, told>>

RestartRefused ==
  /\ status = "down"
  /\ \E f \in Loads : ~OneEach(f)
  /\ status' = "refused"
  /\ UNCHANGED <<now, records, allocated, declined, writes, writer, db, workers, told>>

Init ==
  /\ now = 0 /\ status = "up"
  /\ records = EmptyMap /\ allocated = {} /\ declined = EmptyMap
  /\ writes = <<>> /\ writer = "on" /\ db = EmptyMap
  /\ workers = [w \in Workers |-> Idle]
  /\ told = EmptyMap

Next ==
  \/ \E w \in Handlers, m \in Macs :
       Request(w, m) \/ \E ip \in IPs : Release(w, m, ip) \/ Decline(w, m, ip)
  \/ SweepOnce
  \/ \E w \in Workers : Settle(w)
  \/ Write \/ WriteFails \/ Close \/ WriterExits
  \/ Tick \/ Crash \/ Restart \/ RestartRefused

Spec == Init /\ [][Next]_vars

(* The writer goroutine takes from its queue and ends once drained, a        *)
(* handler whose results are in goes on, and the sweeper's ticker fires.     *)
Fairness ==
  /\ WF_vars(Write \/ WriteFails) /\ WF_vars(WriterExits)
  /\ \A w \in Workers : WF_vars(Settle(w))
  /\ WF_vars(SweepOnce)

LiveSpec == Spec /\ Fairness

-----------------------------------------------------------------------------
(* Properties. *)

Record == [gen : Gens, ip : IPs, expires : Nat]
UndoSet == [kind : {"none", "drop", "renew"}, mac : Macs, gen : Gens \cup {0},
            was : Nat, extended : Nat]
PendingSet == [undo : UndoSet, result : {"waiting", "ok", "error"}]
WriteSet == [op : {"store", "remove"}, mac : Macs, ip : IPs, expires : Nat, by : Workers]
ReplySet == [mac : Macs, ip : IPs, until : Nat]

IsMap(f, K, V) == DOMAIN f \subseteq K /\ f \in [DOMAIN f -> V]
WorkerSet == [busy : BOOLEAN, reply : SUBSET ReplySet, pend : Seq(PendingSet)]

(* Every variable holds a value the Go types and the queue bound allow.       *)
TypeOK ==
  /\ now \in 0 .. MaxTick
  /\ status \in {"up", "down", "refused"}
  /\ IsMap(records, Macs, Record)
  /\ allocated \in SUBSET IPs
  /\ IsMap(declined, IPs, Nat)
  /\ writes \in Seq(WriteSet) /\ Len(writes) <= QueueLen
  /\ writer \in {"on", "draining", "off"}
  /\ IsMap(db, Macs \X IPs, Nat)
  /\ workers \in [Workers -> WorkerSet]
  /\ IsMap(told, Macs, [ip : IPs, until : Nat])

(* The allocator's bitmap holds exactly the leased and the quarantined        *)
(* addresses: no path through a full queue, a failed write, an undo, a sweep  *)
(* or a restart leaks an address or frees one that is still spoken for.       *)
PoolAccounted == allocated = {records[m].ip : m \in DOMAIN records} \cup DOMAIN declined

(* No address is in two leases, and none is both leased and in quarantine.    *)
NoSharedAddress ==
  /\ \A m, n \in DOMAIN records : records[m].ip = records[n].ip => m = n
  /\ \A m \in DOMAIN records : records[m].ip \notin DOMAIN declined

(* The lease table never outgrows max-leases, sweeps, undone writes and       *)
(* restarts included, as long as the database takes its writes, and the       *)
(* quarantine never outgrows decline-max.                                     *)
LimitsHeld ==
  /\ MaxLeases > 0 => Cardinality(DOMAIN records) <= MaxLeases
  /\ Cardinality(DOMAIN declined) <= DeclineMax

(* The row of m on ip once every queued write has been applied: its expiry    *)
(* times, empty if there is none.                                             *)
RowAfterQueue(m, ip) ==
  LET onRow == {i \in DOMAIN writes : writes[i].mac = m /\ writes[i].ip = ip}
      last == CHOOSE i \in onRow : \A j \in onRow : j <= i
  IN  IF onRow # {}
      THEN IF writes[last].op = "store" THEN {writes[last].expires} ELSE {}
      ELSE IF <<m, ip>> \in DOMAIN db THEN {db[<<m, ip>>]} ELSE {}

RowInMemory(m, ip) ==
  IF m \in DOMAIN records /\ records[m].ip = ip THEN {records[m].expires} ELSE {}

(* Memory and the disk do not drift apart: with a database that takes its     *)
(* writes, the queue always leads from what is on disk to exactly the lease   *)
(* table (enqueue's comment).                                                 *)
DiskCatchesUp ==
  status = "up" /\ writer # "off" =>
    \A m \in Macs, ip \in IPs : RowAfterQueue(m, ip) = RowInMemory(m, ip)

(* At every moment, whatever part of the queue a crash throws away, the lease *)
(* file holds one address per client and one client per address, so that the  *)
(* next start loads it.                                                       *)
RowsApart ==
  /\ \A r, s \in DOMAIN db : r[1] = s[1] \/ r[2] = s[2] => r = s
  /\ status # "refused"

(* The lease table keeps to max-leases and the quarantine to decline-max; and *)
(* whatever part of the queue a crash throws away, the lease file has one     *)
(* address per client and one client per address, so that the next start      *)
(* loads it (atLeaseLimit, quarantine and enqueue).                           *)
TablesBounded == LimitsHeld /\ RowsApart

(* Even when writes fail, a lease in memory has a row, on disk or on its way, *)
(* or is one whose own insert is still to be settled and will be taken back.  *)
LeaseWritten ==
  status = "up" /\ writer # "off" =>
    \A m \in DOMAIN records :
      \/ RowAfterQueue(m, records[m].ip) # {}
      \/ \E w \in Workers : \E p \in Elements(workers[w].pend) :
           p.undo.kind = "drop" /\ p.undo.mac = m /\ p.undo.gen = records[m].gen

Live(m) == m \in DOMAIN told /\ Unix(told[m].until) > Unix(now)

(* A lease a client was told about stays its own, to the second, until it     *)
(* lapses or the client gives it up: no sweep, eviction, renewal or late      *)
(* reply takes the address away or shortens the lease.                        *)
PromiseKept ==
  \A m \in Macs : Live(m) =>
    /\ m \in DOMAIN records
    /\ records[m].ip = told[m].ip
    /\ records[m].expires >= Unix(told[m].until)

(* A declined address comes back before its probation ends only for a client  *)
(* that found the whole pool taken (evictOldestDeclined).                     *)
ProbationHeldStep ==
  status' = "up" =>
    \A ip \in DOMAIN declined \ DOMAIN declined' :
      declined[ip] <= now \/ allocated = IPs

(* A client that is in the lease table before and after a step keeps its      *)
(* address, a late one whose lease had lapsed included (reallocateExpired).   *)
AddressStickyStep ==
  \A m \in DOMAIN records \cap DOMAIN records' : records'[m].ip = records[m].ip

(* An address stays where it was settled: with its client for as long as the  *)
(* client is in the lease table, lapsed or not (reallocateExpired), and in    *)
(* quarantine until its probation ends, unless a client found the whole pool  *)
(* taken (evictOldestDeclined).                                               *)
AddressesSettled == [][AddressStickyStep /\ ProbationHeldStep]_vars

(* No handler and no sweep waits for its writes forever, a writer that is     *)
(* stopped under it included (waitFor).                                       *)
HandlersFinish == \A w \in Workers : workers[w].busy ~> ~workers[w].busy

Lapsed(m) == status = "up" /\ writer = "on" /\ m \in DOMAIN records /\ Expired(records[m], now)

Due(ip) == status = "up" /\ writer = "on" /\ ip \in DOMAIN declined /\ declined[ip] <= now

(* A lapsed lease is swept or renewed in the end, one that a sweep had to     *)
(* skip included, unless the queue fills up over and over; and a declined     *)
(* address, which takes no write, comes back in any case once its probation   *)
(* is over (reclaim).                                                         *)
ExpiredReclaimed ==
  /\ \A m \in Macs : <>[]Lapsed(m) => []<>(Len(writes) = QueueLen)
  /\ \A ip \in IPs : Due(ip) ~> ~Due(ip)

-----------------------------------------------------------------------------
(* What comments of the code say and the code does not do. *)

(* "so nothing else can be holding it": a lease taken back because its write  *)
(* failed has no row on disk (freeUnrecorded).                                *)
DropsOnlyUnrecorded ==
  [][(\E w \in Workers : workers[w].busy /\ ~workers'[w].busy) /\ status' = "up" =>
       \A m \in DOMAIN records \ DOMAIN records' : <<m, records[m].ip>> \notin DOMAIN db]_vars

-----------------------------------------------------------------------------
(* For TLC. *)

Symmetry == Permutations(Macs) \cup Permutations(Handlers)

(* Enough record pointers that Request is never short of one: one lives in    *)
(* the table and one in the undo of every other handler.                      *)
EnoughGens == 1 .. Cardinality(Handlers) + 1

(* Nothing the server does depends on what the clients make of its replies,   *)
(* so runs whose properties do not mention them leave them out of the state.  *)
ServerView ==
  <<now, status, records, allocated, declined, writes, writer, db,
    [w \in Workers |-> <<workers[w].busy, workers[w].pend>>]>>
=============================================================================
