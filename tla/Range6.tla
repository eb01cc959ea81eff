------------------------------- MODULE Range6 -------------------------------
(***************************************************************************)
(* The DHCPv6 range6 plugin (plugins/range6): bindings keyed by the DUID   *)
(* of the client and the IAID of one address association, the quarantine   *)
(* of declined addresses, the goroutine that owns every write to the lease *)
(* database, and the handlers and the sweeper that share them.             *)
(*                                                                         *)
(* One message carries several IA_NAs. Its handler holds the plugin lock   *)
(* while it answers one IA_NA after the other (Receive, Continue), and     *)
(* the writer keeps taking changes off the queue; Settle then waits for    *)
(* the results, undoes what could not be written and sends the reply.      *)
(*                                                                         *)
(* Addresses are offsets 0 .. PoolSize - 1 into the pool and time is in    *)
(* ticks, TicksPerSec to the second.                                       *)
(***************************************************************************)
EXTENDS Integers, Sequences, FiniteSets, Bitset

CONSTANTS
  Duids,             \* the clients
  Iaids,             \* the address associations of a client
  Messages(_),       \* the IA_NAs of a message of a type: sequences of [iaid, addrs]
  MaxIANAs,          \* IA_NAs answered per message (maxIANAs)
  PoolSize,          \* addresses in the configured range
  LeaseTime,         \* lease time in seconds
  DeclineProbation,  \* probation of a declined address in seconds, 0: off
  DeclineMax,        \* most addresses in quarantine at once, 0: off
  MaxLeases,         \* bound on the binding table, 0: off
  QueueLen,          \* capacity of the write queue (writeQueueLen)
  Handlers,          \* packet handler goroutines
  Sweeper,           \* the background sweeper goroutine
  TicksPerSec,       \* resolution of the clock
  MaxTick,           \* bound on the clock
  Gens,              \* stand-ins for record pointers
  MaxMishaps         \* bound on the writes the database refuses plus the times
                     \* the process dies and is started again

(* The message types: SOLICIT and REQUEST are "bind", RENEW and REBIND       *)
(* "extend".                                                                 *)
Types == {"bind", "extend", "release", "decline"}
IANA == [iaid : Iaids, addrs : Seq(Int)]

ASSUME Range6Assumption ==
  /\ IsFiniteSet(Duids) /\ IsFiniteSet(Iaids) /\ Gens # {}
  /\ {MaxIANAs, PoolSize, QueueLen, TicksPerSec} \subseteq Nat \ {0}
  /\ {LeaseTime, DeclineProbation, DeclineMax, MaxLeases, MaxTick, MaxMishaps} \subseteq Nat
  /\ Sweeper \notin Handlers /\ "nobody" \notin Handlers \cup {Sweeper}
  /\ \A type \in Types : Messages(type) \subseteq Seq(IANA)

VARIABLES
  now,        \* the clock, in ticks
  status,     \* "up", "down" (crashed) or "refused" (restore failed)
  lock,       \* the goroutine holding the plugin lock, or Nobody
  records,    \* Records6: <<DUID, IAID>> -> [gen, ip, expires]
  allocated,  \* the bits set in the allocator
  declined,   \* quarantine: address -> tick its probation ends
  writes,     \* the queue to the writer goroutine
  db,         \* the table leases6: <<DUID, IAID>> -> [ip, expires]
  workers,    \* what every goroutine is doing
  told,       \* what each client has been told: <<DUID, IAID>> -> [ip, until]
  failures,   \* writes refused so far
  crashes     \* crashes so far

vars == <<now, status, lock, records, allocated, declined, writes, db, workers,
          told, failures, crashes>>

Nobody == "nobody"
Workers == Handlers \cup {Sweeper}
IPs == 0 .. PoolSize - 1
leaseKey(d, i) == <<d, i>>
Keys == {leaseKey(d, i) : d \in Duids, i \in Iaids}

(* A Go map as a function over its keys. *)
Without(f, D) == [k \in DOMAIN f \ D |-> f[k]]
With(f, k, v) == [x \in DOMAIN f \cup {k} |-> IF x = k THEN v ELSE f[x]]
Elements(s) == {s[i] : i \in DOMAIN s}
EmptyMap == [k \in {} |-> 0]

(* time.Time.Unix truncates, time.Time.Round(time.Second) rounds half up. *)
Unix(t) == t \div TicksPerSec
RoundUnix(t) == (2 * t + TicksPerSec) \div (2 * TicksPerSec)
LeaseEnd(t) == t + LeaseTime * TicksPerSec
Expired(rec, t) == rec.expires <= Unix(t)

-----------------------------------------------------------------------------
(* Queued changes, and how a failed one is undone. *)

NoUndo == [kind |-> "none"]
DropUndo(k, g) == [kind |-> "drop", key |-> k, gen |-> g]
RenewUndo(k, g, was, ext) ==
  [kind |-> "renew", key |-> k, gen |-> g, was |-> was, extended |-> ext]

Store(k, rec, by) ==
  [op |-> "store", key |-> k, ip |-> rec.ip, expires |-> rec.expires, by |-> by]
Remove(k, rec, by) == [op |-> "remove", key |-> k, ip |-> rec.ip, by |-> by]

(* What a goroutine works on under the plugin lock. ia is the IA_NA that the *)
(* changes it queues are made for.                                           *)
Locked(job) == [rec |-> records, alloc |-> allocated, dec |-> declined, q |-> writes,
                pend |-> job.pend, ia |-> Len(job.answers) + 1]

CanEnqueue(S) == Len(S.q) < QueueLen

Enqueue(S, c, undo) ==
  [S EXCEPT !.q = Append(@, c),
            !.pend = Append(@, [undo |-> undo, ia |-> S.ia, result |-> "waiting"])]

(* The pointer of a new Record: one nothing points to any more. *)
UsedGens(k) ==
  {records[x].gen : x \in DOMAIN records \cap {k}}
    \cup UNION {{p.undo.gen : p \in {q \in Elements(workers[w].pend) :
                                       q.undo.kind # "none" /\ q.undo.key = k}} :
                w \in Workers}
NewGen(k) == CHOOSE g \in Gens : g \notin UsedGens(k)

-----------------------------------------------------------------------------
(* Under the plugin lock. An operator whose outcome depends on the iteration *)
(* order of a Go map returns the set of states it can leave.                 *)

FreeBit(S, ip) == [S EXCEPT !.alloc = @ \ {ip}]

(* releaseLease once its delete fitted in the queue. *)
releaseLease(S, k, by) ==
  LET rec == S.rec[k]
  IN  FreeBit([Enqueue(S, Remove(k, rec, by), NoUndo) EXCEPT !.rec = Without(@, {k})], rec.ip)

(* The orders in which a sweep meets the expired bindings whose delete still *)
(* fits in the queue.                                                        *)
SweepOrders(S, t) ==
  LET E == {k \in DOMAIN S.rec : Expired(S.rec[k], t)}
      room == QueueLen - Len(S.q)
      n == IF Cardinality(E) <= room THEN Cardinality(E) ELSE room
  IN  {s \in [1 .. n -> E] : \A i, j \in 1 .. n : s[i] = s[j] => i = j}

sweepExpired(S, s, by) ==
  [S EXCEPT
     !.rec   = Without(@, Elements(s)),
     !.alloc = @ \ {S.rec[k].ip : k \in Elements(s)},
     !.q     = @ \o [i \in DOMAIN s |-> Remove(s[i], S.rec[s[i]], by)],
     !.pend  = @ \o [i \in DOMAIN s |->
                       [undo |-> NoUndo, ia |-> S.ia, result |-> "waiting"]]]

(* The entry goes even when the allocator refuses the address. *)
freeDeclined(S, ips) == [S EXCEPT !.dec = Without(@, ips), !.alloc = @ \ ips]

DueDeclined(S, t) == {ip \in DOMAIN S.dec : S.dec[ip] <= t}

(* reclaim, with how many addresses it returned to the pool. *)
reclaim(S, t, by) ==
  {[st |-> freeDeclined(sweepExpired(S, s, by), DueDeclined(S, t)),
    freed |-> Len(s) + Cardinality(DueDeclined(S, t))] : s \in SweepOrders(S, t)}

Oldest(S) ==
  {ip \in DOMAIN S.dec : \A other \in DOMAIN S.dec : S.dec[ip] <= S.dec[other]}

(* allocator.Allocate. *)
TakeBit(S, hint) ==
  LET ip == PickOffset(hint, S.alloc, PoolSize)
  IN  [st |-> IF ip = NoOffset THEN S ELSE [S EXCEPT !.alloc = @ \cup {ip}], ip |-> ip]

(* On failure allocate sweeps, and if nothing had lapsed gives up the address *)
(* that has been in quarantine longest; then it tries once more.              *)
allocate(S, hint, by) ==
  IF TakeBit(S, hint).ip # NoOffset THEN {TakeBit(S, hint)}
  ELSE UNION {IF r.freed > 0 THEN {TakeBit(r.st, hint)}
              ELSE IF Oldest(r.st) = {} THEN {[st |-> r.st, ip |-> NoOffset]}
              ELSE {TakeBit(freeDeclined(r.st, {ip}), hint) : ip \in Oldest(r.st)} :
              r \in reclaim(S, now, by)}

BelowLimit(S) == MaxLeases = 0 \/ Cardinality(DOMAIN S.rec) < MaxLeases

(* The new record goes in with its insert, or its address goes back.          *)
recordLease_KeepBit(S, k, ip, t, by) ==
  LET rec == [gen |-> NewGen(k), ip |-> ip, expires |-> RoundUnix(LeaseEnd(t))]
      T == Enqueue(S, Store(k, rec, by), DropUndo(k, rec.gen))
  IN  IF ip = NoOffset \/ ~CanEnqueue(S) THEN [st |-> S, ip |-> NoOffset]
      ELSE [st |-> [T EXCEPT !.rec = With(@, k, rec)], ip |-> ip]

recordLease(S, k, ip, t, by) ==
  LET rec == [gen |-> NewGen(k), ip |-> ip, expires |-> RoundUnix(LeaseEnd(t))]
      T == Enqueue(S, Store(k, rec, by), DropUndo(k, rec.gen))
  IN  IF ip = NoOffset THEN [st |-> S, ip |-> NoOffset]
      ELSE IF ~CanEnqueue(S) THEN [st |-> FreeBit(S, ip), ip |-> NoOffset]
      ELSE [st |-> [T EXCEPT !.rec = With(@, k, rec)], ip |-> ip]

(* atLeaseLimit sweeps before it turns a client away. *)
allocateLease(S, k, hint, t, by) ==
  UNION {IF ~BelowLimit(T) THEN {[st |-> T, ip |-> NoOffset]}
         ELSE {recordLease(a.st, k, a.ip, t, by) : a \in allocate(T, hint, by)} :
         T \in IF BelowLimit(S) THEN {S} ELSE {r.st : r \in reclaim(S, t, by)}}

(* A binding with enough time left is answered as it is. *)
renew_Never(S, k, t, by) == [st |-> S, ip |-> S.rec[k].ip]

renew(S, k, t, by) ==
  LET rec == S.rec[k]
      new == [rec EXCEPT !.expires = RoundUnix(LeaseEnd(t))]
      T == Enqueue(S, Store(k, new, by), RenewUndo(k, rec.gen, rec.expires, new.expires))
  IN  IF rec.expires * TicksPerSec >= LeaseEnd(t) THEN [st |-> S, ip |-> rec.ip]
      ELSE IF ~CanEnqueue(S) THEN [st |-> S, ip |-> NoOffset]
      ELSE [st |-> [T EXCEPT !.rec = With(@, k, new)], ip |-> rec.ip]

(* A lapsed binding goes back to the pool and is allocated again, hinting at  *)
(* its own address; one whose delete does not fit in the queue is kept.       *)
reallocateExpired(S, k, t, by) ==
  LET rec == S.rec[k]
      T == releaseLease(S, k, by)
  IN  IF ~CanEnqueue(S) THEN {renew(S, k, t, by)}
      ELSE IF rec.ip \notin S.alloc
      THEN {renew([T EXCEPT !.rec = With(@, k, rec)], k, t, by)}
      ELSE allocateLease(T, k, rec.ip, t, by)

renewKnown(S, k, t, by) ==
  IF Expired(S.rec[k], t) THEN reallocateExpired(S, k, t, by) ELSE {renew(S, k, t, by)}

(* A hint outside the pool does not translate into an offset. *)
requestedAddress(ia) ==
  IF ia.addrs # <<>> /\ ia.addrs[1] \in IPs THEN ia.addrs[1] ELSE NoOffset

bind(S, k, ia, t, by) ==
  IF k \in DOMAIN S.rec THEN renewKnown(S, k, t, by)
  ELSE allocateLease(S, k, requestedAddress(ia), t, by)

(* RENEW and REBIND give nothing to a client that holds nothing. *)
extend(S, k, ia, t, by) ==
  IF k \in DOMAIN S.rec THEN renewKnown(S, k, t, by) ELSE {[st |-> S, ip |-> NoOffset]}

(* The binding a RELEASE or a DECLINE names is one whose address it lists. *)
boundRecord(S, k, ia) == k \in DOMAIN S.rec /\ S.rec[k].ip \in Elements(ia.addrs)

releaseIANA(S, k, ia, by) ==
  IF boundRecord(S, k, ia) /\ CanEnqueue(S) THEN releaseLease(S, k, by) ELSE S

quarantine(S, k, t, by) ==
  LET rec == S.rec[k]
      T == [Enqueue(S, Remove(k, rec, by), NoUndo) EXCEPT !.rec = Without(@, {k})]
      Room == IF Cardinality(DOMAIN T.dec) < DeclineMax THEN {T}
              ELSE {freeDeclined(T, {ip}) : ip \in Oldest(T)}
  IN  IF DeclineProbation = 0 \/ DeclineMax = 0 THEN {releaseLease(S, k, by)}
      ELSE {[R EXCEPT !.dec = With(@, rec.ip, t + DeclineProbation * TicksPerSec)] : R \in Room}

declineIANA(S, k, ia, t, by) ==
  IF boundRecord(S, k, ia) /\ CanEnqueue(S) THEN quarantine(S, k, t, by) ELSE {S}

(* What one IA_NA of a message may do to the state, and the address in its    *)
(* answer, NoOffset for one that carries a status or is left out.             *)
AnswerFor(S, type, k, ia, t, by) ==
  CASE type = "bind"    -> bind(S, k, ia, t, by)
    [] type = "extend"  -> extend(S, k, ia, t, by)
    [] type = "release" -> {[st |-> releaseIANA(S, k, ia, by), ip |-> NoOffset]}
    [] type = "decline" -> {[st |-> T, ip |-> NoOffset] : T \in declineIANA(S, k, ia, t, by)}

-----------------------------------------------------------------------------
(* The handlers: eachIANA around the answer of each message type. *)

Idle == [phase |-> "idle", pend |-> <<>>, answers |-> <<>>]
Settling(pend, answers) == [phase |-> "settling", pend |-> pend, answers |-> answers]

Install(S) ==
  /\ records' = S.rec
  /\ allocated' = S.alloc
  /\ declined' = S.dec
  /\ writes' = S.q

Unlocked == status = "up" /\ lock = Nobody

(* limitIANAs *)
Limited(ias) == SubSeq(ias, 1, IF Len(ias) <= MaxIANAs THEN Len(ias) ELSE MaxIANAs)

(* A client that gives an address up no longer uses it, nor does it take it  *)
(* from a reply to what it sent before.                                      *)
GivenUp(type, d, ias) ==
  IF type \in {"release", "decline"}
  THEN UNION {{[key |-> leaseKey(d, ia.iaid), ip |-> ip] : ip \in Elements(ia.addrs)} :
              ia \in Elements(ias)}
  ELSE {}

(* One IA_NA of the message, and the lock goes back after the last one. *)
Answer(w, job, others) ==
  LET ia == Head(job.rest)
      k == leaseKey(job.duid, ia.iaid)
      last == Len(job.rest) = 1
  IN  /\ Gens \ UsedGens(k) # {}
      /\ \E r \in AnswerFor(Locked(job), job.type, k, ia, job.at, w) :
           LET answers == Append(job.answers, [key |-> k, ip |-> r.ip, until |-> LeaseEnd(job.at)])
           IN  /\ Install(r.st)
               /\ workers' = [others EXCEPT ![w] =
                    IF last THEN Settling(r.st.pend, answers)
                    ELSE [job EXCEPT !.rest = Tail(@), !.pend = r.st.pend, !.answers = answers]]
      /\ lock' = IF last THEN Nobody ELSE w
      /\ UNCHANGED <<now, status, db, failures, crashes>>

Receive(w, type, d, ias) ==
  LET Gone(k, ip) == [key |-> k, ip |-> ip] \in GivenUp(type, d, ias)
      Deaf(answers) == [i \in DOMAIN answers |->
                          IF Gone(answers[i].key, answers[i].ip)
                          THEN [answers[i] EXCEPT !.ip = NoOffset] ELSE answers[i]]
      job == [phase |-> "locked", type |-> type, duid |-> d, rest |-> Limited(ias),
              at |-> now, pend |-> <<>>, answers |-> <<>>]
  IN  /\ Unlocked
      /\ workers[w].phase = "idle"
      /\ ias # <<>>
      /\ Answer(w, job, [v \in Workers |-> [workers[v] EXCEPT !.answers = Deaf(@)]])
      /\ told' = Without(told, {k \in DOMAIN told : Gone(k, told[k].ip)})

Continue(w) ==
  /\ status = "up" /\ lock = w
  /\ Answer(w, workers[w], workers)
  /\ UNCHANGED told

sweepOnce ==
  /\ Unlocked
  /\ workers[Sweeper].phase = "idle"
  /\ \E r \in reclaim(Locked(Idle), now, Sweeper) :
       /\ Install(r.st)
       /\ workers' = [workers EXCEPT ![Sweeper] = Settling(r.st.pend, <<>>)]
  /\ UNCHANGED <<now, status, lock, db, told, failures, crashes>>

(* dropUnwritten takes a binding back only while it is still the one the      *)
(* write was for, and the undo of renew leaves one alone that moved on since. *)
Applied(S, u) ==
  IF u.kind = "none" \/ u.key \notin DOMAIN S.rec \/ S.rec[u.key].gen # u.gen THEN S
  ELSE IF u.kind = "drop"
       THEN FreeBit([S EXCEPT !.rec = Without(@, {u.key})], S.rec[u.key].ip)
  ELSE IF S.rec[u.key].expires = u.extended
       THEN [S EXCEPT !.rec = With(@, u.key, [S.rec[u.key] EXCEPT !.expires = u.was])]
  ELSE S

(* The changes that failed, undone from the last one back to the first. *)
Undone_Never(S, pend) == S

Undone(S, pend) ==
  LET undo[i \in 0 .. Len(pend)] ==
        IF i = Len(pend) THEN S
        ELSE LET p == pend[i + 1]
             IN  IF p.result = "error" THEN Applied(undo[i + 1], p.undo) ELSE undo[i + 1]
  IN  undo[0]

(* The answers that stand: no change made for their IA_NA failed. *)
Standing(w) ==
  {workers[w].answers[i] : i \in
     {j \in DOMAIN workers[w].answers :
        /\ workers[w].answers[j].ip # NoOffset
        /\ \A p \in Elements(workers[w].pend) : p.ia = j => p.result = "ok"}}

(* The reply goes out, with the answers that stand. *)
Settle(w) ==
  LET heard == Standing(w)
  IN  /\ Unlocked
      /\ workers[w].phase = "settling"
      /\ \A p \in Elements(workers[w].pend) : p.result # "waiting"
      /\ Install(Undone(Locked(workers[w]), workers[w].pend))
      /\ workers' = [workers EXCEPT ![w] = Idle]
      /\ told' = [k \in DOMAIN told \cup {a.key : a \in heard} |->
                    IF \E a \in heard : a.key = k
                    THEN LET a == CHOOSE a \in heard : a.key = k
                         IN  [ip |-> a.ip, until |-> a.until]
                    ELSE told[k]]
      /\ UNCHANGED <<now, status, lock, db, failures, crashes>>

-----------------------------------------------------------------------------
(* The writer goroutine. *)

(* insert or replace by key, and delete where key and address match. *)
applyWrite(table, c) ==
  IF c.op = "store" THEN With(table, c.key, [ip |-> c.ip, expires |-> c.expires])
  ELSE Without(table, {k \in DOMAIN table \cap {c.key} : table[k].ip = c.ip})

(* The result goes to the oldest change its goroutine still waits for; one    *)
(* that succeeded has no use for its undo.                                    *)
Deliver(pend, result) ==
  [i \in DOMAIN pend |->
     IF /\ pend[i].result = "waiting"
        /\ \A j \in 1 .. i - 1 : pend[j].result # "waiting"
     THEN [pend[i] EXCEPT !.result = result, !.undo = IF result = "ok" THEN NoUndo ELSE @]
     ELSE pend[i]]

TakeWrite(result) ==
  /\ status = "up"
  /\ writes # <<>>
  /\ writes' = Tail(writes)
  /\ workers' = [workers EXCEPT ![Head(writes).by].pend = Deliver(@, result)]
  /\ UNCHANGED <<now, status, lock, records, allocated, declined, told, crashes>>

write ==
  /\ TakeWrite("ok")
  /\ db' = applyWrite(db, Head(writes))
  /\ UNCHANGED failures

(* The database stayed busy, the change's context ran out, or the disk failed. *)
writeFails ==
  /\ failures + crashes < MaxMishaps
  /\ TakeWrite("error")
  /\ failures' = failures + 1
  /\ UNCHANGED db

-----------------------------------------------------------------------------
Tick ==
  /\ now < MaxTick
  /\ now' = now + 1
  /\ told' = Without(told, {k \in DOMAIN told : Unix(told[k].until) <= Unix(now')})
  /\ UNCHANGED <<status, lock, records, allocated, declined, writes, db, workers, failures, crashes>>

Crash ==
  /\ failures + crashes < MaxMishaps /\ status = "up"
  /\ status' = "down"
  /\ lock' = Nobody
  /\ records' = EmptyMap /\ allocated' = {} /\ declined' = EmptyMap /\ writes' = <<>>
  /\ workers' = [w \in Workers |-> Idle]
  /\ crashes' = crashes + 1
  /\ UNCHANGED <<now, db, told, failures>>

RowsDistinct(table) == \A k, l \in DOMAIN table : table[k].ip = table[l].ip => k = l

(* Every stored binding takes its bit; the allocator offering another address *)
(* stops the start.                                                           *)
restore ==
  /\ status = "down"
  /\ status' = IF RowsDistinct(db) THEN "up" ELSE "refused"
  /\ IF RowsDistinct(db)
     THEN /\ records' = [k \in DOMAIN db |-> [gen |-> CHOOSE g \in Gens : TRUE,
                                              ip |-> db[k].ip, expires |-> db[k].expires]]
          /\ allocated' = {db[k].ip : k \in DOMAIN db}
     ELSE UNCHANGED <<records, allocated>>
  /\ UNCHANGED <<now, lock, declined, writes, db, workers, told, failures, crashes>>

Init ==
  /\ now = 0 /\ status = "up" /\ lock = Nobody
  /\ records = EmptyMap /\ allocated = {} /\ declined = EmptyMap
  /\ writes = <<>> /\ db = EmptyMap
  /\ workers = [w \in Workers |-> Idle]
  /\ told = EmptyMap
  /\ failures = 0 /\ crashes = 0

Next ==
  \/ \E w \in Handlers, d \in Duids, type \in Types :
       \E ias \in Messages(type) : Receive(w, type, d, ias)
  \/ \E w \in Handlers : Continue(w)
  \/ sweepOnce
  \/ \E w \in Workers : Settle(w)
  \/ write \/ writeFails
  \/ Tick \/ Crash \/ restore

Spec == Init /\ [][Next]_vars

-----------------------------------------------------------------------------
(* Properties. *)

IsMap(f, K, V) == DOMAIN f \subseteq K /\ f \in [DOMAIN f -> V]

(* Every variable holds a value the Go types and the queue bound allow, and   *)
(* only the goroutine in its locked section holds the lock.                   *)
TypeOK ==
  /\ now \in 0 .. MaxTick
  /\ status \in {"up", "down", "refused"}
  /\ lock \in Handlers \cup {Nobody}
  /\ \A w \in Workers : workers[w].phase = "locked" <=> lock = w
  /\ IsMap(records, Keys, [gen : Gens, ip : IPs, expires : Nat])
  /\ allocated \in SUBSET IPs
  /\ IsMap(declined, IPs, Nat)
  /\ Len(writes) <= QueueLen
  /\ IsMap(db, Keys, [ip : IPs, expires : Nat])
  /\ IsMap(told, Keys, [ip : IPs, until : Nat])
  /\ failures \in Nat /\ crashes \in Nat

(* The allocator's bitmap holds exactly the bound and the quarantined         *)
(* addresses: no IA_NA of a message, full queue, failed write, undo, eviction,*)
(* sweep or restart leaks an address or frees one that is spoken for. None is *)
(* bound twice, to two associations of one client included, or both bound and *)
(* in quarantine, and one eviction always keeps that within decline-max (the  *)
(* comment in quarantine).                                                    *)
PoolAccounted ==
  /\ allocated = {records[k].ip : k \in DOMAIN records} \cup DOMAIN declined
  /\ \A k, l \in DOMAIN records : records[k].ip = records[l].ip => k = l
  /\ \A k \in DOMAIN records : records[k].ip \notin DOMAIN declined
  /\ Cardinality(DOMAIN declined) <= DeclineMax

(* The table after each number of the queued changes has been applied. *)
Tables ==
  LET table[i \in 0 .. Len(writes)] ==
        IF i = 0 THEN db ELSE applyWrite(table[i - 1], writes[i])
  IN  table

(* Memory and the disk do not drift apart: while the database takes its       *)
(* writes, the queue always leads from what is on disk to exactly the binding *)
(* table (enqueue's comment), and whatever part of it a crash throws away, no *)
(* address is in two rows, so that the next start loads the lease file ("the  *)
(* delete of an address can never land after the insert that hands it to the  *)
(* next client", startWriter). Even when writes fail, a binding in memory has *)
(* a row, on disk or on its way, or is one whose own insert is still to be    *)
(* settled and taken back.                                                    *)
DiskCatchesUp ==
  LET tables == Tables
      final == tables[Len(writes)]
  IN  /\ failures = 0 =>
           /\ status # "refused"
           /\ \A i \in DOMAIN tables : RowsDistinct(tables[i])
           /\ status = "up" =>
                final = [k \in DOMAIN records |->
                           [ip |-> records[k].ip, expires |-> records[k].expires]]
      /\ \A k \in DOMAIN records :
           \/ k \in DOMAIN final /\ final[k].ip = records[k].ip
           \/ \E w \in Workers : \E p \in Elements(workers[w].pend) :
                p.undo.kind = "drop" /\ p.undo.key = k /\ p.undo.gen = records[k].gen

(* A binding a client was told about stays its own, to the second, until it   *)
(* lapses or the client gives it up: no other IA_NA, sweep, eviction, renewal *)
(* or late reply takes the address away or shortens the lifetime.             *)
PromiseKept ==
  failures = 0 /\ crashes = 0 =>
    \A k \in DOMAIN told : Unix(told[k].until) > Unix(now) =>
      /\ k \in DOMAIN records
      /\ records[k].ip = told[k].ip
      /\ records[k].expires >= Unix(told[k].until)

(* "nothing a client is told outlives the write behind it" (settleAll): an    *)
(* address a client may use has its row on disk.                              *)
ToldIsWritten ==
  \A k \in DOMAIN told : Unix(told[k].until) > Unix(now) =>
    k \in DOMAIN db /\ db[k].ip = told[k].ip
=============================================================================
