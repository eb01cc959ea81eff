------------------------------ MODULE Ratelimit ------------------------------
(***************************************************************************)
(* The ratelimit plugin (plugins/ratelimit): a token bucket per client in  *)
(* a table with an intrusive list for recency, a bucket that all traffic   *)
(* shares, and the counters behind the drop summary. Buckets are objects   *)
(* with addresses, since an evicted one is filed again under another key.  *)
(***************************************************************************)
EXTENDS Integers, FiniteSets, Sequences, SequencesExt

CONSTANTS
  Keys,
  MaxKeys,         \* max:
  Interval,        \* time for one token, in ticks of the clock
  Burst,           \* burst:
  GlobalInterval,  \* global:, or 0 for none
  GlobalBurst,
  SummaryEvery,
  MaxTime,         \* bound on the clock
  MaxRequests      \* bound on the number of requests

Nil == 0
NoKey == "none"
Addrs == 1 .. MaxKeys
Ticks == 0 .. MaxTime

perKey == [interval |-> Interval, capacity |-> Interval * Burst]
globalLimit == [interval |-> GlobalInterval, capacity |-> GlobalInterval * GlobalBurst]

VARIABLES
  buckets,   \* table.buckets: the address of a key's bucket, or Nil
  heap,      \* the bucket at each address
  head, tail,
  global,    \* the shared bucket: credit and last
  counts,    \* dropped, distinct, gen and lastSummary
  now,
  seen,      \* history: the keys in the order they were last seen, newest first
  passed,    \* history: requests let through per tick, since the bucket was made
  passedAll  \* history: requests let through per tick

table == <<buckets, heap, head, tail>>
history == <<seen, passed, passedAll>>
vars == <<table, global, counts, now, history>>

-----------------------------------------------------------------------------
(* The list. A state t of the table is a record of its four parts. *)

unlink(t, b) ==
  LET p == t.heap[b].prev
      n == t.heap[b].next
      relink == [a \in Addrs |->
                   IF a = b THEN [t.heap[a] EXCEPT !.prev = Nil, !.next = Nil]
                   ELSE [t.heap[a] EXCEPT !.next = IF a = p THEN n ELSE @,
                                          !.prev = IF a = n THEN p ELSE @]]
  IN  [t EXCEPT !.heap = relink,
                !.head = IF p = Nil THEN n ELSE @,
                !.tail = IF n = Nil THEN p ELSE @]

pushFront(t, b) ==
  [t EXCEPT !.heap = [a \in Addrs |->
                        IF a = b THEN [t.heap[a] EXCEPT !.prev = Nil, !.next = t.head]
                        ELSE IF a = t.head THEN [t.heap[a] EXCEPT !.prev = b]
                        ELSE t.heap[a]],
            !.head = b,
            !.tail = IF @ = Nil THEN b ELSE @]

touch(t, b) == IF b = t.head THEN t ELSE pushFront(unlink(t, b), b)

Tracked(t) == {k \in Keys : t.buckets[k] # Nil}

(* reuseOrNew: the table, and the bucket to file a new key under. *)
reuseOrNew(t) ==
  IF Cardinality(Tracked(t)) < MaxKeys
  THEN [t |-> t, b |-> CHOOSE a \in Addrs : \A k \in Keys : t.buckets[k] # a]
  ELSE [t |-> [unlink(t, t.tail) EXCEPT !.buckets[t.heap[t.tail].key] = Nil], b |-> t.tail]

fetch_Refills(t, key) ==
  LET r == IF t.buckets[key] # Nil THEN [t |-> unlink(t, t.buckets[key]), b |-> t.buckets[key]]
           ELSE reuseOrNew(t)
  IN  pushFront([r.t EXCEPT
        !.buckets[key] = r.b,
        !.heap[r.b] = [@ EXCEPT !.key = key, !.credit = perKey.capacity, !.last = now,
                                !.gen = 0]], r.b)

(* fetch; the bucket is then at t.buckets[key]. *)
fetch(t, key) ==
  IF t.buckets[key] # Nil THEN touch(t, t.buckets[key])
  ELSE LET r == reuseOrNew(t) IN
       pushFront([r.t EXCEPT
         !.buckets[key] = r.b,
         !.heap[r.b] = [@ EXCEPT !.key = key, !.credit = perKey.capacity, !.last = now,
                                 !.gen = 0]], r.b)

-----------------------------------------------------------------------------

(* bucket.allow: the bucket brought up to date. *)
Refilled(b, limit) ==
  LET elapsed == now - b.last
      c == b.credit + elapsed
  IN  [b EXCEPT !.credit = IF elapsed >= limit.capacity \/ c > limit.capacity
                           THEN limit.capacity ELSE c,
                !.last = now]

(* bucket.allow: whether it can pay, and the bucket charged. *)
Pays(b, limit) == Refilled(b, limit).credit >= limit.interval
Charged_Anyway(b, limit) ==
  [Refilled(b, limit) EXCEPT !.credit = IF Pays(b, limit) THEN @ - limit.interval ELSE 0]

Charged(b, limit) ==
  [Refilled(b, limit) EXCEPT !.credit = IF Pays(b, limit) THEN @ - limit.interval ELSE @]

(* allowGlobal: reached only when the client's own bucket has paid. *)
allowGlobal == GlobalInterval = 0 \/ Pays(global, globalLimit)

globalCharged(own) ==
  IF GlobalInterval # 0 /\ own THEN Charged(global, globalLimit) ELSE global

recordDrop(first) ==
  LET c == [counts EXCEPT !.dropped = @ + 1, !.distinct = IF first THEN @ + 1 ELSE @] IN
  IF now - c.lastSummary < SummaryEvery THEN c
  ELSE [dropped |-> 0, distinct |-> 0, gen |-> c.gen + 1, lastSummary |-> now]

(* allow and consume, under the mutex; the clock is read under it as well. *)
consume(key) ==
  LET t == fetch([buckets |-> buckets, heap |-> heap, head |-> head, tail |-> tail], key)
      b == t.heap[t.buckets[key]]
      own == Pays(b, perKey)
      ok == own /\ allowGlobal
      first == ~ok /\ b.gen # counts.gen
      fresh == buckets[key] = Nil
      gone == Tracked([buckets |-> buckets]) \ Tracked(t)
  IN  /\ buckets' = t.buckets /\ head' = t.head /\ tail' = t.tail
      /\ heap' = [t.heap EXCEPT ![t.buckets[key]] =
                    [Charged(b, perKey) EXCEPT !.gen = IF first THEN counts.gen ELSE @]]
      /\ global' = globalCharged(own)
      /\ counts' = IF ok THEN counts ELSE recordDrop(first)
      /\ seen' = <<key>> \o SelectSeq(seen, LAMBDA k : k # key)
      /\ passed' = [k \in Keys |->
           IF k \in gone THEN [s \in Ticks |-> 0]
           ELSE IF k = key /\ ok THEN [passed[k] EXCEPT ![now] = @ + 1]
           ELSE passed[k]]
      /\ passedAll' = IF ok THEN [passedAll EXCEPT ![now] = @ + 1] ELSE passedAll
      /\ UNCHANGED now

Total(f) == FoldFunction(+, 0, f)

Request ==
  /\ Total(passedAll) + counts.dropped < MaxRequests
  /\ \E key \in Keys : consume(key)

Tick ==
  /\ now < MaxTime
  /\ now' = now + 1
  /\ UNCHANGED <<table, global, counts, history>>

Init ==
  /\ buckets = [k \in Keys |-> Nil]
  /\ heap = [a \in Addrs |-> [prev |-> Nil, next |-> Nil, key |-> NoKey, credit |-> 0,
                              last |-> 0, gen |-> 0]]
  /\ head = Nil /\ tail = Nil
  /\ global = [credit |-> globalLimit.capacity, last |-> 0]
  /\ counts = [dropped |-> 0, distinct |-> 0, gen |-> 1, lastSummary |-> 0]
  /\ now = 0
  /\ seen = <<>>
  /\ passed = [k \in Keys |-> [s \in Ticks |-> 0]]
  /\ passedAll = [s \in Ticks |-> 0]

Next == Request \/ Tick

-----------------------------------------------------------------------------
(* The list links the tracked buckets, from the most to the least recently   *)
(* seen client, in both directions, and never more than max: of them.        *)
ListIsRecency ==
  LET order == SelectSeq(seen, LAMBDA k : buckets[k] # Nil)
      at(i) == IF i \in DOMAIN order THEN buckets[order[i]] ELSE Nil
      n == Len(order)
  IN  /\ n <= MaxKeys
      /\ order = SubSeq(seen, 1, n)
      /\ head = at(1) /\ tail = at(n)
      /\ \A i \in 1 .. n : /\ heap[at(i)].key = order[i]
                           /\ heap[at(i)].next = at(i + 1)
                           /\ heap[at(i)].prev = at(i - 1)

Sum(f, s, t) == Total([i \in s .. t |-> f[i]])

(* A client that stays in the table gets, in every stretch of time, at most  *)
(* its burst and the tokens of that time.                                    *)
RateHeld ==
  \A k \in Keys : \A s \in 0 .. now : \A t \in s .. now :
    Sum(passed[k], s, t) * Interval <= perKey.capacity + (t - s)

(* All clients together, evicted or not, get at most the shared bucket.      *)
GlobalHeld ==
  GlobalInterval # 0 =>
    \A s \in 0 .. now : \A t \in s .. now :
      Sum(passedAll, s, t) * GlobalInterval <= globalLimit.capacity + (t - s)

(* A client that has been dropped keeps what it had: asking again sooner     *)
(* costs it nothing, so it is served once the time for a token has gone by   *)
(* since it was last let through.                                            *)
RetryCostsNothingStep ==
  \A k \in Keys :
    /\ GlobalInterval = 0 /\ buckets[k] # Nil
    /\ \A s \in Ticks : passed[k][s] > 0 => s + Interval <= now
    => ~(consume(k) /\ counts' # counts)

=============================================================================
