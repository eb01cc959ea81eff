------------------------------ MODULE Tallies -------------------------------
(***************************************************************************)
(* What the dashboard remembers and counts (cmd/coredhcp-tui/tui: model.go *)
(* and leases.go):                                                         *)
(* ring, the newest entries of a pane; rateRing, the events of the last    *)
(* seconds in one bucket for each; the totals of the header, the counters  *)
(* of a family, and how often each plugin of a chain was reached and ended *)
(* it. A request is the event the server reports: its family, type, reply, *)
(* outcome, path and position. Times are whole seconds.                    *)
(***************************************************************************)
EXTENDS Integers, Sequences, FiniteSets

CONSTANTS
  rateBuckets,  \* the seconds a rate ring goes back
  maxTypeKeys,  \* message types a family's map tells apart
  leaseSnapshotRows  \* rows of the lease table one frame copies

NoEntry == "no entry"

newRing(capacity) == [buf |-> [s \in 0 .. capacity - 1 |-> NoEntry], start |-> 0, n |-> 0]

Size(r) == Cardinality(DOMAIN r.buf)

push(r, v) ==
  IF r.n < Size(r)
  THEN [r EXCEPT !.buf[(r.start + r.n) % Size(r)] = v, !.n = @ + 1]
  ELSE [r EXCEPT !.buf[r.start] = v, !.start = (@ + 1) % Size(r)]

(* Oldest first. *)
items(r) == [i \in 1 .. r.n |-> r.buf[(r.start + i - 1) % Size(r)]]

reset(r) == newRing(Size(r))

-----------------------------------------------------------------------------
Slots == 0 .. rateBuckets - 1
NoneYet == [s \in Slots |-> 0]

newRate == [buckets |-> NoneYet, sec |-> 0, head |-> 0, primed |-> FALSE]

(* The head moves to the second sec and what it passes over is cleared.      *)
advance(r, sec) ==
  LET gap == sec - r.sec
      passed == {(r.head + i) % rateBuckets : i \in 1 .. gap}
  IN  IF ~r.primed THEN [r EXCEPT !.primed = TRUE, !.sec = sec]
      ELSE IF gap <= 0 THEN r
      ELSE IF gap >= rateBuckets THEN [r EXCEPT !.buckets = NoneYet, !.head = 0, !.sec = sec]
      ELSE [r EXCEPT !.buckets = [s \in Slots |-> IF s \in passed THEN 0 ELSE @[s]],
                     !.head = (@ + gap) % rateBuckets, !.sec = sec]

add(r, sec) ==
  LET a == advance(r, sec) IN [a EXCEPT !.buckets[a.head] = @ + 1]

(* Of a ring aged to the present: oldest first. *)
series(r) == [i \in 1 .. rateBuckets |-> r.buckets[(r.head + i) % rateBuckets]]

(* The history goes, the head second stays. *)
resetRate(r) == [r EXCEPT !.buckets = NoneYet]

-----------------------------------------------------------------------------
Never == -1

newTotals ==
  [requests |-> 0, issued |-> 0, confirmed |-> 0, dropped |-> 0, errors |-> 0,
   lastRequest |-> Never, lastSoftErr |-> Never, lastSendErr |-> Never]

SoftErrors == {"parse error", "unsupported"}
Errors == SoftErrors \cup {"send error"}

recordOutcome(tot, r) ==
  CASE r.outcome = "dropped" -> [tot EXCEPT !.dropped = @ + 1]
    [] r.outcome \in SoftErrors -> [tot EXCEPT !.errors = @ + 1, !.lastSoftErr = r.time]
    [] r.outcome = "send error" -> [tot EXCEPT !.errors = @ + 1, !.lastSendErr = r.time]
    [] OTHER -> tot

(* Past the limit a type that has no key of its own is counted as "other",   *)
(* and one nobody could name as "?".                                         *)
bumpKey(m, type) ==
  LET named == IF type = "" THEN "?" ELSE type
      key == IF named \notin DOMAIN m /\ Cardinality(DOMAIN m) >= maxTypeKeys THEN "other" ELSE named
  IN  [k \in DOMAIN m \cup {key} |->
         (IF k \in DOMAIN m THEN m[k] ELSE 0) + (IF k = key THEN 1 ELSE 0)]

Outcomes == {"dropped", "parse error", "unsupported", "send error"}
Paths == {"none", "unicast", "broadcast", "layer2"}

newFamilyCounters ==
  [total |-> 0, in |-> <<>>, out |-> <<>>, problems |-> [o \in Outcomes |-> 0],
   paths |-> [p \in Paths |-> 0]]

addToFamily(c, r) ==
  [c EXCEPT !.total = @ + 1,
            !.in = bumpKey(@, r.type),
            !.out = IF r.reply # "" THEN bumpKey(@, r.reply) ELSE @,
            !.paths[r.path] = @ + 1,
            !.problems = [o \in Outcomes |-> @[o] + (IF o = r.outcome THEN 1 ELSE 0)]]

-----------------------------------------------------------------------------
chainLink == [reached |-> 0, replied |-> 0, dropped |-> 0]

(* The event names the link that ended the chain, if one did: that one and   *)
(* those before it were reached, or else all of them.                        *)
recordChain(links, r) ==
  IF links = <<>> \/ r.outcome \in SoftErrors THEN links
  ELSE LET stops == r.position \in DOMAIN links
           last == IF stops THEN r.position ELSE Len(links)
       IN  [i \in DOMAIN links |->
              [reached |-> links[i].reached + (IF i <= last THEN 1 ELSE 0),
               replied |-> links[i].replied
                 + (IF stops /\ i = r.position /\ r.outcome \in {"replied", "send error"} THEN 1 ELSE 0),
               dropped |-> links[i].dropped
                 + (IF stops /\ i = r.position /\ r.outcome = "dropped" THEN 1 ELSE 0)]]

-----------------------------------------------------------------------------
(* leases.go: what the traffic says of each client's lease, one entry per     *)
(* client, linked from the client seen last to the one seen longest ago,      *)
(* which goes when the table is full. The two links of an entry are its       *)
(* fields prev and next.                                                      *)

leaseStates == {"offered", "confirmed", "refused", "released", "declined"}
leaseNone == "none"
Nowhere == "nowhere"

(* The zero time, and the address of a reply that carries none. *)
Zero == -1
NoAddrs == "no address"

(* What an exchange says about the client's lease. *)
leaseTransitionV4(r) ==
  LET replied == r.outcome = "replied" IN
  CASE r.type = "RELEASE" -> "released"
    [] r.type = "DECLINE" /\ r.outcome = "no reply" -> "declined"
    [] r.type = "DISCOVER" /\ replied /\ r.reply = "OFFER" -> "offered"
    [] r.type = "REQUEST" /\ replied /\ r.reply = "ACK" /\ r.addrs # NoAddrs -> "confirmed"
    [] r.type = "REQUEST" /\ replied /\ r.reply = "NAK" -> "refused"
    [] OTHER -> leaseNone

solicitState(reply) ==
  CASE reply = "ADVERTISE" -> "offered" [] reply = "REPLY" -> "confirmed" [] OTHER -> leaseNone

leaseTransitionV6(r) ==
  IF r.type = "RELEASE" THEN "released"
  ELSE IF r.outcome # "replied" THEN leaseNone
  ELSE CASE r.type = "SOLICIT" -> solicitState(r.reply)
         [] r.type \in {"REQUEST", "RENEW", "REBIND"} /\ r.reply = "REPLY" ->
              IF r.addrs # NoAddrs THEN "confirmed" ELSE "refused"
         [] r.type = "CONFIRM" /\ r.reply = "REPLY" /\ r.addrs # NoAddrs -> "confirmed"
         [] OTHER -> leaseNone

leaseTransition(r) == IF r.family = 4 THEN leaseTransitionV4(r) ELSE leaseTransitionV6(r)

(* An entry: its place in the list and what is known of the lease. *)
leaseEntry ==
  [prev |-> Nowhere, next |-> Nowhere, state |-> leaseNone, addrs |-> NoAddrs, seen |-> Zero,
   expiry |-> Zero]

newLeaseTable(maxEntries) ==
  [max |-> IF maxEntries < 1 THEN 1 ELSE maxEntries, idx |-> <<>>, head |-> Nowhere, tail |-> Nowhere,
   states |-> [s \in leaseStates |-> 0]]

expiryFor(r, state) ==
  IF state \in {"offered", "confirmed"} /\ r.leaseTime > 0 THEN r.time + r.leaseTime ELSE Zero

pushFront(t, k) ==
  [t EXCEPT !.idx = [x \in DOMAIN @ |->
                       IF x = k THEN [@[x] EXCEPT !.prev = Nowhere, !.next = t.head]
                       ELSE IF x = t.head THEN [@[x] EXCEPT !.prev = k] ELSE @[x]],
            !.head = k,
            !.tail = IF @ = Nowhere THEN k ELSE @]

unlink(t, k) ==
  LET e == t.idx[k] IN
  [t EXCEPT !.idx = [x \in DOMAIN @ |->
                       IF x = k THEN [@[x] EXCEPT !.prev = Nowhere, !.next = Nowhere]
                       ELSE IF x = e.prev THEN [@[x] EXCEPT !.next = e.next]
                       ELSE IF x = e.next THEN [@[x] EXCEPT !.prev = e.prev] ELSE @[x]],
            !.head = IF @ = k THEN e.next ELSE @,
            !.tail = IF @ = k THEN e.prev ELSE @]

evict(t) ==
  IF Cardinality(DOMAIN t.idx) < t.max \/ t.tail = Nowhere THEN t
  ELSE LET k == t.tail  u == unlink(t, k) IN
       [u EXCEPT !.states[t.idx[k].state] = @ - 1,
                 !.idx = [x \in DOMAIN @ \ {k} |-> @[x]]]

(* The client's entry, out of the list or new, to be put back in front. *)
entryFor(t, k) ==
  IF k \in DOMAIN t.idx
  THEN [unlink(t, k) EXCEPT !.states[t.idx[k].state] = @ - 1]
  ELSE LET u == evict(t) IN
       [u EXCEPT !.idx = [x \in DOMAIN @ \cup {k} |-> IF x = k THEN leaseEntry ELSE @[x]]]

(* An ACK without a lease time keeps the deadline of the OFFER; a lease that *)
(* ended has none.                                                           *)
update(t, r, state) ==
  LET k == <<r.family, r.client>>
      u == pushFront(entryFor(t, k), k)
      exp == expiryFor(r, state)
  IN  [u EXCEPT
         !.states[state] = @ + 1,
         !.idx[k] = [@ EXCEPT
           !.state = state, !.seen = r.time,
           !.addrs = IF r.addrs # NoAddrs THEN r.addrs ELSE @,
           !.expiry = IF exp # Zero THEN exp
                      ELSE IF state \notin {"offered", "confirmed"} THEN Zero ELSE @]]

(* The first n keys along the list from k on. *)
Walk(t, k, n) ==
  LET from[i \in 0 .. n] ==
        IF i = 0 THEN <<>>
        ELSE LET before == from[i - 1]
                 here == IF i = 1 THEN k
                         ELSE IF Len(before) < i - 1 THEN Nowhere
                         ELSE t.idx[before[i - 1]].next
             IN  IF here = Nowhere THEN before ELSE Append(before, here)
  IN  from[n]

rows(t) ==
  LET keys == Walk(t, t.head, leaseSnapshotRows) IN
  [i \in DOMAIN keys |-> [client |-> keys[i], state |-> t.idx[keys[i]].state,
                          addrs |-> t.idx[keys[i]].addrs, expiry |-> t.idx[keys[i]].expiry]]

-----------------------------------------------------------------------------
(* The table against the reports it was told, oldest first: each client's    *)
(* last state, and the clients that were seen last, newest first.            *)
LastOf(reports, k) ==
  reports[CHOOSE i \in DOMAIN reports :
            /\ <<reports[i].family, reports[i].client>> = k
            /\ \A j \in DOMAIN reports : j > i => <<reports[j].family, reports[j].client>> # k]

Recency(reports) ==
  LET Key(i) == <<reports[i].family, reports[i].client>>
      lasts == {i \in DOMAIN reports : \A j \in DOMAIN reports : j > i => Key(j) # Key(i)}
  IN  [n \in 1 .. Cardinality(lasts) |->
         Key(CHOOSE i \in lasts : Cardinality({j \in lasts : j >= i}) = n)]

(* The list runs through the clients seen last, newest first, each once and  *)
(* no others, and back again; each is in the state its last exchange left it *)
(* in, and the counts in the pane's title are those of the rows.             *)
TableSound(t, reports) ==
  LET recent == Recency(reports)
      size == IF Len(recent) < t.max THEN Len(recent) ELSE t.max
      keys == Walk(t, t.head, size + 1)
  IN  /\ keys = SubSeq(recent, 1, size)
      /\ DOMAIN t.idx = {keys[i] : i \in DOMAIN keys}
      /\ t.tail = IF size = 0 THEN Nowhere ELSE keys[size]
      /\ \A i \in DOMAIN keys :
           /\ t.idx[keys[i]].prev = IF i = 1 THEN Nowhere ELSE keys[i - 1]
           /\ t.idx[keys[i]].state = leaseTransition(LastOf(reports, keys[i]))
      /\ \A s \in leaseStates :
           t.states[s] = Cardinality({k \in DOMAIN t.idx : t.idx[k].state = s})
=============================================================================
