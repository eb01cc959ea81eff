------------------------------- MODULE Prefix -------------------------------
(***************************************************************************)
(* The prefix delegation plugin (plugins/prefix/plugin.go). A client, one  *)
(* DUID, holds a list of leases; the pool is a bitmap of pages. A message  *)
(* carries several IA_PDs, each a list of hints, and the plugin takes its  *)
(* lock once per IA_PD, so other messages and the sweeper come in between. *)
(***************************************************************************)
EXTENDS Bitset, Sequences, SequencesExt

CONSTANTS
  Clients, Handlers,
  NPages,       \* pages in the pool
  MaxPrefixes,  \* max-prefixes
  MaxIAPDs,     \* maxIAPDsPerMessage
  MaxHints,     \* maxHintsPerIAPD
  LeaseDuration,
  MaxTime,      \* bound on the clock
  Messages(_),  \* the messages tried, by handler: sequences of IA_PDs, sequences of hints
  Releases      \* the RELEASEs tried: sequences of IA_PDs, sets of prefixes

ASSUME PrefixAssumption ==
  /\ {NPages, MaxPrefixes, MaxIAPDs, MaxHints, LeaseDuration} \subseteq Nat \ {0}
  /\ MaxTime \in Nat

(* Prefix lengths: unsaid, shorter than a page, a page, longer. *)
Unsaid == 0
PageLen == 2
Lengths == 0 .. 3

(* Where a hint points: a page of the pool, nowhere, ::, or another network. *)
Pages == 0 .. NPages - 1
NoAddr == -1
ZeroAddr == -2
Elsewhere == -3

VARIABLES
  records,   \* Records: the leases of each client, the empty list for no entry
  taken,     \* the allocator's bitmap
  tasks,     \* what each handler has left of its message
  now,
  told       \* until when each client was told it has each page

vars == <<records, taken, tasks, now, told>>

Idle == [client |-> "none", iapds |-> <<>>]
Lease == [page : Pages, len : {PageLen, 3}, expire : Nat]

Held(c) == Range(records[c])
LeasesOf(seq) == {l.page : l \in Range(seq)}

Expired_Early(l) == l.expire <= now + 1
Expired(l) == l.expire <= now

samePrefix(a, b) == a.page = b.page /\ a.len = b.len

-----------------------------------------------------------------------------
(* One IA_PD, under the lock. An exchange is the record pdExchange, with the *)
(* bitmap and the prefixes added to the answer.                              *)

(* dropExpired: the live leases, and the lapsed ones, which are freed. *)
dropExpired_NoFree(c) ==
  [live |-> SelectSeq(records[c], LAMBDA l : ~Expired(l)),
   recovered |-> SelectSeq(records[c], Expired),
   taken |-> taken]

dropExpired(c) ==
  LET lapsed == SelectSeq(records[c], Expired) IN
  [live |-> SelectSeq(records[c], LAMBDA l : ~Expired(l)),
   recovered |-> lapsed,
   taken |-> taken \ LeasesOf(lapsed)]

(* requestedPrefixes: an IA_PD without hints has one empty hint. *)
requestedPrefixes(iapd) ==
  IF iapd = <<>> THEN <<[page |-> NoAddr, len |-> Unsaid]>>
  ELSE SubSeq(iapd, 1, IF Len(iapd) < MaxHints THEN Len(iapd) ELSE MaxHints)

(* grant, for every pair of a hint and a lease. *)
grant(e, pairs) ==
  LET leases == {p[2] : p \in pairs}
      later(l) == IF l.expire < now + LeaseDuration
                  THEN [l EXCEPT !.expire = now + LeaseDuration] ELSE l
      known == [i \in DOMAIN e.known |-> IF i \in leases THEN later(e.known[i]) ELSE e.known[i]]
  IN  [e EXCEPT !.known = known,
                !.satisfied = @ \cup {p[1] : p \in pairs},
                !.givenOut = @ \cup leases,
                !.answer = @ \cup {known[i] : i \in leases}]

renewExactMatches(e) ==
  grant(e, {p \in (DOMAIN e.hints) \X (DOMAIN e.known) :
              samePrefix(e.hints[p[1]], e.known[p[2]])})

lengthMatches(hint, l) == hint.len = Unsaid \/ hint.len = l.len

(* giveOutRemaining: a lease goes to the first hint at :: that takes it. *)
giveOutRemaining(e) ==
  LET takes(h, i) == /\ h \notin e.satisfied /\ e.hints[h].page = ZeroAddr
                     /\ i \notin e.givenOut /\ lengthMatches(e.hints[h], e.known[i])
  IN  grant(e, {p \in (DOMAIN e.hints) \X (DOMAIN e.known) :
                  takes(p[1], p[2]) /\ \A h \in 1 .. p[1] - 1 : ~takes(h, p[2])})

unspecified(hint) == hint.len = Unsaid /\ hint.page \in {NoAddr, ZeroAddr}

allocationHint_Forgets(e, hint) == hint

allocationHint(e, hint) ==
  IF e.recovered = <<>> \/ ~unspecified(hint) THEN hint
  ELSE [page |-> Head(e.recovered).page, len |-> Head(e.recovered).len]

(* Allocate of the prefix allocator: the page hinted at when it is free, or  *)
(* the first free one, at the hinted length unless that is shorter.          *)
PickPage(hint, bits) ==
  IF hint.page \in Pages /\ ~Test(bits, hint.page) THEN hint.page
  ELSE IF HasClear(bits, NPages) THEN NextClear(bits, NPages) ELSE NoOffset

newLease(hint, page) ==
  [page |-> page, len |-> IF hint.len < PageLen THEN PageLen ELSE hint.len,
   expire |-> now + LeaseDuration]

AtLimit(e) == Len(e.known) >= MaxPrefixes

(* allocateForUnsatisfied, for one hint. *)
allocateFor(e, h) ==
  LET hint == allocationHint(e, e.hints[h])
      page == PickPage(hint, e.taken)
      used == [e EXCEPT !.recovered = IF hint = e.hints[h] \/ @ = <<>> THEN @ ELSE Tail(@)]
      l == newLease(hint, page)
  IN  IF h \in e.satisfied \/ AtLimit(e) THEN e
      ELSE IF page = NoOffset THEN used
      ELSE [used EXCEPT !.known = Append(@, l), !.taken = @ \cup {page}, !.answer = @ \cup {l}]

reconcile(c, iapd) ==
  LET d == dropExpired(c)
      e == [hints |-> requestedPrefixes(iapd), known |-> d.live, recovered |-> d.recovered,
            satisfied |-> {}, givenOut |-> {}, answer |-> {}, taken |-> d.taken]
  IN  FoldLeft(allocateFor, giveOutRemaining(renewExactMatches(e)),
               [i \in DOMAIN e.hints |-> i])

-----------------------------------------------------------------------------
(* Handle, for the messages that ask for prefixes: the IA_PDs to answer. *)
Receive(h, c, msg) ==
  /\ tasks[h] = Idle
  /\ tasks' = [tasks EXCEPT ![h] =
       [client |-> c, iapds |-> SubSeq(msg, 1, IF Len(msg) < MaxIAPDs THEN Len(msg) ELSE MaxIAPDs)]]
  /\ UNCHANGED <<records, taken, now, told>>

(* respondToIAPD. *)
Respond(h) ==
  LET c == tasks[h].client IN
  /\ tasks[h] # Idle
  /\ LET e == reconcile(c, Head(tasks[h].iapds))
         rest == Tail(tasks[h].iapds)
     IN  /\ records' = [records EXCEPT ![c] = e.known]
         /\ taken' = e.taken
         /\ told' = [told EXCEPT ![c] = [p \in Pages |->
              IF \E l \in e.answer : l.page = p
              THEN (CHOOSE l \in e.answer : l.page = p).expire ELSE @[p]]]
         /\ tasks' = [tasks EXCEPT ![h] =
              IF rest = <<>> THEN Idle ELSE [client |-> c, iapds |-> rest]]
  /\ UNCHANGED now

(* releasePrefixes, for every IA_PD of a RELEASE; the lock is held for all.  *)
handleRelease(c, listed) ==
  LET answered == SubSeq(listed, 1, IF Len(listed) < MaxIAPDs THEN Len(listed) ELSE MaxIAPDs)
      Named(l) == \E i \in DOMAIN answered : \E p \in answered[i] : samePrefix(p, l)
      gone == SelectSeq(records[c], Named)
  IN  /\ records' = [records EXCEPT ![c] = SelectSeq(@, LAMBDA l : ~Named(l))]
      /\ taken' = taken \ LeasesOf(gone)
      /\ told' = [told EXCEPT ![c] = [p \in Pages |-> IF p \in LeasesOf(gone) THEN 0 ELSE @[p]]]
      /\ UNCHANGED <<tasks, now>>

(* sweepOnce; a sweep that finds nothing lapsed changes nothing. *)
sweepOnce ==
  /\ \E c \in Clients : \E l \in Held(c) : Expired(l)
  /\ records' = [c \in Clients |-> dropExpired(c).live]
  /\ taken' = taken \ UNION {LeasesOf(dropExpired(c).recovered) : c \in Clients}
  /\ UNCHANGED <<tasks, now, told>>

Tick ==
  /\ now < MaxTime
  /\ now' = now + 1
  /\ UNCHANGED <<records, taken, tasks, told>>

Init ==
  /\ records = [c \in Clients |-> <<>>] /\ taken = {}
  /\ tasks = [h \in Handlers |-> Idle]
  /\ now = 0 /\ told = [c \in Clients |-> [p \in Pages |-> 0]]

Next ==
  \/ \E h \in Handlers : \/ \E c \in Clients, m \in Messages(h) : Receive(h, c, m)
                         \/ Respond(h)
  \/ \E c \in Clients, r \in Releases : handleRelease(c, r)
  \/ sweepOnce \/ Tick

Spec == Init /\ [][Next]_vars

-----------------------------------------------------------------------------

(* The pool and the leases agree: a page is taken exactly when one client    *)
(* has one lease for it. No page leaks, none is delegated twice, and a       *)
(* RELEASE frees nothing of another client. One client has at most           *)
(* max-prefixes, over several hints, IA_PDs and messages at once.            *)
PoolAccounted ==
  /\ \A c \in Clients : Len(records[c]) <= MaxPrefixes
  /\ taken = UNION {LeasesOf(records[c]) : c \in Clients}
  /\ \A c \in Clients : \A i, j \in DOMAIN records[c] :
       i # j => records[c][i].page # records[c][j].page
  /\ \A c, d \in Clients : c # d => LeasesOf(records[c]) \cap LeasesOf(records[d]) = {}

(* A delegation stays the client's for as long as the client was told, unless *)
(* the client releases it.                                                    *)
PromiseKept ==
  \A c \in Clients, p \in Pages :
    told[c][p] > now => \E l \in Held(c) : l.page = p /\ l.expire >= told[c][p]

(* A client back late that names nothing gets a prefix it had, if the        *)
(* sweeper has not been there first.                                         *)
ReturningStep ==
  \A h \in Handlers :
    LET c == tasks[h].client
        lapsed == {l.page : l \in {l \in Held(c) : Expired(l)}}
    IN  Respond(h) /\ Head(tasks[h].iapds) = <<>> /\ lapsed # {}
          => LeasesOf(records'[c]) \cap lapsed # {}
=============================================================================
