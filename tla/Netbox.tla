------------------------------- MODULE Netbox -------------------------------
(***************************************************************************)
(* The netbox plugin (plugins/netbox): handlers that look a MAC address up *)
(* in NetBox with two calls, through a bounded cache with expiry. Nothing  *)
(* stops two handlers from looking up the same address at once. One family *)
(* and so one instance.                                                    *)
(***************************************************************************)
EXTENDS Integers, Sequences, FiniteSets, SequencesExt

CONSTANTS
  Macs, Interfaces,
  Lookups,       \* the handlers that may run at once
  MaxEntries,    \* maxCacheEntries
  TTL,           \* ttl:
  NegativeTTL,   \* negative-ttl:
  MaxNow,        \* bound on the clock
  MaxEdits       \* bound on the changes an operator makes in NetBox

NoInterface == "no interface"

VARIABLES
  assigned,   \* external: NetBox's interface of each MAC address
  documented, \* external: the interfaces with an active address
  cache,      \* the entries, most recently used first
  lookups,    \* the handlers
  time,
  edits,
  uses        \* history: the MAC addresses by their last use, newest first,
              \* without those found expired

vars == <<assigned, documented, cache, lookups, time, edits, uses>>

-----------------------------------------------------------------------------
(* The cache. *)

Without(key) == SelectSeq(cache, LAMBDA e : e.key # key)
Held(key) == {e \in ToSet(cache) : e.key = key}

(* get: a valid entry, as a set of at most one. *)
get(key) == {e \in Held(key) : time < e.expires}

(* get: what it leaves behind; a hit moves to the front, an expired entry    *)
(* goes.                                                                     *)
afterGet(key) ==
  IF get(key) # {} THEN <<CHOOSE e \in Held(key) : TRUE>> \o Without(key) ELSE Without(key)

(* put: in place when the key is known, and over the back when full. *)
put(key, result, expires) ==
  LET entry == [key |-> key, result |-> result, expires |-> expires] IN
  IF Held(key) = {} /\ Len(cache) >= MaxEntries
  THEN <<entry>> \o Front(cache)
  ELSE <<entry>> \o Without(key)

-----------------------------------------------------------------------------
(* A result carries, as history, the time of the first call behind it, and a *)
(* handler that is done the age of the cached result it used.                *)
Result(found, addr, asOf) == [found |-> found, addr |-> addr, asOf |-> asOf]

(* Handler4 and Handler6 once there is a result. *)
Answer(result, age) ==
  [pc |-> "done", out |-> IF result.found /\ result.addr THEN "given" ELSE "passed",
   found |-> result.found, age |-> age]

Dropped == [pc |-> "done", out |-> "dropped", found |-> FALSE, age |-> 0]

Used(m) == uses' = <<m>> \o SelectSeq(uses, LAMBDA k : k # m)

(* Handler4 and Handler6 up to the lookup; messages skipsLookup names pass.  *)
Receive(h) ==
  /\ lookups[h].pc \in {"idle", "done"}
  /\ \E m \in Macs :
       /\ cache' = afterGet(m)
       /\ IF get(m) # {}
          THEN /\ lookups' = [lookups EXCEPT ![h] =
                    LET r == (CHOOSE e \in get(m) : TRUE).result IN Answer(r, time - r.asOf)]
               /\ Used(m)
          ELSE /\ lookups' = [lookups EXCEPT ![h] = [pc |-> "find", mac |-> m, now |-> time]]
               /\ uses' = IF Held(m) # {} THEN SelectSeq(uses, LAMBDA k : k # m) ELSE uses
  /\ UNCHANGED <<assigned, documented, time, edits>>

Expiry_Late(h, result) == time + IF result.found THEN TTL ELSE NegativeTTL

(* lookup: counted from when the handler began. *)
Expiry(h, result) == lookups[h].now + IF result.found THEN TTL ELSE NegativeTTL

(* The end of lookup, and of the handler. *)
Keep(h, result) ==
  /\ cache' = put(lookups[h].mac, result, Expiry(h, result))
  /\ lookups' = [lookups EXCEPT ![h] = Answer(result, 0)]
  /\ Used(lookups[h].mac)

(* findInterface: the first call. *)
Find(h) ==
  /\ lookups[h].pc = "find"
  /\ LET i == assigned[lookups[h].mac] IN
     IF i = NoInterface
     THEN Keep(h, Result(FALSE, FALSE, time))
     ELSE /\ lookups' = [lookups EXCEPT ![h] =
               [pc |-> "addresses", mac |-> @.mac, now |-> @.now, interface |-> i, asOf |-> time]]
          /\ UNCHANGED <<cache, uses>>
  /\ UNCHANGED <<assigned, documented, time, edits>>

(* addressesFor: the second call, about that interface. *)
Addresses(h) ==
  /\ lookups[h].pc = "addresses"
  /\ Keep(h, Result(TRUE, lookups[h].interface \in documented, lookups[h].asOf))
  /\ UNCHANGED <<assigned, documented, time, edits>>

(* Either call failing: nothing is cached, and the request is dropped. *)
Fail(h) ==
  /\ lookups[h].pc \in {"find", "addresses"}
  /\ lookups' = [lookups EXCEPT ![h] = Dropped]
  /\ UNCHANGED <<assigned, documented, cache, time, edits, uses>>

(* The environment. *)
Edit ==
  /\ edits < MaxEdits
  /\ edits' = edits + 1
  /\ \/ /\ \E m \in Macs, i \in Interfaces \cup {NoInterface} :
             assigned' = [assigned EXCEPT ![m] = i]
        /\ UNCHANGED documented
     \/ /\ \E i \in Interfaces : documented' = IF i \in documented THEN documented \ {i}
                                               ELSE documented \cup {i}
        /\ UNCHANGED assigned
  /\ UNCHANGED <<cache, lookups, time, uses>>

Tick ==
  /\ time < MaxNow
  /\ time' = time + 1
  /\ UNCHANGED <<assigned, documented, cache, lookups, edits, uses>>

Init ==
  /\ assigned \in [Macs -> Interfaces \cup {NoInterface}]
  /\ documented = {}
  /\ cache = <<>>
  /\ lookups = [h \in Lookups |-> [pc |-> "idle"]]
  /\ time = 0 /\ edits = 0 /\ uses = <<>>

Next == Edit \/ Tick \/ \E h \in Lookups : Receive(h) \/ Find(h) \/ Addresses(h) \/ Fail(h)

-----------------------------------------------------------------------------
(* What the plugin acts on is at most a TTL old, the negative one if NetBox  *)
(* did not know the client, even when a slow lookup has overwritten the      *)
(* answer of a faster one that began later.                                  *)
AnswersFresh ==
  \A h \in Lookups : lookups[h].pc = "done" =>
    lookups[h].age < IF lookups[h].found THEN TTL ELSE NegativeTTL

(* A request only passes to the next allocator on NetBox's word, kept or     *)
(* new, that the client has no address, never because a call failed.         *)
PassedOnItsWordStep ==
  \A h \in Lookups :
    lookups'[h] # lookups[h] /\ lookups'[h].pc = "done" /\ lookups'[h].out = "passed" =>
      CASE lookups[h].pc = "find" -> assigned[lookups[h].mac] = NoInterface
        [] lookups[h].pc = "addresses" -> lookups[h].interface \notin documented
        [] OTHER -> cache' # <<>> /\ ~cache'[1].result.addr

(* The cache holds the clients used last, once each and in that order, up to *)
(* its limit, whatever expired or was overwritten in between.                *)
CacheIsRecent ==
  /\ Len(cache) <= MaxEntries
  /\ [i \in DOMAIN cache |-> cache[i].key] = SubSeq(uses, 1, Len(cache))
=============================================================================
