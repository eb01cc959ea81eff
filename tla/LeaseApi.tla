------------------------------ MODULE LeaseApi ------------------------------
(***************************************************************************)
(* leaseapi's two listings and the registry of lease sources behind them.  *)
(* Plugins register as they are set up, their leases change with every     *)
(* packet, and a request reads the sources one after the other, each under *)
(* the source's own lock.                                                  *)
(***************************************************************************)
EXTENDS Integers, Sequences, FiniteSets, TLC

LOCAL INSTANCE SequencesExt

CONSTANTS
  Plugins,     \* the sources in the order they register: plugin, name, size, and what may be in it
  Queries,     \* what may be asked
  Quarantine,  \* the addresses a client may decline
  MaxChanges,  \* bound on the changes of the sources
  MaxQueries   \* bound on the requests to the API

VARIABLES
  registered,  \* how many sources have registered
  state,       \* of each source: its records, and what it quarantines
  changes,     \* how often one changed
  request,     \* the request being served
  answers      \* the answers given

vars == <<registered, state, changes, request, answers>>

Indexes == DOMAIN Plugins
None == [on |-> "nothing"]

-----------------------------------------------------------------------------
(* Each plugin's Leases and Pools, read under its lock.                      *)

Lease(i, r, static) ==
  [family |-> Plugins[i].family, source |-> Plugins[i].name, address |-> r.address,
   bits |-> r.bits, client |-> r.client, expires |-> IF static THEN 0 ELSE r.expires]

Leases(i, st) == {Lease(i, r, Plugins[i].plugin = "file") : r \in st.recs}

(* file manages no addresses, and prefix quarantines none. *)
Pools(i, st) ==
  IF Plugins[i].plugin = "file" THEN {}
  ELSE {[family |-> Plugins[i].family, source |-> Plugins[i].name, range |-> Plugins[i].range,
         size |-> Plugins[i].size, used |-> Cardinality(st.recs),
         quarantined |-> IF Plugins[i].plugin = "prefix" THEN 0 ELSE Cardinality(st.declined)]}

Holding(recs, declined) == [recs |-> recs, declined |-> declined]

Items(i, st, path) == IF path = "leases" THEN Leases(i, st) ELSE Pools(i, st)

-----------------------------------------------------------------------------
(* leases.Register, by the setup of the next plugin. *)
Register ==
  /\ registered < Len(Plugins)
  /\ registered' = registered + 1
  /\ UNCHANGED <<state, changes, request, answers>>

Sources == 1 .. registered

(* The items a source holds all through a request, and those it has held. *)
Watched(i, st) ==
  IF request.on = "nothing" THEN request
  ELSE [request EXCEPT !.always[i] = @ \cap Items(i, st, request.query.path),
                       !.ever[i] = @ \cup Items(i, st, request.query.path)]

(* One packet, sweep or reload: a client's record is written, renewed or     *)
(* dropped, an address declined, the mapping file read again.                *)
Change(i, recs, declined) ==
  /\ changes < MaxChanges /\ i \in Sources /\ recs \in Plugins[i].contents
  /\ declined \subseteq Quarantine /\ \A r \in recs : r.address \notin declined
  /\ Plugins[i].plugin = "range" \/ declined = {}
  /\ state[i] # Holding(recs, declined)
  /\ state' = [state EXCEPT ![i] = Holding(recs, declined)]
  /\ changes' = changes + 1
  /\ request' = Watched(i, Holding(recs, declined))
  /\ UNCHANGED <<registered, answers>>

-----------------------------------------------------------------------------
registeredName(name) == \E i \in Sources : Plugins[i].name = name

(* An unknown parameter, family or source is a mistake, not "everything". *)
parseFilter(q) ==
  /\ q.params \subseteq {"family", "source"}
  /\ "family" \in q.params => q.family \in {4, 6}
  /\ "source" \in q.params => registeredName(q.source)

matchesSource(q, name) == "source" \in q.params => q.source = name
matchesFamily(q, family) == "family" \in q.params => q.family = family

(* serveLeases and servePools up to parseFilter. *)
Ask(q) ==
  /\ request.on = "nothing" /\ Len(answers) < MaxQueries
  /\ IF parseFilter(q)
     THEN /\ request' = [on |-> "filtered", query |-> q, todo |-> <<>>, out |-> <<>>,
                         from |-> <<changes, registered>>, known |-> registered,
                         always |-> [i \in Indexes |-> Items(i, state[i], q.path)],
                         ever |-> [i \in Indexes |-> Items(i, state[i], q.path)]]
          /\ UNCHANGED answers
     ELSE answers' = Append(answers, [status |-> 400, query |-> q]) /\ UNCHANGED request
  /\ UNCHANGED <<registered, state, changes>>

(* collectLeases and collectPools work on a copy of the registry. *)
Copy ==
  /\ request.on = "filtered"
  /\ request' = [request EXCEPT !.on = "collecting", !.todo = [i \in Sources |-> i]]
  /\ UNCHANGED <<registered, state, changes, answers>>

(* The next source is asked, or passed over. Its map is read in any order.   *)
Collect ==
  /\ request.on = "collecting" /\ request.todo # <<>>
  /\ LET q == request.query
         i == Head(request.todo)
         found == IF matchesSource(q, Plugins[i].name)
                  THEN {x \in Items(i, state[i], q.path) : matchesFamily(q, x.family)} ELSE {}
     IN  \E s \in SetToSeqs(found) :
           request' = [request EXCEPT !.todo = Tail(@), !.out = @ \o s]
  /\ UNCHANGED <<registered, state, changes, answers>>

Before(s, t) ==
  \E k \in DOMAIN s : s[k] < t[k] /\ \A j \in 1 .. k - 1 : s[j] = t[j]

compareLeases(a, b) ==
  Before(<<a.source, a.address, a.bits, a.client>>, <<b.source, b.address, b.bits, b.client>>)

comparePools(a, b) == Before(<<a.source, a.range>>, <<b.source, b.range>>)

Sorted(path, s) ==
  IF path = "leases" THEN SortSeq(s, compareLeases) ELSE SortSeq(s, comparePools)

Respond ==
  /\ request.on = "collecting" /\ request.todo = <<>>
  /\ answers' = Append(answers,
       [status |-> 200, query |-> request.query, body |-> Sorted(request.query.path, request.out),
        from |-> request.from, to |-> <<changes, registered>>])
  /\ request' = None
  /\ UNCHANGED <<registered, state, changes>>

Init ==
  /\ registered = 0
  /\ state = [i \in Indexes |-> Holding(Plugins[i].initial, {})]
  /\ changes = 0 /\ request = None /\ answers = <<>>

Next ==
  \/ Register \/ Copy \/ Collect \/ Respond
  \/ \E q \in Queries : Ask(q)
  \/ \E i \in Indexes : \E recs \in Plugins[i].contents, d \in SUBSET Quarantine : Change(i, recs, d)

Spec == Init /\ [][Next]_vars

-----------------------------------------------------------------------------
Wanted(i) == matchesSource(request.query, Plugins[i].name)
Times(body, x) == Cardinality({k \in DOMAIN body : body[k] = x})
Holders(x) == {i \in Sources : Wanted(i) /\ x \in request.ever[i]}

(* A listing is true of the time it took: what it lists was held by a source *)
(* asked for, as often as it is listed, and what a source registered before  *)
(* the request held throughout is listed (collectLeases and collectPools).   *)
ListedTrueStep ==
  request.on = "collecting" /\ request'.on = "nothing" =>
    LET body == answers'[Len(answers')].body IN
    /\ \A k \in DOMAIN body : /\ Times(body, body[k]) <= Cardinality(Holders(body[k]))
                              /\ matchesFamily(request.query, body[k].family)
    /\ \A i \in 1 .. request.known : Wanted(i) =>
         \A x \in request.always[i] : matchesFamily(request.query, x.family) => Times(body, x) >= 1

Given == {i \in DOMAIN answers : answers[i].status = 200}

(* "two requests answered from unchanged state return byte-identical bodies" *)
(* (compareLeases). Sources of one name are not told apart by it, so the     *)
(* names differ here.                                                        *)
SameBodies ==
  \A m, n \in Given :
    m < n /\ answers[m].query = answers[n].query /\ answers[m].from = answers[n].to =>
      answers[m].body = answers[n].body

=============================================================================
