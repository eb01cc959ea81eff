------------------------------- MODULE Metrics -------------------------------
(***************************************************************************)
(* metrics' collector: requests are counted by series while a scrape reads *)
(* the series one by one.                                                  *)
(***************************************************************************)
EXTENDS Integers, Sequences

LOCAL INSTANCE Functions

CONSTANTS
  Requests,     \* what may arrive: its family, whether it decapsulates and its type
  Handlers,     \* the goroutines that serve requests
  MaxRequests,  \* bound on the requests
  MaxScrapes    \* bound on the scrapes

VARIABLES
  requests,  \* the series: key -> which counter
  counters,  \* the counters that were ever allocated
  tasks,     \* what each handler is doing
  scrape,    \* the scrape going on: the series still to be read, and the lines
  scrapes,   \* the scrapes that are over
  begun,     \* key -> how many handlers have begun to count it
  done       \* key -> how many have counted it

vars == <<requests, counters, tasks, scrape, scrapes, begun, done>>

NoScrape == [on |-> FALSE]

(* msgType6: the label is that of the inner message, or unknown. *)
msgType6(req) == IF req.inner THEN req.type ELSE "unknown"

Label(req) == <<req.family, IF req.family = 6 THEN msgType6(req) ELSE req.type>>

Keys == {Label(r) : r \in Requests}

Sum(f) == SumFunction(f)

-----------------------------------------------------------------------------
(* count up to the end of the read lock. A scrape reads under a read lock    *)
(* as well.                                                                  *)
count(h, k) ==
  /\ tasks[h] = <<>> /\ Sum(begun) < MaxRequests
  /\ begun' = [begun EXCEPT ![k] = @ + 1]
  /\ tasks' = [tasks EXCEPT ![h] =
       <<[key |-> k, ctr |-> IF k \in DOMAIN requests THEN requests[k] ELSE 0]>>]
  /\ UNCHANGED <<requests, counters, scrape, scrapes, done>>

Handler(h, req) == count(h, Label(req))

New(h) ==
  /\ counters' = Append(counters, 0)
  /\ requests' = [k \in DOMAIN requests \cup {tasks[h][1].key} |->
                    IF k = tasks[h][1].key THEN Len(counters) + 1 ELSE requests[k]]
  /\ tasks' = [tasks EXCEPT ![h][1].ctr = Len(counters) + 1]

series_NoRecheck(h) ==
  /\ tasks[h] # <<>> /\ tasks[h][1].ctr = 0 /\ ~scrape.on
  /\ New(h)
  /\ UNCHANGED <<scrape, scrapes, begun, done>>

(* The write lock excludes a scrape. *)
series(h) ==
  /\ tasks[h] # <<>> /\ tasks[h][1].ctr = 0 /\ ~scrape.on
  /\ IF tasks[h][1].key \in DOMAIN requests
     THEN /\ tasks' = [tasks EXCEPT ![h][1].ctr = requests[tasks[h][1].key]]
          /\ UNCHANGED <<counters, requests>>
     ELSE New(h)
  /\ UNCHANGED <<scrape, scrapes, begun, done>>

(* The atomic add, under no lock. *)
Add(h) ==
  /\ tasks[h] # <<>> /\ tasks[h][1].ctr # 0
  /\ counters' = [counters EXCEPT ![tasks[h][1].ctr] = @ + 1]
  /\ done' = [done EXCEPT ![tasks[h][1].key] = @ + 1]
  /\ tasks' = [tasks EXCEPT ![h] = <<>>]
  /\ UNCHANGED <<requests, scrape, scrapes, begun>>

(* requestLines, of expose: the map is read in any order. *)
requestLines ==
  /\ ~scrape.on /\ Len(scrapes) < MaxScrapes
  /\ scrape' = [on |-> TRUE, todo |-> DOMAIN requests, lines |-> {}, atLeast |-> done]
  /\ UNCHANGED <<requests, counters, tasks, scrapes, begun, done>>

Load(k) ==
  /\ scrape.on /\ k \in scrape.todo
  /\ scrape' = [scrape EXCEPT !.todo = @ \ {k},
                              !.lines = @ \cup {[key |-> k, value |-> counters[requests[k]]]}]
  /\ UNCHANGED <<requests, counters, tasks, scrapes, begun, done>>

serveMetrics ==
  /\ scrape.on /\ scrape.todo = {}
  /\ scrapes' = Append(scrapes, [lines |-> scrape.lines, atLeast |-> scrape.atLeast, atMost |-> begun])
  /\ scrape' = NoScrape
  /\ UNCHANGED <<requests, counters, tasks, begun, done>>

Init ==
  /\ requests = <<>> /\ counters = <<>>
  /\ tasks = [h \in Handlers |-> <<>>]
  /\ scrape = NoScrape /\ scrapes = <<>>
  /\ begun = [k \in Keys |-> 0] /\ done = [k \in Keys |-> 0]

Next ==
  \/ \E h \in Handlers : series(h) \/ Add(h) \/ \E r \in Requests : Handler(h, r)
  \/ requestLines \/ serveMetrics \/ \E k \in Keys : Load(k)

Spec == Init /\ [][Next]_vars

-----------------------------------------------------------------------------
Told(s, k) == IF \E l \in s.lines : l.key = k THEN (CHOOSE l \in s.lines : l.key = k).value ELSE 0

(* No request goes uncounted or is counted twice, also when two are the      *)
(* first of their kind at once: a scrape says of every series at least what  *)
(* was counted before it began and at most what was asked for before it      *)
(* ended, has one line for it, and never less than the scrape before it.     *)
ScrapesTrue ==
  \A i \in DOMAIN scrapes :
    /\ \A l, m \in scrapes[i].lines : l.key = m.key => l = m
    /\ \A k \in Keys :
         /\ Told(scrapes[i], k) \in scrapes[i].atLeast[k] .. scrapes[i].atMost[k]
         /\ i > 1 => Told(scrapes[i - 1], k) <= Told(scrapes[i], k)
==============================================================================
