---------------------------- MODULE MCServices -----------------------------
(***************************************************************************)
(* The parts that keep state of their own beside a pool: ratelimit's       *)
(* buckets, ddns's worker and the names it writes, leasehook's queue,      *)
(* netbox's cache, redis's connections and the mapping file of file and    *)
(* relayinfo; those that are asked: metrics, leaseapi and the endpoint     *)
(* both listen on; and what the terminal dashboard makes of the requests   *)
(* reported to it (rates, clientele and panes). A behaviour sets up one of *)
(* them, kind, and the variables of the others stay empty.                 *)
(***************************************************************************)
EXTENDS Integers, Sequences, FiniteSets, TLC

CONSTANTS
  Clients,      \* three of them
  Handlers      \* two handlers that run at once

VARIABLES
  kind,
  buckets, heap, head, tail, global, counts, now, seen, passed, passedAll,  \* Ratelimit
  zone, ptrs, queue, worker, owners, requests, unheard,  \* Ddns
  sent, pending, events, inHand, drops, lastWarn, clock, wanted, delivered, warnings,  \* Leasehook
  assigned, documented, cache, lookups, time, edits, uses,  \* Netbox
  idle, closed, open, asked, stream, upset, handlers,  \* Redis
  inodes, rest, loader, recs, notices, lost, torn, noticed, revisions,  \* Reload
  procs, fs, ports, rivals, raced, unreached,  \* Endpoint
  served, counters, tasks, scrape, scrapes, begun, done,  \* Metrics
  registered, state, changes, request, answers,  \* LeaseApi
  named, suffix, leased, net,  \* Naming
  m, second, drawnAt, frame, screen, pressed, drawn, heard, cleared, latest  \* Dashboard

TwoClients == {"c1", "c2"}
Conns == {"n1", "n2", "n3"}

(* One name and a protected one, on a dual-stack server. *)
DdnsAddrs(f) == IF f = 4 THEN {"a1", "a2"} ELSE {"b1"}
DdnsRequests(f) ==
  LET Request(t, c, n, host, as) ==
        [type |-> t, client |-> c, fqdn |-> n, host |-> host, addrs |-> as, duid |-> TRUE]
  IN  IF f = 4
      THEN {Request(t, c, "absent", "n1", {a}) :
              t \in {"lease", "release"}, c \in TwoClients, a \in DdnsAddrs(4)}
           \cup {Request("lease", "c1", n, "n0", {"a1"}) : n \in {"absent", "declined"}}
      ELSE {Request(t, c, "n1", "n0", {"b1"}) : t \in {"lease", "release"}, c \in TwoClients}

HookExchanges ==
  {[req |-> "release", resp |-> "none", gives |-> FALSE],
   [req |-> "request", resp |-> "ack", gives |-> TRUE],
   [req |-> "request", resp |-> "ack", gives |-> FALSE]}

(* Two whole files, and one whose second line does not parse. *)
FileContents ==
  LET Line(k, a) == [key |-> k, addr |-> a, ok |-> TRUE]
      Bad == [key |-> "k1", addr |-> "a1", ok |-> FALSE]
  IN  {<<Line("k1", "a1"), Line("k2", "a2")>>, <<Line("k2", "a1")>>, <<Line("k1", "a2"), Bad>>}

Table == INSTANCE Ratelimit WITH Keys <- Clients, MaxKeys <- 2, Interval <- 2, Burst <-
  2, GlobalInterval <- 0, GlobalBurst <- 1, SummaryEvery <- 2, MaxTime <- 3, MaxRequests
  <- 6
Shared == INSTANCE Ratelimit WITH Keys <- TwoClients, MaxKeys <- 2, Interval <- 3, Burst
  <- 1, GlobalInterval <- 2, GlobalBurst <- 2, SummaryEvery <- 2, MaxTime <- 4,
  MaxRequests <- 8
Updates == INSTANCE Ddns WITH Instances <- {4, 6}, Requests <- DdnsRequests, Names <-
  {"n0", "n1"}, Protected <- {"n0"}, Written <- {"n0"}, AddrsOf <- DdnsAddrs, Reversed
  <- {"a1", "b1"}, RemoveOnRelease <- TRUE, QueueLen <- 1, MaxOwners <- 1, MaxRequests
  <- 2
Hook == INSTANCE Leasehook WITH Clients <- TwoClients, Exchanges <- HookExchanges,
  Events <- {"ack", "release"}, QueueCap <- 1, DropWarnInterval <- 2, MaxMessages <- 2,
  MaxClock <- 2
Lookup == INSTANCE Netbox WITH Macs <- Clients, Interfaces <- {"i1"}, Lookups <-
  Handlers, MaxEntries <- 2, TTL <- 2, NegativeTTL <- 1, MaxNow <- 2, MaxEdits <- 1
Hashes == INSTANCE Redis WITH Keys <- TwoClients, Handlers <- Handlers, Conns <- Conns,
  Replies <- {"address", "nothing", "unusable", "error", "upsetting", "garbage"}, maxIdleConns <- 1
File == INSTANCE Reload WITH Contents <- FileContents, MaxNotices <- 1, MaxEdits <- 3

(* NetBox knows all but one of the clients at first. *)
OneUnknown == Cardinality({c \in Clients : assigned[c] = "i1"}) = Cardinality(Clients) - 1

-----------------------------------------------------------------------------
(* Endpoints on a socket, on a plain file, and on TCP, of one plugin or two. *)
EndpointLines ==
  LET At(scheme, path) == [scheme |-> scheme, path |-> path, loopback |-> path # "lan"]
      Mode(bits) == [key |-> "mode", mode |-> bits]
      Line(plugin, args) == [plugin |-> plugin, args |-> args]
  IN  {<<Line("leaseapi", <<At("unix", "s")>>)>>,
       <<Line("leaseapi", <<At("unix", "s"), Mode(432)>>), Line("leaseapi", <<At("unix", "s")>>),
         Line("metrics", <<At("bare", "lo:9")>>)>>,
       <<Line("metrics", <<At("tcp", "lo:9")>>), Line("leaseapi", <<At("unix", "s")>>)>>,
       <<Line("leaseapi", <<At("unix", "s")>>), Line("leaseapi", <<At("tcp", "lo:9")>>)>>,
       <<Line("metrics", <<At("unix", "f")>>)>>,
       <<Line("leaseapi", <<At("bare", "lo:9")>>)>>,
       <<Line("metrics", <<At("tcp", "lan")>>)>>,
       <<Line("leaseapi", <<At("unix", "")>>)>>}

(* A message of each family, one of them a relay without an inner message. *)
Counted ==
  {[family |-> 4, inner |-> TRUE, type |-> "discover"],
   [family |-> 6, inner |-> FALSE, type |-> "relay"]}

(* A pool, a file in which two clients have one address, and delegations. *)
LeaseSources ==
  LET Rec(c, a, b, e) == [client |-> c, address |-> a, bits |-> b, expires |-> e]
      Src(plugin, f, n, contents, size) ==
        [plugin |-> plugin, family |-> f, name |-> n, range |-> n, size |-> size,
         contents |-> contents, initial |-> CHOOSE c \in contents : TRUE]
  IN  <<Src("range", 4, 2, {{Rec(1, 1, 4, 1)}, {Rec(1, 1, 4, 2), Rec(2, 2, 4, 1)}}, 2),
        Src("file", 4, 1, {{Rec(1, 3, 4, 0), Rec(2, 3, 4, 0)}, {Rec(1, 3, 4, 0)}}, 0),
        Src("prefix", 6, 3, {{Rec(1, 1, 2, 1), Rec(1, 2, 2, 1)}}, 4)>>

LeaseQueries ==
  LET Query(p, ps, f, n) == [path |-> p, params |-> ps, family |-> f, source |-> n]
  IN  {Query("leases", {}, 0, 0), Query("leases", {"source"}, 0, 1),
       Query("pools", {"family", "source"}, 4, 2), Query("pools", {"client"}, 0, 0)}

(* Spellings: capitals or not, with and without the dot, one label and more, *)
(* too long, empty and with a byte no name has.                              *)
NameLen(text) == CASE text = "" -> 0 [] text = "long" -> 3 [] OTHER -> 1
Label(text) == <<text, FALSE>>
Capital(text) == <<text, TRUE>>
Spelled(labels, dot) == [labels |-> labels, dot |-> dot]
Spellings ==
  {Spelled(<<>>, FALSE), Spelled(<<Label("a")>>, FALSE), Spelled(<<Capital("a")>>, TRUE),
   Spelled(<<Label("z")>>, FALSE), Spelled(<<Label("a"), Label("z")>>, TRUE),
   Spelled(<<Label("a"), Capital("z")>>, FALSE), Spelled(<<Label("b"), Label("a")>>, FALSE),
   Spelled(<<Label("b"), Label("a"), Label("z")>>, FALSE), Spelled(<<Label("-")>>, FALSE),
   Spelled(<<Label("long")>>, FALSE), Spelled(<<Label("a"), Label("")>>, TRUE),
   Spelled(<<Label("b"), Label("b"), Label("a"), Label("z")>>, FALSE),
   Spelled(<<Label("y"), Label("z")>>, FALSE)}
SpelledZones ==
  {Spelled(<<Label("z")>>, FALSE), Spelled(<<Label("a"), Capital("z")>>, TRUE),
   Spelled(<<Label("-")>>, FALSE)}

Sockets == INSTANCE Endpoint WITH Processes <- Handlers, Configs <- EndpointLines,
  Paths <- {"s", "f"}, Plain <- {"f"}, MaxStarts <- 2
Scraped == INSTANCE Metrics WITH Requests <- Counted, MaxRequests <- 3, MaxScrapes <- 2,
  requests <- served
Listing == INSTANCE LeaseApi WITH Plugins <- LeaseSources, Queries <- LeaseQueries,
  Quarantine <- {1}, MaxChanges <- 2, MaxQueries <- 2
Written == INSTANCE Naming WITH len <- NameLen, Unclean <- {"-"}, maxLabel <- 2,
  maxName <- 5, octetBits <- 2, RawNames <- Spellings, Zones <- SpelledZones,
  Addresses <- [v4 : BOOLEAN, octets : [1 .. 2 -> 0 .. 3]], Lengths <- 0 .. 4,
  asked <- named, zone <- suffix

-----------------------------------------------------------------------------
(* rates, clientele and panes *)

Report(f, type, reply, outcome, client, addrs, leaseTime, position) ==
  [family |-> f, type |-> type, reply |-> reply, outcome |-> outcome, client |-> client,
   addrs |-> addrs, leaseTime |-> leaseTime, position |-> position,
   path |-> IF outcome = "replied" THEN "unicast" ELSE "none", time |-> 0]
RateReports ==
  {Report(4, "DISCOVER", "OFFER", "replied", "a", "x", 2, 0),
   Report(4, "REQUEST", "", "send error", "a", "no address", 0, 1)}
LeaseReports ==
  {Report(4, "DISCOVER", "OFFER", "replied", "a", "x", 2, 0),
   Report(4, "REQUEST", "ACK", "replied", "a", "x", 0, 1),
   Report(4, "REQUEST", "NAK", "replied", "b", "no address", 0, 1),
   Report(6, "SOLICIT", "ADVERTISE", "replied", "b", "y", 2, 0),
   Report(6, "RELEASE", "REPLY", "replied", "a", "no address", 0, 1)}
PaneReports == {Report(4, "INFORM", "", "dropped", "a", "no address", 0, 1)}
PaneKeys ==
  {"p", "c", "?", "1", "2", "3", "4", "tab", "backtab", "up", "down", "pgup", "pgdn", "home", "end", "q"}
Panes(height) == [p \in 0 .. 3 |-> height]
NoLinks(f) == 0
OneLink(f) == 1

Rates == INSTANCE Dashboard WITH Families <- {4}, Links <- NoLinks, Requests <-
  RateReports, MaxDelay <- 1, Keys <- {"c"}, Heights <- {Panes(2)}, history <- 2,
  logLines <- 2, maxLeases <- 2, maxFamilies <- 8, errorWindow <- 2, MaxNow <- 3,
  MaxRequests <- 3, MaxLogs <- 0, MaxKeys <- 1, MaxFrames <- 1, maxTypeKeys <- 2,
  leaseSnapshotRows <- 3, rateBuckets <- 2, now <- second, last <- drawnAt
Clientele == INSTANCE Dashboard WITH Families <- {4, 6}, Links <- NoLinks, Requests <-
  LeaseReports, MaxDelay <- 0, Keys <- {"c"}, Heights <- {Panes(2)}, history <- 2,
  logLines <- 2, maxLeases <- 2, maxFamilies <- 8, errorWindow <- 2, MaxNow <- 0,
  MaxRequests <- 3, MaxLogs <- 0, MaxKeys <- 1, MaxFrames <- 0, maxTypeKeys <- 2,
  leaseSnapshotRows <- 3, rateBuckets <- 3, now <- second, last <- drawnAt
Panels == INSTANCE Dashboard WITH Families <- {4}, Links <- OneLink, Requests <-
  PaneReports, MaxDelay <- 0, Keys <- PaneKeys, Heights <- {Panes(1), Panes(2)}, history
  <- 2, logLines <- 2, maxLeases <- 2, maxFamilies <- 8, errorWindow <- 2, MaxNow <- 0,
  MaxRequests <- 1, MaxLogs <- 1, MaxKeys <- 2, MaxFrames <- 2, maxTypeKeys <- 2,
  leaseSnapshotRows <- 3, rateBuckets <- 3, now <- second, last <- drawnAt

-----------------------------------------------------------------------------
ratelimitVars == <<buckets, heap, head, tail, global, counts, now, seen, passed, passedAll>>
ddnsVars == <<zone, ptrs, queue, worker, owners, requests, unheard>>
leasehookVars == <<sent, pending, events, inHand, drops, lastWarn, clock, wanted, delivered, warnings>>
netboxVars == <<assigned, documented, cache, lookups, time, edits, uses>>
redisVars == <<idle, closed, open, asked, stream, upset, handlers>>
reloadVars == <<inodes, rest, loader, recs, notices, lost, edits, torn, noticed, revisions>>
pluginVars == <<ratelimitVars, ddnsVars, leasehookVars, netboxVars, redisVars, reloadVars>>

endpointVars == <<procs, fs, ports, rivals, raced, unreached>>
metricsVars == <<served, counters, tasks, scrape, scrapes, begun, done>>
leaseapiVars == <<registered, state, changes, request, answers>>
namingVars == <<named, suffix, leased, net>>
dashboardVars == <<m, second, drawnAt, frame, screen, pressed, drawn, heard, cleared, latest>>
watcherVars == <<endpointVars, metricsVars, leaseapiVars, namingVars, dashboardVars>>

vars == <<kind, pluginVars, watcherVars>>

NoRatelimit ==
  /\ buckets = <<>> /\ heap = <<>> /\ head = <<>> /\ tail = <<>>
  /\ global = <<>> /\ counts = <<>> /\ now = <<>> /\ seen = <<>>
  /\ passed = <<>> /\ passedAll = <<>>
NoDdns ==
  /\ zone = <<>> /\ ptrs = <<>> /\ queue = <<>> /\ worker = <<>>
  /\ owners = <<>> /\ requests = <<>> /\ unheard = <<>>
NoLeasehook ==
  /\ sent = <<>> /\ pending = <<>> /\ events = <<>> /\ inHand = <<>>
  /\ drops = <<>> /\ lastWarn = <<>> /\ clock = <<>> /\ wanted = <<>>
  /\ delivered = <<>> /\ warnings = <<>>
NoNetbox ==
  /\ assigned = <<>> /\ documented = <<>> /\ cache = <<>> /\ lookups = <<>>
  /\ time = <<>> /\ uses = <<>>
NoRedis ==
  /\ idle = <<>> /\ closed = <<>> /\ open = <<>> /\ asked = <<>>
  /\ stream = <<>> /\ upset = <<>> /\ handlers = <<>>
NoReload ==
  /\ inodes = <<>> /\ rest = <<>> /\ loader = <<>> /\ recs = <<>>
  /\ notices = <<>> /\ lost = <<>> /\ torn = <<>> /\ noticed = <<>>
  /\ revisions = <<>>
NoEdits == edits = <<>>

NoPlugin == NoRatelimit /\ NoDdns /\ NoLeasehook /\ NoNetbox /\ NoRedis /\ NoReload /\ NoEdits

NoEndpoint ==
  /\ procs = <<>> /\ fs = <<>> /\ ports = <<>> /\ rivals = <<>> /\ raced = <<>>
  /\ unreached = <<>>
NoMetrics ==
  /\ served = <<>> /\ counters = <<>> /\ tasks = <<>> /\ scrape = <<>> /\ scrapes = <<>>
  /\ begun = <<>> /\ done = <<>>
NoLeaseApi ==
  registered = <<>> /\ state = <<>> /\ changes = <<>> /\ request = <<>> /\ answers = <<>>
NoNaming == named = <<>> /\ suffix = <<>> /\ leased = <<>> /\ net = <<>>
NoDashboard ==
  /\ m = <<>> /\ second = <<>> /\ drawnAt = <<>> /\ frame = <<>> /\ screen = <<>>
  /\ pressed = <<>> /\ drawn = <<>> /\ heard = <<>> /\ cleared = <<>> /\ latest = <<>>
NoWatcher == NoEndpoint /\ NoMetrics /\ NoLeaseApi /\ NoNaming /\ NoDashboard

PluginInit ==
  \/ kind = "buckets" /\ Table!Init /\ NoDdns /\ NoLeasehook /\ NoNetbox /\ NoRedis /\ NoReload /\ NoEdits
  \/ kind = "shared" /\ Shared!Init /\ NoDdns /\ NoLeasehook /\ NoNetbox /\ NoRedis /\ NoReload /\ NoEdits
  \/ kind = "ddns" /\ Updates!Init /\ NoRatelimit /\ NoLeasehook /\ NoNetbox /\ NoRedis /\ NoReload /\ NoEdits
  \/ kind = "leasehook" /\ Hook!Init /\ NoRatelimit /\ NoDdns /\ NoNetbox /\ NoRedis /\ NoReload /\ NoEdits
  \/ kind = "netbox" /\ Lookup!Init /\ OneUnknown /\ NoRatelimit /\ NoDdns /\ NoLeasehook /\ NoRedis /\ NoReload
  \/ kind = "redis" /\ Hashes!Init /\ NoRatelimit /\ NoDdns /\ NoLeasehook /\ NoNetbox /\ NoReload /\ NoEdits
  \/ kind = "reload" /\ File!Init /\ NoRatelimit /\ NoDdns /\ NoLeasehook /\ NoNetbox /\ NoRedis

DashboardInit ==
  \/ kind = "rates" /\ Rates!Init
  \/ kind = "clientele" /\ Clientele!Init
  \/ kind = "panes" /\ Panels!Init

WatcherInit ==
  \/ kind = "endpoint" /\ Sockets!Init /\ NoMetrics /\ NoLeaseApi /\ NoNaming /\ NoDashboard
  \/ kind = "metrics" /\ Scraped!Init /\ NoEndpoint /\ NoLeaseApi /\ NoNaming /\ NoDashboard
  \/ kind = "leaseapi" /\ Listing!Init /\ NoEndpoint /\ NoMetrics /\ NoNaming /\ NoDashboard
  \/ kind = "naming" /\ Written!Init /\ NoEndpoint /\ NoMetrics /\ NoLeaseApi /\ NoDashboard
  \/ DashboardInit /\ NoEndpoint /\ NoMetrics /\ NoLeaseApi /\ NoNaming

Init == (PluginInit /\ NoWatcher) \/ (WatcherInit /\ NoPlugin)

PluginNext ==
  \/ /\ kind = "buckets" /\ Table!Next
     /\ UNCHANGED <<ddnsVars, leasehookVars, netboxVars, redisVars, reloadVars>>
  \/ /\ kind = "shared" /\ Shared!Next
     /\ UNCHANGED <<ddnsVars, leasehookVars, netboxVars, redisVars, reloadVars>>
  \/ /\ kind = "ddns" /\ Updates!Next
     /\ UNCHANGED <<ratelimitVars, leasehookVars, netboxVars, redisVars, reloadVars>>
  \/ /\ kind = "leasehook" /\ Hook!Next
     /\ UNCHANGED <<ratelimitVars, ddnsVars, netboxVars, redisVars, reloadVars>>
  \/ /\ kind = "netbox" /\ Lookup!Next
     /\ UNCHANGED <<ratelimitVars, ddnsVars, leasehookVars, redisVars>>
     /\ UNCHANGED <<inodes, rest, loader, recs, notices, lost, torn, noticed, revisions>>
  \/ /\ kind = "redis" /\ Hashes!Next
     /\ UNCHANGED <<ratelimitVars, ddnsVars, leasehookVars, netboxVars, reloadVars>>
  \/ /\ kind = "reload" /\ File!Next
     /\ UNCHANGED <<ratelimitVars, ddnsVars, leasehookVars, redisVars>>
     /\ UNCHANGED <<assigned, documented, cache, lookups, time, uses>>

DashboardNext ==
  \/ kind = "rates" /\ Rates!Next
  \/ kind = "clientele" /\ Clientele!Next
  \/ kind = "panes" /\ Panels!Next

WatcherNext ==
  \/ /\ kind = "endpoint" /\ Sockets!Next
     /\ UNCHANGED <<metricsVars, leaseapiVars, namingVars, dashboardVars>>
  \/ /\ kind = "metrics" /\ Scraped!Next
     /\ UNCHANGED <<endpointVars, leaseapiVars, namingVars, dashboardVars>>
  \/ /\ kind = "leaseapi" /\ Listing!Next
     /\ UNCHANGED <<endpointVars, metricsVars, namingVars, dashboardVars>>
  \/ /\ kind = "naming" /\ Written!Next
     /\ UNCHANGED <<endpointVars, metricsVars, leaseapiVars, dashboardVars>>
  \/ DashboardNext /\ UNCHANGED <<endpointVars, metricsVars, leaseapiVars, namingVars>>

Next ==
  \/ PluginNext /\ UNCHANGED <<kind, watcherVars>>
  \/ WatcherNext /\ UNCHANGED <<kind, pluginVars>>

Spec == Init /\ [][Next]_vars

Symmetry == Permutations(Clients) \cup Permutations(Handlers)

-----------------------------------------------------------------------------
(* ratelimit: in every stretch of time a client that stays in the table gets *)
(* at most its burst and the tokens of that time, and all clients together,  *)
(* evicted or not, the same of the shared bucket. What is evicted at the     *)
(* limit is the bucket of the client seen longest ago.                       *)
RateHeld ==
  /\ kind = "buckets" => Table!RateHeld /\ Table!ListIsRecency
  /\ kind = "shared" => Shared!GlobalHeld

(* ratelimit and netbox: nobody is turned away for the server's own reasons. *)
(* Being dropped costs a client nothing, so it is served once the time for a *)
(* token has passed, however often it asked in between; and a request passes *)
(* to the next allocator only on NetBox's word, never because a call failed. *)
NobodyTurnedAway ==
  [][ /\ kind = "buckets" => Table!RetryCostsNothingStep
      /\ kind = "netbox" => Lookup!PassedOnItsWordStep ]_vars

(* ddns: while a DHCID holds a name only updates for that client change what *)
(* is there, a claim never leaves an address of an earlier lease behind, and *)
(* a PTR is written only for a name that has that address.                   *)
HeldNamesKept ==
  [][kind = "ddns" => Updates!HeldNamesKeptStep /\ Updates!PtrBackedStep]_vars

(* ddns: two spellings of a name are one name, inside the zone or refused,   *)
(* and an address's PTR name lies in a reverse zone exactly when the network *)
(* holds the address. A protected name stays as the operator wrote it. The   *)
(* register of owners keeps to its limit, lists a name once, and where every *)
(* answer was heard it has the addresses that are in the zone.               *)
NamesExact ==
  /\ kind = "naming" => Written!NamesExact
  /\ kind = "ddns" => Updates!ProtectedKept /\ Updates!RegisterExact

(* leasehook: no event is lost in silence and none overtakes another. Each   *)
(* one asked for is delivered, still to be delivered, or counted and soon    *)
(* reported as dropped; where one exchange of a client was over before       *)
(* another began, the receiver sees their events in that order, none twice.  *)
EventsAccounted ==
  kind = "leasehook" => Hook!EventsAccounted /\ Hook!WarningsPaced /\ Hook!ClientOrder

(* netbox and redis: a handler acts on an answer for its own client that is  *)
(* at most a TTL old, even when a slow lookup has overwritten the answer of  *)
(* a faster one that began later, or commands were abandoned half way; from  *)
(* a Redis connection as long as it was sent no array with an error in it.   *)
(* The cache holds the clients used last, once each; every open Redis        *)
(* connection is idle or with exactly one handler.                           *)
AnswersFresh ==
  /\ kind = "netbox" => Lookup!AnswersFresh /\ Lookup!CacheIsRecent
  /\ kind = "redis" => Hashes!AnswersMatch /\ Hashes!ConnsAccounted

(* file and relayinfo: once the watch has nothing more to say, the mapping   *)
(* served is the file's if it parses, whatever happened while it was reread; *)
(* and as long as the file is replaced by renaming it is always that of one  *)
(* whole file, never a blend or a part.                                      *)
QuietMeansCurrent == kind = "reload" => File!QuietMeansCurrent /\ File!OneRevision

(* metrics and leaseapi: no request goes uncounted or is counted twice, and  *)
(* no counter goes back; unchanged state gives the same listing again. The   *)
(* socket they are served on has the mode asked for.                         *)
ReadersToldTrue ==
  /\ kind = "metrics" => Scraped!ScrapesTrue
  /\ kind = "leaseapi" => Listing!SameBodies
  /\ kind = "endpoint" => Sockets!ModesSet

(* The endpoint and leaseapi: a second coredhcp that reaches the first one's *)
(* socket, or runs out of time trying, fails to start rather than take it,   *)
(* and nothing touches a file that is no socket. A listing has what was held *)
(* throughout, and only what was held by a source that was asked.            *)
WatchersUndisturbed ==
  [][ /\ kind = "endpoint" => Sockets!EndpointKeptStep
      /\ kind = "leaseapi" => Listing!ListedTrueStep ]_vars

(* The dashboard: no change is left without a frame; its totals, rates,      *)
(* counters, traffic and lease rows are those of the reports since the last  *)
(* clear, whatever order they came in; and the status line forgets an error  *)
(* when its window ends.                                                     *)
DashboardTrue ==
  /\ kind = "rates" => Rates!ScreenCurrent /\ Rates!CountsTrue /\ Rates!StatusHonest
  /\ kind = "clientele" => Clientele!CountsTrue /\ Clientele!LeasesTrue
  /\ kind = "panes" => Panels!ScreenCurrent

(* The dashboard: while the traffic pane is paused its rows stay where they  *)
(* are, whatever is reported, until a key is pressed or the window resized.  *)
PausedHolds == [][kind = "panes" => Panels!PausedStep]_vars

(* The endpoint: a second coredhcp fails to start instead of quietly         *)
(* stealing the first one's endpoint, as clearStaleSocket has it.            *)
SecondFailsToStart == [][kind = "endpoint" => Sockets!SecondFailsStep]_vars

(* ddns: every name this plugin writes carries a DHCID record, as the        *)
(* documentation has it (withdrawChanges).                                   *)
EveryNameHeld == kind = "ddns" => Updates!EveryNameHeld
=============================================================================
