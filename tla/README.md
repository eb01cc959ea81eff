# A TLA+ model of CoreDHCP

CoreDHCP is a DHCPv4/DHCPv6 server made of a small core and a chain of
plugins. This directory holds a TLA+ model of it, the TLC configurations that
check it on small instances, and TLAPS proofs of its central invariants.
`PROJECT.json` lists the components, the runs, the source lines every
definition models, the hazards the properties are aimed at, and the theorems.

## The system

**The core** (`src/server`) binds one socket per listen address, runs a read
loop on each, and starts one goroutine per datagram. A *gate* bounds those
goroutines over all sockets and lets a shutdown wait for them. A handler
builds a base reply, walks the plugin chain, decides where the reply goes and
writes it. `Start`, `Wait`, `Close` and the signal goroutine of
`src/cmd/coredhcp` make up the server's life. `src/config` reads the
configuration, and `src/plugins/plugin.go` sets the plugins up, line by line,
and makes the chains. `src/leases` is where plugins register what they hold.

**The terminal program** (`src/cmd/coredhcp-tui`) runs the same server and
shows it: the core reports every datagram, and a dashboard counts, lists and
draws, with an event loop and a draw loop of its own.

**The plugins** (`src/plugins`) are called by every handler goroutine at once
and own nearly all the state:

| part | state | what makes it hard |
|---|---|---|
| `range` | lease table, address bitmap, quarantine, write queue, SQLite file | the lock is released before the write is known to have worked; undo closures; full queue; crash with writes queued |
| `range6` | the same per (DUID, IAID) | one message settles several changes |
| `prefix` | delegated prefixes per client, in memory | hints, partial matches, the lock taken once per IA_PD |
| `allocators` | bitset | 32/128-bit arithmetic at the edges, hints outside the pool |
| `ratelimit` | token buckets in a bounded table | eviction, fractions of a token, two limits at once |
| `ddns` | register of owners, queue of jobs, a worker | drops, lost answers, claims and withdrawals out of step |
| `leasehook` | queue of events | drops, order |
| `netbox`, `redis` | cache, connection pool | overlapping lookups, connections out of step |
| `file`, `relayinfo` | table reloaded on change | changes while reading, overflow of the watch |
| `relay`, `server_id`, `subnet` | configuration | which scope, which relay, which server |
| `leaseapi`, `metrics` and their endpoint | counters, listings, a Unix socket | read while everything changes; a socket left by a crash |
| option plugins, `macfilter` | configuration | what each does to the links behind it |
| the dashboard | rings, lease table, tallies | reports out of order, keys between frames, stopping |

**Correctness**, in one sentence each: no address is in two leases; the bitmap
accounts for every address; what is on disk follows memory and loads again
after a crash; what a client was told stays true; every bound (queue,
quarantine, table, handlers in flight) holds; nobody waits forever; a failed
start leaves nothing behind and a drained server is quiet; a request is
answered out of the scope of its link, and only on the word of a listed relay;
a server that came up does what its configuration says; and what an operator
sees, on the screen, in a scrape or in a listing, is what happened.

## Modules

- `Bitset`: the bitset under the allocators and the search they share (exact
  hint first, lowest clear bit otherwise). `BaseProofs`: what the search
  returns, and other facts several proofs share.
- `IPCalc`: `Offset` and `AddPrefixes` on words of `W` bits. `Pool`: what an
  allocator promises. `BitmapIPv4`, `BitmapIPv6`, `BitmapPrefix`: the three
  allocators, each checked to implement `Pool`.
- `Range`: the `range` plugin with its storage, with theorems in
  `RangeSectionProofs`, `RangeProofs`, `RangeDiskProofs` and `RangeLeaseProofs`.
  `Range6`: the `range6` plugin, with theorems in `Range6SectionProofs` and
  `Range6Proofs`. `Prefix`: prefix delegation.
- `Servers`: `Start`/`Wait`/`Close`, the gate and the read loops, with theorems
  in `ServersProofs`, which also has those of `Screen`.
- `Dispatch`: what happens to one datagram.
- `RelayPlugins` (`relay`, `server_id`, `relayinfo` and the part of `net/netip`
  they use) and `Subnet`: the plugins that decide about a request, as operators. `Network`
  composes them into a DHCPv4 server with clients on several links, `Chain6`
  into the chain of a DHCPv6 request.
- `Startup`: from the configuration to the chain a request runs down, over
  `OptionPlugins`, the setups and handlers of the plugins without state.
- `Arguments`: how the plugins with named arguments read their lines, and the
  setup of those plugins, `relay` and `relayinfo`.
- `Ratelimit`, `Ddns`, `Leasehook`, `Netbox`, `Redis`, `Reload` (the watched file
  of `file` and `relayinfo`). `Names`: host names and reverse names of `ddns`, and
  `Naming`: a state machine that goes through them.
- `Endpoint`: the socket `leaseapi` and `metrics` listen on. `Metrics`: the request
  counters and the scrape. `LeaseApi`: the registry of lease sources and the
  listing.
- `Tallies`: the data structures of the dashboard. `Dashboard`:
  reports, keys, snapshots and frames over them. `Screen`: how the terminal
  program starts and stops.
- `MCxxx`: constants for TLC, with `ConfigInputs` for the configuration that
  `MCChain` goes through. `MCChain` (which extends `MCPools`, the allocators and
  prefix delegation), `MCServers` and `MCServices` hold several modules in one
  run: a behaviour is of one `kind`, chosen at the start, and the variables of
  the other kinds stay empty.

### Range

Variables: `records` is `Recordsv4`, `allocated` the allocator's bitmap,
`declined` the quarantine, `writes` the channel to the writer goroutine, `db`
the table `leases4` with its primary key (mac, ip), `workers` what each
goroutine holds between its locked section and its reply (`pendingWrite`s and
the reply), `told` what each client has been told (a history variable, read by
properties only), `status`/`writer` the process and the writer.

A handler is two actions, as in the code. The first is everything under the
plugin lock: `Request` (`Handler4` down to `leaseFor`), `Release`, `Decline`,
`SweepOnce`. It is atomic because the lock is held throughout and the writer
only takes from the head of the queue. The operators in "Under the plugin lock"
follow the functions of `plugin.go` one by one on a record `S` of the maps, the
bitmap, the queue and `p.pending`; where a Go map is iterated they return the
set of outcomes. The second is `Settle`: wait for the results, undo what failed
under the lock, answer. The writer is `Write`/`WriteFails`; `Crash` drops all
but the file and `Restart`/`RestartRefused` is `newPluginState` loading it.

A record's pointer identity, which `dropUnwritten` compares, is a generation
number `gen`, chosen fresh among those still referenced. `Gens` has one more
element than there are handlers plus the table can refer to, so the guard on
it in `Request` never binds.

Time is in ticks, `TicksPerSec` to the second, because the code truncates the
expiry of a new lease, rounds that of a renewal, and compares both with an
untruncated clock.

Left out: host names, log throttling, SQL retries (a write
either reaches the file or fails), and the inline write of a state without a
writer, which the code documents as test-only. A section is atomic with respect
to the writer too, where the code lets the writer take a write from a full queue
between two enqueues of one section (`reallocateExpired`, a sweep): what a
refusal in the middle of a section leads to is covered, the writer making room
for the rest of the same section is not. A client that has sent RELEASE or
DECLINE is taken not to listen for replies to its earlier messages.

### Range6

As `Range`, with bindings keyed by (DUID, IAID). The lock is held over all the
IA_NAs of a message, but the writer keeps running, so `Receive` handles the
first IA_NA, `Continue` the following ones, and `Settle` waits for all results.
Within one IA_NA, and within one sweep, the section is atomic with respect to
the writer, with the same consequence as in `Range`. Left out: `Close`, CONFIRM
(it reads only the pool's bounds) and host names.

### Prefix

`records`, `taken` (the bitmap) and `now`; `tasks` holds the IA_PDs a handler has
still to answer, because the lock is taken once for each. `reconcile` and the
functions under it are translated one by one. The passes over hints and leases
are sets of pairs; only the allocation, where the order counts, is a fold. A
prefix is a page and a length class: unsaid, shorter than a page, a page,
longer.

### Servers and Dispatch

Sockets are numbered in the order `Start` binds them. Every datagram is
followed through `gate.run`: slot taken, `track` under the gate's lock, handler,
slot returned, `WaitGroup` left. `Close` has three possible callers (a failed
`Start`, the signal goroutine, `Wait`) that share `drainOnce`. The handler
itself is one step that may never happen.

In `Dispatch` a goroutine takes a datagram from parse to event: it looks up the
interface name (the lookup and the store of the shared cache are two steps),
walks the links of the chain one at a time and sends. A plugin is a link that
keeps, replaces, stops with or drops the reply. A request is a record of the
fields the code branches on. A link-local DHCPv4 peer, for which the code names
the interface to send by, is not among the peers.

### Network, Chain6, Arguments

`Network` is a server whose chain is `relay`, `server_id`, `subnet`,
`relayinfo`, with clients that discover, take our offer or another server's,
renew by unicast or broadcast, release, decline, inform, move between links and
come back with an old address. Messages and answers may be lost. A link is on an
interface, behind a listed relay, behind one that is not listed, or behind a
switch that inserts option 82. One message is under way at a time: a client's
sending does not depend on another's, and the chain itself runs to its end for
each message. The range instance of a scope is what `Range` is checked to
promise (a lease table and a quarantine over the pool). A request with option 82
and no relay address may be dropped by `relayinfo`, behind `subnet`, when it has
cost a lease already; `OnlyVouched` is about requests that name a relay or a
server. `file` is the subnets file as written; `Setup` is `newSelector` with all
the checks of `config.go`. `RenewalKeeps` has a precondition, `ToldApart`: the
scopes' networks do not overlap and no scope claims the interface routed
requests come in on.

`Chain6` puts every request of a small set through `relay`, `server_id`,
`subnet` and `relayinfo`. `Arguments` writes configuration lines word by word
and sets the plugin up. `SetupOrderFree` compares each line with the ones that
say the same in another order (an argument with a place of its own stays there,
and of two values for one key the last counts where the code has it so).

### Startup and OptionPlugins

`Parse` is `Load`: both server sections are read, each with its listen addresses
and its plugin lines. A listen text is a sequence of tokens, because brackets,
zones and ports are what the splitting is about; an address, a zone or a port
is one token. `loadHandlers` then sets up one line at a time, DHCPv6 first, and
stops at the first that fails. `RunLink` gives the request to one link. Every
plugin is a setup and a handler in `OptionPlugins`; an argument is what its
text parses as, an option a code and a value. In place of `range` stands a
pool that has an address or has none. `ReplyAsConfigured` compares the reply of
a chain with what each link would have put on it alone; `StartsAsConfigured`
compares the addresses listened on with the words of the listen texts, in
whatever order they stand.

### Arguments

Each setup as an operator from the line to the plugin's settings, or a refusal.
The bounds the code checks (`maxRate`, `maxTTL`, the size of a range6 pool, the
bits of an `int`) are constants. Values are numbers, names or records of the
parts the code looks at; `env:` secrets go through `Getenv`.

### The plugins with state of their own

- `Ratelimit`: `buckets`, `heap`/`head`/`tail` (the hand-written list), the shared
  bucket, the counts of the drop summary. Tokens are counted in `Interval`-ths.
- `Ddns`: two instances, DHCPv4 and DHCPv6, over one zone; queue, worker stages
  (fresh claim, owned claim, reverse), the register of owners; the name server is
  external and may lose a datagram or its answer. A datagram is served before its
  attempt times out or never: one that arrives after the retry, or after the
  update was given up, is left out. A handler's look at the register and its
  place in the queue are one step, where the worker could come in between.
- `Leasehook`: handlers, queue, worker, the drop counter and its warning.
- `Netbox`: the cache and overlapping two-call lookups, with NetBox being edited.
  A DHCPv6 message without a hardware address or without an IA_NA passes by
  unchanged and is left out.
- `Redis`: idle connections, borrowing, abandoned commands, `Close`. A reply is
  what a reader takes from the connection in one go: an array with an error in
  it is read up to the error and leaves the rest behind (`Pieces`), and the
  connection goes back to the pool all the same, because a `respError` is not
  taken for a broken connection. The next borrower then reads the remains. So
  that the answers are the client's own (`AnswersMatch`) holds for connections on
  which that has not happened; without the condition TLC finds a client given
  another's answer. HGETALL has no such reply from a Redis server, so it is noted
  here and is not a finding.
- `Reload`: a file written in place or renamed into place, a load that reads line
  by line and may fail at any of them, or at opening the file, and a bounded
  queue of notices.
- `Naming`: a zone or a reverse network is configured, then a name asked for or
  an address leased. Names are sequences of labels, a label its text and whether
  it is spelled in capitals; an octet has `octetBits` bits.

### What operators read

- `Endpoint`: several processes over one file system and one set of ports.
  `Stat`, `Dial`, `Remove`, `Bind` and `Chmod` are a step each, because another
  process may act in between; `Die` leaves the socket file behind, as a kill does.
  A dial to a socket someone listens on is answered, runs out of time or fails
  (`DialFinds`: a full backlog, a mode that shuts the user out), and the code
  takes a failure for a stale socket. `unreached` remembers whose socket a
  process has failed to reach so; `EndpointKeptStep` allows only that socket to
  be taken, and `SecondFailsStep`, which allows none, is violated (Findings).
  Two starts that have both found one file stale are the exception the property
  makes (`raced` has the paths where that cost a server its socket); see
  Findings.
- `Metrics`: a handler that looks for its series, creates it under the lock after
  looking again, and adds; a scrape that copies the list and then loads one
  counter at a time.
- `LeaseApi`: sources that register and change; a request that parses its filter,
  copies the list of sources, asks them one by one, sorts and answers.

### The dashboard

`m` is `model`: the traffic and log rings, the rate rings, totals, family
counters, lease table, chain tallies, the state of the panes. A report, a log
line, a key, a tick of the clock, a resize are an action each, under the
model's lock; a frame is two: the snapshot is taken (`redraw`) and later painted
(`paint`, on tview's goroutine), with anything in between. `heard`, `cleared`
and `latest` are history variables for the properties. A report may be up to
`MaxDelay` seconds old when it arrives; the code counts a late one in the second
it arrives in, and so does the model. The lease table is a map with a linked
list; `TableSound` says that the two agree.

`Screen` is `Run` with its goroutines: the event loop, the draw loop, the watcher
and its channels, the waiter on the server, the signal goroutine and `main`.
tview is external: `Run` opens the screen or fails, `QueueUpdateDraw` waits
until the event loop has run the update, `Stop` ends the event loop.

## Runs

| run | instance | shows |
|---|---|---|
| `range_failures` | 2 clients, 2 addresses, 2 handlers, queue 2, failing writes, crashes | bitmap = leases + quarantine; no shared address; every lease backed by a row or a pending undo |
| `range_promise` | the same without failures, 2 ticks to the second | the queue leads from the file to the table; what a client was told holds; probation; addresses are sticky |
| `range_live` | 3 clients, 2 addresses, 1 handler, `max-leases` 2, queue 2, Close | bounds of the table and the quarantine; the file loads again; handlers finish, probations end, lapsed leases are reclaimed unless the queue is full over and over |
| `range6` | 1 client with 2 IAIDs, 2 addresses, messages of two IA_NAs, a lease of 2 s, one mishap | the counterparts: the pool with its quarantine, the file against the table, the promises |
| `servers` | 2 sockets, 3 datagrams, 2 slots, failing binds and reads; the terminal program with 2 frames | slots exact and bounded; quiet after a drain, no reply to a closed socket before; nothing left open by a failed Start or a Wait that returned, no event loop ended under a frame, a true exit status; every way to stop gets there |
| `chain` | every kind of datagram through every kind of listener; two datagrams on two goroutines; two clients and two links per file; every file of one or two entries from 15; every small DHCPv6 request; lines of up to 4 words of `relay` and `relayinfo`, of two named arguments behind every start for the other plugins; every chain of up to 3 of 11 DHCPv4 lines and 2 of 11 DHCPv6 lines, every other line beside a pool, every pair of 16 listen texts, 8 DHCPv4 and 8 DHCPv6 requests; `W` = 3: every range of 8 IPv4 addresses but the whole space, IPv6 ranges at word edges, pages in either word; delegation to 2 clients, 3 pages, limit 2, two handlers, every kind of hint | one event per datagram, and a true one; replies only to what may be answered, and where the client is; no pool address twice, right scope, renewals keep the address; nothing on the word of an unlisted relay, in both families; accepted files are sound and answers fit the scope; order of arguments; servers come up as configured, releases reach the pool, links leave one another's options alone; the allocators implement `Pool` and delegated prefixes are disjoint; the arithmetic agrees with plain numbers where it is used; the plugin's pool = its leases, within the limit; a delegation lasts as long as was said; a returning client keeps its prefix |
| `services` | see `MCServices`; three dashboards | rate limits across eviction, and what is evicted; being dropped costs nothing; names, reverse zones, owners and PTRs; order and count of events; fresh answers, from the right connection; the file served is the file; scrapes and listings true while things change; sockets of running servers left alone; the dashboard is true and current, and a paused pane still |
| `range_drop`, `range6_told`, `ddns_dual`, `screen`, `second` | see Findings | expected violations |

Why the bounds are enough to be interesting: two clients on a pool of one or
two addresses make every allocation contend; two handlers plus the sweeper give
all orders of two locked sections and their settles; a queue of one or two
writes is full halfway through a section that needs two; tables and caches of
one or two entries are at their limit after two requests; addresses of 4 bits
have networks inside networks and ranges that meet in one address. A chain of
three has a link before and one behind the one that ends it. The dashboard runs
in three sizes: `rates` has time and late reports but one client, `clientele` has
two families and clients on a table of two but no time, `panes` has every key and
a window that changes but one kind of report. The clock of `range_failures` stops
after one lease time, which does not reach a renewal that extends a lease; its
three properties are theorems, and `range6`, with a lease of two seconds and a
clock of two, has such renewals. The register of `ddns` has one name to write, so
its limit is not reached. For every
property there is a mutated definition (`…_Xxx`, listed in `PROJECT.json`) that
TLC shows to violate it.

`VIEW ServerView` in `range_failures` and `range6` leaves out the history
variable where no property of the run reads it and no guard depends on it.
Symmetry is used for clients, handlers or datagrams only in runs without
liveness.

**Fairness**, assumed in `range_live` and `servers` only. In `Range`: the writer
goroutine takes from its queue, a handler whose results are in runs on, the
sweeper's ticker fires. A lapsed lease is reclaimed only if some sweep finds
room in the queue: with three addresses and a queue of one there are behaviours
in which the queue is full at every sweep, so `ExpiredReclaimed` has that as its
exception. In `Servers`: goroutines that can step do, and the drain timer fires.
In `Screen`: the goroutines of the program and tview's event loop step when they
can, the draw loop's `select` does not pass over a cancelled context for ever
(strong fairness), and the server's own shutdown ends (which `servers` checks
for the server). Nothing is assumed of datagrams, signals, keys, read errors, or
of a handler inside a plugin. Deadlock checking is off throughout, because the
system may rest: the clock or the number of messages has reached its bound, a
setup was refused, the server has shut down.

## Proofs

Every leaf is proved by Zenon unless it names SMT; there are no assumptions but
those on the constants, which TLC evaluates: `RangeAssumption` (a pool, a lease
time and a queue of at least one, finitely many clients), `Range6Assumption` and
`ServersAssumption` (the same kind).

**`range`.** For every pool, set of clients and of handlers, queue length and
choice of failures and crashes: `TypesCorrect`, `PoolAlwaysAccounted`,
`AddressesNeverShared`, `AddressesStaySettled`, `QuarantineKeepsBound`
(`RangeProofs`) and `LeasesAreWritten` (`RangeLeaseProofs`). With a database that
takes its writes: `DiskNeverDrifts` and `TablesAlwaysBounded`, crashes included;
without crashes and `Close` as well: `PromisesAreKept` (`RangeDiskProofs`).

- `IndInv` is the types, the accounting, the separation of addresses and
  `DownForgets` (a dead process has no quarantine, so `Restart` starts from the
  file alone). They need one another: freeing a bit is right only if no other
  entry has that address, and an allocation is unshared only because the bitmap
  accounts for every entry. Inside a locked section they do not hold;
  `RangeSectionProofs` therefore speaks of the section's state `S`: each operator
  takes `Good(S)` to `Good`, except that between `Allocate` and `RecordLease`
  exactly one address is in hand (`Taken`). It also shows that a section has one
  form: it clears some records, each with its delete queued, and then stores at
  most one.
- `DiskInv` says what the table holds after every prefix of the queue, which is
  what a crash leaves, and that each such table has one row per client and per
  address.
- `LeaseInv` pairs each goroutine's pending results with the queued writes they
  belong to (`Matched`), so that a failed insert reaches the undo that goes with
  it. `Resting` says that who is not busy waits for nothing.
- `PromiseInv` covers the replies still to be sent as well as those that were.
  With crashes it would not hold: a record with enough time left is answered
  without a write, although the insert behind it may still be queued.

**`range6`.** `Range6TypesCorrect`, `Range6PoolAccounted`, `Range6PromisesKept`,
along the same argument: its `IndInv` holds between the IA_NAs of a message, while
a handler has the lock, and `PromiseInv` as long as no write has failed and the
process has not died.

**The server.** `SlotsNeverLeak`, `DrainIsFinal`, `StopsAlwaysClean`, for any
number of sockets, slots and datagrams. The invariant has one part per mechanism:
the counters of the gate (`GateInv`), one drain and nobody past it before it is
over (`CloseInv`), which sockets a caller of `Close` has behind it
(`SocketsInv`), one result per read loop (`WaitInv`), and `ScreenInv` for the
order in which the terminal program takes itself apart.

**Only model-checked**: `DiskCatchesUp` of `range6`; every property of the other
modules; and all liveness, which is beyond the prover, as are induction over data
and with it the allocators' arithmetic for every word width.

## Findings

- `range_drop`: an insert fails after a renewal of the same lease has been
  queued; the renewal is written and answered, yet the undo of the insert
  drops the record and frees the address.
- `range6_told`: a retransmission is answered from the record in memory while
  the insert of the first message is still queued.
- `ddns_dual`: a dual-stack client releases one family's lease; the withdrawal
  takes the DHCID with it, and the other family's addresses stay at a name that
  nobody holds.
- `second`: a dial that fails at once, rather than running out of time, passes for
  a stale socket although a server listens on it; the second server removes the
  file and binds its own, where `listen.go:67` promises that it "fails to start
  instead of quietly stealing the first one's endpoint". On Linux a full backlog
  is such a failure (EAGAIN), not the wait `listen.go:17` describes.
- `screen`: the draw loop hands a frame to tview while the screen is being
  opened; the opening fails, the frame is never drawn, and `Run` waits for the
  draw loop instead of returning the error.

Seen on the way, outside what the runs check:

- `range`: a delete that is accepted by the queue and fails later leaves its row
  behind; a restart then fails or follows the stale row.
- allocators: `Offset` subtracts unmasked addresses (the same thing from an
  aligned base, which is how it is called); a pool of the whole IPv4 space has
  a bitmap of no bits; `Free` of a prefix outside the pool would free the page at
  the same distance.
- `subnet`: reservations are not checked against pools or each other, so a
  reserved address inside a pool can be handed to another client (hence "from a
  pool" in `NoAddressTwice`). A unicast renewal arriving on an interface that
  another subnet lists is served by that subnet. A link served by `default: true`
  alone is answered from another scope when the client asks for an address
  there. A delegate that fails to start leaves the earlier ones running.
- `relayinfo`: a client with a port's address that renews by unicast carries no
  option 82, so a pool further up the chain answers it with another address.
  A file caught truncated parses as an empty one and is served as such, where
  `plugin.go:560` expects it to be kept.
- `file`, `relayinfo`: a change between the first load and the start of the
  watch is not noticed, and a refresh that failed to open or read the file is
  not tried again before the next event; `QuietMeansCurrent` excepts both.
- `ddns`: a withdrawal whose answer was lost is retried, fails its own
  prerequisite and is reported as held by another client; its PTR stays.
  Releasing one of several DHCPv6 addresses withdraws the whole name.
- endpoint: two servers started at the same moment over one stale socket can both
  find nobody listening, and the second then removes the socket of the first.
  `leaseapi/plugin.go` says that the end of the process takes the socket file
  with it; a killed process leaves it, which is why `clearStaleSocket` exists.
- `leaseapi`: leases of two sources with the same name, at the same address,
  compare as equal, so their order in a listing is that of the sources.
- `nbp`: `doc.go:16` calls the key of the boot parameters `param`, the code reads
  `params`.
- `ddns`: the comment on `applyOption` says that only `reverse:` repeats; `protect:`
  does too.
- `range` accepts a lease time of zero or less, where `range6` refuses it.
- dashboard: `model.go:492` says that a packet that never reached the chain
  reaches nobody; one dropped at the door before the chain counts every link as
  reached.
- `ratelimit`: the drop summary may count a client again after its eviction.

## Not modelled, and the plan

- Wire encodings: option bytes, DNS messages and TSIG, RESP, HTTP, JSON and the
  text of a scrape, the raw Ethernet frame. They are functions of bytes, and
  the properties here do not depend on their layout.
- Text: YAML, log lines and their throttling, the redaction of secrets, the width
  of a column, the wording of an event. Regular expressions and number syntax are
  taken as what they parse to.
- The lookup keys of `file` and `redis` (the spelling of a MAC, DUID or client
  identifier), the contents of a `leasehook` event and its two targets.
- `Close` of `range6` and `subnet`, which follow that of `range`.
- The test client, the two code generators, the example plugin, the logger: no
  state and no concurrency.

Next:

1. **Composition**: the server's shutdown with a plugin that has a writer.
2. **Proofs**: `DiskCatchesUp` of `Range6`; the refinement of the allocators; the
   accounting of `Prefix`; the pools of an accepted subnets file.
