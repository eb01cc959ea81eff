----------------------------- MODULE Arguments -----------------------------
(***************************************************************************)
(* Setting up the plugins from the arguments of a configuration line:      *)
(* relay and relayinfo, and the ones with named arguments (redis, netbox,  *)
(* file, ddns, leasehook, ratelimit, range, range6 and prefix). A named    *)
(* argument is [kind, value]: kind is the key in front of the colon, or    *)
(* "bare". A number, a duration (in seconds) or an address is <<n>>, and   *)
(* <<>> where the text is none. What a value is read as is a set, empty on *)
(* an error.                                                               *)
(***************************************************************************)
EXTENDS Names, RelayPlugins, TLC

CONSTANTS
  Lines,       \* the plugin and family of the lines tried
  Starts(_),   \* what a plugin's lines start with
  Words(_),    \* the arguments that may follow
  Longest(_),  \* bound: the longest line tried
  Getenv(_),   \* os.Getenv
  Second,      \* the clock ticks of a second
  IntSize,     \* strconv.IntSize
  maxRate, maxBurst, maxTracked, maxTTL, maxQueueLen,
  maxDeclineQuarantine, maxIPv6RangeSize

VARIABLES
  plugin,  \* the plugin and family
  line,    \* its arguments
  loaded   \* the state it was set up with, once it is

vars == <<plugin, line, loaded>>

Refused == [ok |-> FALSE]
Accepted(s) == [ok |-> TRUE, s |-> s]
AcceptedIf(ok, s) == IF ok THEN Accepted(s) ELSE Refused

Numbers(raw, fits(_)) == {n \in {raw[i] : i \in DOMAIN raw} : fits(n)}
Positive(raw) == Numbers(raw, LAMBDA n : n > 0)
NotNegative(raw) == Numbers(raw, LAMBDA n : n >= 0)
parseCount(raw, upper) == Numbers(raw, LAMBDA n : n \in 1 .. upper)
Port(raw) == parseCount(raw, 65535)
OneOf(raw, names) == {raw} \cap names

(* A secret as it stands, or from the environment; none may be empty. *)
Secret(raw) == {IF raw.env /\ raw.text # "" THEN Getenv(raw.text) ELSE raw.text} \ {""}

(* What the line gives for a key, or its default. *)
Or(s, kind, default) == IF kind \in DOMAIN s THEN s[kind] ELSE default
Has(s, kind) == kind \in DOMAIN s

-----------------------------------------------------------------------------
(* redis and file: what clients are looked up by. *)
keyModes == {"mac", "duid", "client-id"}

checkFamily(mode, v6) == mode # (IF v6 THEN "client-id" ELSE "duid")

defaultPrefix(mode) ==
  CASE mode = "mac" -> "mac:" [] mode = "duid" -> "duid:" [] mode = "client-id" -> "client-id:"

redisReads(kind, raw) ==
  CASE kind = "password" -> Secret(raw)
    [] kind \in {"timeout", "lifetime"} -> Positive(raw)
    [] kind = "prefix" -> {raw}
    [] kind = "key" -> OneOf(raw, keyModes)
    [] OTHER -> {}

(* parseAddress and parseURL: host:port has no scheme, and needs its port. *)
parseAddress(raw) ==
  {[addr |-> <<raw.host, port>>, tls |-> raw.scheme = "rediss", db |-> db,
    username |-> raw.username, password |-> raw.password] :
     port \in {p \in IF raw.scheme # "" /\ raw.port = <<>> THEN {6379} ELSE Port(raw.port) :
                 raw.host # "" /\ raw.scheme \in {"", "redis", "rediss"}},
     db \in IF raw.scheme = "" THEN {0} ELSE NotNegative(raw.db)}

redisSetup(v6, at, s) ==
  LET mode == Or(s, "key", "mac") IN
  AcceptedIf(checkFamily(mode, v6),
    [client |-> [at EXCEPT !.password = Or(s, "password", @)], mode |-> mode,
     prefix |-> Or(s, "prefix", defaultPrefix(mode)),
     timeout |-> Or(s, "timeout", 2), lifetime |-> Or(s, "lifetime", 3600)])

fileReads(kind, raw) ==
  CASE kind = "autorefresh" -> {TRUE}
    [] kind = "key" -> OneOf(raw, keyModes)
    [] OTHER -> {}

fileSetup(v6, filename, s) ==
  AcceptedIf(filename # "" /\ checkFamily(Or(s, "key", "mac"), v6),
    [filename |-> filename, mode |-> Or(s, "key", "mac"), autorefresh |-> Has(s, "autorefresh")])

-----------------------------------------------------------------------------
(* netbox. *)
netboxReads(kind, raw) ==
  IF kind \in {"ttl", "negative-ttl", "timeout", "lifetime"} THEN Positive(raw) ELSE {}

parseBaseURL(raw) ==
  {[scheme |-> u.scheme, host |-> u.host] :
     u \in {v \in {raw} : v.scheme \in {"http", "https"} /\ v.host # "" /\ ~v.query}}

netboxSetup(base, token, s) ==
  Accepted([base |-> base, token |-> token, ttl |-> Or(s, "ttl", 300),
            negativeTTL |-> Or(s, "negative-ttl", 30), timeout |-> Or(s, "timeout", 5),
            lifetime |-> Or(s, "lifetime", 3600)])

-----------------------------------------------------------------------------
(* ddns. A key's secret is its base64 text, and "?" is none; a name server   *)
(* without a port has <<>> for one, and a port that is none is <<0>>.        *)
ddnsReads(kind, raw) ==
  CASE kind = "server" ->
         {<<a, p>> : a \in {raw.addr} \ {""},
                     p \in IF raw.port = <<>> THEN {53} ELSE Port(raw.port)}
    [] kind = "zone" -> canonicalZone(raw)
    [] kind = "key" -> {<<n, v>> : n \in {raw.name} \ {""}, v \in Secret(raw.secret) \ {"?"}}
    [] kind = "algo" -> OneOf(raw, {"hmac-sha1", "hmac-sha256", "hmac-sha512"})
    [] kind = "ttl" -> Numbers(raw, LAMBDA n : n \in 0 .. maxTTL)
    [] kind = "reverse" -> {<<MaskedPrefix(raw), z>> : z \in reverseZone(MaskedPrefix(raw))}
    [] kind = "timeout" -> Positive(raw)
    [] kind = "queue" -> parseCount(raw, maxQueueLen)
    [] kind = "remove-on-release" -> {raw = "on" : x \in OneOf(raw, {"on", "off"})}
    [] kind = "protect" -> {names \in {raw} : \A i \in DOMAIN names : names[i].labels # <<>>}
    [] OTHER -> {}

protectedNames(raw, zone) == UNION {hostFQDN(raw[i], zone) : i \in DOMAIN raw}

(* finish. *)
ddnsSetup(s) ==
  LET raw == FlattenSeq(Or(s, "protect", <<>>)) IN
  IF ~(Has(s, "server") /\ Has(s, "zone") /\ Has(s, "key")) THEN Refused
  ELSE AcceptedIf(\A i \in DOMAIN raw : hostFQDN(raw[i], s["zone"]) # {},
    [server |-> s["server"], zone |-> s["zone"], key |-> <<s["key"], Or(s, "algo", "hmac-sha256")>>,
     ttl |-> Or(s, "ttl", 300), reverse |-> Or(s, "reverse", <<>>), timeout |-> Or(s, "timeout", 2),
     queueLen |-> Or(s, "queue", 1000), removeOnRelease |-> Or(s, "remove-on-release", TRUE),
     protect |-> protectedNames(raw, s["zone"])])

-----------------------------------------------------------------------------
(* leasehook. *)
allEvents == {"offer", "ack", "nak", "reply", "release", "decline"}

leasehookReads(kind, raw) ==
  CASE kind = "url" -> {u \in {raw} : u.scheme \in {"http", "https"} /\ u.host # ""}
    [] kind = "exec" -> {p \in {raw} : p.absolute}
    [] kind = "secret" -> Secret(raw)
    [] kind = "timeout" -> Positive(raw)
    [] kind = "queue" -> Positive(raw)
    [] kind = "events" -> {names \in {raw} : names \subseteq allEvents}
    [] OTHER -> {}

(* validate. *)
leasehookSetup(s) ==
  AcceptedIf(Has(s, "url") # Has(s, "exec") /\ (Has(s, "secret") => Has(s, "url")),
    [to |-> IF Has(s, "url") THEN <<"url", s["url"]>> ELSE <<"exec", Or(s, "exec", "")>>,
     secret |-> Or(s, "secret", ""), timeout |-> Or(s, "timeout", 2),
     queue |-> Or(s, "queue", 1000), events |-> Or(s, "events", allEvents)])

-----------------------------------------------------------------------------
(* ratelimit. *)
parseRate(raw) ==
  {IF raw.period = "s" THEN [interval |-> Second \div n, perSecond |-> n]
   ELSE [interval |-> (60 * Second) \div n, perSecond |-> n \div 60] :
     n \in {m \in parseCount(raw.n, maxRate) : raw.period \in {"s", "m"}}}

defaultBurst(perSecond) == IF perSecond < 1 THEN 1 ELSE 2 * perSecond

ratelimitReads(kind, raw) ==
  CASE kind = "burst" -> parseCount(raw, maxBurst)
    [] kind = "per" -> OneOf(raw, {"mac", "source", "both"})
    [] kind = "max" -> parseCount(raw, maxTracked)
    [] kind = "global" ->
         {[interval |-> r.interval, capacity |-> r.interval * defaultBurst(r.perSecond)] :
            r \in parseRate(raw)}
    [] OTHER -> {}

ratelimitSetup(rate, s) ==
  Accepted([perKey |-> [interval |-> rate.interval,
                        capacity |-> rate.interval * Or(s, "burst", defaultBurst(rate.perSecond))],
            mode |-> Or(s, "per", "mac"), maxKeys |-> Or(s, "max", 65536),
            global |-> {s[k] : k \in {"global"} \cap DOMAIN s}])

-----------------------------------------------------------------------------
(* range, range6 and prefix. *)
rangeReads(kind, raw) ==
  CASE kind = "sweep" -> Positive(raw)
    [] kind \in {"decline-probation", "decline-max", "max-leases"} -> NotNegative(raw)
    [] OTHER -> {}

minSweepInterval == 30

defaultSweepInterval(lease) ==
  IF lease \div 2 > minSweepInterval THEN lease \div 2 ELSE minSweepInterval

(* A tenth of the pool; only range bounds it from above. *)
defaultDeclineMax(v6, size) ==
  LET share == size \div 10 IN
  IF share < 1 THEN 1
  ELSE IF ~v6 /\ share > maxDeclineQuarantine THEN maxDeclineQuarantine ELSE share

(* Any duration will do for range's lease time. *)
rangeSetup(v6, filename, first, last, lease, s) ==
  AcceptedIf(filename # "" /\ first <= last /\ (v6 => lease > 0 /\ last - first < maxIPv6RangeSize),
    [name |-> filename, first |-> first, last |-> last, lease |-> lease,
     sweepInterval |-> Or(s, "sweep", defaultSweepInterval(lease)),
     declineProbation |-> Or(s, "decline-probation", 86400),
     declineMax |-> Or(s, "decline-max", defaultDeclineMax(v6, last - first + 1)),
     maxLeases |-> Or(s, "max-leases", 65536)])

prefixReads(kind, raw) ==
  IF kind \in {"sweep", "max-prefixes"} THEN Positive(raw) ELSE {}

(* The third argument is the lease duration unless it has a colon. *)
parseLeaseDuration(args) ==
  IF args = <<>> \/ args[1].kind # "bare" THEN {[lease |-> 3600, rest |-> args]}
  ELSE {[lease |-> n, rest |-> Tail(args)] : n \in Positive(args[1].value)}

(* A pool that is no IPv6 prefix has no length. *)
prefixSetup(poolLen, size, lease, s) ==
  AcceptedIf(size \in 0 .. 128 /\ size - poolLen \in 0 .. IntSize - 1,
    [pool |-> poolLen, size |-> size, lease |-> lease,
     sweepInterval |-> Or(s, "sweep", defaultSweepInterval(lease)),
     maxPrefixes |-> Or(s, "max-prefixes", 4)])

-----------------------------------------------------------------------------
(* The loop over the named arguments (parseArgs, parseOptions, parse): in    *)
(* some plugins a second value replaces the first, in the others it is       *)
(* refused, save for the keys of a list.                                     *)
Reads(name, kind, raw) ==
  CASE name \in {"redis4", "redis6"} -> redisReads(kind, raw)
    [] name \in {"file4", "file6"} -> fileReads(kind, raw)
    [] name = "netbox" -> netboxReads(kind, raw)
    [] name = "ddns" -> ddnsReads(kind, raw)
    [] name = "leasehook" -> leasehookReads(kind, raw)
    [] name = "ratelimit" -> ratelimitReads(kind, raw)
    [] name \in {"range", "range6"} -> rangeReads(kind, raw)
    [] name = "prefix" -> prefixReads(kind, raw)

Replaces == {"redis4", "redis6", "file4", "file6", "netbox"}
Repeats == {"reverse", "protect"}

applyOption(name, p, arg) ==
  IF ~p.ok \/ Reads(name, arg.kind, arg.value) = {} THEN Refused
  ELSE LET v == CHOOSE v \in Reads(name, arg.kind, arg.value) : TRUE
           Set(x) == Accepted([k \in DOMAIN p.s \cup {arg.kind} |-> IF k = arg.kind THEN x ELSE p.s[k]])
       IN  CASE arg.kind \in Repeats -> Set(Append(Or(p.s, arg.kind, <<>>), v))
             [] Has(p.s, arg.kind) /\ name \notin Replaces -> Refused
             [] OTHER -> Set(v)

parseOptions(name, args) ==
  FoldLeft(LAMBDA p, a : applyOption(name, p, a), Accepted([k \in {} |-> 0]), args)

(* How many arguments have their place at the front of the line. *)
Positional(name) ==
  CASE name \in {"redis4", "redis6", "file4", "file6", "ratelimit"} -> 1
    [] name \in {"netbox", "prefix"} -> 2
    [] name \in {"range", "range6"} -> 4
    [] OTHER -> 0

First(S, Setup(_)) == IF S = {} THEN Refused ELSE Setup(CHOOSE x \in S : TRUE)
Built(name, args, Setup(_)) ==
  LET p == parseOptions(name, args) IN IF p.ok THEN Setup(p.s) ELSE Refused

(* setupState, setupFile, setupRange, setupPrefix and newState. *)
namedSetup(name, args) ==
  LET n == Positional(name)
      rest == SubSeq(args, n + 1, Len(args))
      at(i) == args[i].value
      v6 == name \in {"redis6", "file6", "range6"}
      Parsed(x) == Numbers(x, LAMBDA k : TRUE)
  IN
  IF Len(args) < n THEN Refused
  ELSE CASE name \in {"redis4", "redis6"} ->
              First(parseAddress(at(1)), LAMBDA a :
                Built(name, rest, LAMBDA s : redisSetup(v6, a, s)))
         [] name \in {"file4", "file6"} -> Built(name, rest, LAMBDA s : fileSetup(v6, at(1), s))
         [] name = "netbox" ->
              First(parseBaseURL(at(1)) \X Secret(at(2)), LAMBDA a :
                Built(name, rest, LAMBDA s : netboxSetup(a[1], a[2], s)))
         [] name = "ddns" -> Built(name, rest, ddnsSetup)
         [] name = "leasehook" -> Built(name, rest, leasehookSetup)
         [] name = "ratelimit" ->
              First(parseRate(at(1)), LAMBDA r :
                Built(name, rest, LAMBDA s : ratelimitSetup(r, s)))
         [] name \in {"range", "range6"} ->
              First(Parsed(at(2)) \X Parsed(at(3)) \X Parsed(at(4)), LAMBDA a :
                Built(name, rest, LAMBDA s : rangeSetup(v6, at(1), a[1], a[2], a[3], s)))
         [] name = "prefix" ->
              First(Parsed(at(1)) \X Parsed(at(2)) \X parseLeaseDuration(rest), LAMBDA a :
                Built(name, a[3].rest, LAMBDA s : prefixSetup(a[1], a[2], a[3].lease, s)))

-----------------------------------------------------------------------------
(* A line, written word by word and then loaded. *)

setupOf(p, args) ==
  CASE p = "relay" -> relaySetup(args)
    [] p = "relayinfo4" -> relayinfoSetup(args, FALSE)
    [] p = "relayinfo6" -> relayinfoSetup(args, TRUE)
    [] OTHER -> namedSetup(p, args)

Init ==
  /\ plugin \in Lines
  /\ line \in Starts(plugin)
  /\ loaded = {}

(* One more word on the line. *)
Write ==
  /\ loaded = {} /\ Len(line) < Longest(plugin)
  /\ \E w \in Words(plugin) : line' = Append(line, w)
  /\ UNCHANGED <<plugin, loaded>>

Load == loaded = {} /\ loaded' = {setupOf(plugin, line)} /\ UNCHANGED <<plugin, line>>

Next == Write \/ Load

Spec == Init /\ [][Next]_vars

-----------------------------------------------------------------------------
(* The orders a line may as well be written in: what has its place at the    *)
(* front stays there; relayinfo's entries stay behind allow; and of two      *)
(* values for the same name the later one stays later where it replaces the  *)
(* other or follows it in a list.                                            *)
Is(w, kinds) == w.kind \in kinds

MustPrecede(v, w) ==
  CASE plugin \in {"relayinfo4", "relayinfo6"} ->
         \/ Is(v, {"allow"}) /\ Is(w, {"allow", "entry4", "entry6"})
         \/ Is(v, {"entry4", "entry6"}) /\ Is(w, {"allow"})
         \/ Is(v, {"file", "key"}) /\ v.kind = w.kind
    [] plugin \in Replaces -> v.kind = w.kind
    [] plugin = "ddns" -> v.kind = w.kind /\ v.kind \in Repeats
    [] OTHER -> FALSE

Fixed ==
  CASE plugin = "relay" -> {1}
    [] plugin \in {"relayinfo4", "relayinfo6"} -> {}
    [] plugin = "prefix" -> {i \in DOMAIN line : \E j \in DOMAIN line : i <= j /\ Is(line[j], {"bare"})}
    [] OTHER -> 1 .. Positional(plugin)

Free == DOMAIN line \ Fixed

Rewrites ==
  {p \in Permutations(Free) :
     \A i, j \in Free : (i < j /\ MustPrecede(line[i], line[j])) => p[i] < p[j]}

Rewritten(p) ==
  [k \in DOMAIN line |-> IF k \in Free THEN line[CHOOSE i \in Free : p[i] = k] ELSE line[k]]

(* A configuration line means the same in any order its documentation        *)
(* permits, and one that is refused is refused in every such order           *)
(* (setupState, applyArg, apply, applyOption and parseOptions).              *)
SetupOrderFree == \A s \in loaded : \A p \in Rewrites : setupOf(plugin, Rewritten(p)) = s
============================================================================
