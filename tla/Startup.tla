------------------------------ MODULE Startup --------------------------------
(***************************************************************************)
(* From the configuration file to a running chain: config/config.go and    *)
(* config/listen.go turn each server section into listen addresses and a   *)
(* list of plugins, plugins/plugin.go sets the plugins up one after the    *)
(* other, DHCPv6 before DHCPv4, and a request then runs down its family's  *)
(* chain. The links are the plugins of OptionPlugins and, where range      *)
(* stands, an allocator.                                                   *)
(***************************************************************************)
EXTENDS OptionPlugins, SequencesExt

CONSTANTS
  Configs,         \* configurations: [interfaces, server], server[family] a sequence of at most one
  Requests,        \* what clients send
  Atoi             \* the number of each text that is one

VARIABLES
  conf, phase, servers, chains, next, req, resp, at, reached

vars == <<conf, phase, servers, chains, next, req, resp, at, reached>>

Families == {4, 6}

-----------------------------------------------------------------------------
(* Listen addresses. A text is a sequence of tokens: brackets, percent       *)
(* signs, colons, and addresses, zones and ports whole.                      *)
V6Addresses == {"v6", "v6 link multicast"}
V4Addresses == {"v4", "v4 link multicast"}
LinkMulticast == {"v6 link multicast", "v4 link multicast"}

Where(s, token) == {i \in DOMAIN s : s[i] = token}
HasColon(s) == \E i \in DOMAIN s : s[i] \in V6Addresses \cup {":"}

(* net.SplitHostPort: the port follows the last colon, and only brackets let *)
(* the host have colons of its own.                                          *)
Host(host, port) ==
  LET bracketed == host # <<>> /\ Head(host) = "[" /\ Last(host) = "]"
      inner == IF bracketed THEN SubSeq(host, 2, Len(host) - 1) ELSE host
  IN  HoldsIf((bracketed \/ ~HasColon(host)) /\ Range(inner) \cap {"[", "]"} = {},
              [host |-> inner, port |-> port])

SplitHostPort(s) ==
  IF Where(s, ":") = {} THEN Failed
  ELSE LET colon == Max(Where(s, ":")) IN Host(SubSeq(s, 1, colon - 1), SubSeq(s, colon + 1, Len(s)))

(* A zone after the brackets moves inside. *)
Moved(front, rest) ==
  LET j == Min(Where(rest, ":") \cup {Len(rest) + 1})
  IN  front \o <<"%">> \o SubSeq(rest, 1, j - 1) \o <<"]">> \o SubSeq(rest, j, Len(rest))

ZoneInside(s) ==
  LET outside == {i \in 1 .. Len(s) - 1 : s[i] = "]" /\ s[i + 1] = "%"}
      i == Min(outside)
  IN  IF outside = {} THEN s ELSE Moved(SubSeq(s, 1, i - 1), SubSeq(s, i + 2, Len(s)))

CutZone(h) ==
  LET i == Max(Where(h.host, "%") \cup {0}) IN
  IF i = 0 THEN [ip |-> h.host, zone |-> <<>>, port |-> h.port]
  ELSE [ip |-> SubSeq(h.host, 1, i - 1), zone |-> SubSeq(h.host, i + 1, Len(h.host)), port |-> h.port]

(* A text without a port is tried again with one, which is then forgotten.   *)
EitherWay(split, alt) ==
  IF split # Failed THEN <<CutZone(split[1])>>
  ELSE [k \in DOMAIN alt |-> CutZone([alt[k] EXCEPT !.port = <<>>])]

SplitTwice(s) == EitherWay(SplitHostPort(s), SplitHostPort(s \o <<":", "0">>))

splitHostPort(text) == SplitTwice(ZoneInside(text))

defaultIP(family) == IF family = 4 THEN "v4 any" ELSE "v6 any"
defaultPort(family) == IF family = 4 THEN 67 ELSE 547

(* The address of the parts s, of a family's own and with a port that is a   *)
(* number, each with its default where it was left out.                      *)
AddressOf(family, s) ==
  HoldsIf(/\ s.ip = <<>> \/ (Len(s.ip) = 1 /\ s.ip[1] \in IF family = 4 THEN V4Addresses ELSE V6Addresses)
          /\ Range(s.port) \subseteq DOMAIN Atoi,
          [ip |-> IF s.ip = <<>> THEN defaultIP(family) ELSE s.ip[1],
           zone |-> s.zone,
           port |-> IF s.port = <<>> THEN defaultPort(family) ELSE Atoi[s.port[1]]])

getListenAddress(family, split) == IF split = Failed THEN Failed ELSE AddressOf(family, split[1])

(* One address per interface that can take part. *)
expandLLMulticast(family, interfaces, addr) ==
  LET fit == SelectSeq(interfaces, LAMBDA i : i.multicast /\ (family = 4 => i.broadcast))
  IN  [k \in DOMAIN fit |-> [addr EXCEPT !.zone = <<fit[k].name>>]]

Group(ip) == [ip |-> ip, zone |-> <<>>, port |-> defaultPort(6)]

AndSite(links) == HoldsIf(links # <<>>, Append(links, Group("v6 site multicast")))

defaultListen(family, interfaces) ==
  IF family = 4 THEN Holds(<<[ip |-> "v4 any", zone |-> <<>>, port |-> defaultPort(4)]>>)
  ELSE AndSite(expandLLMulticast(6, interfaces, Group("v6 link multicast")))

(* The address a text stands for, or those it expands to; none is an error.  *)
Expanded(family, interfaces, l) ==
  IF l # Failed /\ l[1].zone = <<>> /\ l[1].ip \in LinkMulticast
  THEN expandLLMulticast(family, interfaces, l[1]) ELSE l

AllOf(each) == HoldsIf(Failed \notin Range(each), FlattenSeq(each))

Listeners(family, interfaces, texts) ==
  AllOf([i \in DOMAIN texts |->
           Expanded(family, interfaces, getListenAddress(family, splitHostPort(texts[i])))])

(* The keyword interface stands for a listen address of that zone alone. *)
parseListen(family, interfaces, section) ==
  IF section.interface # <<>> /\ section.listen # <<>> THEN Failed
  ELSE IF section.interface = <<>> /\ section.listen = <<>> THEN defaultListen(family, interfaces)
  ELSE Listeners(family, interfaces,
                 IF section.listen = <<>> THEN <<<<"%">> \o section.interface>> ELSE section.listen[1])

(* A plugin entry is a map with one key; a list that is absent is an error.  *)
parsePlugins(section) ==
  HoldsIf(section.plugins # <<>> /\ \A i \in DOMAIN section.plugins[1] : Len(section.plugins[1][i]) = 1,
          [i \in DOMAIN section.plugins[1] |-> section.plugins[1][i][1]])

BothParsed(plugins, listeners) ==
  HoldsIf(plugins # Failed /\ listeners # Failed, [listen |-> listeners[1], plugins |-> plugins[1]])

parseConfig(family, interfaces, section) ==
  BothParsed(parsePlugins(section), parseListen(family, interfaces, section))

-----------------------------------------------------------------------------
(* Setting the plugins up. *)
OnlyV4 == {"mtu", "netmask", "router", "staticroute", "lease_time", "ipv6only", "autoconfigure", "range"}
Both == {"dns", "ntp", "nbp", "searchdomains", "macfilter", "sleep", "options", "bootfile"}
RegisteredPlugins == OnlyV4 \cup Both

HasSetup(family, name) == name \in Both \/ family = 4

Setup(family, line) ==
  LET a == line.args IN
  CASE line.name = "dns" -> setupDns(family, a)
    [] line.name = "ntp" -> setupNtp(family, a)
    [] line.name = "mtu" -> setupMtu(a)
    [] line.name = "netmask" -> setupNetmask(a)
    [] line.name = "router" -> setupRouter(a)
    [] line.name = "nbp" -> setupNbp(a)
    [] line.name = "searchdomains" -> setupSearchdomains(a)
    [] line.name = "staticroute" -> setupStaticroute(a)
    [] line.name = "lease_time" -> setupLeasetime(a)
    [] line.name = "ipv6only" -> setupIpv6only(a)
    [] line.name = "autoconfigure" -> setupAutoconfigure(a)
    [] line.name = "macfilter" -> setupMacfilter(a)
    [] line.name = "sleep" -> setupSleep(a)
    [] line.name = "options" -> setupOptions(family, a)
    [] line.name = "bootfile" -> setupBootfile(a)
    [] line.name = "range" -> Holds(a[1].value)

(* The allocator (module Range): an address and its lease time for who asks, *)
(* or no answer from a pool that is full.                                    *)
HandleRange(p, r, reply) ==
  IF r.type \notin {"Discover", "Request"} THEN Goes(reply)
  ELSE IF p = "full" THEN Drops
  ELSE Goes(Update([reply EXCEPT !.yiaddr = TRUE], Code(4).leasetime, 1))

Handle(link, r, reply) ==
  LET p == link.state IN
  CASE link.name = "dns" -> HandleDns(p, r, reply)
    [] link.name = "ntp" -> HandleNtp(p, r, reply)
    [] link.name = "mtu" -> HandleMtu(p, r, reply)
    [] link.name = "netmask" -> HandleNetmask(p, r, reply)
    [] link.name = "router" -> HandleRouter(p, r, reply)
    [] link.name = "nbp" -> HandleNbp(p, r, reply)
    [] link.name = "searchdomains" -> HandleSearchdomains(p, r, reply)
    [] link.name = "staticroute" -> HandleStaticroute(p, r, reply)
    [] link.name = "lease_time" -> HandleLeasetime(p, r, reply)
    [] link.name = "ipv6only" -> HandleIpv6only(p, r, reply)
    [] link.name = "autoconfigure" -> HandleAutoconfigure(p, r, reply)
    [] link.name = "macfilter" -> HandleMacfilter(p, r, reply)
    [] link.name = "sleep" -> HandleSleep(p, r, reply)
    [] link.name = "options" -> HandleOptions(p, r, reply)
    [] link.name = "bootfile" -> HandleBootfile(p, r, reply)
    [] link.name = "range" -> HandleRange(p, r, reply)

-----------------------------------------------------------------------------
Idle == <<>>

Init ==
  /\ conf \in Configs
  /\ phase = <<"parse", 6>>
  /\ servers = [f \in Families |-> <<>>]
  /\ chains = [f \in Families |-> <<>>]
  /\ next = 1
  /\ req = Idle /\ resp = Idle /\ at = 0 /\ reached = FALSE

(* Load: one section after the other. An absent one is fine as long as the   *)
(* other is there.                                                           *)
Parse(family, after) ==
  /\ phase = <<"parse", family>>
  /\ servers' = IF conf.server[family] = <<>> THEN servers
                ELSE [servers EXCEPT ![family] = parseConfig(family, conf.interfaces, conf.server[family][1])]
  /\ phase' = IF /\ servers'[family] = <<>>
                 /\ conf.server[family] # <<>> \/ (family = 4 /\ servers[6] = <<>>)
              THEN <<"failed">> ELSE after
  /\ UNCHANGED <<conf, chains, next, req, resp, at, reached>>

Lines(family) == IF servers[family] = <<>> THEN <<>> ELSE servers[family][1].plugins

(* newLink4, newLink6: one more link, if the setup succeeded. *)
Extended(chain, line, setup) ==
  [k \in DOMAIN setup |-> Append(chain, [name |-> line.name, args |-> line.args, state |-> setup[k]])]

(* The chain after one more line: one unknown or badly configured ends the   *)
(* load, one without a setup for the family is skipped.                      *)
LoadedLine(family, chain, line) ==
  IF line.name \notin RegisteredPlugins THEN Failed
  ELSE IF ~HasSetup(family, line.name) THEN Holds(chain)
  ELSE Extended(chain, line, Setup(family, line))

loadHandlers(family, after) ==
  /\ phase = <<"load", family>>
  /\ IF next > Len(Lines(family)) THEN phase' = after /\ next' = 1 /\ chains' = chains
     ELSE \E loaded \in {LoadedLine(family, chains[family], Lines(family)[next])} :
            IF loaded = Failed THEN phase' = <<"failed">> /\ UNCHANGED <<chains, next>>
            ELSE phase' = phase /\ next' = next + 1 /\ chains' = [chains EXCEPT ![family] = loaded[1]]
  /\ UNCHANGED <<conf, servers, req, resp, at, reached>>

(* The server's own reply, before the chain has seen it. *)
BaseReply(r) ==
  [type |-> IF r.type = "Discover" THEN "Offer" ELSE "Ack", yiaddr |-> FALSE, opts |-> <<>>]

(* A request arrives; one is enough, since no link keeps anything. *)
Arrive ==
  /\ phase = <<"serving">> /\ req = Idle
  /\ \E r \in Requests :
       /\ servers[r.family] # <<>>
       /\ req' = <<r>> /\ resp' = <<BaseReply(r)>>
  /\ at' = 1
  /\ UNCHANGED <<conf, phase, servers, chains, next, reached>>

Chain == chains[req[1].family]

(* One link of the chain; one that stops it is the last. *)
RunLink ==
  /\ req # Idle /\ at \in DOMAIN Chain
  /\ \E out \in {Handle(Chain[at], req[1], resp[1])} :
       resp' = <<out.resp>> /\ at' = IF out.stop THEN Len(Chain) + 1 ELSE at + 1
  /\ reached' = (reached \/ Chain[at].name = "range")
  /\ UNCHANGED <<conf, phase, servers, chains, next, req>>

Served == req # Idle /\ at > Len(Chain)
Over == (phase = <<"failed">> \/ Served) /\ UNCHANGED vars

Next ==
  \/ Parse(6, <<"parse", 4>>) \/ Parse(4, <<"load", 6>>)
  \/ loadHandlers(6, <<"load", 4>>) \/ loadHandlers(4, <<"serving">>)
  \/ Arrive \/ RunLink \/ Over

Spec == Init /\ [][Next]_vars

-----------------------------------------------------------------------------
LeadingOnes == {2 ^ maskBits - 2 ^ k : k \in 0 .. maskBits - 1}

(* The interfaces a group named without one covers. *)
Covered(family) ==
  {i.name : i \in {k \in Range(conf.interfaces) : k.multicast /\ (family = 4 => k.broadcast)}}

(* The address l is what the text t says, whatever order it says it in. *)
AsWritten(family, t, l) ==
  LET words == Range(t) \ {"[", "]", "%", ":"}
      ips == words \cap (V4Addresses \cup V6Addresses)
      ports == words \cap DOMAIN Atoi
      zones == words \ (ips \cup ports)
  IN  /\ l.ip \in IF ips = {} THEN {defaultIP(family)} ELSE ips
      /\ l.port \in IF ports = {} THEN {defaultPort(family)} ELSE {Atoi[p] : p \in ports}
      /\ IF zones = {} /\ l.ip \in LinkMulticast THEN Range(l.zone) \subseteq Covered(family)
         ELSE Range(l.zone) = zones

(* A server that came up runs what it was told to (LoadChains, Load). For a  *)
(* family with a section, the chain is the lines the family supports, in     *)
(* their order, and a netmask it sends has its ones in front. The addresses  *)
(* it listens on are of the family; a link-local group named without an      *)
(* interface is joined on every interface that can take part, and one named  *)
(* with an interface there alone, wherever the zone was written; without a   *)
(* listen line no wildcard DHCPv6 address is opened. Every line has an       *)
(* address that is its own in address, port and zone, with the default for   *)
(* what it leaves out, and there is no address no line asked for. A family   *)
(* without a section has neither chain nor address.                          *)
StartsAsConfigured ==
  phase = <<"serving">> => \A f \in Families :
    IF conf.server[f] = <<>> THEN chains[f] = <<>> /\ servers[f] = <<>>
    ELSE LET section == conf.server[f][1]
             supported == SelectSeq(section.plugins[1], LAMBDA e : f = 4 \/ e[1].name \in Both)
             listen == Range(servers[f][1].listen)
             zones(ip) == {l.zone : l \in {k \in listen : k.ip = ip}}
             named(t) == IF Range(t) \cap Covered(f) = {} THEN Covered(f) ELSE Range(t) \cap Covered(f)
         IN  /\ [i \in DOMAIN chains[f] |-> chains[f][i].name] =
                [i \in DOMAIN supported |-> supported[i][1].name]
             /\ \A l \in Range(chains[f]) : l.name = "netmask" => l.state \in LeadingOnes
             /\ \A l \in listen : l.ip \notin IF f = 4 THEN V6Addresses ELSE V4Addresses
             /\ \A k \in DOMAIN section.listen : \A t \in Range(section.listen[k]) :
                  \A ip \in LinkMulticast \cap Range(t) : zones(ip) = {<<z>> : z \in named(t)}
             /\ f = 6 /\ section.listen = <<>> /\ section.interface = <<>> =>
                  {l.ip : l \in listen} = {"v6 link multicast", "v6 site multicast"}
             /\ section.listen # <<>> \/ section.interface # <<>> =>
                  LET texts == IF section.listen = <<>> THEN {section.interface} ELSE Range(section.listen[1])
                  IN  /\ \A t \in texts : \E l \in listen : AsWritten(f, t, l)
                      /\ \A l \in listen : \E t \in texts : AsWritten(f, t, l)

Refuses(link, r) ==
  /\ link.name = "macfilter"
  /\ IF link.state.allow THEN r.mac \notin link.state.macs ELSE r.mac \in link.state.macs

(* Who the allocator sees: everybody no filter before it refuses, unless nbp *)
(* comes first, which ends every chain. Of those, a client asking for an     *)
(* address may have been told to do without it, by ipv6only where it asked   *)
(* and by autoconfigure where it would not have understood. A release and a  *)
(* decline get through both, or the address would stay taken.                *)
PoolReached ==
  Served /\ (\E i \in DOMAIN Chain : Chain[i].name = "range") =>
    LET r == req[1]
        pool == Min({i \in DOMAIN Chain : Chain[i].name = "range"})
        before == {Chain[i] : i \in 1 .. pool - 1}
        silenced(l) == l.name = "autoconfigure" /\ r.type = "Discover" /\ ~r.autoconf
        without(l) == l.name = "ipv6only" /\ r.type \notin {"Release", "Decline"} /\ IsOptionRequested(r, 108)
    IN  reached = (\A l \in before : l.name # "nbp" /\ ~Refuses(l, r) /\ ~silenced(l) /\ ~without(l))

(* What a link would have put on a reply alone, with an address on it if the *)
(* allocator comes before it.                                                *)
Alone(i) ==
  LET addressed == /\ req[1].type \in {"Discover", "Request"}
                   /\ \E j \in 1 .. i - 1 : Chain[j].name = "range"
  IN  Handle(Chain[i], req[1], [BaseReply(req[1]) EXCEPT !.yiaddr = addressed])

(* The links do not disturb one another: every option of a reply is what the *)
(* last link to write it would have written alone, up to the one that ended  *)
(* the chain; the lease time is that of the allocator or the options plugin, *)
(* and otherwise of the first lease_time; and no option is lost or comes     *)
(* from nowhere. A client that runs iPXE is not sent back to the program     *)
(* that loaded it, where bootfile has an entry for iPXE.                     *)
ReplyAsConfigured ==
  Served /\ resp[1] # Nil =>
    LET stops == {i \in DOMAIN Chain : Alone(i).stop}
        ran == IF stops = {} THEN DOMAIN Chain ELSE 1 .. Min(stops)
        writers(c) == {i \in ran : c \in DOMAIN Alone(i).resp.opts}
        strong(c) == {i \in writers(c) : Chain[i].name # "lease_time"}
        from(c) == IF strong(c) # {} THEN Max(strong(c)) ELSE Min(writers(c))
        codes == UNION {DOMAIN Alone(i).resp.opts : i \in ran}
        boot == Code(req[1].family).bootfile
    IN  /\ resp[1].opts = [c \in codes |-> Alone(from(c)).resp.opts[c]]
        /\ req[1].ipxe /\ boot \in codes /\ Chain[from(boot)].name = "bootfile" =>
             \A k \in DOMAIN Chain[from(boot)].state \ {<<"ipxe", 0>>} :
               <<"ipxe", 0>> \in DOMAIN Chain[from(boot)].state =>
                 resp[1].opts[boot] \notin {Chain[from(boot)].state[k].path, Chain[from(boot)].state[k].text}
=============================================================================
