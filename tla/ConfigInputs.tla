---------------------------- MODULE ConfigInputs ----------------------------
(***************************************************************************)
(* The configuration that MCChain works with: the lines plugins with named *)
(* arguments are set up from, per plugin what its lines start with and the *)
(* arguments that may follow; then the configurations a server is started  *)
(* with, and the requests that reach it.                                   *)
(***************************************************************************)
EXTENDS Integers, Sequences

CONSTANTS
  Entries,   \* relayinfo's addresses, by family
  MaxWords,  \* bound: the longest line of relay and relayinfo
  MaxNamed   \* bound: how many arguments may follow in the others

Word(k, v) == [kind |-> k, value |-> v]
Bare(v) == Word("bare", v)
Env(name) == [env |-> TRUE, text |-> name]
Text(value) == [env |-> FALSE, text |-> value]
Getenv(name) == IF name = "SET" THEN "value" ELSE ""

Lines == {"relay", "relayinfo4", "relayinfo6", "redis4", "redis6", "file4", "file6", "netbox", "ddns",
          "leasehook", "ratelimit", "range", "range6", "prefix"}

-----------------------------------------------------------------------------
(* relay and relayinfo *)
RelayWords ==
  {Word("allow", ""), Word("strict-giaddr", ""), Word("release-check", "on"),
   Word("release-check", "off"), Word("file", "f"), Word("key", "remote-id"),
   Word("key", "circuit-id"), Word("autorefresh", ""), Word("entry4", Entries[4]),
   Word("entry6", Entries[6]), Word("unusable", "")}

(* redis and file *)
RedisAddress(scheme, host, port, db, password) ==
  [scheme |-> scheme, host |-> host, port |-> port, db |-> db,
   username |-> IF password = "" THEN "" ELSE "u", password |-> password]
RedisStarts ==
  {<<Bare(RedisAddress(a[1], a[2], a[3], a[4], a[5]))>> :
     a \in {<<"", "h", <<6379>>, <<0>>, "">>, <<"", "h", <<>>, <<0>>, "">>, <<"rediss", "h", <<>>, <<1>>, "p">>,
            <<"redis", "h", <<65536>>, <<0>>, "">>, <<"redis", "h", <<1>>, <<>>, "">>,
            <<"http", "h", <<1>>, <<0>>, "">>, <<"", "", <<1>>, <<0>>, "">>}}
KeyWords == {Word("key", k) : k \in {"mac", "duid", "client-id", "name"}}
RedisWords ==
  KeyWords \cup {Word("prefix", ""), Word("prefix", "p:"), Word("timeout", <<1>>), Word("timeout", <<0>>),
                 Word("lifetime", <<>>), Word("password", Env("SET")), Word("password", Env("UNSET")),
                 Word("password", Text("q")), Bare("x")}

(* netbox *)
Base(scheme, host, query, slash) == [scheme |-> scheme, host |-> host, query |-> query, slash |-> slash]
NetboxStarts ==
  {<<Bare(b), Bare(t)>> :
     b \in {Base("https", "n", FALSE, TRUE), Base("https", "n", TRUE, FALSE), Base("", "n", FALSE, FALSE)},
     t \in {Env("SET"), Text("t"), Env(""), Text("")}}
NetboxWords ==
  {Word("ttl", <<7>>), Word("ttl", <<8>>), Word("negative-ttl", <<9>>), Word("timeout", <<0>>),
   Word("lifetime", <<1>>), Bare("x")}

-----------------------------------------------------------------------------
(* ddns *)
Name(labels) == [labels |-> [i \in DOMAIN labels |-> <<labels[i], FALSE>>], dot |-> FALSE]
Server == Word("server", [addr |-> "s", port |-> <<>>])
Key == Word("key", [name |-> "k", secret |-> Text("v")])
ZoneWord == Word("zone", [labels |-> <<<<"z", TRUE>>>>, dot |-> TRUE])
Net(octets, bits) == [addr |-> [v4 |-> TRUE, octets |-> octets], bits |-> bits]
DdnsWords ==
  {Server, Word("server", [addr |-> "s", port |-> <<0>>]), ZoneWord, Word("zone", Name(<<"-">>)),
   Key, Word("key", [name |-> "k", secret |-> Env("UNSET")]), Word("algo", "hmac-sha512"), Word("algo", "md5"),
   Word("ttl", <<0>>), Word("ttl", <<-1>>), Word("reverse", Net(<<1, 2>>, 2)), Word("reverse", Net(<<1, 2>>, 3)),
   Word("queue", <<1>>), Word("remove-on-release", "off"), Word("protect", <<Name(<<"a">>), Name(<<"b", "z">>)>>),
   Word("protect", <<Name(<<"b", "y">>)>>), Word("timeout", <<1>>)}

DdnsStarts == {<<Server, Key>>} \cup {<<Server, w, Key>> : w \in DdnsWords}

(* leasehook *)
LeasehookWords ==
  {Word("url", [scheme |-> "http", host |-> "h"]), Word("url", [scheme |-> "ftp", host |-> "h"]),
   Word("exec", [absolute |-> TRUE]), Word("exec", [absolute |-> FALSE]), Word("secret", Env("SET")),
   Word("timeout", <<1>>), Word("queue", <<0>>), Word("events", {"ack"}), Word("events", {""})}

(* ratelimit *)
Rate(n, period) == [n |-> n, period |-> period]
RatelimitStarts ==
  {<<Bare(r)>> : r \in {Rate(<<2>>, "s"), Rate(<<90>>, "m"), Rate(<<30>>, "m"), Rate(<<0>>, "s"), Rate(<<1>>, "h")}}
RatelimitWords ==
  {Word("burst", <<3>>), Word("burst", <<0>>), Word("per", "both"), Word("per", "port"), Word("max", <<4>>),
   Word("global", Rate(<<5>>, "s")), Word("global", Rate(<<>>, "s"))}

-----------------------------------------------------------------------------
(* range, range6 and prefix *)
RangeStarts ==
  {<<Bare("db"), Bare(<<1>>), Bare(b), Bare(t)>> : b \in {<<0>>, <<1>>, <<40>>, <<400>>}, t \in {<<90>>, <<0>>}}
  \cup {<<Bare(f), Bare(a), Bare(<<40>>), Bare(t)>> : f \in {"db", ""}, a \in {<<1>>, <<>>}, t \in {<<90>>, <<>>}}
RangeWords ==
  {Word("sweep", <<7>>), Word("sweep", <<0>>), Word("decline-probation", <<0>>), Word("decline-max", <<0>>),
   Word("max-leases", <<2>>), Word("max-leases", <<-1>>), Bare("x")}
PrefixStarts ==
  {<<Bare(a), Bare(b)>> : a \in {<<48>>, <<>>}, b \in {<<64>>, <<48>>, <<47>>, <<112>>, <<129>>, <<>>}}
PrefixWords ==
  {Bare(<<90>>), Bare(<<0>>), Word("sweep", <<7>>), Word("max-prefixes", <<0>>), Word("max-prefixes", <<2>>)}

-----------------------------------------------------------------------------
Starts(p) ==
  CASE p \in {"relay", "relayinfo4", "relayinfo6", "leasehook"} -> {<<>>}
    [] p \in {"redis4", "redis6"} -> RedisStarts
    [] p \in {"file4", "file6"} -> {<<Bare("f")>>, <<Bare("")>>}
    [] p = "netbox" -> NetboxStarts
    [] p = "ddns" -> DdnsStarts
    [] p = "ratelimit" -> RatelimitStarts
    [] p \in {"range", "range6"} -> RangeStarts
    [] p = "prefix" -> PrefixStarts

Words(p) ==
  CASE p \in {"relay", "relayinfo4", "relayinfo6"} -> RelayWords
    [] p \in {"redis4", "redis6"} -> RedisWords
    [] p \in {"file4", "file6"} -> KeyWords \cup {Word("autorefresh", ""), Bare("x")}
    [] p = "netbox" -> NetboxWords
    [] p = "ddns" -> DdnsWords
    [] p = "leasehook" -> LeasehookWords
    [] p = "ratelimit" -> RatelimitWords
    [] p \in {"range", "range6"} -> RangeWords
    [] p = "prefix" -> PrefixWords

Longest(p) ==
  CASE p \in {"relay", "relayinfo4", "relayinfo6"} -> MaxWords
    [] p \in {"redis4", "redis6", "file4", "file6", "ratelimit"} -> 1 + MaxNamed
    [] p \in {"netbox", "prefix"} -> 2 + MaxNamed
    [] p \in {"range", "range6"} -> 4 + MaxNamed
    [] p = "ddns" -> 2 + MaxNamed
    [] p = "leasehook" -> 1 + MaxNamed

-----------------------------------------------------------------------------
(* Whole configurations. *)
Families == {4, 6}
Absent == "absent"

A(kind, value) == [kind |-> kind, value |-> value]
L(name, args) == [name |-> name, args |-> args]
Url(scheme, name, params) ==
  [scheme |-> scheme, host |-> name, path |-> "/" \o name, params |-> params, text |-> scheme \o name]
Entry(key, code, url) == A("entry", [key |-> key, code |-> code, url |-> url])
Spec1(code, type, text, value) == A("spec", [code |-> code, type |-> type, text |-> text, value |-> value])

Lines4 == {
  L("dns", <<A("ip4", "a")>>),
  L("nbp", <<A("url", Url("http", "n", ""))>>),
  L("lease_time", <<A("duration", 5)>>), L("lease_time", <<A("duration", 7)>>),
  L("ipv6only", <<>>), L("autoconfigure", <<>>),
  L("macfilter", <<A("mode", "allow"), A("mac", "m1")>>),
  L("macfilter", <<A("mode", "deny"), A("macfile", {"m2"})>>),
  L("options", <<Spec1(6, "iplist", "iplist4", 2), Spec1(51, "uint32", "number", 9)>>),
  L("bootfile", <<Entry("x86_64_http", 0, Url("http", "x", "")), Entry("ipxe", 0, Url("tftp", "i", "")),
                  Entry("default", 0, Url("tftp", "d", ""))>>),
  L("range", <<A("pool", "pool")>>)}

Alone4 == {
  L("mtu", <<A("number", 68)>>), L("mtu", <<A("number", 67)>>), L("sleep", <<A("duration", 1)>>),
  L("sleep", <<>>), L("router", <<A("ip4", "r")>>), L("router", <<A("ip6", "r")>>),
  L("staticroute", <<A("route4", "s")>>), L("searchdomains", <<A("word", "d")>>), L("ntp", <<A("ip4", "t")>>),
  L("ntp", <<A("ip6", "t")>>), L("dns", <<A("ip6", "a")>>), L("dns", <<>>), L("unheard", <<>>),
  L("bootfile", <<Entry("x86_64_uefi", 0, Url("tftp", "x", "")), Entry("arch", 7, Url("tftp", "y", ""))>>),
  L("bootfile", <<Entry("arch", 7, Url("gopher", "y", ""))>>),
  L("options", <<Spec1(256, "string", "word", 3)>>), L("options", <<Spec1(42, "uint8", "number", 256)>>),
  L("ipv6only", <<A("word", "w")>>), L("lease_time", <<>>), L("nbp", <<A("url", Url("tftp", "n", ""))>>),
  L("macfilter", <<A("mode", "allow")>>), L("range", <<A("pool", "full")>>)}
  \cup {L("netmask", <<A("mask", m)>>) : m \in 0 .. 15}

Lines6 == {
  L("dns", <<A("ip6", "a")>>), L("dns", <<A("ip4", "a")>>), L("ntp", <<A("ip4", "t")>>),
  L("ntp", <<A("ip6", "t")>>), L("router", <<A("ip4", "r")>>), L("searchdomains", <<>>),
  L("nbp", <<A("url", Url("http", "n", "p"))>>),
  L("macfilter", <<A("mode", "allow"), A("mac", "m1")>>), L("macfilter", <<A("mode", "deny"), A("mac", "m1")>>),
  L("options", <<Spec1(23, "ip", "ip6", 2)>>),
  L("bootfile", <<Entry("arch", 16, Url("http", "x", "q")), Entry("default", 0, Url("http", "d", ""))>>)}

Section(listen, interface, lines) ==
  <<[listen |-> listen, interface |-> interface, plugins |-> <<[i \in DOMAIN lines |-> <<lines[i]>>]>>]>>
Default(lines) == Section(<<>>, <<>>, lines)

Ifs == <<[name |-> "lo", multicast |-> FALSE, broadcast |-> FALSE],
         [name |-> "eth0", multicast |-> TRUE, broadcast |-> TRUE],
         [name |-> "tun0", multicast |-> TRUE, broadcast |-> FALSE]>>
Conf(ifs, s6, s4) == [interfaces |-> ifs, server |-> [f \in Families |-> IF f = 6 THEN s6 ELSE s4]]

UpTo(n, S) == UNION {[1 .. k -> S] : k \in 0 .. n}

Dns4 == <<L("dns", <<A("ip4", "a")>>)>>
Dns6 == <<L("dns", <<A("ip6", "a")>>)>>
Texts == {<<"v4">>, <<"v4", ":", "1067">>, <<":", "1067">>, <<"%", "eth0">>, <<"v4", "%", "eth0", ":", "x">>, <<"word">>,
          <<"v6">>, <<"[", "v6", "]">>, <<"[", "v6", "%", "eth0", "]", ":", "1067">>, <<"[", "v6", "]", "%", "eth0", ":", "1067">>,
          <<"[", "v6 link multicast", "]">>, <<"[", "v6 link multicast", "%", "eth0", "]">>,
          <<"[", "v6 link multicast", "]", "%", "eth0">>, <<"[", "v6 link multicast", "]", "%", "eth0", ":", "1067">>,
          <<"v4 link multicast">>, <<"v4 link multicast", "%", "eth0">>}

Configs ==
  {Conf(Ifs, <<>>, Default(l)) : l \in UpTo(3, Lines4)}
  \cup {Conf(Ifs, <<>>, Default(<<l, L("range", <<A("pool", "pool")>>)>>)) : l \in Alone4}
  \cup {Conf(Ifs, Default(l), <<>>) : l \in UpTo(2, Lines6)}
  \cup {Conf(Ifs, Section(<<<<t>>>>, <<>>, Dns6), Section(<<<<u>>>>, <<>>, Dns4)) : t, u \in Texts}
  \cup {Conf(i, s, t) : i \in {<<>>, Ifs}, s \in {<<>>, Default(Dns6)}, t \in {<<>>, Section(<<>>, <<"eth0">>, Dns4),
          Section(<<<<<<"v4">>>>>>, <<"eth0">>, Dns4),
          <<[listen |-> <<>>, interface |-> <<>>, plugins |-> <<>>]>>,
          <<[listen |-> <<>>, interface |-> <<>>, plugins |-> <<<<<<Dns4[1], Dns4[1]>>>>>>]>>}}

R4(type, listed, asked, mac, autoconf, ipxe, archs) ==
  [family |-> 4, type |-> type, listed |-> listed, asked |-> asked, mac |-> mac, autoconf |-> autoconf,
   ipxe |-> ipxe, archs |-> archs]
Requests ==
  {R4("Discover", FALSE, {}, "m1", FALSE, FALSE, <<>>),
   R4("Discover", TRUE, {6, 66, 67}, "m1", TRUE, TRUE, <<7, 16>>),
   R4("Discover", TRUE, {67}, "m3", FALSE, FALSE, <<7, 16>>),
   R4("Request", TRUE, {108}, "m1", FALSE, FALSE, <<>>),
   R4("Request", TRUE, {6, 66}, "m2", FALSE, FALSE, <<0>>),
   R4("Inform", TRUE, {6}, "m1", FALSE, FALSE, <<>>),
   R4("Release", FALSE, {}, "m1", FALSE, FALSE, <<>>),
   R4("Decline", FALSE, {}, "m2", FALSE, FALSE, <<>>)}
  \cup {[family |-> 6, type |-> t, listed |-> TRUE, asked |-> a, mac |-> m, autoconf |-> FALSE,
         ipxe |-> FALSE, archs |-> r] :
          t \in {"Solicit"}, a \in {{}, {23, 59, 60}}, m \in {"m1", Absent}, r \in {<<>>, <<7, 16>>}}
Atoi == [t \in {"1067"} |-> 1067]
=============================================================================
