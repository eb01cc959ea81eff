--------------------------- MODULE OptionPlugins ----------------------------
(***************************************************************************)
(* The plugins that put options on a reply or filter requests and keep no  *)
(* state of their own: plugins/dns, ntp, mtu, netmask, router, nbp,        *)
(* searchdomains, staticroute, leasetime, ipv6only, autoconfigure,         *)
(* macfilter, sleep, options and bootfile. Each has a setup, from its      *)
(* arguments to what it holds or an error, and a handler, from request and *)
(* reply to [resp, stop]. An argument is [kind, value], its kind being     *)
(* what the text parses as. A reply is [type, yiaddr, opts], with opts a   *)
(* function from option codes to values, or Nil for a request dropped. A   *)
(* relayed DHCPv6 request whose inner message cannot be read is turned     *)
(* away before the chain (Dispatch), so no handler here meets one.         *)
(***************************************************************************)
EXTENDS Integers, Sequences, FiniteSets, Bitwise

CONSTANTS
  maskBits,        \* the width of a netmask
  minMTU, maxMTU

Nil == [type |-> "nil"]

(* What a setup returns: what the plugin will hold, or nothing on an error. *)
Failed == <<>>
Holds(state) == <<state>>
HoldsIf(ok, state) == IF ok THEN Holds(state) ELSE Failed

(* A value where there is one, or Absent. *)
Absent == "absent"

Update(resp, code, value) ==
  [resp EXCEPT !.opts = [c \in DOMAIN @ \cup {code} |-> IF c = code THEN value ELSE @[c]]]

UpdateIf(asked, resp, code, value) == IF asked THEN Update(resp, code, value) ELSE resp

Goes(resp) == [resp |-> resp, stop |-> FALSE]
Stops(resp) == [resp |-> resp, stop |-> TRUE]
Drops == Stops(Nil)

(* The codes of the options, by family. *)
Code(family) ==
  IF family = 4
  THEN [mask |-> 1, router |-> 3, dns |-> 6, mtu |-> 26, ntp |-> 42, leasetime |-> 51, class |-> 60,
        tftp |-> 66, bootfile |-> 67, v6only |-> 108, autoconf |-> 116, search |-> 119, routes |-> 121]
  ELSE [class |-> 16, dns |-> 23, search |-> 24, ntp |-> 56, bootfile |-> 59, bootparam |-> 60]

(* A DHCPv4 request without a parameter request list asks for everything, a  *)
(* DHCPv6 request without an option request option for nothing.              *)
IsOptionRequested(req, code) == code \in req.asked \/ (req.family = 4 /\ ~req.listed)

Kinds(args) == {args[i].kind : i \in DOMAIN args}
Values(args) == [i \in DOMAIN args |-> args[i].value]

-----------------------------------------------------------------------------
(* The lists of addresses: at least one, each of a kind the option carries.  *)
AddressList(args, kinds) == HoldsIf(args # <<>> /\ Kinds(args) \subseteq kinds, Values(args))

setupDns(family, args) == AddressList(args, IF family = 4 THEN {"ip4"} ELSE {"ip4", "ip6"})
setupNtp(family, args) == AddressList(args, IF family = 4 THEN {"ip4"} ELSE {"ip6"})
setupRouter(args) == AddressList(args, {"ip4"})
setupStaticroute(args) == AddressList(args, {"route4"})

setupMtu(args) ==
  HoldsIf(Len(args) = 1 /\ Kinds(args) = {"number"} /\ args[1].value \in minMTU .. maxMTU, args[1].value)

(* The complement plus one has no bit in common with it. *)
checkValidNetmask(mask) ==
  LET x == 2 ^ maskBits - 1 - mask
      y == (x + 1) % 2 ^ maskBits
  IN  y & x = 0

setupNetmask(args) ==
  HoldsIf(/\ Len(args) = 1 /\ Kinds(args) = {"mask"}
          /\ args[1].value # 0
          /\ checkValidNetmask(args[1].value),
          args[1].value)

setupSearchdomains(args) == Holds(Values(args))

setupSleep(args) == HoldsIf(Len(args) = 1 /\ Kinds(args) = {"duration"}, args[1].value)

(* What follows the first argument is not looked at. *)
setupLeasetime(args) ==
  HoldsIf(args # <<>> /\ args[1].kind = "duration", args[1].value)

AtMostOne(args, kind, default) ==
  IF args = <<>> THEN Holds(default)
  ELSE HoldsIf(Len(args) = 1 /\ Kinds(args) = {kind}, args[1].value)

setupIpv6only(args) == AtMostOne(args, "duration", 0)
setupAutoconfigure(args) == AtMostOne(args, "autoconf", "DoNotAutoConfigure")

HandleDns(p, req, resp) == Goes(UpdateIf(IsOptionRequested(req, Code(req.family).dns), resp, Code(req.family).dns, p))
HandleMtu(p, req, resp) == Goes(UpdateIf(IsOptionRequested(req, Code(req.family).mtu), resp, Code(req.family).mtu, p))
HandleNtp(p, req, resp) == Goes(Update(resp, Code(req.family).ntp, p))
HandleRouter(p, req, resp) == Goes(Update(resp, Code(4).router, p))
HandleStaticroute(p, req, resp) == Goes(Update(resp, Code(4).routes, p))
HandleNetmask(p, req, resp) == Goes(Update(resp, Code(4).mask, p))
HandleSearchdomains(p, req, resp) == Goes(Update(resp, Code(req.family).search, p))
HandleSleep(p, req, resp) == Goes(resp)

(* A lease time already there stays. *)
HandleLeasetime(p, req, resp) ==
  Goes(UpdateIf(req.type # "Inform" /\ Code(4).leasetime \notin DOMAIN resp.opts, resp, Code(4).leasetime, p))

takesNoReply4(type) == type \in {"Release", "Decline"}

HandleIpv6only_AnyType(p, req, resp) ==
  IF IsOptionRequested(req, Code(4).v6only) THEN Stops(Update(resp, Code(4).v6only, p)) ELSE Goes(resp)

(* A client that can do without IPv4 gets no address. What takes no reply    *)
(* asks for nothing, although it carries no list.                            *)
HandleIpv6only(p, req, resp) ==
  IF ~takesNoReply4(req.type) /\ IsOptionRequested(req, Code(4).v6only)
  THEN Stops(Update(resp, Code(4).v6only, p)) ELSE Goes(resp)

(* An offer nothing has put an address on yet. *)
HandleAutoconfigure(p, req, resp) ==
  IF resp.type # "Offer" \/ resp.yiaddr THEN Goes(resp)
  ELSE IF req.autoconf THEN Goes(Update(resp, Code(4).autoconf, p)) ELSE Drops

-----------------------------------------------------------------------------
(* macfilter. A file adds the addresses it lists. *)
setupMacfilter(args) ==
  LET rest == Tail(args)
      macs == UNION {IF rest[i].kind = "mac" THEN {rest[i].value} ELSE rest[i].value : i \in DOMAIN rest}
  IN  IF args = <<>> \/ args[1].kind # "mode" THEN Failed
      ELSE HoldsIf(Kinds(rest) \subseteq {"mac", "macfile"} /\ macs # {},
                   [allow |-> args[1].value = "allow", macs |-> macs])

drop(p, mac) == (mac \in p.macs) # p.allow

(* A DHCPv6 request may have no address to be read: then only a list of who  *)
(* is let in keeps it out.                                                   *)
HandleMacfilter(p, req, resp) ==
  LET unknown == req.family = 6 /\ req.mac = Absent IN
  IF (unknown /\ p.allow) \/ (~unknown /\ drop(p, req.mac)) THEN Drops ELSE Goes(resp)

-----------------------------------------------------------------------------
(* nbp: the boot program of every client, as a URL, which is the record of   *)
(* its text and the parts of it the plugins look at.                         *)
setupNbp(args) == HoldsIf(Len(args) = 1 /\ Kinds(args) = {"url"}, args[1].value)

(* A URL the client fetches itself goes whole into the boot file option, any *)
(* other is split into a server and a path.                                  *)
HandleNbp4(url, req, resp) ==
  LET whole == url.scheme \in {"http", "https", "ftp"}
      r == UpdateIf(~whole /\ IsOptionRequested(req, Code(4).tftp), resp, Code(4).tftp, url.host)
  IN  Stops(UpdateIf(IsOptionRequested(req, Code(4).bootfile), r, Code(4).bootfile,
                     IF whole THEN url.text ELSE url.path))

HandleNbp6(url, req, resp) ==
  LET r == UpdateIf(IsOptionRequested(req, Code(6).bootfile), resp, Code(6).bootfile, url.text)
  IN  Stops(UpdateIf(url.params # "" /\ IsOptionRequested(req, Code(6).bootparam), r,
                     Code(6).bootparam, url.params))

HandleNbp(url, req, resp) ==
  IF req.family = 4 THEN HandleNbp4(url, req, resp) ELSE HandleNbp6(url, req, resp)

-----------------------------------------------------------------------------
(* options: any code with a value of a known type, code:type:value. *)
maxCode(family) == IF family = 4 THEN 255 ELSE 65535

(* The address texts a family takes. *)
parseAddr(family) == IF family = 4 THEN {"ip4"} ELSE {"ip6"}

(* Each value type takes some kinds of text, a number only one that fits. *)
valueParsers(family) ==
  [string |-> {"word", "number", "ip4", "ip6", "iplist4", "iplist6", "hex", "bool"},
   ip |-> parseAddr(family),
   iplist |-> parseAddr(family) \cup IF family = 4 THEN {"iplist4"} ELSE {"iplist6"},
   uint8 |-> {"number"}, uint16 |-> {"number"}, uint32 |-> {"number"},
   hex |-> {"hex"}, bool |-> {"bool"}]

Limit == [uint8 |-> 2 ^ 8, uint16 |-> 2 ^ 16]

parseSpec(family, spec) ==
  /\ spec.code \in 1 .. maxCode(family)
  /\ spec.type \in DOMAIN valueParsers(family)
  /\ spec.text \in valueParsers(family)[spec.type]
  /\ spec.type \in DOMAIN Limit => spec.value < Limit[spec.type]

setupOptions(family, args) ==
  HoldsIf(/\ args # <<>> /\ Kinds(args) = {"spec"}
          /\ \A i \in DOMAIN args : parseSpec(family, args[i].value),
          Values(args))

(* In the order given, so of two with one code the last stays. *)
HandleOptions(specs, req, resp) ==
  LET upTo[n \in 0 .. Len(specs)] ==
        IF n = 0 THEN resp ELSE Update(upTo[n - 1], specs[n].code, specs[n].value)
  IN  Goes(upTo[Len(specs)])

-----------------------------------------------------------------------------
(* bootfile: the boot program by the client's architecture. *)
archNames ==
  [x86_bios |-> 0, x86_uefi |-> 6, x86_64_uefi |-> 7, arm32_uefi |-> 10, arm64_uefi |-> 11,
   x86_http |-> 15, x86_64_http |-> 16, arm32_http |-> 18, arm64_http |-> 19, riscv64_uefi |-> 27,
   riscv64_http |-> 28]

httpArchs == {15, 16, 17, 18, 19, 20, 23, 24, 26, 28, 30}
bootSchemes == {"tftp", "http", "https", "ftp"}

(* An entry is for iPXE, for the clients nothing else is for, or for an      *)
(* architecture given by its name or its code.                               *)
EntryKey(e) == IF e.key \in DOMAIN archNames THEN <<"arch", archNames[e.key]>>
               ELSE IF e.key = "arch" THEN <<"arch", e.code>> ELSE <<e.key, 0>>

EntryOk(e) ==
  /\ e.key \in DOMAIN archNames \cup {"ipxe", "default"} \/ (e.key = "arch" /\ e.code \in 0 .. 65535)
  /\ e.url.scheme \in bootSchemes

(* parseArgs, assign and compile: no two entries for one target. *)
setupBootfile(args) ==
  IF args = <<>> \/ Kinds(args) # {"entry"} THEN Failed
  ELSE IF ~(\A i \in DOMAIN args : EntryOk(args[i].value)) THEN Failed
  ELSE LET Key(i) == EntryKey(args[i].value) IN
       IF \E i, j \in DOMAIN args : i # j /\ Key(i) = Key(j) THEN Failed
       ELSE Holds([k \in {Key(i) : i \in DOMAIN args} |->
                     args[CHOOSE i \in DOMAIN args : Key(i) = k].value.url])

(* The entry for iPXE before any other; then the client's first architecture *)
(* that has one.                                                             *)
pick(p, ipxe, archs) ==
  LET known == {i \in DOMAIN archs : <<"arch", archs[i]>> \in DOMAIN p}
      first == CHOOSE i \in known : \A j \in known : i <= j
  IN  IF ipxe /\ <<"ipxe", 0>> \in DOMAIN p THEN p[<<"ipxe", 0>>]
      ELSE IF known # {} THEN p[<<"arch", archs[first]>>]
      ELSE IF <<"default", 0>> \in DOMAIN p THEN p[<<"default", 0>>] ELSE [scheme |-> Absent]

isHTTPBoot(archs) == \E i \in DOMAIN archs : archs[i] \in httpArchs

(* A client booting over HTTP is told so with its boot file and never        *)
(* without.                                                                  *)
HandleBootfile(p, req, resp) ==
  LET url == pick(p, req.ipxe, req.archs)
      code == Code(req.family)
      tftp == req.family = 4 /\ url.scheme = "tftp"
      aside == IF req.family = 4
               THEN UpdateIf(tftp /\ IsOptionRequested(req, code.tftp), resp, code.tftp, url.host)
               ELSE UpdateIf(url.params # "" /\ IsOptionRequested(req, code.bootparam), resp,
                             code.bootparam, url.params)
      file == Update(aside, code.bootfile, IF tftp THEN url.path ELSE url.text)
  IN  IF url.scheme = Absent THEN Goes(resp)
      ELSE IF ~IsOptionRequested(req, code.bootfile) THEN Goes(aside)
      ELSE Goes(UpdateIf(isHTTPBoot(req.archs), file, code.class, "HTTPClient"))
=============================================================================
