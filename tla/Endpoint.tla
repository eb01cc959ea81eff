------------------------------ MODULE Endpoint ------------------------------
(***************************************************************************)
(* The HTTP listeners of leaseapi and metrics (plugins/internal/endpoint,  *)
(* and obtain of each plugin).  Several coredhcp processes start, fail,    *)
(* serve and die on one host, whose unix sockets outlive the process that  *)
(* bound them.                                                             *)
(***************************************************************************)
EXTENDS Integers, Sequences

CONSTANTS
  Processes,
  Configs,    \* the plugin lines of a process, in the order they are set up
  Paths,      \* where unix sockets may lie
  Plain,      \* the paths that hold a file that is no socket
  MaxStarts   \* bound on the starts of a process

VARIABLES
  procs,  \* what each process is doing
  fs,     \* what lies at each path
  ports,  \* the TCP addresses that are bound, and by which process
  rivals, \* the sockets that were being served when a process started
  raced,  \* the paths at which a process has lost its socket to another
  unreached \* the served sockets a process's connect failed on

vars == <<procs, fs, ports, rivals, raced, unreached>>

Nothing == [is |-> "nothing"]
File == [is |-> "file"]
Socket(p, mode) == [is |-> "socket", by |-> p, start |-> procs[p].start, mode |-> mode]

Plugins == {"leaseapi", "metrics"}
defaultSocketMode == 384  \* 0600
maxSocketMode == 511      \* 0777
umask == 493              \* what a new socket is given, 0755 here

-----------------------------------------------------------------------------
(* Parse: the address of a line, and the mode of its socket; {} is an error. *)

(* 0 without a second argument. *)
parseMode(extra) ==
  IF extra = <<>> THEN {0}
  ELSE {m \in {extra[1].mode} : extra[1].key = "mode" /\ m \in 1 .. maxSocketMode}

unix(address, mode) ==
  IF address.path = "" THEN {}
  ELSE {[network |-> "unix", address |-> address.path,
         mode |-> IF mode = 0 THEN defaultSocketMode ELSE mode]}

tcp(address, mode) ==
  IF mode # 0 \/ ~address.loopback THEN {}
  ELSE {[network |-> "tcp", address |-> address.path, mode |-> 0]}

parseAddress(plugin, address, mode) ==
  CASE address.scheme = "unix" -> unix(address, mode)
    [] address.scheme = "tcp" -> tcp(address, mode)
    [] address.scheme = "bare" /\ plugin = "metrics" -> tcp(address, mode)
    [] OTHER -> {}

Parse(line) ==
  IF Len(line.args) \notin 1 .. 2 THEN {}
  ELSE UNION {parseAddress(line.plugin, line.args[1], mode) : mode \in parseMode(Tail(line.args))}

Key(e) == <<e.network, e.address>>

-----------------------------------------------------------------------------
Off(start) == [pc |-> "off", start |-> start, conf |-> <<>>, next |-> 0,
               e |-> <<>>, listeners |-> {}]

Alive(p) == procs[p].pc # "off"

(* The socket at a path is one its process still listens on. *)
Answers(path) ==
  fs[path].is = "socket" /\ Alive(fs[path].by) /\ procs[fs[path].by].start = fs[path].start

Bound(path) == <<path, fs[path].by, fs[path].start>>

(* A process ends, by itself or killed.  Its ports are free again; nothing   *)
(* unlinks its sockets.                                                      *)
Ends(p) ==
  /\ procs' = [procs EXCEPT ![p] = Off(@.start)]
  /\ ports' = {b \in ports : b.by # p}
  /\ UNCHANGED rivals

Start(p, conf) ==
  /\ ~Alive(p) /\ procs[p].start < MaxStarts
  /\ procs' = [procs EXCEPT ![p] =
       [Off(@.start + 1) EXCEPT !.pc = "setup", !.conf = conf, !.next = 1]]
  /\ rivals' = [rivals EXCEPT ![p] = {Bound(path) : path \in {x \in Paths : Answers(x)}}]
  /\ unreached' = [unreached EXCEPT ![p] = {}]
  /\ UNCHANGED <<fs, ports, raced>>

Die(p) == Alive(p) /\ Ends(p) /\ UNCHANGED <<fs, raced, unreached>>

(* The listener is up and goes into the registry; the next line follows. *)
Obtained(p, e) ==
  procs' = [procs EXCEPT ![p].pc = "setup", ![p].next = @ + 1, ![p].e = <<>>,
                         ![p].listeners = @ \cup {[plugin |-> procs[p].conf[procs[p].next].plugin,
                                                   key |-> Key(e)]}]

(* setup of one line: Parse, then obtain up to newServer's Listen. A process *)
(* serves one address for each plugin.                                       *)
Setup(p) ==
  /\ procs[p].pc = "setup" /\ procs[p].next \in DOMAIN procs[p].conf
  /\ LET line == procs[p].conf[procs[p].next]
         serving == {l \in procs[p].listeners : l.plugin = line.plugin}
     IN  \/ Parse(line) = {} /\ Ends(p)
         \/ \E e \in Parse(line) :
              \/ /\ \E l \in serving : l.key = Key(e)
                 /\ procs' = [procs EXCEPT ![p].next = @ + 1]
                 /\ UNCHANGED <<ports, rivals>>
              \/ serving # {} /\ (\A l \in serving : l.key # Key(e)) /\ Ends(p)
              \/ /\ serving = {}
                 /\ procs' = [procs EXCEPT ![p].pc = e.network, ![p].e = <<e>>]
                 /\ UNCHANGED <<ports, rivals>>
  /\ UNCHANGED <<fs, raced, unreached>>

Serve(p) ==
  /\ procs[p].pc = "setup" /\ procs[p].next = Len(procs[p].conf) + 1
  /\ procs' = [procs EXCEPT ![p].pc = "serving"]
  /\ UNCHANGED <<fs, ports, rivals, raced, unreached>>

(* Listen on a TCP address. *)
ListenTcp(p) ==
  /\ procs[p].pc = "tcp"
  /\ LET e == procs[p].e[1] IN
     IF \E b \in ports : b.address = e.address
     THEN Ends(p)
     ELSE /\ ports' = ports \cup {[address |-> e.address, by |-> p]}
          /\ Obtained(p, e) /\ UNCHANGED rivals
  /\ UNCHANGED <<fs, raced, unreached>>

Goes(p, pc) == procs' = [procs EXCEPT ![p].pc = pc] /\ UNCHANGED <<ports, rivals>>

(* clearStaleSocket: the path is inspected. *)
Stat(p) ==
  /\ procs[p].pc = "unix"
  /\ LET there == fs[procs[p].e[1].address].is IN
     \/ there = "nothing" /\ Goes(p, "bind")
     \/ there = "file" /\ Ends(p)
     \/ there = "socket" /\ Goes(p, "dial")
  /\ UNCHANGED <<fs, raced, unreached>>

(* How a connect ends: it is answered, the context ends first, or it fails.  *)
(* It fails on a socket nobody listens on, on a path with nothing there any  *)
(* more, and on a listener whose backlog is full, for which a non-blocking   *)
(* connect does not wait, or that this process may not connect to.           *)
DialFinds(path) == {"timeout", "failure"} \cup (IF Answers(path) THEN {"answer"} ELSE {})

Unreached(p, found) ==
  LET path == procs[p].e[1].address IN
  unreached' = IF found = "failure" /\ Answers(path)
             THEN [unreached EXCEPT ![p] = @ \cup {Bound(path)}] ELSE unreached

Dial_TimeoutIsStale(p, found) ==
  /\ procs[p].pc = "dial"
  /\ found \in DialFinds(procs[p].e[1].address)
  /\ IF found = "answer" THEN Ends(p) ELSE Goes(p, "remove")
  /\ Unreached(p, found) /\ UNCHANGED <<fs, raced>>

Dial(p, found) ==
  /\ procs[p].pc = "dial"
  /\ found \in DialFinds(procs[p].e[1].address)
  /\ IF found \in {"answer", "timeout"} THEN Ends(p) ELSE Goes(p, "remove")
  /\ Unreached(p, found) /\ UNCHANGED <<fs, raced>>

(* os.Remove, which fails when another process was faster. *)
Remove(p) ==
  /\ procs[p].pc = "remove"
  /\ LET path == procs[p].e[1].address IN
     IF fs[path].is = "nothing" THEN Ends(p) /\ UNCHANGED <<fs, raced>>
     ELSE /\ Goes(p, "bind")
          /\ fs' = [fs EXCEPT ![path] = Nothing]
          /\ raced' = IF Answers(path) THEN raced \cup {path} ELSE raced
  /\ UNCHANGED unreached

(* listenUnix: the socket is bound under the process's umask. *)
Bind(p) ==
  /\ procs[p].pc = "bind"
  /\ LET path == procs[p].e[1].address IN
     IF fs[path].is # "nothing" THEN Ends(p) /\ UNCHANGED fs
     ELSE Goes(p, "chmod") /\ fs' = [fs EXCEPT ![path] = Socket(p, umask)]
  /\ UNCHANGED <<raced, unreached>>

(* The mode is set on whatever lies at the path. When that fails Close       *)
(* unlinks the path and setup fails.                                         *)
Chmod(p, fails) ==
  /\ procs[p].pc = "chmod"
  /\ LET e == procs[p].e[1] path == e.address IN
     /\ fs[path].is = "nothing" => fails
     /\ IF fails THEN Ends(p) /\ fs' = [fs EXCEPT ![path] = Nothing]
        ELSE /\ fs' = [fs EXCEPT ![path].mode = e.mode]
             /\ Obtained(p, e) /\ UNCHANGED <<ports, rivals>>
  /\ UNCHANGED <<raced, unreached>>

Init ==
  /\ procs = [p \in Processes |-> Off(0)]
  /\ fs = [path \in Paths |-> IF path \in Plain THEN File ELSE Nothing]
  /\ ports = {} /\ rivals = [p \in Processes |-> {}] /\ raced = {}
  /\ unreached = [p \in Processes |-> {}]

Next ==
  \E p \in Processes :
    \/ \E conf \in Configs : Start(p, conf)
    \/ Setup(p) \/ Serve(p) \/ Die(p) \/ ListenTcp(p)
    \/ Stat(p) \/ Remove(p) \/ Bind(p)
    \/ \E found \in {"answer", "timeout", "failure"} : Dial(p, found)
    \/ \E fails \in BOOLEAN : Chmod(p, fails)

Spec == Init /\ [][Next]_vars

-----------------------------------------------------------------------------
(* The step takes away the socket that another process is serving on and was *)
(* when this one started.                                                    *)
Steals(p, path) ==
  /\ procs'[p] # procs[p] /\ fs'[path] # fs[path]
  /\ Answers(path) /\ fs[path].by # p /\ Bound(path) \in rivals[p]

(* A process that starts while another one is serving takes its socket away  *)
(* only when a connect to that very socket had failed, never after an answer *)
(* or for want of time; and nothing touches a file that is not a socket      *)
(* (clearStaleSocket). (Of two that start at the same time over the same     *)
(* stale socket, one may lose its own to the other.)                         *)
EndpointKeptStep ==
  \A p \in Processes, path \in Paths :
    /\ fs[path].is = "file" => fs'[path] = fs[path]
    /\ Steals(p, path) => Bound(path) \in unreached[p]

(* "a second coredhcp with the same configuration fails to start instead of  *)
(* quietly stealing the first one's endpoint", says clearStaleSocket. It     *)
(* takes every failure of the connect for a socket nobody listens on.        *)
SecondFailsStep == \A p \in Processes, path \in Paths : ~Steals(p, path)

(* A process serves on a socket only under the mode its configuration asks   *)
(* for, since "those permissions are the authentication" (listenUnix).       *)
ModesSet ==
  \A path \in Paths \ raced :
    Answers(path) /\ procs[fs[path].by].pc = "serving" =>
      \E i \in DOMAIN procs[fs[path].by].conf :
        \E e \in Parse(procs[fs[path].by].conf[i]) :
          Key(e) = <<"unix", path>> /\ e.mode = fs[path].mode
=============================================================================
