------------------------------ MODULE Servers ------------------------------
(***************************************************************************)
(* The life of a server (server/serve.go, server/gate.go, the read loop of *)
(* server/handle.go and the shutdown of cmd/coredhcp): Start binds the     *)
(* sockets one by one and launches a read loop for each, a gate shared by  *)
(* all loops bounds the handler goroutines, and Close, reached from a      *)
(* signal, from Wait and from a Start that failed, stops the gate, drains  *)
(* the handlers and closes the sockets.                                    *)
(*                                                                         *)
(* Sockets are numbered in the order they are bound. Every datagram is     *)
(* followed from the socket it arrives on to what became of it.            *)
(***************************************************************************)
EXTENDS Integers, Sequences, FiniteSets

CONSTANTS
  N,            \* listen addresses in the configuration
  MaxInFlight,  \* capacity of the gate's semaphore
  Datagrams,    \* the datagrams that may arrive
  BindFails,    \* whether a bind may fail
  ReadFails     \* whether a read may fail on an open socket

ASSUME ServersAssumption ==
  /\ N \in Nat \ {0} /\ MaxInFlight \in Nat \ {0}
  /\ IsFiniteSet(Datagrams)
  /\ {BindFails, ReadFails} \subseteq BOOLEAN

VARIABLES
  via,       \* the socket each datagram arrives on
  start,     \* Start: "binding", "up", "failing" (in shutdown) or "failed"
  bound,     \* len(listeners)
  sock,      \* per socket: "none", "open" or "closed"
  loop,      \* its read loop: "none", "reading" or "gone"
  dg,        \* what became of each datagram
  sem,       \* slots taken in the semaphore
  wg,        \* handlers on the WaitGroup
  closed,    \* the gate's closed flag
  once,      \* drainOnce: "new", "running" or "done"
  timedOut,  \* the drain timeout elapsed
  closer,    \* every caller of Close: where it is, and the next socket
  errs,      \* the errors channel, one slot per socket
  waited,    \* Wait: "idle", "closing", "rest" or "returned"
  results,   \* what Wait has received so far
  lost       \* a reply was written to a closed socket

vars == <<via, start, bound, sock, loop, dg, sem, wg, closed, once, timedOut,
          closer, errs, waited, results, lost>>

Sockets == 1 .. N
Callers == {"start", "signal", "wait"}

(* A datagram arrives, takes a slot, joins the WaitGroup, runs, gives the    *)
(* slot back and leaves the WaitGroup; or it is dropped on the way.          *)
Fates == {"due", "slot", "refused", "working", "leaving", "handled", "overload", "shutdown"}

InState(S) == {d \in Datagrams : dg[d] \in S}

(* The datagram a read loop has in hand between the two halves of run. *)
InHand(l) == {d \in InState({"slot", "refused"}) : via[d] = l}

gateVars == <<dg, sem, wg, closed, lost>>
closeVars == <<once, timedOut, closer>>
waitVars == <<waited, results>>

-----------------------------------------------------------------------------
(* Start. *)

Bind ==
  /\ start = "binding"
  /\ bound' = bound + 1
  /\ sock' = [sock EXCEPT ![bound'] = "open"]
  /\ loop' = [loop EXCEPT ![bound'] = "reading"]
  /\ start' = IF bound' = N THEN "up" ELSE "binding"
  /\ UNCHANGED <<via, gateVars, closeVars, errs, waitVars>>

(* A bind that fails closes its own socket and sends Start into shutdown. *)
BindFailed ==
  /\ BindFails /\ start = "binding"
  /\ start' = "failing"
  /\ UNCHANGED <<via, bound, sock, loop, gateVars, closeVars, errs, waitVars>>

Joined == \A l \in 1 .. bound : loop[l] = "gone"

StartFailed ==
  /\ start = "failing" /\ closer["start"].pc = "done"
  /\ Joined
  /\ start' = "failed"
  /\ UNCHANGED <<via, bound, sock, loop, gateVars, closeVars, errs, waitVars>>

-----------------------------------------------------------------------------
(* The read loops and the gate. *)

Move(d, to) == dg' = [dg EXCEPT ![d] = to]

Receive(d) ==
  /\ dg[d] = "due" /\ loop[via[d]] = "reading" /\ sock[via[d]] = "open"
  /\ InHand(via[d]) = {}
  /\ IF sem < MaxInFlight
     THEN Move(d, "slot") /\ sem' = sem + 1
     ELSE Move(d, "overload") /\ UNCHANGED sem
  /\ UNCHANGED <<via, start, bound, sock, loop, wg, closed, closeVars, errs, waitVars, lost>>

(* Under the lock that orders it against stop. *)
Track(d) ==
  /\ dg[d] = "slot"
  /\ IF closed THEN Move(d, "refused") /\ UNCHANGED wg
     ELSE Move(d, "working") /\ wg' = wg + 1
  /\ UNCHANGED <<via, start, bound, sock, loop, sem, closed, closeVars, errs, waitVars, lost>>

Refuse_KeepSlot(d) ==
  /\ dg[d] = "refused"
  /\ Move(d, "shutdown")
  /\ UNCHANGED <<via, start, bound, sock, loop, sem, wg, closed, closeVars, errs, waitVars, lost>>

Refuse(d) ==
  /\ dg[d] = "refused"
  /\ Move(d, "shutdown") /\ sem' = sem - 1
  /\ UNCHANGED <<via, start, bound, sock, loop, wg, closed, closeVars, errs, waitVars, lost>>

(* The handler writes its reply, or sends none, and gives its slot back. *)
Finish(d) ==
  /\ dg[d] = "working"
  /\ Move(d, "leaving") /\ sem' = sem - 1
  /\ lost' = (lost \/ sock[via[d]] = "closed")
  /\ UNCHANGED <<via, start, bound, sock, loop, wg, closed, closeVars, errs, waitVars>>

Leave(d) ==
  /\ dg[d] = "leaving"
  /\ Move(d, "handled") /\ wg' = wg - 1
  /\ UNCHANGED <<via, start, bound, sock, loop, sem, closed, closeVars, errs, waitVars, lost>>

(* serve returns and its goroutine reports how. *)
LoopEnds(l, result) ==
  /\ loop[l] = "reading" /\ InHand(l) = {}
  /\ Len(errs) < N
  /\ loop' = [loop EXCEPT ![l] = "gone"]
  /\ errs' = Append(errs, result)
  /\ UNCHANGED <<via, start, bound, sock, gateVars, closeVars, waitVars>>

ReadClosed(l) == sock[l] = "closed" /\ LoopEnds(l, "nil")
ReadFailed(l) == ReadFails /\ sock[l] = "open" /\ LoopEnds(l, "error")

-----------------------------------------------------------------------------
(* Close. *)

To(c, pc) == closer' = [closer EXCEPT ![c].pc = pc]

(* The first caller closes the gate and drains, a second one waits in Once. *)
EnterClose(c) ==
  /\ closer[c].pc = "idle"
  /\ IF once = "new" THEN To(c, "draining") /\ once' = "running" /\ closed' = TRUE
     ELSE /\ To(c, IF once = "running" THEN "blocked" ELSE "closing")
          /\ UNCHANGED <<once, closed>>
  /\ UNCHANGED <<via, start, bound, sock, loop, dg, sem, wg, timedOut, errs, waitVars, lost>>

StartCloses == start = "failing" /\ EnterClose("start")
Signal == start = "up" /\ EnterClose("signal")
WaitCloses == waited = "closing" /\ EnterClose("wait")

Drained_Early(c) ==
  /\ closer[c].pc = "draining"
  /\ sem = 0
  /\ To(c, "closing") /\ once' = "done"
  /\ UNCHANGED <<via, start, bound, sock, loop, gateVars, timedOut, errs, waitVars>>

Drained(c) ==
  /\ closer[c].pc = "draining"
  /\ wg = 0
  /\ To(c, "closing") /\ once' = "done"
  /\ UNCHANGED <<via, start, bound, sock, loop, gateVars, timedOut, errs, waitVars>>

DrainTimesOut_Never(c) ==
  /\ closer[c].pc = "draining" /\ wg = 0
  /\ To(c, "closing") /\ once' = "done"
  /\ UNCHANGED <<via, start, bound, sock, loop, gateVars, timedOut, errs, waitVars>>

DrainTimesOut(c) ==
  /\ closer[c].pc = "draining"
  /\ timedOut' = TRUE
  /\ To(c, "closing") /\ once' = "done"
  /\ UNCHANGED <<via, start, bound, sock, loop, gateVars, errs, waitVars>>

Unblock(c) ==
  /\ closer[c].pc = "blocked" /\ once = "done"
  /\ To(c, "closing")
  /\ UNCHANGED <<via, start, bound, sock, loop, gateVars, once, timedOut, errs, waitVars>>

(* One listener after the other; closing one again is no error. *)
CloseSocket(c) ==
  /\ closer[c].pc = "closing"
  /\ IF closer[c].next > bound THEN To(c, "done") /\ UNCHANGED sock
     ELSE /\ sock' = [sock EXCEPT ![closer[c].next] = "closed"]
          /\ closer' = [closer EXCEPT ![c].next = @ + 1]
  /\ UNCHANGED <<via, start, bound, loop, gateVars, once, timedOut, errs, waitVars>>

-----------------------------------------------------------------------------
(* Wait, which the main goroutine enters as soon as Start has returned. *)

Take ==
  /\ errs # <<>>
  /\ results' = Append(results, Head(errs))
  /\ errs' = Tail(errs)

WaitFirst ==
  /\ start = "up" /\ waited = "idle"
  /\ Take
  /\ waited' = "closing"
  /\ UNCHANGED <<via, start, bound, sock, loop, gateVars, closeVars>>

WaitClosed ==
  /\ waited = "closing" /\ closer["wait"].pc = "done"
  /\ waited' = IF Len(results) = N THEN "returned" ELSE "rest"
  /\ UNCHANGED <<via, start, bound, sock, loop, gateVars, closeVars, errs, results>>

WaitRest ==
  /\ waited = "rest"
  /\ Take
  /\ waited' = IF Len(results') = N THEN "returned" ELSE "rest"
  /\ UNCHANGED <<via, start, bound, sock, loop, gateVars, closeVars>>

-----------------------------------------------------------------------------
Init ==
  /\ via \in [Datagrams -> Sockets]
  /\ start = "binding" /\ bound = 0
  /\ sock = [l \in Sockets |-> "none"] /\ loop = [l \in Sockets |-> "none"]
  /\ dg = [d \in Datagrams |-> "due"]
  /\ sem = 0 /\ wg = 0 /\ closed = FALSE /\ lost = FALSE
  /\ once = "new" /\ timedOut = FALSE
  /\ closer = [c \in Callers |-> [pc |-> "idle", next |-> 1]]
  /\ errs = <<>> /\ waited = "idle" /\ results = <<>>

Gate(d) == Receive(d) \/ Track(d) \/ Refuse(d) \/ Finish(d) \/ Leave(d)
CloseStep(c) == Drained(c) \/ DrainTimesOut(c) \/ Unblock(c) \/ CloseSocket(c)

Next ==
  \/ Bind \/ BindFailed \/ StartFailed
  \/ \E d \in Datagrams : Gate(d)
  \/ \E l \in Sockets : ReadClosed(l) \/ ReadFailed(l)
  \/ StartCloses \/ Signal \/ WaitCloses
  \/ \E c \in Callers : CloseStep(c)
  \/ WaitFirst \/ WaitClosed \/ WaitRest

Spec == Init /\ [][Next]_vars

(* Goroutines that can step do, and the drain timer fires. Nothing is        *)
(* assumed of datagrams, signals, read errors, or of a handler stuck in a    *)
(* plugin.                                                                   *)
Fairness ==
  /\ WF_vars(Bind) /\ WF_vars(StartCloses) /\ WF_vars(StartFailed)
  /\ \A d \in Datagrams : WF_vars(Track(d)) /\ WF_vars(Refuse(d))
  /\ \A l \in Sockets : WF_vars(ReadClosed(l))
  /\ \A c \in Callers : WF_vars(CloseStep(c))
  /\ WF_vars(WaitFirst) /\ WF_vars(WaitCloses) /\ WF_vars(WaitClosed) /\ WF_vars(WaitRest)

LiveSpec == Spec /\ Fairness

-----------------------------------------------------------------------------
(* Properties. *)

(* Every variable holds a value of its Go type; the errors channel holds at   *)
(* most one result per socket.                                                *)
TypeOK ==
  /\ via \in [Datagrams -> Sockets]
  /\ start \in {"binding", "up", "failing", "failed"} /\ bound \in 0 .. N
  /\ sock \in [Sockets -> {"none", "open", "closed"}]
  /\ loop \in [Sockets -> {"none", "reading", "gone"}]
  /\ dg \in [Datagrams -> Fates]
  /\ sem \in Int /\ wg \in Int
  /\ closed \in BOOLEAN /\ timedOut \in BOOLEAN /\ lost \in BOOLEAN
  /\ once \in {"new", "running", "done"}
  /\ closer \in [Callers -> [pc : {"idle", "draining", "blocked", "closing", "done"}, next : 1 .. N + 1]]
  /\ errs \in Seq({"nil", "error"}) /\ results \in Seq({"nil", "error"})
  /\ waited \in {"idle", "closing", "rest", "returned"}

(* Every slot taken is held by exactly one datagram that will give it back:   *)
(* neither the refusal in run nor a handler's deferred receive leaks or       *)
(* returns one twice, so at most max-in-flight handlers run over all sockets. *)
SlotsExact ==
  sem <= MaxInFlight /\ sem = Cardinality(InState({"slot", "refused", "working"}))

(* Once a drain has ended without timing out, no handler runs, and none ever  *)
(* will: "the set of handlers a shutdown has to wait for cannot grow". Until  *)
(* then Close's order "keeps a reply from being written to a socket that has  *)
(* already gone".                                                             *)
DrainedMeansQuiet ==
  ~timedOut => /\ ~lost
               /\ once = "done" => InState({"working", "leaving"}) = {}

(* When Start has failed, every socket it opened is closed and every read     *)
(* loop it launched has ended; Wait returns only when the same is true of all *)
(* of them and it has received what each loop had to report.                  *)
StoppedClean ==
  /\ start = "failed" => \A l \in Sockets : sock[l] # "open" /\ loop[l] # "reading"
  /\ waited = "returned" =>
       /\ \A l \in Sockets : loop[l] = "gone" /\ sock[l] = "closed"
       /\ Len(results) = N /\ errs = <<>>

(* "The first listener to stop, for whatever reason, takes the rest with it": *)
(* once a loop has ended or Close was called on a running server, Wait        *)
(* returns, even with handlers stuck in a plugin. So does a Start that met a  *)
(* bind error.                                                                *)
ShutdownEnds ==
  /\ (start = "up" /\ (closed \/ \E l \in Sockets : loop[l] = "gone")) ~> waited = "returned"
  /\ start = "failing" ~> start = "failed"

=============================================================================
