----------------------------- MODULE MCServers -----------------------------
(***************************************************************************)
(* The programs' lives, for TLC: a behaviour is one of the server with its *)
(* sockets and handlers (kind "server"), or of the terminal interface      *)
(* around a server (kind "screen"). The other one is never begun.          *)
(***************************************************************************)
EXTENDS Servers

CONSTANTS
  d1, d2, d3,  \* the datagrams
  MaxFrames

VARIABLES
  kind,
  main, draw, watch, waiter, signal, app, ui, ctx, entered, runDone, frames, srv, result

Ui == INSTANCE Screen

uiVars == <<main, draw, watch, waiter, signal, app, ui, ctx, entered, runDone, frames, srv, result>>

NoServer ==
  /\ via = [d \in Datagrams |-> 1]
  /\ start = "off" /\ bound = 0
  /\ sock = [l \in Sockets |-> "none"] /\ loop = [l \in Sockets |-> "none"]
  /\ dg = [d \in Datagrams |-> "due"]
  /\ sem = 0 /\ wg = 0 /\ closed = FALSE /\ lost = FALSE
  /\ once = "new" /\ timedOut = FALSE
  /\ closer = [c \in Callers |-> [pc |-> "idle", next |-> 1]]
  /\ errs = <<>> /\ waited = "idle" /\ results = <<>>

NoScreen ==
  /\ main = "off" /\ draw = "off" /\ watch = "off" /\ waiter = "off" /\ signal = "off"
  /\ app = "off" /\ ui = [started |-> FALSE, stopped |-> FALSE]
  /\ ctx = FALSE /\ entered = FALSE /\ runDone = FALSE
  /\ frames = 0 /\ srv = "off" /\ result = "none yet"

(* Both sockets are used, one of them twice; datagrams are interchangeable. *)
Arrivals == via[d1] = 1 /\ via[d3] = 2

LivesInit ==
  \/ kind = "server" /\ Init /\ Arrivals /\ NoScreen
  \/ kind = "screen" /\ Ui!Init /\ NoServer

LivesNext ==
  \/ kind = "server" /\ Next /\ UNCHANGED <<kind, uiVars>>
  \/ kind = "screen" /\ Ui!Next /\ UNCHANGED <<kind, vars>>

LivesSpec == LivesInit /\ [][LivesNext]_<<kind, vars, uiVars>> /\ Fairness /\ Ui!Fairness

-----------------------------------------------------------------------------
(* A server that has failed to start, and one whose Wait has returned, have   *)
(* left no socket and no read loop behind. The terminal interface never ends  *)
(* its event loop under a frame that waits for it, and when it returns its    *)
(* goroutines and its server are done and its exit status tells of a listener *)
(* or of a screen that failed.                                                *)
StopsClean ==
  /\ kind = "server" => StoppedClean
  /\ kind = "screen" => Ui!ExitsClean

(* Every way to stop gets there: once a read loop has ended, Close was called *)
(* or a bind failed, the server is down, even with handlers stuck in a        *)
(* plugin; and a quit, a signal or a dead listener ends the terminal          *)
(* interface, unless its screen failed to open under a frame.                 *)
EveryStopEnds == ShutdownEnds /\ Ui!StopEnds

(* "It returns nil for all of those and an error only when the screen could   *)
(* not be opened": a screen that fails makes Run return.                      *)
ScreenErrorReturned == Ui!ScreenErrorReturned
=============================================================================
