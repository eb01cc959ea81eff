------------------------------- MODULE Screen --------------------------------
(***************************************************************************)
(* The life of coredhcp-tui: run of cmd/coredhcp-tui/main.go, and Run,     *)
(* watch, redraw and Stop of its tui/ui.go. The goroutines are main, the   *)
(* draw loop, the watcher, the one waiting for the server and the one      *)
(* waiting for a signal; app is tview's event loop, on main's goroutine    *)
(* while app.Run lasts. The server is seen through Start, Wait and Close.  *)
(***************************************************************************)
EXTENDS Naturals

CONSTANT MaxFrames  \* bound on the frames handed over

VARIABLES
  main,    \* where run is
  draw,    \* where redraw is
  watch,   \* where the watcher is
  waiter,  \* where the goroutine in srv.Wait is
  signal,  \* where the goroutine waiting for a signal is
  app,     \* tview: "off", "opening", "running", "ended" or "failed"
  ui,      \* the UI's started and stopped
  ctx,     \* whether the run's context is cancelled
  entered, \* whether the channel entered is closed
  runDone, \* whether the channel runDone is closed
  frames,  \* how many frames were handed over
  srv,     \* the server: "off", "up", "closed" or "failed"
  result   \* what run returns: "none yet", "nil", "screen error" or "server error"

vars == <<main, draw, watch, waiter, signal, app, ui, ctx, entered, runDone, frames, srv, result>>

Init ==
  /\ main = "start"
  /\ draw = "off"
  /\ watch = "off"
  /\ waiter = "off"
  /\ signal = "off"
  /\ app = "off"
  /\ ui = [started |-> FALSE, stopped |-> FALSE]
  /\ ctx = FALSE
  /\ entered = FALSE
  /\ runDone = FALSE
  /\ frames = 0
  /\ srv = "off"
  /\ result = "none yet"

-----------------------------------------------------------------------------
(* run. *)

(* Start, and the two goroutines; or it fails and run returns its error.     *)
Start ==
  /\ main = "start"
  /\ \/ /\ srv' = "up"
        /\ waiter' = "waiting"
        /\ signal' = "waiting"
        /\ main' = "begin"
        /\ UNCHANGED result
     \/ /\ main' = "returned"
        /\ result' = "server error"
        /\ UNCHANGED <<srv, waiter, signal>>
  /\ UNCHANGED <<draw, watch, app, ui, ctx, entered, runDone, frames>>

(* begin claims the run and its goroutines start, or Run is over at once.    *)
begin ==
  /\ main = "begin"
  /\ IF ui.started \/ ui.stopped
     THEN /\ main' = "close"
          /\ UNCHANGED <<ui, draw, watch, app>>
     ELSE /\ ui' = [ui EXCEPT !.started = TRUE]
          /\ draw' = "tick"
          /\ watch' = "wait"
          /\ app' = "opening"
          /\ main' = "app"
  /\ UNCHANGED <<waiter, signal, ctx, entered, runDone, frames, srv, result>>

(* After app.Run: what the goroutines wait for is closed and cancelled.      *)
RunEnded ==
  /\ main = "app"
  /\ app \in {"ended", "failed"}
  /\ runDone' = TRUE
  /\ entered' = TRUE
  /\ ctx' = TRUE
  /\ result' = IF app = "failed" THEN "screen error" ELSE result
  /\ main' = "join"
  /\ UNCHANGED <<draw, watch, waiter, signal, app, ui, frames, srv>>

(* The watcher and then the draw loop are waited for. *)
Join ==
  /\ main = "join"
  /\ watch = "done"
  /\ draw = "done"
  /\ main' = "close"
  /\ UNCHANGED <<draw, watch, waiter, signal, app, ui, ctx, entered, runDone, frames, srv, result>>

CloseServer == srv' = IF srv = "up" THEN "closed" ELSE srv

MainClose ==
  /\ main = "close"
  /\ CloseServer
  /\ main' = "wait"
  /\ UNCHANGED <<draw, watch, waiter, signal, app, ui, ctx, entered, runDone, frames, result>>

(* waitErr is nil when the listeners were closed on purpose. *)
MainReturn ==
  /\ main = "wait"
  /\ waiter = "done"
  /\ result' = IF result # "none yet" THEN result
               ELSE IF srv = "failed" THEN "server error" ELSE "nil"
  /\ main' = "returned"
  /\ UNCHANGED <<draw, watch, waiter, signal, app, ui, ctx, entered, runDone, frames, srv>>

-----------------------------------------------------------------------------
(* The server, and the goroutines of run. *)

(* A listener dies on its own. *)
ListenerFails ==
  /\ srv = "up"
  /\ srv' = "failed"
  /\ UNCHANGED <<main, draw, watch, waiter, signal, app, ui, ctx, entered, runDone, frames, result>>

Stop == ui' = [ui EXCEPT !.stopped = TRUE]

(* Wait returns: nothing is left to draw, and waitDone is closed.            *)
WaitReturns ==
  /\ waiter = "waiting"
  /\ srv \in {"closed", "failed"}
  /\ Stop
  /\ waiter' = "done"
  /\ UNCHANGED <<main, draw, watch, signal, app, ctx, entered, runDone, frames, srv, result>>

SignalArrives ==
  /\ signal = "waiting"
  /\ CloseServer
  /\ signal' = "done"
  /\ UNCHANGED <<main, draw, watch, waiter, app, ui, ctx, entered, runDone, frames, result>>

SignalLeaves ==
  /\ signal = "waiting"
  /\ waiter = "done"
  /\ signal' = "done"
  /\ UNCHANGED <<main, draw, watch, waiter, app, ui, ctx, entered, runDone, frames, srv, result>>

-----------------------------------------------------------------------------
(* tview. *)

(* The screen opens and is drawn for the first time, or app.Run returns an   *)
(* error without an event loop.                                              *)
Open ==
  /\ app = "opening"
  /\ app' = "running"
  /\ entered' = TRUE
  /\ UNCHANGED <<main, draw, watch, waiter, signal, ui, ctx, runDone, frames, srv, result>>

OpenFails ==
  /\ app = "opening"
  /\ app' = "failed"
  /\ UNCHANGED <<main, draw, watch, waiter, signal, ui, ctx, entered, runDone, frames, srv, result>>

(* The event loop takes a frame, and the draw loop goes on. *)
TakeFrame ==
  /\ app = "running"
  /\ draw = "queued"
  /\ draw' = "tick"
  /\ UNCHANGED <<main, watch, waiter, signal, app, ui, ctx, entered, runDone, frames, srv, result>>

(* The operator quits. *)
QuitKey ==
  /\ app = "running"
  /\ ~ui.stopped
  /\ Stop
  /\ UNCHANGED <<main, draw, watch, waiter, signal, app, ctx, entered, runDone, frames, srv, result>>

-----------------------------------------------------------------------------
(* redraw: a tick with a frame to draw hands it over and waits until the     *)
(* event loop took it. With the context done and a tick due, select may take *)
(* either.                                                                   *)
DrawTick ==
  /\ draw = "tick"
  /\ frames < MaxFrames
  /\ frames' = frames + 1
  /\ draw' = "queued"
  /\ UNCHANGED <<main, watch, waiter, signal, app, ui, ctx, entered, runDone, srv, result>>

DrawLeaves ==
  /\ draw = "tick"
  /\ ctx
  /\ draw' = "done"
  /\ UNCHANGED <<main, watch, waiter, signal, app, ui, ctx, entered, runDone, frames, srv, result>>

(* waitStop: a stop, or the run's end, in which case nothing is left to do.  *)
WatchStop ==
  /\ watch = "wait"
  /\ ctx \/ ui.stopped
  /\ watch' = "entered"
  /\ UNCHANGED <<main, draw, waiter, signal, app, ui, ctx, entered, runDone, frames, srv, result>>

WatchEnded ==
  /\ watch = "wait"
  /\ runDone
  /\ watch' = "done"
  /\ UNCHANGED <<main, draw, waiter, signal, app, ui, ctx, entered, runDone, frames, srv, result>>

WatchCancel ==
  /\ watch = "entered"
  /\ entered
  /\ ctx' = TRUE
  /\ watch' = "draining"
  /\ UNCHANGED <<main, draw, waiter, signal, app, ui, entered, runDone, frames, srv, result>>

WatchApp_Early ==
  /\ watch = "draining"
  /\ app' = IF app = "running" THEN "ended" ELSE app
  /\ watch' = "done"
  /\ UNCHANGED <<main, draw, waiter, signal, ui, ctx, entered, runDone, frames, srv, result>>

(* Once the draw loop is done, app.Stop ends the event loop if there is one. *)
WatchApp ==
  /\ watch = "draining"
  /\ draw = "done"
  /\ app' = IF app = "running" THEN "ended" ELSE app
  /\ watch' = "done"
  /\ UNCHANGED <<main, draw, waiter, signal, ui, ctx, entered, runDone, frames, srv, result>>

-----------------------------------------------------------------------------
(* A frame no event loop will ever take. *)
Stranded == app \in {"ended", "failed"} /\ draw = "queued"

(* Nothing is left to happen. *)
Over == (main = "returned" \/ Stranded) /\ UNCHANGED vars

Next ==
  \/ Start \/ begin \/ RunEnded \/ Join \/ MainClose \/ MainReturn
  \/ ListenerFails \/ WaitReturns \/ SignalArrives \/ SignalLeaves
  \/ Open \/ OpenFails \/ TakeFrame \/ QuitKey
  \/ DrawTick \/ DrawLeaves \/ WatchStop \/ WatchEnded \/ WatchCancel \/ WatchApp
  \/ Over

(* The goroutines run; Wait returns once the listeners are down; the screen  *)
(* opens or fails; the event loop takes what is queued. Ticks are far apart  *)
(* and select picks at random, so a draw loop that could leave does.         *)
Fairness ==
  /\ WF_vars(Start) /\ WF_vars(begin) /\ WF_vars(RunEnded) /\ WF_vars(Join)
  /\ WF_vars(MainClose) /\ WF_vars(MainReturn)
  /\ WF_vars(WaitReturns) /\ WF_vars(SignalLeaves)
  /\ WF_vars(Open \/ OpenFails) /\ WF_vars(TakeFrame)
  /\ SF_vars(DrawLeaves)
  /\ WF_vars(WatchStop \/ WatchEnded) /\ WF_vars(WatchCancel) /\ WF_vars(WatchApp)

Spec == Init /\ [][Next]_vars /\ Fairness

-----------------------------------------------------------------------------
(* The event loop is never ended under a frame that waits for it: only a     *)
(* screen that failed to open can leave one behind. When run returns, its    *)
(* draw loop, watcher and server are done, and a listener that failed, or a  *)
(* screen, reaches the exit status.                                          *)
ExitsClean ==
  /\ Stranded => app = "failed"
  /\ main = "returned" =>
       /\ draw \in {"off", "done"}
       /\ watch \in {"off", "done"}
       /\ srv # "up"
       /\ app \in {"off", "ended", "failed"}
       /\ result = IF app = "failed" THEN "screen error"
                   ELSE IF srv \in {"failed", "off"} THEN "server error" ELSE "nil"

(* A quit, a signal or a dead listener ends the program, unless the screen   *)
(* failed to open under a frame.                                             *)
StopEnds == (ui.stopped \/ srv \in {"closed", "failed"}) ~> (main = "returned" \/ Stranded)

(* A screen that could not be opened makes Run return its error.             *)
ScreenErrorReturned == (app = "failed") ~> (main = "returned")
=============================================================================
