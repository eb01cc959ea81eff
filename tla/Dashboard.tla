----------------------------- MODULE Dashboard ------------------------------
(***************************************************************************)
(* The model behind the terminal dashboard and the frames drawn from it    *)
(* (cmd/coredhcp-tui/tui: model.go, keys.go, status.go and redraw and      *)
(* paint of ui.go). The server reports each request when its handler is    *)
(* done with it, stamped with the time it was read, so reports come out of *)
(* order. The draw loop copies the model under its lock and hands the copy *)
(* to the event goroutine, which also handles the keys; it waits until the *)
(* frame is painted before it takes another.                               *)
(***************************************************************************)
EXTENDS Tallies
LOCAL INSTANCE FiniteSetsExt

CONSTANTS
  Families,       \* the families the server was configured for
  Links(_),       \* the number of plugins in the chain of a family
  Requests,       \* the requests reported, without their time
  MaxDelay,       \* bound on the seconds a handler takes
  Keys,           \* the keys pressed
  Heights,        \* the heights the panes may have
  history,        \* size of the traffic ring
  logLines,       \* size of the log ring
  maxLeases,      \* size of the lease table
  maxFamilies,    \* families counted
  errorWindow,    \* seconds an error stays in the status line
  MaxNow, MaxRequests, MaxLogs, MaxKeys, MaxFrames  \* bounds on a behaviour

VARIABLES
  m,        \* the model, everything its mutex guards
  now,      \* the clock, in seconds
  last,     \* when the draw loop took its last frame
  frame,    \* the frame handed to the event goroutine, <<it>> or NoFrame
  screen,   \* what is on the screen, <<it>> or NoFrame
  pressed,  \* the keys pressed so far
  drawn,    \* the frames taken so far
  heard,    \* the reports so far, with the bucket each belongs in
  cleared,  \* how many of them came before the counters were last cleared
  latest    \* the last second each rate ring was told of

vars == <<m, now, last, frame, screen, pressed, drawn, heard, cleared, latest>>

NoFrame == <<>>

paneTraffic == 0
paneLeases == 1
panePlugins == 2
paneLog == 3
paneCount == 4
PaneIDs == 0 .. paneCount - 1

follows(p) == p \in {paneTraffic, paneLog}

AtLeast(a, b) == IF a < b THEN b ELSE a
AtMost(a, b) == IF a < b THEN a ELSE b

newModel ==
  [dirty |-> FALSE, listeners |-> 0, chains |-> [f \in {4, 6} |-> <<>>], counts |-> <<>>,
   traffic |-> newRing(history), frozen |-> <<>>, logs |-> newRing(logLines),
   leases |-> newLeaseTable(maxLeases), reqRate |-> newRate, errRate |-> newRate,
   tot |-> newTotals, paused |-> FALSE, help |-> FALSE, focus |-> paneTraffic,
   panes |-> [p \in PaneIDs |-> [offset |-> 0, follow |-> follows(p), start |-> 0, total |-> 0,
                                 height |-> 0]]]

Touched(x) == [x EXCEPT !.dirty = TRUE]

-----------------------------------------------------------------------------
(* The observer. *)

(* The counters of a family, made when it is first seen. *)
counted(counts, r) ==
  IF r.family \notin DOMAIN counts /\ Cardinality(DOMAIN counts) >= maxFamilies THEN counts
  ELSE [f \in DOMAIN counts \cup {r.family} |->
          IF f # r.family THEN counts[f]
          ELSE addToFamily(IF f \in DOMAIN counts THEN counts[f] ELSE newFamilyCounters, r)]

recordLease(x, r) ==
  LET state == leaseTransition(r) IN
  IF state = leaseNone \/ r.client = "" THEN x
  ELSE [x EXCEPT !.tot.issued = @ + (IF state = "offered" THEN 1 ELSE 0),
                 !.tot.confirmed = @ + (IF state = "confirmed" THEN 1 ELSE 0),
                 !.leases = update(@, r, state)]

addRequest(x, r) ==
  recordLease([Touched(x) EXCEPT
    !.traffic = push(@, r),
    !.tot = recordOutcome([@ EXCEPT !.requests = @ + 1, !.lastRequest = r.time], r),
    !.reqRate = add(@, r.time),
    !.errRate = IF r.outcome \in Errors THEN add(@, r.time) ELSE @,
    !.counts = counted(@, r),
    !.chains[r.family] = recordChain(@, r)], r)

-----------------------------------------------------------------------------
(* The keys. *)

togglePause(x) ==
  [x EXCEPT !.paused = ~@, !.frozen = IF x.paused THEN <<>> ELSE items(x.traffic)]

clearStats(x) ==
  [x EXCEPT
    !.traffic = reset(@), !.frozen = <<>>, !.counts = <<>>,
    !.reqRate = resetRate(@), !.errRate = resetRate(@),
    !.tot = [@ EXCEPT !.requests = 0, !.dropped = 0, !.errors = 0,
                      !.lastSoftErr = Never, !.lastSendErr = Never],
    !.panes = [p \in PaneIDs |-> [@[p] EXCEPT !.offset = 0, !.follow = follows(p)]]]

Bottom(v) == AtLeast(v.total - v.height, 0)

scrollBy(x, delta) ==
  LET v == x.panes[x.focus]
      offset == AtLeast(v.start + delta, 0)
  IN  [x EXCEPT !.panes[x.focus] =
         [v EXCEPT !.offset = offset, !.follow = follows(x.focus) /\ offset >= Bottom(v)]]

Page(x) == AtLeast(x.panes[x.focus].height, 1)

cycleFocus(x, delta) == [x EXCEPT !.focus = (@ + delta + paneCount) % paneCount]

scrollTop(x) == [x EXCEPT !.panes[x.focus] = [@ EXCEPT !.offset = 0, !.follow = FALSE]]

scrollBottom(x) ==
  LET v == x.panes[x.focus] IN
  [x EXCEPT !.panes[x.focus] = [v EXCEPT !.offset = Bottom(v), !.follow = follows(x.focus)]]

handleRune(x, key) ==
  CASE key = "p" -> togglePause(x)
    [] key = "c" -> clearStats(x)
    [] key = "?" -> [x EXCEPT !.help = ~@]
    [] key = "1" -> [x EXCEPT !.focus = paneTraffic]
    [] key = "2" -> [x EXCEPT !.focus = paneLeases]
    [] key = "3" -> [x EXCEPT !.focus = panePlugins]
    [] key = "4" -> [x EXCEPT !.focus = paneLog]
    [] OTHER -> x

handleScroll(x, key) ==
  CASE key = "tab" -> cycleFocus(x, 1)
    [] key = "backtab" -> cycleFocus(x, -1)
    [] key = "up" -> scrollBy(x, -1)
    [] key = "down" -> scrollBy(x, 1)
    [] key = "pgup" -> scrollBy(x, -Page(x))
    [] key = "pgdn" -> scrollBy(x, Page(x))
    [] key = "home" -> scrollTop(x)
    [] key = "end" -> scrollBottom(x)
    [] OTHER -> x

(* While the help is up any key closes it and does nothing else. Every key   *)
(* is worth a frame.                                                         *)
handleKey(x, key) ==
  Touched(IF x.help THEN [x EXCEPT !.help = FALSE]
          ELSE handleScroll(handleRune(x, key), key))

-----------------------------------------------------------------------------
(* A frame. *)

(* A clock that turned no later than the ring leaves it as it is.            *)
Aged(x, t) == [x EXCEPT !.reqRate = advance(@, t), !.errRate = advance(@, t)]

(* The requests a frame lists: a paused one keeps to those it was paused on. *)
Traffic_Live(x) == items(x.traffic)
Traffic(x) == IF x.paused THEN x.frozen ELSE items(x.traffic)

(* What one frame shows of the model at a time. *)
Shown(x, t) ==
  [now |-> t, listeners |-> x.listeners, chains |-> x.chains, counts |-> x.counts,
   traffic |-> Traffic(x),
   leases |-> rows(x.leases), leaseCounts |-> x.leases.states, logs |-> items(x.logs),
   reqRate |-> series(advance(x.reqRate, t)), errRate |-> series(advance(x.errRate, t)),
   tot |-> x.tot, paused |-> x.paused, help |-> x.help, focus |-> x.focus,
   panes |-> [p \in PaneIDs |-> [offset |-> x.panes[p].offset, follow |-> x.panes[p].follow]]]

(* The copy a frame is drawn from is taken in one step with clearing the     *)
(* flag, so a change that comes after it asks for another.                   *)
snapshot(x, t) == [Aged(x, t) EXCEPT !.dirty = FALSE]

(* The rows a pane has to show; an empty one says so in a row, and each      *)
(* family of the plugin pane has a title and a row for every plugin.         *)
Rows(s, p) ==
  CASE p = paneTraffic -> AtLeast(Len(s.traffic), 1)
    [] p = paneLeases -> AtLeast(Len(s.leases), 1)
    [] p = panePlugins -> 2 + AtLeast(Len(s.chains[4]), 1) + AtLeast(Len(s.chains[6]), 1)
    [] p = paneLog -> AtLeast(Len(s.logs), 1)

(* The first row in view. *)
visible(total, height, offset, follow) ==
  LET bottom == AtLeast(total - height, 0) IN
  IF height <= 0 THEN 0
  ELSE IF follow THEN bottom ELSE AtMost(AtLeast(offset, 0), bottom)

(* The lease pane keeps its column header in view. *)
sticky(p) == IF p = paneLeases THEN 1 ELSE 0

Body(p, heights) == AtLeast(heights[p] - sticky(p), 0)

(* paint and paintScroll: where the windows end up goes back to the model.   *)
Starts(s, heights) ==
  [p \in PaneIDs |-> visible(Rows(s, p), heights[p] - sticky(p), s.panes[p].offset, s.panes[p].follow)]

setGeometry_Clears(x, s, heights) ==
  [x EXCEPT !.dirty = FALSE, !.panes = [p \in PaneIDs |-> [@[p] EXCEPT !.start = Starts(s, heights)[p],
                                                      !.total = Rows(s, p),
                                                      !.height = Body(p, heights)]]]

setGeometry(x, s, heights) ==
  [x EXCEPT !.panes = [p \in PaneIDs |-> [@[p] EXCEPT !.start = Starts(s, heights)[p],
                                                      !.total = Rows(s, p),
                                                      !.height = Body(p, heights)]]]

-----------------------------------------------------------------------------
(* grade: the word on the status line. *)
within(t, stamp) == stamp # Never /\ t - stamp < errorWindow

grade(s) ==
  IF s.listeners = 0 \/ within(s.now, s.tot.lastSendErr) THEN "FAILING"
  ELSE IF within(s.now, s.tot.lastSoftErr) THEN "DEGRADED"
  ELSE IF s.tot.requests = 0 THEN "IDLE" ELSE "HEALTHY"

-----------------------------------------------------------------------------
Init ==
  /\ m = newModel
  /\ now = MaxDelay
  /\ last = Never
  /\ frame = NoFrame
  /\ screen = NoFrame
  /\ pressed = 0
  /\ drawn = 0
  /\ heard = <<>>
  /\ cleared = 0
  /\ latest = [req |-> 0, err |-> 0]

Loaded == \A f \in Families : Len(m.chains[f]) = Links(f)

(* The server reports its plugins, then its sockets, before it serves.       *)
addPlugin(f) ==
  /\ m.listeners = 0
  /\ Len(m.chains[f]) < Links(f)
  /\ m' = [Touched(m) EXCEPT !.chains[f] = Append(@, chainLink)]
  /\ UNCHANGED <<now, last, frame, screen, pressed, drawn, heard, cleared, latest>>

addListener ==
  /\ Loaded
  /\ m.listeners < Cardinality(Families)
  /\ m' = [Touched(m) EXCEPT !.listeners = @ + 1]
  /\ UNCHANGED <<now, last, frame, screen, pressed, drawn, heard, cleared, latest>>

(* A handler done with a request it read up to MaxDelay seconds ago.         *)
Request(r, time) ==
  LET s == [r EXCEPT !.time = time]
      req == AtLeast(time, latest.req)
      err == AtLeast(time, latest.err)
  IN  /\ m.listeners > 0
      /\ Len(heard) < MaxRequests
      /\ m' = addRequest(m, s)
      /\ heard' = Append(heard, [report |-> s, req |-> req, err |-> err])
      /\ latest' = [req |-> req, err |-> IF r.outcome \in Errors THEN err ELSE latest.err]
      /\ UNCHANGED <<now, last, frame, screen, pressed, drawn, cleared>>

(* A log line, under the lock of the writer and then that of the model.      *)
addLog ==
  /\ m.logs.n < MaxLogs
  /\ m' = [Touched(m) EXCEPT !.logs = push(@, now)]
  /\ UNCHANGED <<now, last, frame, screen, pressed, drawn, heard, cleared, latest>>

Key(key) ==
  /\ pressed < MaxKeys
  /\ pressed' = pressed + 1
  /\ cleared' = IF key = "c" /\ ~m.help THEN Len(heard) ELSE cleared
  /\ m' = handleKey(m, key)
  /\ UNCHANGED <<now, last, frame, screen, drawn, heard, latest>>

(* The reports since the counters were last cleared. *)
Since == {i \in DOMAIN heard : i > cleared}

(* redraw: a tick of the draw loop finds a change, or a second gone by, and  *)
(* hands a frame over. It waits for the one before.                          *)
Redraw ==
  /\ drawn < MaxFrames
  /\ frame = NoFrame
  /\ m.dirty \/ last # now
  /\ m' = snapshot(m, now)
  /\ frame' = <<[shown |-> Shown(m, now), pressed |-> pressed, told |-> Since]>>
  /\ drawn' = drawn + 1
  /\ last' = now
  /\ latest' = [req |-> AtLeast(now, latest.req), err |-> AtLeast(now, latest.err)]
  /\ UNCHANGED <<now, screen, pressed, heard, cleared>>

(* paint, on the event goroutine. *)
Paint(heights) ==
  /\ frame # NoFrame
  /\ screen' = <<[shown |-> frame[1].shown, pressed |-> frame[1].pressed,
                  told |-> frame[1].told, heights |-> heights,
                  starts |-> Starts(frame[1].shown, heights)]>>
  /\ m' = setGeometry(m, frame[1].shown, heights)
  /\ frame' = NoFrame
  /\ UNCHANGED <<now, last, pressed, drawn, heard, cleared, latest>>

Tick ==
  /\ now < MaxNow
  /\ now' = now + 1
  /\ UNCHANGED <<m, last, frame, screen, pressed, drawn, heard, cleared, latest>>

Next ==
  \/ \E f \in Families : addPlugin(f)
  \/ addListener
  \/ \E r \in Requests, d \in 0 .. MaxDelay : Request(r, now - d)
  \/ addLog
  \/ \E key \in Keys : Key(key)
  \/ Redraw
  \/ \E heights \in Heights : Paint(heights)
  \/ Tick

Spec == Init /\ [][Next]_vars

-----------------------------------------------------------------------------
(* With no frame on its way and no change noted, the screen shows the model  *)
(* as it was at the time of the frame: no change is left without one.        *)
ScreenCurrent ==
  ~m.dirty /\ frame = NoFrame /\ screen # NoFrame => screen[1].shown = Shown(m, screen[1].shown.now)

Report(i) == heard[i].report
CountIf(S, P(_)) == Cardinality({i \in S : P(i)})

(* A rate ring holds, for each second it goes back, the reports of that      *)
(* second since the last clear; one stamped before the second the ring had   *)
(* reached counts in that second.                                            *)
RingTrue(ring, S, sec(_)) ==
  \A b \in 1 .. rateBuckets :
    series(ring)[b] = CountIf(S, LAMBDA i : sec(i) = ring.sec - rateBuckets + b)

Failed == {i \in Since : Report(i).outcome \in Errors}

Leased == {i \in DOMAIN heard : Report(i).client # "" /\ leaseTransition(Report(i)) # leaseNone}

(* The reports the lease table was told of, oldest first. *)
Leases == [n \in 1 .. Cardinality(Leased) |->
             Report(CHOOSE i \in Leased : CountIf(Leased, LAMBDA j : j <= i) = n)]

SumOf(f) == MapThenSumSet(LAMBDA k : f[k], DOMAIN f)

(* The header, the rates, the counters and the traffic pane say exactly what *)
(* was reported: since the last clear, and for the leases since the start.   *)
CountsTrue ==
  /\ m.tot.requests = Cardinality(Since)
  /\ m.tot.errors = Cardinality(Failed)
  /\ m.tot.dropped = CountIf(Since, LAMBDA i : Report(i).outcome = "dropped")
  /\ m.tot.issued = CountIf(Leased, LAMBDA i : leaseTransition(Report(i)) = "offered")
  /\ m.tot.confirmed = CountIf(Leased, LAMBDA i : leaseTransition(Report(i)) = "confirmed")
  /\ RingTrue(m.reqRate, Since, LAMBDA i : heard[i].req)
  /\ RingTrue(m.errRate, Failed, LAMBDA i : heard[i].err)
  /\ \A f \in Families :
       LET seen == {i \in Since : Report(i).family = f} IN
       IF seen = {} THEN f \notin DOMAIN m.counts
       ELSE /\ m.counts[f].total = Cardinality(seen)
            /\ SumOf(m.counts[f].in) = Cardinality(seen)
            /\ SumOf(m.counts[f].paths) = Cardinality(seen)
            /\ Cardinality(DOMAIN m.counts[f].in) <= maxTypeKeys + 1
  /\ items(m.traffic) = [n \in 1 .. AtMost(Cardinality(Since), history) |->
                           Report(Len(heard) - AtMost(Cardinality(Since), history) + n)]

(* The lease table is that of all exchanges reported so far.                 *)
LeasesTrue == TableSound(m.leases, Leases)

(* The status line forgets an error no earlier than a handler's delay before *)
(* its window ends, and remembers none for longer than the window.           *)
StatusHonest ==
  screen # NoFrame =>
    LET s == screen[1].shown
        Fresh(i, w) == s.now - Report(i).time < w
        failed == {i \in screen[1].told : Report(i).outcome \in Errors}
    IN  /\ grade(s) \in {"HEALTHY", "IDLE"} => \A i \in failed : ~Fresh(i, errorWindow - MaxDelay)
        /\ grade(s) \in {"DEGRADED", "FAILING"} /\ s.listeners > 0 => \E i \in failed : Fresh(i, errorWindow)

Rowed(s) == SubSeq(s.shown.traffic, s.starts[paneTraffic] + 1,
                   AtMost(s.starts[paneTraffic] + s.heights[paneTraffic], Len(s.shown.traffic)))

(* While the traffic pane is paused its rows stay where they are from one    *)
(* frame to the next, whatever is reported, unless a key is pressed or the   *)
(* window is resized.                                                        *)
PausedStep ==
  (/\ screen # NoFrame
   /\ screen' # NoFrame
   /\ screen[1].shown.paused
   /\ screen'[1].shown.paused
   /\ screen'[1].pressed = screen[1].pressed
   /\ screen'[1].heights = screen[1].heights) => Rowed(screen'[1]) = Rowed(screen[1])

=============================================================================
