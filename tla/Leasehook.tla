------------------------------ MODULE Leasehook ------------------------------
(***************************************************************************)
(* The leasehook plugin (plugins/leasehook): handlers report lease events  *)
(* into a bounded queue without waiting, and one worker delivers them to a *)
(* webhook or a program. A client waits for the answer to one message      *)
(* before it sends the next, and the answer leaves after the handler.      *)
(***************************************************************************)
EXTENDS Integers, Sequences, FiniteSets

CONSTANTS
  Clients,
  Exchanges,         \* what handlers see, see event
  Events,            \* events:
  QueueCap,          \* queue:
  DropWarnInterval,  \* dropWarnInterval
  MaxMessages,       \* bound on the messages of a client
  MaxClock           \* bound on the clock

VARIABLES
  sent,       \* history: the exchanges a client has started
  pending,    \* the handlers that have built an event and not queued it yet
  events,     \* p.queue
  inHand,     \* the events the worker is delivering
  drops, lastWarn,
  clock,
  wanted,     \* history: how many events to be reported there were
  delivered,  \* history: the events handed to the target, in order
  warnings    \* history: when a warning was logged

vars == <<sent, pending, events, inHand, drops, lastWarn, clock, wanted, delivered, warnings>>

Never == -1

-----------------------------------------------------------------------------
(* An exchange x is the type of the request, the type of the answer, or      *)
(* "none", and whether that answer hands out an address or a prefix.         *)

(* event4, answer4, event6 and replied6: the event to report, if any. *)
event(x) ==
  CASE x.req \in {"release", "decline"} -> x.req
    [] x.req = "request" /\ x.resp = "nak" -> "nak"
    [] x.req = "request" /\ x.resp \in {"offer", "ack", "reply"} /\ x.gives -> x.resp
    [] OTHER -> "none"

Handling(c) == {p \in pending : p.client = c}

(* Handler4 and Handler6 up to the event being built. The handlers of a      *)
(* client can overlap: "after" has its exchanges that were over by now.      *)
Build(c) ==
  /\ sent[c] < MaxMessages
  /\ sent' = [sent EXCEPT ![c] = @ + 1]
  /\ \E x \in Exchanges :
       pending' = pending \cup {[client |-> c, nth |-> sent[c] + 1, what |-> event(x),
                                  after |-> (1 .. sent[c]) \ {p.nth : p \in Handling(c)}]}
  /\ UNCHANGED <<events, inHand, drops, lastWarn, clock, wanted, delivered, warnings>>

(* countDrop and dropped. *)
countDrop ==
  /\ drops' = drops + 1
  /\ IF lastWarn # Never /\ clock - lastWarn < DropWarnInterval
     THEN UNCHANGED <<lastWarn, warnings>>
     ELSE lastWarn' = clock /\ warnings' = Append(warnings, clock)

enqueue_Evict(p) ==
  IF Len(events) < QueueCap
  THEN events' = Append(events, p) /\ UNCHANGED <<drops, lastWarn, warnings>>
  ELSE events' = Append(Tail(events), p) /\ UNCHANGED <<drops, lastWarn, warnings>>

(* enqueue: never waits. *)
enqueue(p) ==
  IF Len(events) < QueueCap
  THEN events' = Append(events, p) /\ UNCHANGED <<drops, lastWarn, warnings>>
  ELSE countDrop /\ UNCHANGED events

(* The rest of the handler; the response is passed on untouched. *)
Report(p) ==
  /\ pending' = pending \ {p}
  /\ IF p.what \in Events
     THEN enqueue(p) /\ wanted' = wanted + 1
     ELSE UNCHANGED <<events, drops, lastWarn, wanted, warnings>>
  /\ UNCHANGED <<sent, inHand, clock, delivered>>

(* run: takes one event at a time. *)
Take ==
  /\ inHand = <<>> /\ events # <<>>
  /\ inHand' = <<Head(events)>> /\ events' = Tail(events)
  /\ UNCHANGED <<sent, pending, drops, lastWarn, clock, wanted, delivered, warnings>>

(* deliverOne: whether the target accepts the event or fails, it is not sent *)
(* again.                                                                    *)
Deliver ==
  /\ inHand # <<>>
  /\ delivered' = delivered \o inHand
  /\ inHand' = <<>>
  /\ UNCHANGED <<sent, pending, events, drops, lastWarn, clock, wanted, warnings>>

Tick ==
  /\ clock < MaxClock
  /\ clock' = clock + 1
  /\ UNCHANGED <<sent, pending, events, inHand, drops, lastWarn, wanted, delivered, warnings>>

Init ==
  /\ sent = [c \in Clients |-> 0]
  /\ pending = {} /\ events = <<>> /\ inHand = <<>>
  /\ drops = 0 /\ lastWarn = Never /\ clock = 0 /\ wanted = 0
  /\ delivered = <<>> /\ warnings = <<>>

Next == Take \/ Deliver \/ Tick \/ (\E c \in Clients : Build(c)) \/ (\E p \in pending : Report(p))

-----------------------------------------------------------------------------
(* A receiver sees what happened to a client in the order it happened, and   *)
(* nothing twice: where one exchange was over before another one began, so   *)
(* are their events, however handlers interleave.                            *)
ClientOrder ==
  LET all == delivered \o inHand \o events IN
  \A i, k \in DOMAIN all : i < k /\ all[i].client = all[k].client =>
    all[i].nth # all[k].nth /\ all[k].nth \notin all[i].after

(* Only events that were asked for reach the queue, and each is delivered,   *)
(* still to be delivered, or counted as dropped.                             *)
EventsAccounted == Len(delivered) + Len(inHand) + Len(events) + drops = wanted

(* The log hears of drops as soon as there are any, and then at most once    *)
(* per dropWarnInterval.                                                     *)
WarningsPaced ==
  /\ drops > 0 => warnings # <<>>
  /\ \A i \in 1 .. Len(warnings) - 1 : warnings[i + 1] - warnings[i] >= DropWarnInterval
=============================================================================
