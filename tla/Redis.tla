-------------------------------- MODULE Redis --------------------------------
(***************************************************************************)
(* The redis plugin (plugins/redis): handlers that look a client's hash up *)
(* over connections they borrow from a pool. Replies carry nothing that    *)
(* says which command they answer, so a connection is only worth keeping   *)
(* while it has nothing left to read. An array with an error among its     *)
(* elements leaves something: reading it stops there, as at any error      *)
(* reply, and the connection is kept.                                      *)
(***************************************************************************)
EXTENDS Integers, Sequences, FiniteSets, SequencesExt

CONSTANTS
  Keys,
  Handlers,
  Conns,         \* bound: the connections there can be
  Replies,       \* external: what the server says about a key
  maxIdleConns

VARIABLES
  idle,          \* the pool, last in first out
  closed,        \* whether Close has run
  open,          \* the connections with an open socket
  asked,         \* external: per connection the commands the server has yet to answer
  stream,        \* per connection what waits to be read, a readReply of client.do each
  upset,         \* the open connections that were sent an array with an error in it
  handlers

vars == <<idle, closed, open, asked, stream, upset, handlers>>

Waiting == [pc |-> "waiting"]
Done(out, for, cn) == [pc |-> "done", out |-> out, for |-> for, inStep |-> cn \cap upset = {}]

-----------------------------------------------------------------------------
(* Handler4, Handler6 and get: take the last connection put back, or dial.   *)
(* A message skipsLookup names, or one without the identifier key: asks for, *)
(* passes before this.                                                       *)
Get(h) ==
  /\ handlers[h].pc \in {"waiting", "done"}
  /\ \E k \in Keys :
       IF closed THEN handlers' = [handlers EXCEPT ![h] = Done("dropped", {}, {})] /\ UNCHANGED idle
       ELSE IF idle # <<>>
       THEN /\ handlers' = [handlers EXCEPT ![h] = [pc |-> "send", key |-> k, conn |-> Last(idle)]]
            /\ idle' = Front(idle)
       ELSE /\ handlers' = [handlers EXCEPT ![h] = [pc |-> "dial", key |-> k]]
            /\ UNCHANGED idle
  /\ UNCHANGED <<closed, open, asked, stream, upset>>

(* dial, handshake and authenticate: a connection, or nothing at all. (Any   *)
(* name that is free will do for it.)                                        *)
Dial(h) ==
  /\ handlers[h].pc = "dial"
  /\ \/ LET c == CHOOSE c \in Conns : c \notin open IN
          /\ open' = open \cup {c}
          /\ handlers' = [handlers EXCEPT ![h] = [pc |-> "send", key |-> @.key, conn |-> c]]
     \/ /\ handlers' = [handlers EXCEPT ![h] = Done("dropped", {}, {})]
        /\ UNCHANGED open
  /\ UNCHANGED <<idle, closed, asked, stream, upset>>

(* conn.do: the command goes out. *)
Send(h) ==
  /\ handlers[h].pc = "send"
  /\ asked' = [asked EXCEPT ![handlers[h].conn] = Append(@, handlers[h].key)]
  /\ handlers' = [handlers EXCEPT ![h] = [@ EXCEPT !.pc = "read"]]
  /\ UNCHANGED <<idle, closed, open, stream, upset>>

(* readReply and readArray: what a reply comes apart into. An array is read  *)
(* whole, but for one with an error in it: that ends as an error reply, and  *)
(* the element after it is left for the next to read.                        *)
Pieces(r) == IF r = "upsetting" THEN <<"error", "element">> ELSE <<r>>

(* The server answers the next command on a connection. (Bound: it upsets no *)
(* second one while one is upset.)                                           *)
Serve(c) ==
  /\ asked[c] # <<>>
  /\ \E r \in IF upset # {} THEN Replies \ {"upsetting"} ELSE Replies :
       /\ stream' = [stream EXCEPT ![c] =
            @ \o [i \in DOMAIN Pieces(r) |-> [key |-> Head(asked[c]), reply |-> Pieces(r)[i]]]]
       /\ upset' = IF r = "upsetting" THEN upset \cup {c} ELSE upset
  /\ asked' = [asked EXCEPT ![c] = Tail(@)]
  /\ UNCHANGED <<idle, closed, open, handlers>>

(* Sockets are closed: what the server still has to say on them is lost. *)
Shut(cs) ==
  /\ open' = open \ cs
  /\ asked' = [c \in Conns |-> IF c \in cs THEN <<>> ELSE asked[c]]
  /\ stream' = [c \in Conns |-> IF c \in cs THEN <<>> ELSE stream[c]]
  /\ upset' = upset \ cs

(* put: back to the pool with what is left to read, or closed when there is  *)
(* no room or no pool.                                                       *)
put(c) ==
  IF ~closed /\ Len(idle) < maxIdleConns
  THEN /\ idle' = Append(idle, c)
       /\ stream' = [stream EXCEPT ![c] = Tail(@)]
       /\ UNCHANGED <<open, asked, upset>>
  ELSE Shut({c}) /\ UNCHANGED idle

(* hgetall and the handlers: what comes of a reply. An error reply, one that *)
(* is no array and a hash with an unusable address drop the request.         *)
Outcome(r) == CASE r = "address" -> "given" [] r = "nothing" -> "passed" [] OTHER -> "dropped"

(* client.do: a reply was read. Garbage retires the connection; an error     *)
(* reply does not, not even one that came out of the middle of an array.     *)
Read(h) ==
  LET c == handlers[h].conn
      r == Head(stream[c])
  IN  /\ handlers[h].pc = "read"
      /\ stream[c] # <<>>
      /\ handlers' = [handlers EXCEPT ![h] = Done(Outcome(r.reply), {@.key, r.key}, {c})]
      /\ IF r.reply = "garbage"
         THEN Shut({c}) /\ UNCHANGED idle
         ELSE put(c)
      /\ UNCHANGED closed

(* client.do: a write that fails, no answer in time or a connection lost     *)
(* halfway, all of which retire the connection.                              *)
Fail(h) ==
  /\ handlers[h].pc \in {"send", "read"}
  /\ Shut({handlers[h].conn})
  /\ handlers' = [handlers EXCEPT ![h] = Done("dropped", {}, {})]
  /\ UNCHANGED <<idle, closed>>

(* Close: the idle connections are closed; those in use are closed by put. *)
Close ==
  /\ ~closed
  /\ closed' = TRUE
  /\ idle' = <<>>
  /\ Shut(ToSet(idle))
  /\ UNCHANGED handlers

Init ==
  /\ idle = <<>> /\ closed = FALSE /\ open = {}
  /\ asked = [c \in Conns |-> <<>>] /\ stream = [c \in Conns |-> <<>>]
  /\ upset = {} /\ handlers = [h \in Handlers |-> Waiting]

Next ==
  \/ Close
  \/ \E c \in Conns : Serve(c)
  \/ \E h \in Handlers : Get(h) \/ Dial(h) \/ Send(h) \/ Read(h) \/ Fail(h)

-----------------------------------------------------------------------------
(* A handler never acts on the hash of another client: the reply it reads    *)
(* answers its own command, however many commands were abandoned before.     *)
(* This is so as long as the server puts no error into an array, as none     *)
(* does that answers HGETALL; after one every reader of that connection is   *)
(* behind (client.do keeps it).                                              *)
AnswersMatch ==
  \A h \in Handlers :
    handlers[h].pc = "done" /\ handlers[h].inStep => Cardinality(handlers[h].for) <= 1

InUse(h) == IF handlers[h].pc \in {"send", "read"} THEN {handlers[h].conn} ELSE {}

(* Every open connection is idle or in the hands of exactly one handler; the *)
(* pool keeps to its limit, and is empty for good once the client is closed. *)
ConnsAccounted ==
  /\ open = ToSet(idle) \cup UNION {InUse(h) : h \in Handlers}
  /\ IsInjective(idle)
  /\ \A h \in Handlers : InUse(h) \cap ToSet(idle) = {}
  /\ \A h, g \in Handlers : InUse(h) \cap InUse(g) # {} => h = g
  /\ Len(idle) <= maxIdleConns
  /\ closed => idle = <<>>
=============================================================================
