--------------------------- MODULE ServersProofs ----------------------------
(***************************************************************************)
(* Proofs about Servers, for any number of sockets, slots and datagrams,   *)
(* and about Screen: the gate loses no slot, a drain that ends leaves no   *)
(* handler, and whatever stops, stops clean.                               *)
(***************************************************************************)
EXTENDS MCServers, FiniteSetTheorems, SequenceTheorems, TLAPS

(* Zenon proves the leaves, but for those that name another prover. *)
USE ZenonT(30)

Gone == {l \in Sockets : loop[l] = "gone"}

(* The gate: what the counters count, and that a refusal means closed.       *)
GateInv ==
  /\ sem <= MaxInFlight
  /\ sem = Cardinality(InState({"slot", "refused", "working"}))
  /\ wg = Cardinality(InState({"working", "leaving"}))
  /\ closed <=> once # "new"

(* Close: one caller drains, nobody gets past the drain before it is over,   *)
(* and nobody closes a socket before that.                                   *)
CloseInv ==
  /\ \A c \in Callers :
       /\ closer[c].pc = "draining" => once = "running"
       /\ closer[c].pc = "blocked" => once # "new"
       /\ closer[c].pc \in {"closing", "done"} => once = "done"
  /\ \A c, e \in Callers : closer[c].pc = "draining" /\ closer[e].pc = "draining" => c = e
  /\ \A l \in Sockets : sock[l] = "closed" => once = "done"

(* What a caller of Close has behind it, and what has to be so before there  *)
(* is one.                                                                   *)
SocketsInv ==
  /\ \A l \in Sockets : (sock[l] = "none" <=> bound < l) /\ (loop[l] = "none" <=> bound < l)
  /\ start = "binding" => bound < N /\ \A c \in Callers : closer[c].pc = "idle"
  /\ start = "up" => bound = N
  /\ \A c \in Callers :
       /\ closer[c].next <= bound + 1
       /\ closer[c].pc = "idle" => closer[c].next = 1
       /\ \A l \in Sockets : l < closer[c].next => sock[l] = "closed"
       /\ closer[c].pc = "done" => closer[c].next = bound + 1

(* Every read loop that has ended has reported, once.                        *)
WaitInv ==
  /\ start = "failed" => closer["start"].pc = "done" /\ Joined
  /\ waited # "idle" => start = "up"
  /\ waited \in {"rest", "returned"} => closer["wait"].pc = "done"
  /\ Len(errs) + Len(results) = Cardinality(Gone)
  /\ waited = "returned" => Len(results) = N

IndInv == TypeOK /\ GateInv /\ CloseInv /\ SocketsInv /\ WaitInv /\ DrainedMeansQuiet

-----------------------------------------------------------------------------
(* Counting. *)

(* The datagrams in given states are finitely many. *)
LEMMA InStateFinite ==
  ASSUME NEW S
  PROVE  IsFiniteSet(InState(S)) /\ Cardinality(InState(S)) \in Nat
<1>1. InState(S) \in SUBSET Datagrams
  BY DEF InState
<1> QED
  BY <1>1, ServersAssumption, FS_Subset, FS_CardinalityType

(* A datagram that moves on leaves the count of its old state and joins that *)
(* of its new one.                                                           *)
LEMMA MoveCounts ==
  ASSUME dg \in [Datagrams -> Fates], NEW d \in Datagrams, NEW to, Move(d, to), NEW S
  PROVE  Cardinality(InState(S))' =
           Cardinality(InState(S)) + (IF to \in S THEN 1 ELSE 0)
             - (IF dg[d] \in S THEN 1 ELSE 0)
<1>1. IsFiniteSet(InState(S)) /\ Cardinality(InState(S)) \in Nat
  BY InStateFinite
<1>2. InState(S)' = IF to \in S THEN InState(S) \cup {d} ELSE InState(S) \ {d}
  BY DEF InState, Move
<1>3. d \in InState(S) <=> dg[d] \in S
  BY DEF InState
<1>4. Cardinality(InState(S) \cup {d}) =
        IF d \in InState(S) THEN Cardinality(InState(S)) ELSE Cardinality(InState(S)) + 1
  BY <1>1, FS_AddElement
<1>5. Cardinality(InState(S) \ {d}) =
        IF d \in InState(S) THEN Cardinality(InState(S)) - 1 ELSE Cardinality(InState(S))
  BY <1>1, FS_RemoveElement
<1>6. Cardinality(InState(S))' = Cardinality(InState(S)')
  OBVIOUS
<1> QED
  BY <1>1, <1>2, <1>3, <1>4, <1>5, <1>6, SMTT(60)

(* The loops that have ended are finitely many, and all of them when there   *)
(* are N.                                                                    *)
LEMMA GoneCounts ==
  /\ IsFiniteSet(Gone) /\ Cardinality(Gone) \in Nat /\ Cardinality(Gone) <= N
  /\ Cardinality(Gone) = N => Gone = Sockets
<1>1. IsFiniteSet(Sockets) /\ Cardinality(Sockets) = N
  BY ServersAssumption, FS_Interval, SMTT(60) DEF Sockets
<1>2. Gone \in SUBSET Sockets
  BY DEF Gone
<1> QED
  BY <1>1, <1>2, FS_Subset, FS_CardinalityType

-----------------------------------------------------------------------------
(* Start. *)

USE DEF Sockets, Callers

(* A socket bound is open and read, and nobody closes yet. *)
LEMMA BindStep == IndInv /\ Bind => IndInv'
<1> SUFFICES ASSUME IndInv, Bind PROVE IndInv'
  OBVIOUS
<1> USE ServersAssumption DEF IndInv, Bind, gateVars, closeVars, waitVars
<1>1. TypeOK' /\ bound' = bound + 1 /\ bound' \in 1 .. N
  BY SMTT(60) DEF TypeOK, SocketsInv
<1>2. GateInv' /\ DrainedMeansQuiet'
  BY DEF GateInv, DrainedMeansQuiet, InState
<1>3. CloseInv'
  BY <1>1, SMTT(60) DEF TypeOK, CloseInv
<1>4. SocketsInv'
  BY <1>1, SMTT(60) DEF TypeOK, SocketsInv
<1>5. Gone' = Gone
  BY <1>1, SMTT(60) DEF TypeOK, Gone, SocketsInv
<1>6. WaitInv'
  BY <1>1, <1>5 DEF TypeOK, WaitInv
<1> QED
  BY <1>1, <1>2, <1>3, <1>4, <1>6

(* Start turning to shutdown, and leaving it when all is closed. *)
LEMMA StartEndsStep == IndInv /\ (BindFailed \/ StartFailed) => IndInv'
<1> SUFFICES ASSUME IndInv, BindFailed \/ StartFailed PROVE IndInv'
  OBVIOUS
<1> USE ServersAssumption DEF IndInv, BindFailed, StartFailed, gateVars, closeVars, waitVars
<1>1. TypeOK'
  BY SMTT(60) DEF TypeOK
<1>2. GateInv' /\ DrainedMeansQuiet'
  BY SMTT(60) DEF GateInv, DrainedMeansQuiet, InState
<1>3. CloseInv' /\ SocketsInv'
  BY SMTT(60) DEF CloseInv, SocketsInv
<1>4. Gone' = Gone /\ Joined' = Joined
  BY DEF Gone, Joined
<1>5. WaitInv'
  BY <1>4 DEF TypeOK, WaitInv
<1> QED
  BY <1>1, <1>2, <1>3, <1>5

-----------------------------------------------------------------------------
(* The gate. *)

Slots == {"slot", "refused", "working"}
Running == {"working", "leaving"}
One(s, S) == IF s \in S THEN 1 ELSE 0

(* What every step of the gate has to do: count the slots and the handlers,  *)
(* start none when closed, and lose a reply only in a handler.               *)
LEMMA GateStep ==
  ASSUME IndInv, NEW d \in Datagrams, NEW to \in Fates, Move(d, to),
         UNCHANGED <<via, start, bound, sock, loop, closed, closeVars, errs, waitVars>>,
         sem' = sem + One(to, Slots) - One(dg[d], Slots), sem' <= MaxInFlight,
         wg' = wg + One(to, Running) - One(dg[d], Running),
         to \in Running => ~closed \/ dg[d] \in Running,
         lost' \in BOOLEAN, lost' => lost \/ (dg[d] = "working" /\ sock[via[d]] = "closed")
  PROVE  IndInv'
<1> USE DEF IndInv, closeVars, waitVars
<1>1. CloseInv' /\ SocketsInv'
  BY DEF CloseInv, SocketsInv
<1>2. Gone' = Gone /\ Joined' = Joined
  BY DEF Gone, Joined
<1>3. WaitInv'
  BY <1>2 DEF WaitInv
<1>4. dg \in [Datagrams -> Fates] /\ dg' \in [Datagrams -> Fates] /\ sem \in Int /\ wg \in Int
  BY DEF Move, TypeOK
<1>5. TypeOK'
  BY <1>4, SMTT(60) DEF TypeOK, One
<1>6. \A S : Cardinality(InState(S)) \in Nat
  BY InStateFinite
<1>7. \A S : Cardinality(InState(S))' = Cardinality(InState(S)) + One(to, S) - One(dg[d], S)
  BY <1>4, MoveCounts DEF One
<1>8. /\ Cardinality(InState(Slots))' = sem + One(to, Slots) - One(dg[d], Slots)
      /\ Cardinality(InState(Running))' = wg + One(to, Running) - One(dg[d], Running)
  BY <1>6, <1>7 DEF GateInv, Slots, Running
<1>9. GateInv'
  BY <1>8 DEF GateInv, Slots, Running
<1>10. ~timedOut' /\ once' = "done" => InState(Running)' = {}
  BY <1>4 DEF DrainedMeansQuiet, InState, Move, Running, GateInv, TypeOK
<1>11. ~timedOut' => ~lost'
  BY <1>4 DEF DrainedMeansQuiet, InState, CloseInv, TypeOK
<1> QED
  BY <1>1, <1>3, <1>5, <1>9, <1>10, <1>11 DEF DrainedMeansQuiet, Running

(* The five steps of a datagram. *)
LEMMA GateSteps == ASSUME IndInv, NEW d \in Datagrams, Gate(d) PROVE IndInv'
<1>0. /\ sem \in Int /\ sem <= MaxInFlight /\ MaxInFlight \in Int /\ wg \in Int
      /\ closed \in BOOLEAN /\ lost \in BOOLEAN
  BY ServersAssumption, SMTT(60) DEF IndInv, TypeOK, GateInv
<1>1. CASE Receive(d) /\ sem < MaxInFlight
  <2>1. /\ Move(d, "slot") /\ dg[d] = "due" /\ sem' = sem + 1 /\ wg' = wg
        /\ lost' = lost
        /\ UNCHANGED <<via, start, bound, sock, loop, closed, closeVars, errs, waitVars>>
    BY <1>1 DEF Receive
  <2>2. /\ sem' = sem + One("slot", Slots) - One(dg[d], Slots) /\ sem' <= MaxInFlight
        /\ wg' = wg + One("slot", Running) - One(dg[d], Running)
        /\ "slot" \in Running => ~closed \/ dg[d] \in Running
        /\ "slot" \in Fates
    BY <1>0, <1>1, <2>1, SMTT(60) DEF One, Slots, Running, Fates
  <2>3. lost' \in BOOLEAN /\ (lost' => lost \/ (dg[d] = "working" /\ sock[via[d]] = "closed"))
    BY <1>0, <2>1
  <2> QED
    BY <2>1, <2>2, <2>3, GateStep
<1>2. CASE Receive(d) /\ ~(sem < MaxInFlight)
  <2>1. /\ Move(d, "overload") /\ dg[d] = "due" /\ sem' = sem /\ wg' = wg
        /\ lost' = lost
        /\ UNCHANGED <<via, start, bound, sock, loop, closed, closeVars, errs, waitVars>>
    BY <1>2 DEF Receive
  <2>2. /\ sem' = sem + One("overload", Slots) - One(dg[d], Slots) /\ sem' <= MaxInFlight
        /\ wg' = wg + One("overload", Running) - One(dg[d], Running)
        /\ "overload" \in Running => ~closed \/ dg[d] \in Running
        /\ "overload" \in Fates
    BY <1>0, <1>2, <2>1, SMTT(60) DEF One, Slots, Running, Fates
  <2>3. lost' \in BOOLEAN /\ (lost' => lost \/ (dg[d] = "working" /\ sock[via[d]] = "closed"))
    BY <1>0, <2>1
  <2> QED
    BY <2>1, <2>2, <2>3, GateStep
<1>3. CASE Track(d) /\ closed
  <2>1. /\ Move(d, "refused") /\ dg[d] = "slot" /\ sem' = sem /\ wg' = wg
        /\ lost' = lost
        /\ UNCHANGED <<via, start, bound, sock, loop, closed, closeVars, errs, waitVars>>
    BY <1>3 DEF Track
  <2>2. /\ sem' = sem + One("refused", Slots) - One(dg[d], Slots) /\ sem' <= MaxInFlight
        /\ wg' = wg + One("refused", Running) - One(dg[d], Running)
        /\ "refused" \in Running => ~closed \/ dg[d] \in Running
        /\ "refused" \in Fates
    BY <1>0, <1>3, <2>1, SMTT(60) DEF One, Slots, Running, Fates
  <2>3. lost' \in BOOLEAN /\ (lost' => lost \/ (dg[d] = "working" /\ sock[via[d]] = "closed"))
    BY <1>0, <2>1
  <2> QED
    BY <2>1, <2>2, <2>3, GateStep
<1>4. CASE Track(d) /\ ~closed
  <2>1. /\ Move(d, "working") /\ dg[d] = "slot" /\ sem' = sem /\ wg' = wg + 1
        /\ lost' = lost
        /\ UNCHANGED <<via, start, bound, sock, loop, closed, closeVars, errs, waitVars>>
    BY <1>4 DEF Track
  <2>2. /\ sem' = sem + One("working", Slots) - One(dg[d], Slots) /\ sem' <= MaxInFlight
        /\ wg' = wg + One("working", Running) - One(dg[d], Running)
        /\ "working" \in Running => ~closed \/ dg[d] \in Running
        /\ "working" \in Fates
    BY <1>0, <1>4, <2>1, SMTT(60) DEF One, Slots, Running, Fates
  <2>3. lost' \in BOOLEAN /\ (lost' => lost \/ (dg[d] = "working" /\ sock[via[d]] = "closed"))
    BY <1>0, <2>1
  <2> QED
    BY <2>1, <2>2, <2>3, GateStep
<1>5. CASE Refuse(d)
  <2>1. /\ Move(d, "shutdown") /\ dg[d] = "refused" /\ sem' = sem - 1 /\ wg' = wg
        /\ lost' = lost
        /\ UNCHANGED <<via, start, bound, sock, loop, closed, closeVars, errs, waitVars>>
    BY <1>5 DEF Refuse
  <2>2. /\ sem' = sem + One("shutdown", Slots) - One(dg[d], Slots) /\ sem' <= MaxInFlight
        /\ wg' = wg + One("shutdown", Running) - One(dg[d], Running)
        /\ "shutdown" \in Running => ~closed \/ dg[d] \in Running
        /\ "shutdown" \in Fates
    BY <1>0, <1>5, <2>1, SMTT(60) DEF One, Slots, Running, Fates
  <2>3. lost' \in BOOLEAN /\ (lost' => lost \/ (dg[d] = "working" /\ sock[via[d]] = "closed"))
    BY <1>0, <2>1
  <2> QED
    BY <2>1, <2>2, <2>3, GateStep
<1>6. CASE Finish(d)
  <2>1. /\ Move(d, "leaving") /\ dg[d] = "working" /\ sem' = sem - 1 /\ wg' = wg
        /\ lost' = (lost \/ sock[via[d]] = "closed")
        /\ UNCHANGED <<via, start, bound, sock, loop, closed, closeVars, errs, waitVars>>
    BY <1>6 DEF Finish
  <2>2. /\ sem' = sem + One("leaving", Slots) - One(dg[d], Slots) /\ sem' <= MaxInFlight
        /\ wg' = wg + One("leaving", Running) - One(dg[d], Running)
        /\ "leaving" \in Running => ~closed \/ dg[d] \in Running
        /\ "leaving" \in Fates
    BY <1>0, <1>6, <2>1, SMTT(60) DEF One, Slots, Running, Fates
  <2>3. lost' \in BOOLEAN /\ (lost' => lost \/ (dg[d] = "working" /\ sock[via[d]] = "closed"))
    BY <1>0, <2>1
  <2> QED
    BY <2>1, <2>2, <2>3, GateStep
<1>7. CASE Leave(d)
  <2>1. /\ Move(d, "handled") /\ dg[d] = "leaving" /\ sem' = sem /\ wg' = wg - 1
        /\ lost' = lost
        /\ UNCHANGED <<via, start, bound, sock, loop, closed, closeVars, errs, waitVars>>
    BY <1>7 DEF Leave
  <2>2. /\ sem' = sem + One("handled", Slots) - One(dg[d], Slots) /\ sem' <= MaxInFlight
        /\ wg' = wg + One("handled", Running) - One(dg[d], Running)
        /\ "handled" \in Running => ~closed \/ dg[d] \in Running
        /\ "handled" \in Fates
    BY <1>0, <1>7, <2>1, SMTT(60) DEF One, Slots, Running, Fates
  <2>3. lost' \in BOOLEAN /\ (lost' => lost \/ (dg[d] = "working" /\ sock[via[d]] = "closed"))
    BY <1>0, <2>1
  <2> QED
    BY <2>1, <2>2, <2>3, GateStep
<1> QED
  BY <1>1, <1>2, <1>3, <1>4, <1>5, <1>6, <1>7 DEF Gate

-----------------------------------------------------------------------------
(* The read loops, Close and Wait leave the gate's counters alone. *)
LEMMA GateKept ==
  ASSUME IndInv, UNCHANGED <<dg, sem, wg, lost, timedOut>>,
         UNCHANGED <<closed, once>> \/ (once = "new" /\ once' = "running" /\ closed' = TRUE)
  PROVE  GateInv' /\ DrainedMeansQuiet'
BY SMTT(60) DEF IndInv, GateInv, DrainedMeansQuiet, InState

(* A loop that ends has reported. *)
LEMMA LoopStep ==
  ASSUME IndInv, NEW l \in Sockets, ReadClosed(l) \/ ReadFailed(l) PROVE IndInv'
<1>1. PICK r \in {"nil", "error"} : LoopEnds(l, r)
  BY DEF ReadClosed, ReadFailed
<1> USE ServersAssumption, <1>1 DEF LoopEnds, gateVars, closeVars, waitVars
<1>2. GateInv' /\ DrainedMeansQuiet'
  BY GateKept
<1>3. /\ errs \in Seq({"nil", "error"}) /\ errs' \in Seq({"nil", "error"})
      /\ Len(errs') = Len(errs) + 1 /\ Len(errs) \in Nat
  BY AppendProperties, LenProperties, SMTT(60) DEF IndInv, TypeOK
<1>4. loop' \in [Sockets -> {"none", "reading", "gone"}]
  BY DEF IndInv, TypeOK
<1>5. TypeOK'
  BY <1>3, <1>4 DEF IndInv, TypeOK
<1>6. CloseInv' /\ SocketsInv'
  BY SMTT(60) DEF IndInv, TypeOK, CloseInv, SocketsInv
<1>7. Gone' = Gone \cup {l} /\ l \notin Gone
  BY DEF Gone, IndInv, TypeOK
<1>8. Cardinality(Gone)' = Cardinality(Gone) + 1 /\ Cardinality(Gone) \in Nat
  BY <1>7, GoneCounts, FS_AddElement
<1>9. start = "failed" => Joined'
  BY SMTT(60) DEF IndInv, TypeOK, WaitInv, Joined
<1>10. Len(results) \in Nat
  BY LenProperties DEF IndInv, TypeOK
<1>11. WaitInv'
  BY <1>3, <1>8, <1>9, <1>10, SMTT(60) DEF IndInv, WaitInv
<1> QED
  BY <1>2, <1>5, <1>6, <1>11 DEF IndInv

(* The first caller closes the gate, and a later one waits for the drain.    *)
LEMMA EnterCloseStep == IndInv /\ (StartCloses \/ Signal \/ WaitCloses) => IndInv'
<1> SUFFICES ASSUME IndInv, StartCloses \/ Signal \/ WaitCloses PROVE IndInv'
  OBVIOUS
<1>1. PICK c \in Callers : EnterClose(c) /\ start # "binding"
  BY DEF StartCloses, Signal, WaitCloses, IndInv, WaitInv
<1> USE ServersAssumption, <1>1 DEF EnterClose, To, waitVars
<1>2. GateInv' /\ DrainedMeansQuiet'
  BY GateKept
<1>3. PICK pc \in {"draining", "blocked", "closing"} :
        /\ closer' = [closer EXCEPT ![c].pc = pc]
        /\ pc = "draining" => once = "new" /\ once' = "running"
        /\ pc = "blocked" => once = "running" /\ once' = once
        /\ pc = "closing" => once = "done" /\ once' = once
  BY DEF IndInv, TypeOK
<1>4. /\ closer \in [Callers -> [pc : {"idle", "draining", "blocked", "closing", "done"},
                                 next : 1 .. N + 1]]
      /\ closer' \in [Callers -> [pc : {"idle", "draining", "blocked", "closing", "done"},
                                  next : 1 .. N + 1]]
  BY <1>3, ZenonT(60) DEF IndInv, TypeOK
<1>5. TypeOK'
  BY <1>3, <1>4 DEF IndInv, TypeOK
<1>6. /\ \A e \in Callers : closer'[e].next = closer[e].next
      /\ \A e \in Callers \ {c} : closer'[e] = closer[e]
      /\ closer'[c].pc = pc
  BY <1>3, <1>4
<1>7. \A e \in Callers : once = "new" => closer[e].pc = "idle"
  BY <1>4 DEF IndInv, CloseInv
<1>8. CloseInv'
  BY <1>3, <1>4, <1>6, <1>7, SMTT(60) DEF IndInv, CloseInv
<1>9. SocketsInv'
  BY <1>3, <1>6, SMTT(60) DEF IndInv, SocketsInv
<1>10. Gone' = Gone /\ Joined' = Joined
  BY DEF Gone, Joined
<1>11. WaitInv'
  BY <1>6, <1>10 DEF IndInv, WaitInv
<1> QED
  BY <1>2, <1>5, <1>8, <1>9, <1>11 DEF IndInv

(* The drain ends: with no handler left, or with the timeout on record.      *)
LEMMA DrainStep ==
  ASSUME IndInv, NEW c \in Callers, Drained(c) \/ DrainTimesOut(c) PROVE IndInv'
<1> USE ServersAssumption DEF Drained, DrainTimesOut, To, gateVars, waitVars
<1>1. /\ closer \in [Callers -> [pc : {"idle", "draining", "blocked", "closing", "done"},
                                 next : 1 .. N + 1]]
      /\ closer' = [closer EXCEPT ![c].pc = "closing"] /\ closer[c].pc = "draining"
      /\ once' = "done" /\ once = "running"
  BY DEF IndInv, TypeOK, CloseInv
<1>2. closer' \in [Callers -> [pc : {"idle", "draining", "blocked", "closing", "done"},
                               next : 1 .. N + 1]]
  BY <1>1, SMTT(60)
<1>3. TypeOK'
  BY <1>1, <1>2 DEF IndInv, TypeOK
<1>4. /\ \A e \in Callers : closer'[e].next = closer[e].next
      /\ \A e \in Callers \ {c} : closer'[e] = closer[e]
      /\ closer'[c].pc = "closing"
  BY <1>1
<1>5. GateInv'
  BY <1>1 DEF IndInv, GateInv, InState
<1>6. wg = 0 => InState({"working", "leaving"}) = {}
  BY InStateFinite, FS_EmptySet DEF IndInv, GateInv
<1>7. DrainedMeansQuiet'
  BY <1>1, <1>6 DEF IndInv, DrainedMeansQuiet, InState
<1>8. CloseInv'
  BY <1>1, <1>4, SMTT(60) DEF IndInv, CloseInv
<1>9. SocketsInv'
  BY <1>1, <1>4, SMTT(60) DEF IndInv, SocketsInv
<1>10. Gone' = Gone /\ Joined' = Joined
  BY DEF Gone, Joined
<1>11. WaitInv'
  BY <1>1, <1>4, <1>10 DEF IndInv, WaitInv
<1> QED
  BY <1>3, <1>5, <1>7, <1>8, <1>9, <1>11 DEF IndInv

(* A caller who was blocked goes on when the drain is over. *)
LEMMA UnblockStep == ASSUME IndInv, NEW c \in Callers, Unblock(c) PROVE IndInv'
<1> USE ServersAssumption DEF Unblock, To, gateVars, waitVars
<1>1. /\ closer \in [Callers -> [pc : {"idle", "draining", "blocked", "closing", "done"},
                                 next : 1 .. N + 1]]
      /\ closer' = [closer EXCEPT ![c].pc = "closing"] /\ closer[c].pc = "blocked"
      /\ once = "done"
  BY DEF IndInv, TypeOK
<1>2. closer' \in [Callers -> [pc : {"idle", "draining", "blocked", "closing", "done"},
                               next : 1 .. N + 1]]
  BY <1>1, SMTT(60)
<1>3. TypeOK'
  BY <1>1, <1>2 DEF IndInv, TypeOK
<1>4. /\ \A e \in Callers : closer'[e].next = closer[e].next
      /\ \A e \in Callers \ {c} : closer'[e] = closer[e]
      /\ closer'[c].pc = "closing"
  BY <1>1, SMTT(60)
<1>5. GateInv' /\ DrainedMeansQuiet'
  BY GateKept
<1>6. CloseInv'
  BY <1>1, <1>4, SMTT(60) DEF IndInv, CloseInv
<1>7. SocketsInv'
  BY <1>1, <1>4, SMTT(60) DEF IndInv, SocketsInv
<1>8. Gone' = Gone /\ Joined' = Joined
  BY DEF Gone, Joined
<1>9. WaitInv'
  BY <1>1, <1>4, <1>8 DEF IndInv, WaitInv
<1> QED
  BY <1>3, <1>5, <1>6, <1>7, <1>9 DEF IndInv

(* The next socket is closed, or there is none left. *)
LEMMA CloseSocketStep == ASSUME IndInv, NEW c \in Callers, CloseSocket(c) PROVE IndInv'
<1> USE ServersAssumption DEF CloseSocket, To, gateVars, waitVars
<1>1. /\ closer \in [Callers -> [pc : {"idle", "draining", "blocked", "closing", "done"},
                                 next : 1 .. N + 1]]
      /\ sock \in [Sockets -> {"none", "open", "closed"}]
      /\ closer[c].pc = "closing" /\ once = "done" /\ start # "binding"
      /\ bound \in 0 .. N /\ closer[c].next \in 1 .. bound + 1
  BY SMTT(60) DEF IndInv, TypeOK, CloseInv, SocketsInv
<1>2. GateInv' /\ DrainedMeansQuiet'
  BY GateKept
<1>3. Gone' = Gone /\ Joined' = Joined
  BY DEF Gone, Joined
<1>4. CASE closer[c].next > bound
  <2>1. closer' = [closer EXCEPT ![c].pc = "done"] /\ sock' = sock
    BY <1>4
  <2>2. closer' \in [Callers -> [pc : {"idle", "draining", "blocked", "closing", "done"},
                                 next : 1 .. N + 1]]
    BY <1>1, <2>1, SMTT(60)
  <2>3. /\ \A e \in Callers : closer'[e].next = closer[e].next
        /\ \A e \in Callers \ {c} : closer'[e] = closer[e]
        /\ closer'[c].pc = "done"
    BY <1>1, <2>1, SMTT(60)
  <2>4. TypeOK'
    BY <1>1, <2>1, <2>2 DEF IndInv, TypeOK
  <2>5. CloseInv'
    BY <1>1, <2>1, <2>3 DEF IndInv, CloseInv
  <2>6. SocketsInv'
    BY <1>1, <1>4, <2>1, <2>3, SMTT(60) DEF IndInv, SocketsInv
  <2>7. WaitInv'
    BY <1>1, <1>3, <2>3 DEF IndInv, WaitInv
  <2> QED
    BY <1>2, <2>4, <2>5, <2>6, <2>7 DEF IndInv
<1>5. CASE ~(closer[c].next > bound)
  <2>1. /\ sock' = [sock EXCEPT ![closer[c].next] = "closed"]
        /\ closer' = [closer EXCEPT ![c].next = @ + 1]
    BY <1>5
  <2>2. /\ closer' \in [Callers -> [pc : {"idle", "draining", "blocked", "closing", "done"},
                                    next : 1 .. N + 1]]
        /\ sock' \in [Sockets -> {"none", "open", "closed"}]
    BY <1>1, <1>5, <2>1, SMTT(60)
  <2>3. /\ \A e \in Callers : closer'[e].pc = closer[e].pc
        /\ \A e \in Callers \ {c} : closer'[e] = closer[e]
        /\ closer'[c].next = closer[c].next + 1
    BY <1>1, <2>1
  <2>4. \A l \in Sockets : sock'[l] = IF l = closer[c].next THEN "closed" ELSE sock[l]
    BY <1>1, <2>1
  <2>5. TypeOK'
    BY <1>1, <2>1, <2>2 DEF IndInv, TypeOK
  <2>6. CloseInv'
    BY <1>1, <2>1, <2>3, <2>4, SMTT(60) DEF IndInv, CloseInv
  <2>7. SocketsInv'
    <3>1. \A l \in Sockets : (sock'[l] = "none" <=> bound < l) /\ (loop[l] = "none" <=> bound < l)
      BY <1>1, <1>5, <2>4, SMTT(60) DEF IndInv, SocketsInv
    <3>2. \A e \in Callers :
            /\ closer'[e].next <= bound + 1
            /\ closer'[e].pc = "idle" => closer'[e].next = 1
            /\ closer'[e].pc = "done" => closer'[e].next = bound + 1
      BY <1>1, <1>5, <2>3, SMTT(60) DEF IndInv, SocketsInv
    <3>3. \A e \in Callers : \A l \in Sockets : l < closer'[e].next => sock'[l] = "closed"
      BY <1>1, <1>5, <2>3, <2>4, SMTT(60) DEF IndInv, SocketsInv
    <3> QED
      BY <1>1, <3>1, <3>2, <3>3, SMTT(60) DEF IndInv, SocketsInv
  <2>8. WaitInv'
    BY <1>1, <1>3, <2>3 DEF IndInv, WaitInv
  <2> QED
    BY <1>2, <2>5, <2>6, <2>7, <2>8 DEF IndInv
<1> QED
  BY <1>4, <1>5

(* Wait takes a result from the channel, and loses none. *)
LEMMA TakeCounts ==
  ASSUME TypeOK, Take
  PROVE  /\ errs' \in Seq({"nil", "error"}) /\ results' \in Seq({"nil", "error"})
         /\ Len(errs') + Len(results') = Len(errs) + Len(results)
<1>1. /\ errs \in Seq({"nil", "error"}) /\ errs # <<>> /\ results \in Seq({"nil", "error"})
      /\ errs' = Tail(errs) /\ results' = Append(results, Head(errs))
  BY DEF TypeOK, Take
<1>2. /\ Head(errs) \in {"nil", "error"} /\ Tail(errs) \in Seq({"nil", "error"})
      /\ Len(Tail(errs)) = Len(errs) - 1
  BY <1>1, HeadTailProperties
<1>3. results' \in Seq({"nil", "error"}) /\ Len(results') = Len(results) + 1
  BY <1>1, <1>2, AppendProperties
<1>4. Len(errs) \in Nat /\ Len(results) \in Nat
  BY <1>1, LenProperties
<1> QED
  BY <1>1, <1>2, <1>3, <1>4, SMTT(60)

LEMMA WaitStep == IndInv /\ (WaitFirst \/ WaitClosed \/ WaitRest) => IndInv'
<1> SUFFICES ASSUME IndInv, WaitFirst \/ WaitClosed \/ WaitRest PROVE IndInv'
  OBVIOUS
<1> USE DEF WaitFirst, WaitClosed, WaitRest, gateVars, closeVars
<1>1. /\ errs' \in Seq({"nil", "error"}) /\ results' \in Seq({"nil", "error"})
      /\ Len(errs') + Len(results') = Len(errs) + Len(results)
  BY TakeCounts DEF IndInv, TypeOK
<1>2. TypeOK'
  BY <1>1 DEF IndInv, TypeOK
<1>3. GateInv' /\ DrainedMeansQuiet'
  BY GateKept
<1>4. CloseInv' /\ SocketsInv'
  BY SMTT(60) DEF IndInv, CloseInv, SocketsInv
<1>5. Gone' = Gone /\ Joined' = Joined
  BY DEF Gone, Joined
<1>6. WaitInv'
  BY <1>1, <1>5, SMTT(60) DEF IndInv, WaitInv
<1> QED
  BY <1>2, <1>3, <1>4, <1>6 DEF IndInv

-----------------------------------------------------------------------------
(* The invariant. *)

LEMMA InitInv == Init => IndInv
<1> SUFFICES ASSUME Init PROVE IndInv
  OBVIOUS
<1> USE ServersAssumption DEF Init
<1>1. TypeOK
  <2>1. errs \in Seq({"nil", "error"}) /\ results \in Seq({"nil", "error"})
    BY EmptySeq
  <2>2. closer \in [Callers -> [pc : {"idle", "draining", "blocked", "closing", "done"},
                                next : 1 .. N + 1]]
    BY SMTT(60)
  <2>3. dg \in [Datagrams -> Fates]
    BY DEF Fates
  <2>4. /\ sock \in [Sockets -> {"none", "open", "closed"}]
        /\ loop \in [Sockets -> {"none", "reading", "gone"}]
    OBVIOUS
  <2>5. bound \in 0 .. N /\ sem \in Int /\ wg \in Int
    BY SMTT(60)
  <2> QED
    BY <2>1, <2>2, <2>3, <2>4, <2>5 DEF TypeOK
<1>2. InState({"slot", "refused", "working"}) = {} /\ InState({"working", "leaving"}) = {}
  BY DEF InState
<1>3. GateInv
  <2>1. Cardinality({}) = 0
    BY FS_EmptySet
  <2>2. sem = 0 /\ wg = 0 /\ 0 <= MaxInFlight
    BY SMTT(60)
  <2>3. closed <=> once # "new"
    OBVIOUS
  <2> QED
    BY <1>2, <2>1, <2>2, <2>3 DEF GateInv
<1>4. CloseInv /\ SocketsInv
  BY SMTT(60) DEF CloseInv, SocketsInv
<1>5. Gone = {} /\ Len(<<>>) = 0
  BY DEF Gone
<1>6. WaitInv
  BY <1>5, FS_EmptySet, SMTT(60) DEF WaitInv
<1>7. DrainedMeansQuiet
  BY <1>2 DEF DrainedMeansQuiet
<1> QED
  BY <1>1, <1>3, <1>4, <1>6, <1>7 DEF IndInv

LEMMA NextInv == IndInv /\ [Next]_vars => IndInv'
<1> SUFFICES ASSUME IndInv, [Next]_vars PROVE IndInv'
  OBVIOUS
<1>1. CASE Bind
  BY <1>1, BindStep
<1>2. CASE BindFailed \/ StartFailed
  BY <1>2, StartEndsStep
<1>3. CASE \E d \in Datagrams : Gate(d)
  BY <1>3, GateSteps
<1>4. CASE \E l \in Sockets : ReadClosed(l) \/ ReadFailed(l)
  BY <1>4, LoopStep
<1>5. CASE StartCloses \/ Signal \/ WaitCloses
  BY <1>5, EnterCloseStep
<1>6. CASE \E c \in Callers : CloseStep(c)
  BY <1>6, DrainStep, UnblockStep, CloseSocketStep DEF CloseStep
<1>7. CASE WaitFirst \/ WaitClosed \/ WaitRest
  BY <1>7, WaitStep
<1>8. CASE UNCHANGED vars
  BY <1>8, SMTT(60) DEF vars, IndInv, TypeOK, GateInv, CloseInv, SocketsInv, WaitInv,
                        DrainedMeansQuiet, InState, Gone, Joined
<1> QED
  BY <1>1, <1>2, <1>3, <1>4, <1>5, <1>6, <1>7, <1>8 DEF Next

LEMMA Inductive == Spec => []IndInv
  BY InitInv, NextInv, PTL DEF Spec

(* Whatever sockets and datagrams there are, and however their steps         *)
(* interleave with a shutdown, the gate's semaphore counts the datagrams     *)
(* that hold a slot (run and its deferred receive).                          *)
THEOREM SlotsNeverLeak == Spec => []SlotsExact
<1>1. IndInv => SlotsExact
  BY DEF IndInv, GateInv, SlotsExact
<1> QED
  BY <1>1, Inductive, PTL

(* Until a drain has timed out no reply goes to a closed socket, and after   *)
(* one that ended in time no handler ever runs again (stop, drain, Close).   *)
THEOREM DrainIsFinal == Spec => []DrainedMeansQuiet
<1>1. IndInv => DrainedMeansQuiet
  BY DEF IndInv
<1> QED
  BY <1>1, Inductive, PTL

(* A Wait that has returned has the result of every loop. *)
LEMMA InvStoppedClean == IndInv => StoppedClean
<1> SUFFICES ASSUME IndInv PROVE StoppedClean
  OBVIOUS
<1>1. ASSUME start = "failed", NEW l \in Sockets PROVE sock[l] # "open" /\ loop[l] # "reading"
  <2>1. closer["start"].next = bound + 1 /\ Joined /\ bound \in Nat
    BY <1>1, ServersAssumption, SMTT(60) DEF IndInv, WaitInv, SocketsInv, TypeOK
  <2>2. CASE l <= bound
    BY <2>1, <2>2, ServersAssumption, SMTT(60) DEF IndInv, SocketsInv, Joined
  <2>3. CASE bound < l
    BY <2>3 DEF IndInv, SocketsInv
  <2> QED
    BY <2>1, <2>2, <2>3, ServersAssumption, SMTT(60)
<1>2. ASSUME waited = "returned"
      PROVE  /\ \A l \in Sockets : loop[l] = "gone" /\ sock[l] = "closed"
             /\ Len(results) = N /\ errs = <<>>
  <2>1. Len(results) = N /\ bound = N /\ closer["wait"].pc = "done"
    BY <1>2 DEF IndInv, WaitInv, SocketsInv
  <2>2. Len(errs) \in Nat /\ Len(errs) + N = Cardinality(Gone) /\ errs \in Seq({"nil", "error"})
    BY <2>1, LenProperties DEF IndInv, WaitInv, TypeOK
  <2>3. Len(errs) = 0 /\ Cardinality(Gone) = N
    BY <2>2, GoneCounts, ServersAssumption, SMTT(60)
  <2>4. errs = <<>>
    BY <2>2, <2>3, EmptySeq
  <2>5. Gone = Sockets
    BY <2>3, GoneCounts
  <2>6. \A l \in Sockets : sock[l] = "closed"
    BY <2>1, ServersAssumption, SMTT(60) DEF IndInv, SocketsInv
  <2> QED
    BY <2>1, <2>4, <2>5, <2>6 DEF Gone
<1> QED
  BY <1>1, <1>2 DEF StoppedClean

-----------------------------------------------------------------------------
(* The terminal interface. *)

ScreenTypes ==
  /\ main \in {"start", "begin", "app", "join", "close", "wait", "returned"}
  /\ draw \in {"off", "tick", "queued", "done"}
  /\ watch \in {"off", "wait", "entered", "draining", "done"}
  /\ app \in {"off", "opening", "running", "ended", "failed"}
  /\ srv \in {"off", "up", "closed", "failed"}

(* The event loop ends after the draw loop, run leaves the two goroutines    *)
(* and the event loop behind it in that order, and what it is going to       *)
(* return is settled when the screen is.                                     *)
ScreenInv ==
  /\ ScreenTypes
  /\ app = "ended" => draw = "done"
  /\ main \in {"start", "begin"} => draw = "off" /\ watch = "off" /\ app = "off"
  /\ main = "app" => app # "off"
  /\ main \in {"join", "close", "wait", "returned"} => app \in {"off", "ended", "failed"}
  /\ main \in {"close", "wait", "returned"} => draw \in {"off", "done"} /\ watch \in {"off", "done"}
  /\ main \in {"start", "begin", "app"} => result = "none yet"
  /\ main \in {"join", "close", "wait"} =>
       result = IF app = "failed" THEN "screen error" ELSE "none yet"
  /\ srv = "off" => main = "start" \/ main = "returned"
  /\ main = "start" => srv = "off"
  /\ main \in {"wait", "returned"} => srv # "up"
  /\ main = "returned" => Ui!ExitsClean

LEMMA ScreenStep == ScreenInv /\ Ui!Next => ScreenInv'
<1> SUFFICES ASSUME ScreenInv, Ui!Next PROVE ScreenInv'
  OBVIOUS
<1> USE DEF ScreenInv, ScreenTypes, Ui!ExitsClean, Ui!Stranded
<1>1. CASE Ui!Start
  <2>1. /\ main = "start" /\ srv \in {"off", "up", "closed", "failed"}
        /\ draw' = "off" /\ watch' = "off" /\ app' = "off"
    BY <1>1 DEF Ui!Start
  <2>2. CASE main' = "begin" /\ srv' = "up" /\ result' = result
    BY <2>1, <2>2
  <2>3. CASE main' = "returned" /\ srv' = srv /\ result' = "server error"
    <3>1. srv = "off"
      BY <2>1
    <3> QED
      BY <2>1, <2>3, <3>1
  <2> QED
    BY <1>1, <2>2, <2>3 DEF Ui!Start
<1>2. CASE Ui!begin
  BY <1>2 DEF Ui!begin
<1>3. CASE Ui!RunEnded
  BY <1>3 DEF Ui!RunEnded
<1>4. CASE Ui!Join
  BY <1>4 DEF Ui!Join
<1>5. CASE Ui!MainClose
  BY <1>5 DEF Ui!MainClose, Ui!CloseServer
<1>6. CASE Ui!MainReturn
  BY <1>6 DEF Ui!MainReturn
<1>7. CASE Ui!ListenerFails
  BY <1>7 DEF Ui!ListenerFails
<1>8. CASE Ui!WaitReturns
  BY <1>8, ZenonT(60) DEF Ui!WaitReturns
<1>9. CASE Ui!SignalArrives
  BY <1>9, ZenonT(60) DEF Ui!SignalArrives, Ui!CloseServer
<1>10. CASE Ui!SignalLeaves
  BY <1>10, ZenonT(60) DEF Ui!SignalLeaves
<1>11. CASE Ui!Open \/ Ui!OpenFails
  BY <1>11 DEF Ui!Open, Ui!OpenFails
<1>12. CASE Ui!TakeFrame \/ Ui!QuitKey
  BY <1>12 DEF Ui!TakeFrame, Ui!QuitKey
<1>13. CASE Ui!DrawTick \/ Ui!DrawLeaves
  BY <1>13 DEF Ui!DrawTick, Ui!DrawLeaves
<1>14. CASE Ui!WatchStop \/ Ui!WatchEnded \/ Ui!WatchCancel
  BY <1>14 DEF Ui!WatchStop, Ui!WatchEnded, Ui!WatchCancel
<1>15. CASE Ui!WatchApp
  BY <1>15 DEF Ui!WatchApp
<1>16. CASE Ui!Over
  BY <1>16 DEF Ui!Over, Ui!vars
<1> QED
  BY <1>1, <1>2, <1>3, <1>4, <1>5, <1>6, <1>7, <1>8, <1>9, <1>10, <1>11, <1>12, <1>13, <1>14,
     <1>15, <1>16 DEF Ui!Next

LivesInv == (kind = "server" /\ IndInv) \/ (kind = "screen" /\ ScreenInv)

(* A Start that failed or a Wait that returned has left no socket open and   *)
(* no loop running (Start, Wait, Close), and a terminal interface that       *)
(* returned has left no goroutine and no server, and tells of what failed    *)
(* (run of coredhcp-tui, Run of its UI).                                     *)
THEOREM StopsAlwaysClean == LivesSpec => []StopsClean
<1>1. LivesInit => LivesInv
  BY InitInv DEF LivesInit, LivesInv, Ui!Init, ScreenInv, ScreenTypes
<1>2. LivesInv /\ [LivesNext]_<<kind, vars, uiVars>> => LivesInv'
  <2> SUFFICES ASSUME LivesInv, [LivesNext]_<<kind, vars, uiVars>> PROVE LivesInv'
    OBVIOUS
  <2>1. CASE kind = "server" /\ IndInv /\ kind' = kind /\ [Next]_vars
    BY <2>1, NextInv DEF LivesInv
  <2>2. CASE kind = "screen" /\ ScreenInv /\ kind' = kind /\ Ui!Next
    BY <2>2, ScreenStep DEF LivesInv
  <2>3. CASE kind = "screen" /\ ScreenInv /\ kind' = kind /\ UNCHANGED uiVars
    BY <2>3 DEF LivesInv, uiVars, ScreenInv, ScreenTypes, Ui!ExitsClean, Ui!Stranded
  <2> QED
    BY <2>1, <2>2, <2>3 DEF LivesInv, LivesNext
<1>3. ScreenInv => Ui!ExitsClean
  BY DEF ScreenInv, ScreenTypes, Ui!ExitsClean, Ui!Stranded
<1>4. LivesInv => StopsClean
  BY <1>3, InvStoppedClean DEF LivesInv, StopsClean
<1> QED
  BY <1>1, <1>2, <1>4, PTL DEF LivesSpec
=============================================================================
