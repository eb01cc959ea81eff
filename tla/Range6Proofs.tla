---------------------------- MODULE Range6Proofs ----------------------------
(***************************************************************************)
(* Proofs about Range6, for every pool size, set of clients, message,      *)
(* queue length, set of handlers and number of failures and crashes: the   *)
(* bitmap, the bindings and the quarantine always agree, and a binding a   *)
(* client was told about stays its own.                                    *)
(*                                                                         *)
(* Range6SectionProofs is about the sections under the plugin lock; here   *)
(* are the steps of the server around them, one per IA_NA of a message.    *)
(***************************************************************************)
EXTENDS Range6SectionProofs

(* Zenon proves the leaves, but for those that name another prover. *)
USE ZenonT(30)

(* The invariant: the types, who holds the lock, and the pool. *)

RestJobs ==
  [phase : {"idle", "settling"}, pend : Seq(PendingSet), answers : Seq(AnswerSet)]
LockedJobs ==
  [phase : {"locked"}, type : Types, duid : Duids, rest : Seq(IANA) \ {<<>>}, at : Nat,
   pend : Seq(PendingSet), answers : Seq(AnswerSet)]
Jobs == RestJobs \cup LockedJobs

Rows == [ip : IPs, expires : Nat]
Tellings == [ip : IPs, until : Nat]

LockInv(ws, l, n) ==
  /\ l \in Handlers \cup {Nobody}
  /\ \A w \in Workers : ws[w].phase = "locked" <=> l = w
  /\ \A w \in Workers : ws[w].phase = "locked" => ws[w].at <= n

DownInv ==
  status # "up" =>
    /\ records = EmptyMap /\ allocated = {} /\ declined = EmptyMap /\ writes = <<>>
    /\ lock = Nobody

IndInv ==
  /\ now \in 0 .. MaxTick
  /\ status \in {"up", "down", "refused"}
  /\ workers \in [Workers -> Jobs]
  /\ LockInv(workers, lock, now)
  /\ Good(Locked(Idle))
  /\ IsMap(db, Keys, Rows) /\ IsMap(told, Keys, Tellings)
  /\ failures \in Nat /\ crashes \in Nat
  /\ DownInv

LEMMA JobFields ==
  ASSUME NEW j \in Jobs
  PROVE  /\ j.pend \in Seq(PendingSet) /\ j.answers \in Seq(AnswerSet)
         /\ j.phase \in {"idle", "settling", "locked"}
         /\ j.phase = "locked" <=> j \in LockedJobs
<1>1. CASE j \in RestJobs
  BY <1>1 DEF RestJobs, LockedJobs
<1>2. CASE j \in LockedJobs
  BY <1>2 DEF LockedJobs
<1> QED
  BY <1>1, <1>2 DEF Jobs

LEMMA IdleJob ==
  /\ Idle \in Jobs /\ Idle.phase = "idle" /\ Idle.pend = <<>> /\ Idle.answers = <<>>
  /\ \A p \in Seq(PendingSet), a \in Seq(AnswerSet) :
       /\ Settling(p, a) \in Jobs /\ Settling(p, a).phase = "settling"
       /\ Settling(p, a).pend = p /\ Settling(p, a).answers = a
<1>1. <<>> \in Seq(PendingSet) /\ <<>> \in Seq(AnswerSet)
  BY SeqEmpty
<1>2. Idle \in RestJobs
  BY <1>1 DEF Idle, RestJobs
<1>3. \A p \in Seq(PendingSet), a \in Seq(AnswerSet) : Settling(p, a) \in RestJobs
  BY DEF Settling, RestJobs
<1> QED
  BY <1>2, <1>3 DEF Idle, Settling, Jobs

(* A section starts from the tables as they are. *)
LEMMA LockedGood ==
  ASSUME Good(Locked(Idle)), NEW job, job.pend \in Seq(PendingSet),
         job.answers \in Seq(AnswerSet)
  PROVE  Good(Locked(job)) /\ Locked(job).rec = records /\ Locked(job).pend = job.pend
<1> DEFINE S == Locked(Idle)
           T == Locked(job)
<1>1. /\ T.rec = records /\ T.alloc = allocated /\ T.dec = declined /\ T.q = writes
      /\ T.pend = job.pend /\ T.ia = Len(job.answers) + 1
      /\ DOMAIN T = {"rec", "alloc", "dec", "q", "pend", "ia"}
  BY DEF Locked
<1>2. S.rec = records /\ S.alloc = allocated /\ S.dec = declined /\ S.q = writes
  BY DEF Locked
<1>3. Len(job.answers) + 1 \in Nat
  BY SeqLen, SMTT(60)
<1> HIDE DEF S, T
<1>4. LockedOK(S) /\ Apart(S) /\ Few(S) /\ S.alloc = Leased(S) \cup DOMAIN S.dec
  BY DEF Good, S
<1>5. LockedOK(T)
  BY <1>1, <1>2, <1>3, <1>4 DEF LockedOK
<1>6. Apart(T) /\ Few(T) /\ Leased(T) = Leased(S)
  BY <1>1, <1>2, <1>4, SMTT(60) DEF Apart, Few, Leased
<1>7. Good(T)
  BY <1>1, <1>2, <1>4, <1>5, <1>6 DEF Good
<1> QED
  BY <1>1, <1>7 DEF T

(* And it ends with the tables as it leaves them. *)
LEMMA InstalledGood ==
  ASSUME NEW S, Good(S), Install(S)
  PROVE  Good(Locked(Idle)')
<1> DEFINE T == Locked(Idle)'
<1>1. /\ T.rec = S.rec /\ T.alloc = S.alloc /\ T.dec = S.dec /\ T.q = S.q
      /\ T.pend = <<>> /\ T.ia = Len(<<>>) + 1
      /\ DOMAIN T = {"rec", "alloc", "dec", "q", "pend", "ia"}
  BY DEF Locked, Idle, Install
<1>2. T.pend \in Seq(PendingSet) /\ T.ia \in Nat
  BY <1>1, SMTT(60)
<1> HIDE DEF T
<1>3. LockedOK(S) /\ Apart(S) /\ Few(S) /\ S.alloc = Leased(S) \cup DOMAIN S.dec
  BY DEF Good
<1>4. LockedOK(T)
  BY <1>1, <1>2, <1>3 DEF LockedOK
<1>5. Apart(T) /\ Few(T) /\ Leased(T) = Leased(S)
  BY <1>1, <1>3, SMTT(60) DEF Apart, Few, Leased
<1>6. Good(T)
  BY <1>1, <1>3, <1>4, <1>5 DEF Good
<1> QED
  BY <1>6 DEF T

-----------------------------------------------------------------------------
(* The steps of a message. *)

KeyOf(job) == leaseKey(job.duid, Head(job.rest).iaid)
AnswersOf(job, r) ==
  Append(job.answers, [key |-> KeyOf(job), ip |-> r.ip, until |-> LeaseEnd(job.at)])
After(job, r) ==
  IF Len(job.rest) = 1 THEN Settling(r.st.pend, AnswersOf(job, r))
  ELSE [job EXCEPT !.rest = Tail(@), !.pend = r.st.pend, !.answers = AnswersOf(job, r)]

LEMMA LockedFields ==
  ASSUME NEW job \in LockedJobs
  PROVE  /\ job.pend \in Seq(PendingSet) /\ job.answers \in Seq(AnswerSet)
         /\ job.type \in Types /\ job.duid \in Duids /\ job.at \in Nat
         /\ job.rest \in Seq(IANA) /\ job.rest # <<>>
         /\ Head(job.rest) \in IANA /\ Head(job.rest).iaid \in Iaids
         /\ KeyOf(job) \in Keys /\ job.phase = "locked"
<1>1. /\ job.pend \in Seq(PendingSet) /\ job.answers \in Seq(AnswerSet)
      /\ job.type \in Types /\ job.duid \in Duids /\ job.at \in Nat
      /\ job.rest \in Seq(IANA) /\ job.rest # <<>> /\ job.phase = "locked"
  BY DEF LockedJobs
<1>2. Head(job.rest) \in IANA
  BY <1>1, SeqHeadTail
<1>3. Head(job.rest).iaid \in Iaids
  BY <1>2 DEF IANA
<1>4. KeyOf(job) \in Keys
  BY <1>1, <1>3, SMTT(60) DEF KeyOf, Keys
<1> QED
  BY <1>1, <1>2, <1>3, <1>4

LEMMA AfterOK ==
  ASSUME NEW job \in LockedJobs, NEW r, Answered(r, KeyOf(job), job.at)
  PROVE  /\ AnswersOf(job, r) \in Seq(AnswerSet)
         /\ After(job, r) \in Jobs
         /\ After(job, r).pend = r.st.pend /\ After(job, r).answers = AnswersOf(job, r)
         /\ Len(job.rest) = 1 => After(job, r).phase = "settling"
         /\ Len(job.rest) # 1 =>
              /\ After(job, r) \in LockedJobs /\ After(job, r).phase = "locked"
              /\ After(job, r).at = job.at /\ After(job, r).type = job.type
              /\ After(job, r).duid = job.duid /\ After(job, r).rest = Tail(job.rest)
<1>1. r.st.pend \in Seq(PendingSet) /\ r.ip \in IPs \cup {NoOffset}
  BY DEF Answered, Good, LockedOK
<1>2. AnswersOf(job, r) \in Seq(AnswerSet)
  <2>1. LeaseEnd(job.at) \in Nat /\ KeyOf(job) \in Keys /\ job.answers \in Seq(AnswerSet)
    BY LockedFields, Ends
  <2>2. [key |-> KeyOf(job), ip |-> r.ip, until |-> LeaseEnd(job.at)] \in AnswerSet
    BY <1>1, <2>1 DEF AnswerSet
  <2> QED
    BY <2>1, <2>2, SeqAppend DEF AnswersOf
<1>3. CASE Len(job.rest) = 1
  BY <1>1, <1>2, <1>3, IdleJob, SMTT(60) DEF After
<1>4. CASE Len(job.rest) # 1
  <2> DEFINE a == AnswersOf(job, r)
             p == r.st.pend
             n == [job EXCEPT !.rest = Tail(@), !.pend = p, !.answers = a]
  <2>1. a \in Seq(AnswerSet) /\ p \in Seq(PendingSet) /\ After(job, r) = n
    BY <1>1, <1>2, <1>4 DEF After
  <2>2. Tail(job.rest) \in Seq(IANA) /\ Tail(job.rest) # <<>>
    <3>1. job.rest \in Seq(IANA) /\ job.rest # <<>>
      BY LockedFields
    <3>2. Tail(job.rest) \in Seq(IANA) /\ Len(Tail(job.rest)) = Len(job.rest) - 1
      BY <3>1, SeqHeadTail
    <3>3. Len(job.rest) \in Nat
      BY <3>1, SeqLen
    <3>4. Len(Tail(job.rest)) # 0
      BY <1>4, <3>2, <3>3, SMTT(60)
    <3> QED
      BY <3>2, <3>4, SeqEmpty
  <2> HIDE DEF a, p
  <2>3. /\ n \in LockedJobs /\ n.phase = "locked" /\ n.at = job.at /\ n.type = job.type
        /\ n.duid = job.duid /\ n.rest = Tail(job.rest) /\ n.pend = p /\ n.answers = a
    BY <2>1, <2>2 DEF LockedJobs
  <2> QED
    BY <1>2, <1>4, <2>1, <2>3 DEF Jobs, a, p
<1> QED
  BY <1>3, <1>4

(* One IA_NA: what it leaves and what the goroutine goes on with. *)
LEMMA AnswerForm ==
  ASSUME Good(Locked(Idle)), now \in Nat, NEW w \in Handlers, NEW job \in LockedJobs,
         job.at <= now, NEW others, Answer(w, job, others)
  PROVE  \E r : /\ Answered(r, KeyOf(job), job.at)
                /\ Keeps(Locked(job), r.st, GivenBy(job.type, KeyOf(job), Head(job.rest)))
                /\ CleanSeq(job.pend) => CleanSeq(r.st.pend)
                /\ job.type \in {"release", "decline"} => r.ip = NoOffset
                /\ Install(r.st)
                /\ workers' = [others EXCEPT ![w] = After(job, r)]
                /\ lock' = (IF Len(job.rest) = 1 THEN Nobody ELSE w)
                /\ UNCHANGED <<now, status, db, failures, crashes>>
<1> DEFINE k == KeyOf(job)
           ia == Head(job.rest)
<1>1. /\ Gens \ UsedGens(k) # {}
      /\ lock' = (IF Len(job.rest) = 1 THEN Nobody ELSE w)
      /\ UNCHANGED <<now, status, db, failures, crashes>>
      /\ \E r \in AnswerFor(Locked(job), job.type, k, ia, job.at, w) :
           Install(r.st) /\ workers' = [others EXCEPT ![w] = After(job, r)]
  BY DEF Answer, KeyOf, After, AnswersOf
<1>2. PICK r \in AnswerFor(Locked(job), job.type, k, ia, job.at, w) :
        Install(r.st) /\ workers' = [others EXCEPT ![w] = After(job, r)]
  BY <1>1
<1>3. NewGen(k) \in Gens
  BY <1>1 DEF NewGen
<1>4. Good(Locked(job))
  BY LockedFields, LockedGood
<1>5. k \in Keys /\ job.type \in Types /\ job.at \in Nat /\ w \in Workers
  BY LockedFields DEF Workers
<1> HIDE DEF k, ia
<1>6. Answered(r, k, job.at) /\ Keeps(Locked(job), r.st, GivenBy(job.type, k, ia))
  BY <1>2, <1>3, <1>4, <1>5, AnswerForOK
<1>7. Locked(job).pend = job.pend
  BY DEF Locked
<1>8. CleanSeq(job.pend) => Clean(Locked(job))
  BY <1>4, <1>7 DEF Clean, Good, LockedOK
<1>9. ASSUME Clean(Locked(job)) PROVE CleanSeq(r.st.pend)
  BY <1>2, <1>4, <1>5, <1>9, AnswerForClean DEF Clean
<1>10. job.type \in {"release", "decline"} => r.ip = NoOffset
  <2>1. CASE job.type = "release"
    BY <1>2, <2>1, SMTT(60) DEF AnswerFor
  <2>2. CASE job.type = "decline"
    BY <1>2, <2>2, SMTT(60) DEF AnswerFor
  <2> QED
    BY <2>1, <2>2
<1> QED
  BY <1>1, <1>2, <1>6, <1>8, <1>9, <1>10 DEF k, ia

(* What the lock and the jobs are after one IA_NA. *)
LEMMA AnswerKeeps ==
  ASSUME IndInv, status = "up", NEW w \in Handlers, NEW job \in LockedJobs, job.at <= now,
         NEW others \in [Workers -> Jobs],
         \A v \in Workers : v # w => others[v].phase # "locked",
         Answer(w, job, others), IsMap(told', Keys, Tellings)
  PROVE  IndInv'
<1>1. Good(Locked(Idle)) /\ now \in 0 .. MaxTick /\ now \in Nat
  BY SMTT(60) DEF IndInv
<1>2. PICK r : /\ Answered(r, KeyOf(job), job.at)
               /\ Install(r.st)
               /\ workers' = [others EXCEPT ![w] = After(job, r)]
               /\ lock' = (IF Len(job.rest) = 1 THEN Nobody ELSE w)
               /\ UNCHANGED <<now, status, db, failures, crashes>>
  BY <1>1, AnswerForm
<1>3. Good(r.st)
  BY <1>2 DEF Answered
<1>4. Good(Locked(Idle)')
  BY <1>2, <1>3, InstalledGood
<1>5. w \in Workers /\ w # Nobody /\ Nobody \notin Workers
  BY Range6Assumption DEF Workers, Nobody
<1>6. /\ After(job, r) \in Jobs
      /\ Len(job.rest) = 1 => After(job, r).phase = "settling"
      /\ Len(job.rest) # 1 => After(job, r).phase = "locked" /\ After(job, r).at = job.at
  BY <1>2, AfterOK
<1>7. workers' \in [Workers -> Jobs]
  BY <1>2, <1>5, <1>6
<1>8. workers'[w] = After(job, r) /\ \A v \in Workers : v # w => workers'[v] = others[v]
  BY <1>2, <1>5
<1>9. LockInv(workers', lock', now')
  BY <1>2, <1>5, <1>6, <1>8 DEF LockInv
<1>10. DownInv'
  BY <1>2 DEF DownInv
<1>11. IsMap(db', Keys, Rows) /\ failures' \in Nat /\ crashes' \in Nat /\ now' \in 0 .. MaxTick
       /\ status' \in {"up", "down", "refused"}
  BY <1>2 DEF IndInv
<1> QED
  BY <1>4, <1>7, <1>9, <1>10, <1>11 DEF IndInv

LEMMA LimitedOK ==
  ASSUME NEW ias \in Seq(IANA), ias # <<>>
  PROVE  /\ Limited(ias) \in Seq(IANA) /\ Limited(ias) # <<>>
         /\ Len(Limited(ias)) \in Nat /\ Len(Limited(ias)) <= Len(ias)
         /\ \A i \in 1 .. Len(Limited(ias)) : Limited(ias)[i] = ias[i]
<1> DEFINE n == IF Len(ias) <= MaxIANAs THEN Len(ias) ELSE MaxIANAs
<1>1. Len(ias) \in Nat \ {0}
  BY SeqEmpty
<1>2. n \in 1 .. Len(ias)
  BY <1>1, Range6Assumption, SMTT(60)
<1>3. Limited(ias) = SubSeq(ias, 1, n)
  BY DEF Limited
<1> HIDE DEF n
<1>4. SubSeq(ias, 1, n) \in Seq(IANA) /\ Len(SubSeq(ias, 1, n)) = n
      /\ \A i \in 1 .. n : SubSeq(ias, 1, n)[i] = ias[i]
  BY <1>1, <1>2, SMTT(60)
<1> QED
  BY <1>1, <1>2, <1>3, <1>4, SMTT(60)

Gone(type, d, ias, k, ip) == [key |-> k, ip |-> ip] \in GivenUp(type, d, ias)
Deaf(type, d, ias, answers) ==
  [i \in DOMAIN answers |->
     IF Gone(type, d, ias, answers[i].key, answers[i].ip)
     THEN [answers[i] EXCEPT !.ip = NoOffset] ELSE answers[i]]
Fresh(type, d, ias) ==
  [phase |-> "locked", type |-> type, duid |-> d, rest |-> Limited(ias),
   at |-> now, pend |-> <<>>, answers |-> <<>>]
Others(type, d, ias) ==
  [v \in Workers |-> [workers[v] EXCEPT !.answers = Deaf(type, d, ias, @)]]

LEMMA ReceiveForm ==
  ASSUME NEW w, NEW type, NEW d, NEW ias, Receive(w, type, d, ias)
  PROVE  /\ Unlocked /\ workers[w].phase = "idle" /\ ias # <<>>
         /\ Answer(w, Fresh(type, d, ias), Others(type, d, ias))
         /\ told' = Without(told, {k \in DOMAIN told : Gone(type, d, ias, k, told[k].ip)})
BY DEF Receive, Gone, Deaf, Fresh, Others

LEMMA DeafOK ==
  ASSUME NEW type, NEW d, NEW ias, NEW answers \in Seq(AnswerSet)
  PROVE  Deaf(type, d, ias, answers) \in Seq(AnswerSet)
<1>1. PICK n \in Nat : answers \in [1 .. n -> AnswerSet] /\ DOMAIN answers = 1 .. n
  BY SeqLen
<1>2. \A i \in 1 .. n : [answers[i] EXCEPT !.ip = NoOffset] \in AnswerSet
  BY <1>1 DEF AnswerSet
<1>3. Deaf(type, d, ias, answers) \in [1 .. n -> AnswerSet]
  BY <1>1, <1>2 DEF Deaf
<1> QED
  BY <1>3, SMTT(60)

LEMMA OthersOK ==
  ASSUME workers \in [Workers -> Jobs], NEW type, NEW d, NEW ias
  PROVE  /\ Others(type, d, ias) \in [Workers -> Jobs]
         /\ \A v \in Workers :
              /\ Others(type, d, ias)[v].phase = workers[v].phase
              /\ Others(type, d, ias)[v].pend = workers[v].pend
              /\ Others(type, d, ias)[v].answers = Deaf(type, d, ias, workers[v].answers)
<1> SUFFICES ASSUME NEW v \in Workers
             PROVE  LET j == [workers[v] EXCEPT !.answers = Deaf(type, d, ias, @)]
                    IN  /\ j \in Jobs /\ j.phase = workers[v].phase
                        /\ j.pend = workers[v].pend
                        /\ j.answers = Deaf(type, d, ias, workers[v].answers)
  BY DEF Others
<1> DEFINE a == Deaf(type, d, ias, workers[v].answers)
<1>1. workers[v] \in Jobs
  OBVIOUS
<1>2. a \in Seq(AnswerSet)
  BY <1>1, DeafOK DEF Jobs, RestJobs, LockedJobs
<1> HIDE DEF a
<1>3. CASE workers[v] \in RestJobs
  <2>1. [workers[v] EXCEPT !.answers = a] \in RestJobs
    BY <1>2, <1>3 DEF RestJobs
  <2> QED
    BY <1>3, <2>1 DEF Jobs, RestJobs, a
<1>4. CASE workers[v] \in LockedJobs
  <2>1. [workers[v] EXCEPT !.answers = a] \in LockedJobs
    BY <1>2, <1>4 DEF LockedJobs
  <2> QED
    BY <1>4, <2>1 DEF Jobs, LockedJobs, a
<1> QED
  BY <1>1, <1>3, <1>4 DEF Jobs

-----------------------------------------------------------------------------
(* Every step keeps the invariant. *)

LEMMA ReceiveKeeps ==
  ASSUME IndInv, NEW w \in Handlers, NEW d \in Duids, NEW type \in Types,
         NEW ias \in Messages(type), Receive(w, type, d, ias)
  PROVE  /\ Fresh(type, d, ias) \in LockedJobs /\ Fresh(type, d, ias).at <= now
         /\ IndInv'
<1>1. /\ status = "up" /\ lock = Nobody /\ workers[w].phase = "idle" /\ ias # <<>>
      /\ Answer(w, Fresh(type, d, ias), Others(type, d, ias))
      /\ told' = Without(told, {k \in DOMAIN told : Gone(type, d, ias, k, told[k].ip)})
  BY ReceiveForm DEF Unlocked
<1>2. ias \in Seq(IANA)
  BY Range6Assumption
<1>3. Limited(ias) \in Seq(IANA) \ {<<>>} /\ now \in Nat
  BY <1>1, <1>2, LimitedOK, SMTT(60) DEF IndInv
<1>4. <<>> \in Seq(PendingSet) /\ <<>> \in Seq(AnswerSet)
  BY SMTT(60)
<1>5. Fresh(type, d, ias) \in LockedJobs /\ Fresh(type, d, ias).at = now
  BY <1>3, <1>4 DEF Fresh, LockedJobs
<1>6. IsMap(told', Keys, Tellings)
  BY <1>1, WithoutMap DEF IndInv
<1>7. /\ Others(type, d, ias) \in [Workers -> Jobs]
      /\ \A v \in Workers : Others(type, d, ias)[v].phase = workers[v].phase
  BY OthersOK, SMTT(60) DEF IndInv
<1>8. \A v \in Workers : Others(type, d, ias)[v].phase # "locked"
  BY <1>1, <1>7, Range6Assumption DEF IndInv, LockInv, Workers, Nobody
<1>9. Fresh(type, d, ias).at <= now
  BY <1>3, <1>5, SMTT(60)
<1>10. IndInv'
  BY <1>1, <1>5, <1>6, <1>7, <1>8, <1>9, AnswerKeeps
<1> QED
  BY <1>5, <1>9, <1>10

LEMMA ContinueKeeps ==
  ASSUME IndInv, NEW w \in Handlers, Continue(w)
  PROVE  /\ workers[w] \in LockedJobs /\ workers[w].at <= now
         /\ IndInv'
<1>1. status = "up" /\ lock = w /\ Answer(w, workers[w], workers) /\ told' = told
  BY DEF Continue
<1>2. w \in Workers /\ workers \in [Workers -> Jobs]
  BY DEF Workers, IndInv
<1>3. /\ workers[w].phase = "locked" /\ workers[w].at <= now
      /\ \A v \in Workers : v # w => workers[v].phase # "locked"
  BY <1>1, <1>2 DEF IndInv, LockInv
<1>4. workers[w] \in LockedJobs
  BY <1>2, <1>3, JobFields
<1>5. IsMap(told', Keys, Tellings)
  BY <1>1 DEF IndInv
<1>6. IndInv'
  BY <1>1, <1>2, <1>3, <1>4, <1>5, AnswerKeeps
<1> QED
  BY <1>3, <1>4, <1>6

(* Every answer that stands is one of the goroutine's. *)
LEMMA StandingOK ==
  ASSUME NEW w \in Workers, workers \in [Workers -> Jobs]
  PROVE  \A a \in Standing(w) :
           /\ a \in AnswerSet /\ a.ip \in IPs
           /\ \E i \in DOMAIN workers[w].answers : a = workers[w].answers[i]
<1>1. workers[w].answers \in Seq(AnswerSet)
  BY JobFields
<1>2. \A i \in DOMAIN workers[w].answers : workers[w].answers[i] \in AnswerSet
  BY <1>1, SeqLen
<1> QED
  BY <1>2 DEF Standing, AnswerSet

LEMMA DeliverOK ==
  ASSUME NEW pend \in Seq(PendingSet), NEW result \in {"ok", "error"}
  PROVE  Deliver(pend, result) \in Seq(PendingSet)
<1>1. PICK n \in Nat : pend \in [1 .. n -> PendingSet] /\ DOMAIN pend = 1 .. n
  BY SeqLen
<1>2. ASSUME NEW p \in PendingSet
      PROVE  [p EXCEPT !.result = result, !.undo = IF result = "ok" THEN NoUndo ELSE @]
               \in PendingSet
  <2>1. p.undo \in UndoSet /\ NoUndo \in UndoSet
    BY DEF PendingSet, UndoSet
  <2> HIDE DEF UndoSet
  <2>2. CASE result = "ok"
    BY <2>1, <2>2 DEF PendingSet
  <2>3. CASE result = "error"
    BY <2>1, <2>3 DEF PendingSet
  <2> QED
    BY <2>2, <2>3
<1>3. Deliver(pend, result) \in [1 .. n -> PendingSet]
  BY <1>1, <1>2 DEF Deliver
<1> QED
  BY <1>3, SMTT(60)

(* A job whose changes got a result. *)
LEMMA DeliveredJob ==
  ASSUME NEW j \in Jobs, NEW p \in Seq(PendingSet)
  PROVE  /\ [j EXCEPT !.pend = p] \in Jobs
         /\ [j EXCEPT !.pend = p].phase = j.phase /\ [j EXCEPT !.pend = p].pend = p
         /\ [j EXCEPT !.pend = p].answers = j.answers
         /\ j.phase = "locked" =>
              /\ [j EXCEPT !.pend = p].at = j.at /\ [j EXCEPT !.pend = p].type = j.type
              /\ [j EXCEPT !.pend = p].duid = j.duid /\ [j EXCEPT !.pend = p].rest = j.rest
<1>1. CASE j \in RestJobs
  <2>1. [j EXCEPT !.pend = p] \in RestJobs /\ j.phase # "locked"
    BY <1>1 DEF RestJobs
  <2> QED
    BY <1>1, <2>1 DEF Jobs, RestJobs
<1>2. CASE j \in LockedJobs
  <2>1. [j EXCEPT !.pend = p] \in LockedJobs
    BY <1>2 DEF LockedJobs
  <2> QED
    BY <1>2, <2>1 DEF Jobs, LockedJobs
<1> QED
  BY <1>1, <1>2 DEF Jobs

(* The tables a start builds, and the empty ones, are accounted for. *)
LEMMA FreshGood ==
  ASSUME NEW rec, IsMap(rec, Keys, Record),
         \A k, l \in DOMAIN rec : rec[k].ip = rec[l].ip => k = l
  PROVE  Good([rec |-> rec, alloc |-> {rec[k].ip : k \in DOMAIN rec}, dec |-> EmptyMap,
               q |-> <<>>, pend |-> <<>>, ia |-> 1])
<1> DEFINE A == {rec[k].ip : k \in DOMAIN rec}
           S == [rec |-> rec, alloc |-> A, dec |-> EmptyMap,
                 q |-> <<>>, pend |-> <<>>, ia |-> 1]
<1>1. A \subseteq IPs
  BY DEF IsMap, Record
<1>2. DOMAIN EmptyMap = {} /\ IsMap(EmptyMap, IPs, Nat)
  BY DEF EmptyMap, IsMap
<1>3. Cardinality({}) = 0 /\ DeclineMax \in Nat
  BY FS_EmptySet, Numbers
<1>4. Len(<<>>) <= QueueLen /\ <<>> \in Seq(WriteSet) /\ <<>> \in Seq(PendingSet)
  BY Numbers, SMTT(60)
<1> HIDE DEF A
<1>5. LockedOK(S)
  BY <1>1, <1>2, <1>4 DEF LockedOK
<1>6. S.rec = rec /\ S.dec = EmptyMap /\ S.alloc = A
  OBVIOUS
<1> HIDE DEF S
<1>7. Leased(S) = A /\ Apart(S) /\ Few(S)
  BY <1>2, <1>3, <1>6, SMTT(60) DEF Leased, Apart, Few, A
<1>8. Good(S)
  BY <1>2, <1>5, <1>6, <1>7 DEF Good
<1> QED
  BY <1>8 DEF S, A

LEMMA InitIndInv == Init => IndInv
<1> SUFFICES ASSUME Init PROVE IndInv
  OBVIOUS
<1>1. /\ now = 0 /\ status = "up" /\ lock = Nobody
      /\ records = EmptyMap /\ allocated = {} /\ declined = EmptyMap
      /\ writes = <<>> /\ db = EmptyMap
      /\ workers = [w \in Workers |-> Idle]
      /\ told = EmptyMap
      /\ failures = 0 /\ crashes = 0
  BY DEF Init
<1>2. DOMAIN EmptyMap = {} /\ \A K, V : IsMap(EmptyMap, K, V)
  BY DEF EmptyMap, IsMap
<1>3. Good(Locked(Idle))
  <2>1. {EmptyMap[k].ip : k \in DOMAIN EmptyMap} = {}
    BY <1>2
  <2>2. Len(<<>>) + 1 = 1
    BY SMTT(60)
  <2>3. Locked(Idle) = [rec |-> EmptyMap, alloc |-> {}, dec |-> EmptyMap,
                        q |-> <<>>, pend |-> <<>>, ia |-> 1]
    BY <1>1, <2>2, IdleJob DEF Locked
  <2> QED
    BY <1>2, <2>1, <2>3, FreshGood
<1>4. workers \in [Workers -> Jobs] /\ \A w \in Workers : workers[w].phase = "idle"
  BY <1>1, IdleJob
<1>5. LockInv(workers, lock, now)
  BY <1>1, <1>4, Range6Assumption DEF LockInv, Workers, Nobody
<1> QED
  BY <1>1, <1>2, <1>3, <1>4, <1>5, Numbers, SMTT(60) DEF IndInv, DownInv

LEMMA NextIndInv == IndInv /\ [Next]_vars => IndInv'
(* The undo of any part of the changes leaves the pool accounted for. *)
<1>UndoneGood.
    ASSUME NEW S, Good(S), NEW pend \in Seq(PendingSet)
    PROVE  Good(Undone(S, pend))
  BY <1>UndoneGood, Undoing
<1>SameGood.
    ASSUME Good(Locked(Idle)), UNCHANGED <<records, allocated, declined, writes>>
    PROVE  Good(Locked(Idle)')
  <2> USE <1>SameGood
  <2>1. Locked(Idle)' = Locked(Idle)
    BY DEF Locked, Idle
  <2> QED
    BY <2>1
<1>WithMap.
    ASSUME NEW K, NEW V, NEW f, IsMap(f, K, V), NEW k \in K, NEW v \in V
    PROVE  /\ IsMap(With(f, k, v), K, V)
           /\ DOMAIN With(f, k, v) = DOMAIN f \cup {k}
           /\ With(f, k, v)[k] = v
           /\ \A x \in DOMAIN f : x # k => With(f, k, v)[x] = f[x]
  BY <1>WithMap DEF With, IsMap
<1>SweepKeeps.
    ASSUME IndInv, sweepOnce
    PROVE  /\ IndInv'
           /\ \E S : /\ Keeps(Locked(Idle), S, {}) /\ Install(S)
                     /\ S.pend \in Seq(PendingSet)
                     /\ workers' = [workers EXCEPT ![Sweeper] = Settling(S.pend, <<>>)]
  <2> USE <1>SweepKeeps
  <2>1. /\ status = "up" /\ lock = Nobody
        /\ UNCHANGED <<now, status, lock, db, told, failures, crashes>>
    BY DEF sweepOnce, Unlocked
  <2>2. PICK r \in reclaim(Locked(Idle), now, Sweeper) :
          /\ Install(r.st)
          /\ workers' = [workers EXCEPT ![Sweeper] = Settling(r.st.pend, <<>>)]
    BY DEF sweepOnce
  <2>3. Sweeper \in Workers /\ Good(Locked(Idle)) /\ now \in Nat /\ now <= now
    BY SMTT(60) DEF Workers, IndInv
  <2>4. Good(r.st) /\ Keeps(Locked(Idle), r.st, {})
    BY <2>2, <2>3, ReclaimGood DEF Shrinks
  <2>5. r.st.pend \in Seq(PendingSet)
    BY <2>4 DEF Good, LockedOK
  <2>6. Good(Locked(Idle)')
    BY <2>2, <2>4, InstalledGood
  <2>7. <<>> \in Seq(AnswerSet)
    BY SMTT(60)
  <2>8. Settling(r.st.pend, <<>>) \in Jobs /\ Settling(r.st.pend, <<>>).phase = "settling"
    BY <2>5, <2>7, IdleJob
  <2>9. workers' \in [Workers -> Jobs]
    BY <2>2, <2>3, <2>8 DEF IndInv
  <2>10. LockInv(workers', lock', now')
    BY <2>1, <2>2, <2>3, <2>8, Range6Assumption DEF IndInv, LockInv, Workers, Nobody
  <2>11. IndInv'
    BY <2>1, <2>6, <2>9, <2>10 DEF IndInv, DownInv
  <2> QED
    BY <2>2, <2>4, <2>5, <2>11
<1>SettleKeeps.
    ASSUME IndInv, NEW w \in Workers, Settle(w)
    PROVE  IndInv'
  <2> USE <1>SettleKeeps
  <2>1. /\ status = "up" /\ lock = Nobody
        /\ Install(Undone(Locked(workers[w]), workers[w].pend))
        /\ workers' = [workers EXCEPT ![w] = Idle]
        /\ UNCHANGED <<now, status, lock, db, failures, crashes>>
    BY DEF Settle, Unlocked
  <2>2. workers \in [Workers -> Jobs] /\ Good(Locked(Idle)) /\ IsMap(told, Keys, Tellings)
    BY DEF IndInv
  <2>3. workers[w].pend \in Seq(PendingSet) /\ workers[w].answers \in Seq(AnswerSet)
    BY <2>2, JobFields
  <2>4. Good(Undone(Locked(workers[w]), workers[w].pend))
    BY <2>2, <2>3, LockedGood, <1>UndoneGood
  <2>5. Good(Locked(Idle)')
    BY <2>1, <2>4, InstalledGood
  <2>6. workers' \in [Workers -> Jobs]
    BY <2>1, <2>2, IdleJob
  <2>7. LockInv(workers', lock', now')
    BY <2>1, <2>2, IdleJob, Range6Assumption, SMTT(60) DEF IndInv, LockInv, Workers, Nobody
  <2>8. IsMap(told', Keys, Tellings)
    <3> DEFINE H == Standing(w)
               C(k) == CHOOSE a \in H : a.key = k
    <3>1. told' = [k \in DOMAIN told \cup {a.key : a \in H} |->
                     IF \E a \in H : a.key = k THEN [ip |-> C(k).ip, until |-> C(k).until]
                     ELSE told[k]]
      BY DEF Settle
    <3>2. \A a \in H : a.key \in Keys /\ a.ip \in IPs /\ a.until \in Nat
      BY <2>2, StandingOK DEF AnswerSet
    <3> HIDE DEF H
    <3>3. \A k : (\E a \in H : a.key = k) => C(k) \in H
      OBVIOUS
    <3> HIDE DEF C
    <3>4. DOMAIN told \subseteq Keys /\ \A k \in DOMAIN told : told[k] \in Tellings
      BY <2>2 DEF IsMap
    <3> QED
      BY <3>1, <3>2, <3>3, <3>4 DEF IsMap, Tellings
  <2> QED
    BY <2>1, <2>5, <2>6, <2>7, <2>8 DEF IndInv, DownInv
<1>ApplyWriteOK.
    ASSUME NEW table, IsMap(table, Keys, Rows), NEW c \in WriteSet
    PROVE  IsMap(applyWrite(table, c), Keys, Rows)
  <2> USE <1>ApplyWriteOK
  <2>1. CASE c.op = "store"
    <3>1. c.key \in Keys /\ [ip |-> c.ip, expires |-> c.expires] \in Rows
      BY <2>1 DEF WriteSet, Rows
    <3> QED
      BY <2>1, <3>1, <1>WithMap DEF applyWrite
  <2>2. CASE c.op # "store"
    BY <2>2, WithoutMap DEF applyWrite
  <2> QED
    BY <2>1, <2>2
<1>TakeWriteKeeps.
    ASSUME IndInv, NEW result \in {"ok", "error"}, TakeWrite(result)
    PROVE  /\ Good(Locked(Idle)') /\ workers' \in [Workers -> Jobs]
           /\ LockInv(workers', lock', now') /\ DownInv' /\ Head(writes) \in WriteSet
  <2> USE <1>TakeWriteKeeps
  <2>1. /\ status = "up" /\ writes # <<>> /\ writes' = Tail(writes)
        /\ workers' = [workers EXCEPT ![Head(writes).by].pend = Deliver(@, result)]
        /\ UNCHANGED <<now, status, lock, records, allocated, declined, told, crashes>>
    BY DEF TakeWrite
  <2>2. workers \in [Workers -> Jobs] /\ Good(Locked(Idle)) /\ LockInv(workers, lock, now)
    BY DEF IndInv
  <2>3. writes \in Seq(WriteSet) /\ Len(writes) <= QueueLen
    BY <2>2 DEF Good, LockedOK, Locked
  <2>4. /\ Head(writes) \in WriteSet /\ Tail(writes) \in Seq(WriteSet)
        /\ Len(Tail(writes)) = Len(writes) - 1
    BY <2>1, <2>3, SeqHeadTail
  <2>5. Len(Tail(writes)) <= QueueLen
    BY <2>3, <2>4, SeqLen, Numbers, SMTT(60)
  <2> DEFINE b == Head(writes).by
             p == Deliver(workers[b].pend, result)
  <2>6. b \in Workers
    BY <2>4 DEF WriteSet
  <2>7. p \in Seq(PendingSet)
    BY <2>2, <2>6, JobFields, DeliverOK
  <2> HIDE DEF b, p
  <2>8. workers' = [workers EXCEPT ![b] = [workers[b] EXCEPT !.pend = p]]
    BY <2>1, <2>2, <2>6 DEF b, p
  <2>9. workers' \in [Workers -> Jobs]
    BY <2>2, <2>6, <2>7, <2>8, DeliveredJob
  <2>10. /\ \A v \in Workers : workers'[v].phase = workers[v].phase
         /\ \A v \in Workers : workers[v].phase = "locked" => workers'[v].at = workers[v].at
    BY <2>2, <2>6, <2>7, <2>8, DeliveredJob, SMTT(60)
  <2>11. LockInv(workers', lock', now')
    BY <2>1, <2>2, <2>10 DEF LockInv
  <2>12. Good(Locked(Idle)')
    <3> DEFINE S == [Locked(Idle) EXCEPT !.q = Tail(writes)]
    <3>1. LockedOK(S) /\ S.rec = Locked(Idle).rec /\ S.dec = Locked(Idle).dec
          /\ S.alloc = Locked(Idle).alloc
      BY <2>2, <2>4, <2>5 DEF Good, LockedOK, Locked
    <3>2. Good(S)
      BY <2>2, <3>1, SMTT(60) DEF Good, Leased, Apart, Few
    <3>3. Install(S)
      BY <2>1 DEF Install, Locked
    <3> HIDE DEF S
    <3> QED
      BY <3>2, <3>3, InstalledGood
  <2>13. DownInv'
    BY <2>1 DEF DownInv
  <2> QED
    BY <2>4, <2>9, <2>11, <2>12, <2>13
<1>WriteKeeps.
    ASSUME IndInv, write \/ writeFails
    PROVE  IndInv'
  <2> USE <1>WriteKeeps
  <2>1. CASE write
    <3>1. TakeWrite("ok") /\ db' = applyWrite(db, Head(writes)) /\ failures' = failures
      BY <2>1 DEF write
    <3>2. /\ Good(Locked(Idle)') /\ workers' \in [Workers -> Jobs]
          /\ LockInv(workers', lock', now') /\ DownInv' /\ Head(writes) \in WriteSet
      BY <3>1, <1>TakeWriteKeeps
    <3>3. IsMap(db', Keys, Rows)
      BY <3>1, <3>2, <1>ApplyWriteOK DEF IndInv
    <3> QED
      BY <3>1, <3>2, <3>3 DEF IndInv, TakeWrite
  <2>2. CASE writeFails
    <3>1. TakeWrite("error") /\ db' = db /\ failures' = failures + 1
      BY <2>2 DEF writeFails
    <3>2. /\ Good(Locked(Idle)') /\ workers' \in [Workers -> Jobs]
          /\ LockInv(workers', lock', now') /\ DownInv'
      BY <3>1, <1>TakeWriteKeeps
    <3> QED
      BY <3>1, <3>2, SMTT(60) DEF IndInv, TakeWrite
  <2> QED
    BY <2>1, <2>2
<1>TickKeeps.
    ASSUME IndInv, Tick
    PROVE  IndInv'
  <2> USE <1>TickKeeps
  <2>1. /\ now < MaxTick /\ now' = now + 1
        /\ told' = Without(told, {k \in DOMAIN told : Unix(told[k].until) <= Unix(now')})
        /\ UNCHANGED <<status, lock, records, allocated, declined, writes, db, workers,
                       failures, crashes>>
    BY DEF Tick
  <2>2. now \in 0 .. MaxTick /\ now' \in 0 .. MaxTick
    BY <2>1, Numbers, SMTT(60) DEF IndInv
  <2>3. IsMap(told', Keys, Tellings)
    BY <2>1, WithoutMap DEF IndInv
  <2>4. Good(Locked(Idle)')
    BY <2>1, <1>SameGood DEF IndInv
  <2>5. LockInv(workers', lock', now')
    <3>1. \A w \in Workers : workers[w].phase = "locked" => workers[w].at \in Nat
      BY JobFields, LockedFields DEF IndInv
    <3> QED
      BY <2>1, <2>2, <3>1, SMTT(60) DEF IndInv, LockInv
  <2> QED
    BY <2>1, <2>2, <2>3, <2>4, <2>5 DEF IndInv, DownInv
<1>CrashKeeps.
    ASSUME IndInv, Crash
    PROVE  IndInv'
  <2> USE <1>CrashKeeps
  <2>1. /\ status' = "down" /\ lock' = Nobody /\ crashes' = crashes + 1
        /\ records' = EmptyMap /\ allocated' = {} /\ declined' = EmptyMap /\ writes' = <<>>
        /\ workers' = [w \in Workers |-> Idle]
        /\ UNCHANGED <<now, db, told, failures>>
    BY DEF Crash
  <2>2. Good(Locked(Idle)')
    <3> DEFINE S == [rec |-> EmptyMap, alloc |-> {}, dec |-> EmptyMap,
                     q |-> <<>>, pend |-> <<>>, ia |-> 1]
    <3>1. DOMAIN EmptyMap = {} /\ IsMap(EmptyMap, Keys, Record)
      BY DEF EmptyMap, IsMap
    <3>2. {EmptyMap[k].ip : k \in DOMAIN EmptyMap} = {}
      BY <3>1
    <3>3. Good(S)
      BY <3>1, <3>2, FreshGood
    <3>4. Install(S)
      BY <2>1 DEF Install
    <3> HIDE DEF S
    <3> QED
      BY <3>3, <3>4, InstalledGood
  <2>3. workers' \in [Workers -> Jobs] /\ \A w \in Workers : workers'[w].phase = "idle"
    BY <2>1, IdleJob
  <2>4. LockInv(workers', lock', now')
    BY <2>1, <2>3, Range6Assumption DEF LockInv, Workers, Nobody
  <2> QED
    BY <2>1, <2>2, <2>3, <2>4, SMTT(60) DEF IndInv, DownInv
<1>RestoreKeeps.
    ASSUME IndInv, restore
    PROVE  IndInv'
  <2> USE <1>RestoreKeeps
  <2>1. /\ status = "down" /\ status' = (IF RowsDistinct(db) THEN "up" ELSE "refused")
        /\ UNCHANGED <<now, lock, declined, writes, db, workers, told, failures, crashes>>
    BY DEF restore
  <2>2. /\ records = EmptyMap /\ allocated = {} /\ declined = EmptyMap /\ writes = <<>>
        /\ lock = Nobody
    BY <2>1 DEF IndInv, DownInv
  <2>3. CASE RowsDistinct(db)
    <3> DEFINE g == CHOOSE g \in Gens : TRUE
               R == [k \in DOMAIN db |-> [gen |-> g, ip |-> db[k].ip, expires |-> db[k].expires]]
               S == [rec |-> R, alloc |-> {R[k].ip : k \in DOMAIN R}, dec |-> EmptyMap,
                     q |-> <<>>, pend |-> <<>>, ia |-> 1]
    <3>1. g \in Gens
      BY Range6Assumption
    <3>2. records' = R /\ allocated' = {db[k].ip : k \in DOMAIN db}
      BY <2>3 DEF restore
    <3> HIDE DEF g
    <3>3. IsMap(db, Keys, Rows)
      BY DEF IndInv
    <3>4. /\ IsMap(R, Keys, Record) /\ DOMAIN R = DOMAIN db
          /\ \A k \in DOMAIN db : R[k].ip = db[k].ip
      BY <3>1, <3>3 DEF IsMap, Rows, Record
    <3> HIDE DEF R
    <3>5. \A k, l \in DOMAIN R : R[k].ip = R[l].ip => k = l
      BY <2>3, <3>4 DEF RowsDistinct
    <3>6. Good(S)
      BY <3>4, <3>5, FreshGood
    <3>7. allocated' = {R[k].ip : k \in DOMAIN R}
      BY <3>2, <3>4
    <3>8. Install(S)
      BY <2>1, <2>2, <3>2, <3>7 DEF Install
    <3> HIDE DEF S
    <3>9. Good(Locked(Idle)')
      BY <3>6, <3>8, InstalledGood
    <3> QED
      BY <2>1, <2>3, <3>9 DEF IndInv, DownInv
  <2>4. CASE ~RowsDistinct(db)
    <3>1. records' = records /\ allocated' = allocated
      BY <2>4 DEF restore
    <3>2. Good(Locked(Idle)')
      BY <2>1, <3>1, <1>SameGood DEF IndInv
    <3> QED
      BY <2>1, <2>2, <2>4, <3>1, <3>2 DEF IndInv, DownInv
  <2> QED
    BY <2>3, <2>4
<1> SUFFICES ASSUME IndInv, [Next]_vars PROVE IndInv'
  OBVIOUS
<1>1. ASSUME NEW w \in Handlers, NEW d \in Duids, NEW type \in Types,
             NEW ias \in Messages(type), Receive(w, type, d, ias)
      PROVE  IndInv'
  BY <1>1, ReceiveKeeps
<1>2. ASSUME NEW w \in Handlers, Continue(w) PROVE IndInv'
  BY <1>2, ContinueKeeps
<1>3. CASE sweepOnce
  BY <1>3, <1>SweepKeeps
<1>4. ASSUME NEW w \in Workers, Settle(w) PROVE IndInv'
  BY <1>4, <1>SettleKeeps
<1>5. CASE write \/ writeFails
  BY <1>5, <1>WriteKeeps
<1>6. CASE Tick
  BY <1>6, <1>TickKeeps
<1>7. CASE Crash
  BY <1>7, <1>CrashKeeps
<1>8. CASE restore
  BY <1>8, <1>RestoreKeeps
<1>9. CASE UNCHANGED vars
  <2>1. UNCHANGED <<now, status, lock, records, allocated, declined, writes, db, workers,
                    told, failures, crashes>>
    BY <1>9 DEF vars
  <2>2. Good(Locked(Idle)')
    BY <2>1, <1>SameGood DEF IndInv
  <2> QED
    BY <2>1, <2>2 DEF IndInv, DownInv
<1> QED
  BY <1>1, <1>2, <1>3, <1>4, <1>5, <1>6, <1>7, <1>8, <1>9 DEF Next

LEMMA IndInvAlways == Spec => []IndInv
<1> QED
  BY InitIndInv, NextIndInv, PTL DEF Spec

(* Every variable keeps its Go type: the queue never holds more than its      *)
(* capacity, whatever a message, a sweep and reallocateExpired add to it, and *)
(* only the goroutine in its locked section holds the plugin lock.            *)
THEOREM Range6TypesCorrect == Spec => []TypeOK
<1>1. IndInv => TypeOK
  BY DEF IndInv, TypeOK, LockInv, Good, LockedOK, Locked, Record, Rows, Tellings
<1> QED
  BY <1>1, IndInvAlways, PTL

(* bindings6, the allocator and the quarantine never disagree: over any       *)
(* interleaving of messages with any number of IA_NAs, sweeps, evictions,     *)
(* full queues, failed writes and their undos, crashes and restarts, each bit *)
(* of the allocator is a binding or a quarantined address, never two.         *)
THEOREM Range6PoolAccounted == Spec => []PoolAccounted
<1>1. IndInv => PoolAccounted
  BY SMTT(60) DEF IndInv, PoolAccounted, Good, Leased, Apart, Few, Locked
<1> QED
  BY <1>1, IndInvAlways, PTL

-----------------------------------------------------------------------------
(* Promises: what the clients were told, and what the replies on their way    *)
(* will tell them. While no write fails and nothing crashes, each is honoured *)
(* by the binding table, and none is about an address that the message in its *)
(* locked section still has to give up.                                       *)

Safe(job, k, ip) == job.phase = "locked" => ~Gone(job.type, job.duid, job.rest, k, ip)

Holds(job, k, ip, until) ==
  \E i \in DOMAIN job.answers : job.answers[i] = [key |-> k, ip |-> ip, until |-> until]

Told(tl, k, ip, until) == k \in DOMAIN tl /\ tl[k] = [ip |-> ip, until |-> until]

Promised(ws, tl, k, ip, until) ==
  Told(tl, k, ip, until) \/ \E w \in Workers : Holds(ws[w], k, ip, until)

Honoured(k, ip, until) ==
  Unix(until) > Unix(now) =>
    /\ k \in DOMAIN records /\ records[k].ip = ip
    /\ records[k].expires >= Unix(until)

Settled ==
  /\ \A w \in Workers : CleanSeq(workers[w].pend)
  /\ \A k \in Keys, ip \in IPs, until \in Nat :
       Promised(workers, told, k, ip, until) =>
         Honoured(k, ip, until) /\ \A w \in Workers : Safe(workers[w], k, ip)

PromiseInv == failures = 0 /\ crashes = 0 => status = "up" /\ Settled

(* While no write fails and the server does not crash, an address a client    *)
(* was told about stays bound to its association, to the second, until the    *)
(* lifetime in the reply ends or the client gives it up: whatever other       *)
(* messages, sweeps, evictions and renewals do meanwhile, in any interleaving *)
(* and also when the reply goes out only after them (settleAll).              *)
THEOREM Range6PromisesKept == Spec => []PromiseKept
(* Nothing failed, nothing is undone. *)
<1>UndoneClean.
    ASSUME NEW S, NEW pend, NEW n \in Nat, Len(pend) = n,
           \A i \in 1 .. n : pend[i].result # "error"
    PROVE  Undone(S, pend) = S
  BY <1>UndoneClean, Undoing
<1>ReclaimClean.
    ASSUME NEW S, Good(S), Clean(S), now \in Nat, NEW t \in Nat, t <= now, NEW by \in Workers
    PROVE  \A r \in reclaim(S, t, by) : Clean(r.st)
  BY <1>ReclaimClean, CleanSections
<1>CleanOf.
    ASSUME NEW X, NEW s \in Seq(X), \A i \in 1 .. Len(s) : s[i].result # "error"
    PROVE  CleanSeq(s)
  <2> USE <1>CleanOf
  <2>1. PICK n \in Nat : n = Len(s) /\ s \in [1 .. n -> X] /\ DOMAIN s = 1 .. n
    BY SeqLen
  <2> DEFINE Y == {s[i] : i \in 1 .. n}
  <2>2. s \in [1 .. n -> Y]
    BY <2>1
  <2>3. \A x \in Y : x.result # "error"
    BY <2>1
  <2> HIDE DEF Y
  <2>4. s \in Seq(Y)
    BY <2>2, SMTT(60)
  <2> QED
    BY <2>3, <2>4 DEF CleanSeq
<1>CleanEmpty. CleanSeq(<< >>)
  <2>1. << >> \in Seq({0}) /\ \A i \in 1 .. Len(<< >>) : << >>[i].result # "error"
    BY SMTT(60)
  <2> QED
    BY <2>1, <1>CleanOf
<1>CleanItems.
    ASSUME NEW s, CleanSeq(s)
    PROVE  \A i \in 1 .. Len(s) : s[i].result # "error"
  BY <1>CleanItems, SMTT(60) DEF CleanSeq
<1>NoAddress. NoOffset \notin IPs
  BY Numbers, SMTT(60) DEF NoOffset, IPs
(* A step that takes nothing from the bindings with time left, but for those  *)
(* given up, honours the promises that are not about the latter.              *)
<1>HonouredKept.
    ASSUME IndInv, NEW S, S.rec = records, NEW T, Good(T), Install(T), NEW G, Keeps(S, T, G),
           now' = now, NEW k, NEW ip, NEW until \in Nat, [key |-> k, ip |-> ip] \notin G,
           Honoured(k, ip, until)
    PROVE  Honoured(k, ip, until)'
  <2> USE <1>HonouredKept
  <2> SUFFICES ASSUME Unix(until) > Unix(now)
               PROVE  /\ k \in DOMAIN T.rec /\ T.rec[k].ip = ip
                      /\ T.rec[k].expires >= Unix(until)
    BY DEF Honoured, Install
  <2>1. /\ k \in DOMAIN records /\ records[k].ip = ip
        /\ records[k].expires >= Unix(until)
    BY DEF Honoured
  <2>2. Unix(until) \in Nat /\ Unix(now) \in Nat
    BY Ends, SMTT(60) DEF IndInv
  <2>3. IsMap(records, Keys, Record) /\ IsMap(T.rec, Keys, Record)
    BY DEF IndInv, Good, LockedOK, Locked
  <2>4. records[k].expires \in Nat
    BY <2>1, <2>3 DEF IsMap, Record
  <2>5. ~Expired(records[k], now)
    BY <2>1, <2>2, <2>4, SMTT(60) DEF Expired
  <2>6. k \in DOMAIN T.rec /\ T.rec[k].ip = ip /\ T.rec[k].expires >= records[k].expires
    BY <2>1, <2>5 DEF Keeps
  <2>7. T.rec[k].expires \in Nat
    BY <2>3, <2>6 DEF IsMap, Record
  <2> QED
    BY <2>1, <2>2, <2>4, <2>6, <2>7, SMTT(60)
(* A step that leaves the bindings and the clock alone honours them all. *)
<1>HonouredSame.
    ASSUME UNCHANGED <<records, now>>, NEW k, NEW ip, NEW until, Honoured(k, ip, until)
    PROVE  Honoured(k, ip, until)'
  BY <1>HonouredSame DEF Honoured
(* What an IA_NA gives up is among what its message does. *)
<1>GivenAmong.
    ASSUME NEW job \in LockedJobs, NEW k, NEW ip, ~Gone(job.type, job.duid, job.rest, k, ip)
    PROVE  /\ [key |-> k, ip |-> ip] \notin GivenBy(job.type, KeyOf(job), Head(job.rest))
           /\ ~Gone(job.type, job.duid, Tail(job.rest), k, ip)
  <2> USE <1>GivenAmong
  <2> SUFFICES ASSUME job.type \in {"release", "decline"}
               PROVE  /\ [key |-> k, ip |-> ip] \notin Given(KeyOf(job), Head(job.rest))
                      /\ ~Gone(job.type, job.duid, Tail(job.rest), k, ip)
    BY DEF GivenBy, Gone, GivenUp
  <2> DEFINE p == [key |-> k, ip |-> ip]
             All(ia) == {[key |-> leaseKey(job.duid, ia.iaid), ip |-> x] : x \in Elements(ia.addrs)}
  <2>1. PICK n \in Nat : n = Len(job.rest) /\ DOMAIN job.rest = 1 .. n /\ n >= 1
    BY LockedFields, SeqEmpty, SeqLen, SMTT(60)
  <2>2. \A s : Gone(job.type, job.duid, s, k, ip) <=> \E i \in DOMAIN s : p \in All(s[i])
    <3> SUFFICES ASSUME NEW s
                 PROVE  Gone(job.type, job.duid, s, k, ip) <=> \E i \in DOMAIN s : p \in All(s[i])
      OBVIOUS
    <3>1. GivenUp(job.type, job.duid, s) = UNION {All(ia) : ia \in Elements(s)}
      BY DEF GivenUp
    <3>2. Gone(job.type, job.duid, s, k, ip) <=> p \in GivenUp(job.type, job.duid, s)
      BY DEF Gone
    <3> HIDE DEF p, All
    <3> QED
      BY <3>1, <3>2 DEF Elements
  <2>3. Given(KeyOf(job), Head(job.rest)) = All(Head(job.rest))
    BY DEF Given, KeyOf
  <2> HIDE DEF p, All
  <2>4. Head(job.rest) = job.rest[1]
    BY <2>1, LockedFields, SMTT(60)
  <2>5. /\ DOMAIN Tail(job.rest) = 1 .. n - 1
        /\ \A i \in 1 .. n - 1 : Tail(job.rest)[i] = job.rest[i + 1]
    BY <2>1, LockedFields, SMTT(60)
  <2>6. p \notin All(Head(job.rest))
    BY <2>1, <2>2, <2>4, SMTT(60)
  <2>7. ASSUME NEW i \in DOMAIN Tail(job.rest) PROVE p \notin All(Tail(job.rest)[i])
    <3>1. i + 1 \in DOMAIN job.rest /\ Tail(job.rest)[i] = job.rest[i + 1]
      BY <2>1, <2>5, SMTT(60)
    <3> QED
      BY <2>2, <3>1
  <2> QED
    BY <2>2, <2>3, <2>6, <2>7 DEF p
(* The answers of a goroutine after one more IA_NA. *)
<1>HoldsAfter.
    ASSUME NEW job \in LockedJobs, NEW r, Answered(r, KeyOf(job), job.at),
           NEW k, NEW ip, NEW until, Holds(After(job, r), k, ip, until)
    PROVE  \/ Holds(job, k, ip, until)
           \/ k = KeyOf(job) /\ ip = r.ip /\ until = LeaseEnd(job.at)
  <2> USE <1>HoldsAfter
  <2> DEFINE e == [key |-> KeyOf(job), ip |-> r.ip, until |-> LeaseEnd(job.at)]
             f == [key |-> k, ip |-> ip, until |-> until]
  <2>1. After(job, r).answers = Append(job.answers, e)
    BY AfterOK DEF AnswersOf
  <2>2. job.answers \in Seq(AnswerSet)
    BY LockedFields
  <2>3. PICK i \in DOMAIN Append(job.answers, e) : Append(job.answers, e)[i] = f
    BY <2>1 DEF Holds
  <2>4. f = e => k = KeyOf(job) /\ ip = r.ip /\ until = LeaseEnd(job.at)
    OBVIOUS
  <2> HIDE DEF e, f
  <2>5. f = e \/ \E j \in DOMAIN job.answers : job.answers[j] = f
    BY <2>2, <2>3, SMTT(60)
  <2> QED
    BY <2>4, <2>5 DEF Holds, f
<1>AnswerPromises.
    ASSUME IndInv, NEW w \in Handlers, NEW job \in LockedJobs, job.at <= now,
           NEW others \in [Workers -> Jobs], Answer(w, job, others),
           CleanSeq(job.pend),
           \A v \in Workers : v # w => CleanSeq(others[v].pend) /\ others[v].phase # "locked",
           \A k \in Keys, ip \in IPs, until \in Nat :
             \/ Told(told', k, ip, until) \/ Holds(job, k, ip, until)
             \/ \E v \in Workers : v # w /\ Holds(others[v], k, ip, until)
             => Honoured(k, ip, until) /\ ~Gone(job.type, job.duid, job.rest, k, ip)
    PROVE  Settled'
  <2> USE <1>AnswerPromises
  <2>1. Good(Locked(Idle)) /\ now \in Nat /\ w \in Workers
    BY SMTT(60) DEF IndInv, Workers
  <2>2. PICK r : /\ Answered(r, KeyOf(job), job.at)
                 /\ Keeps(Locked(job), r.st, GivenBy(job.type, KeyOf(job), Head(job.rest)))
                 /\ CleanSeq(r.st.pend)
                 /\ job.type \in {"release", "decline"} => r.ip = NoOffset
                 /\ Install(r.st)
                 /\ workers' = [others EXCEPT ![w] = After(job, r)]
                 /\ now' = now
    BY <2>1, AnswerForm, ZenonT(60)
  <2>3. workers'[w] = After(job, r) /\ \A v \in Workers : v # w => workers'[v] = others[v]
    BY <2>1, <2>2
  <2>4. \A v \in Workers : CleanSeq(workers'[v].pend)
    BY <2>2, <2>3, AfterOK
  <2>5. Locked(job).rec = records /\ Good(r.st)
    BY <2>2 DEF Locked, Answered
  <2>6. ASSUME NEW k \in Keys, NEW ip \in IPs, NEW until \in Nat,
               Promised(workers', told', k, ip, until)
        PROVE  Honoured(k, ip, until)' /\ \A v \in Workers : Safe(workers'[v], k, ip)
    <3>1. \/ Told(told', k, ip, until) \/ Holds(job, k, ip, until)
          \/ \E v \in Workers : v # w /\ Holds(others[v], k, ip, until)
          \/ k = KeyOf(job) /\ ip = r.ip /\ until = LeaseEnd(job.at)
      <4>1. CASE Told(told', k, ip, until)
        BY <4>1
      <4>2. ASSUME NEW v \in Workers, Holds(workers'[v], k, ip, until), v # w
            PROVE  Holds(others[v], k, ip, until)
        BY <2>3, <4>2
      <4>3. CASE Holds(workers'[w], k, ip, until)
        BY <2>2, <2>3, <4>3, <1>HoldsAfter, SMTT(60)
      <4> QED
        BY <2>6, <4>1, <4>2, <4>3 DEF Promised
    <3>2. Safe(workers'[w], k, ip) => \A v \in Workers : Safe(workers'[v], k, ip)
      BY <2>3 DEF Safe
    <3>3. ~Gone(job.type, job.duid, Tail(job.rest), k, ip) => Safe(workers'[w], k, ip)
      BY <2>2, <2>3, AfterOK, SMTT(60) DEF Safe
    <3>4. CASE k = KeyOf(job) /\ ip = r.ip /\ until = LeaseEnd(job.at)
      <4>1. r.ip # NoOffset
        BY <3>4, <1>NoAddress
      <4>2. /\ k \in DOMAIN r.st.rec /\ r.st.rec[k].ip = ip
            /\ r.st.rec[k].expires >= Unix(until)
        BY <2>2, <3>4, <4>1 DEF Answered
      <4>3. Honoured(k, ip, until)'
        BY <2>2, <4>2 DEF Honoured, Install
      <4>4. ~Gone(job.type, job.duid, Tail(job.rest), k, ip)
        BY <2>2, <4>1 DEF Gone, GivenUp
      <4> QED
        BY <3>2, <3>3, <4>3, <4>4
    <3>5. CASE ~(k = KeyOf(job) /\ ip = r.ip /\ until = LeaseEnd(job.at))
      <4>1. Honoured(k, ip, until) /\ ~Gone(job.type, job.duid, job.rest, k, ip)
        BY <3>1, <3>5
      <4>2. /\ [key |-> k, ip |-> ip] \notin GivenBy(job.type, KeyOf(job), Head(job.rest))
            /\ ~Gone(job.type, job.duid, Tail(job.rest), k, ip)
        BY <4>1, <1>GivenAmong
      <4>3. Honoured(k, ip, until)'
        BY <2>2, <2>5, <4>1, <4>2, <1>HonouredKept
      <4> QED
        BY <3>2, <3>3, <4>2, <4>3
    <3> QED
      BY <3>4, <3>5
  <2> QED
    BY <2>4, <2>6 DEF Settled
<1>ContinuePromises.
    ASSUME IndInv, Settled, NEW w \in Handlers, Continue(w)
    PROVE  Settled'
  <2> USE <1>ContinuePromises
  <2>1. workers[w] \in LockedJobs /\ workers[w].at <= now
    BY ContinueKeeps
  <2>2. lock = w /\ Answer(w, workers[w], workers) /\ told' = told /\ w \in Workers
    BY DEF Continue, Workers
  <2>3. workers \in [Workers -> Jobs] /\ \A v \in Workers : v # w => workers[v].phase # "locked"
    BY <2>2 DEF IndInv, LockInv
  <2>4. \A v \in Workers : CleanSeq(workers[v].pend)
    BY DEF Settled
  <2>5. workers[w].phase = "locked"
    BY <2>1, LockedFields
  <2>6. ASSUME NEW k \in Keys, NEW ip \in IPs, NEW until \in Nat,
               \/ Told(told', k, ip, until) \/ Holds(workers[w], k, ip, until)
               \/ \E v \in Workers : v # w /\ Holds(workers[v], k, ip, until)
        PROVE  /\ Honoured(k, ip, until)
               /\ ~Gone(workers[w].type, workers[w].duid, workers[w].rest, k, ip)
    <3>1. Promised(workers, told, k, ip, until)
      BY <2>2, <2>6 DEF Promised
    <3>2. Honoured(k, ip, until) /\ Safe(workers[w], k, ip)
      BY <2>2, <3>1 DEF Settled
    <3> QED
      BY <2>5, <3>2 DEF Safe
  <2> QED
    BY <2>1, <2>2, <2>3, <2>4, <2>6, <1>AnswerPromises
(* The IA_NAs past the limit are not looked at. *)
<1>LimitedGone.
    ASSUME NEW ias \in Seq(IANA), ias # <<>>, NEW type, NEW d, NEW k, NEW ip,
           Gone(type, d, Limited(ias), k, ip)
    PROVE  Gone(type, d, ias, k, ip)
  <2> USE <1>LimitedGone
  <2> DEFINE L == Limited(ias)
  <2>1. PICK n \in Nat : n = Len(ias) /\ DOMAIN ias = 1 .. n
    BY SeqLen
  <2>2. /\ L \in Seq(IANA) /\ Len(L) \in Nat /\ Len(L) <= n
        /\ \A i \in 1 .. Len(L) : L[i] = ias[i]
    BY <2>1, LimitedOK
  <2> HIDE DEF L
  <2>3. DOMAIN L = 1 .. Len(L)
    BY <2>2, SeqLen
  <2>4. Elements(L) \subseteq Elements(ias)
    BY <2>1, <2>2, <2>3, SMTT(60) DEF Elements
  <2>5. GivenUp(type, d, L) \subseteq GivenUp(type, d, ias)
    BY <2>4, SMTT(60) DEF GivenUp
  <2> QED
    BY <2>5 DEF Gone, L
<1>ReceivePromises.
    ASSUME IndInv, Settled, NEW w \in Handlers, NEW d \in Duids, NEW type \in Types,
           NEW ias \in Messages(type), Receive(w, type, d, ias)
    PROVE  Settled'
  <2> USE <1>ReceivePromises
  <2> DEFINE job == Fresh(type, d, ias)
             O == Others(type, d, ias)
  <2>1. job \in LockedJobs /\ job.at <= now
    BY ReceiveKeeps
  <2>2. /\ lock = Nobody /\ Answer(w, job, O) /\ ias # <<>>
        /\ told' = Without(told, {k \in DOMAIN told : Gone(type, d, ias, k, told[k].ip)})
    BY ReceiveForm DEF Unlocked
  <2>3. workers \in [Workers -> Jobs] /\ \A v \in Workers : workers[v].phase # "locked"
    BY <2>2, Range6Assumption DEF IndInv, LockInv, Workers, Nobody
  <2>4. /\ O \in [Workers -> Jobs]
        /\ \A v \in Workers :
             /\ O[v].phase = workers[v].phase /\ O[v].pend = workers[v].pend
             /\ O[v].answers = Deaf(type, d, ias, workers[v].answers)
    BY <2>3, OthersOK, SMTT(60)
  <2>5. /\ job.type = type /\ job.duid = d /\ job.rest = Limited(ias)
        /\ job.pend = <<>> /\ job.answers = <<>>
    BY DEF Fresh
  <2> HIDE DEF job, O
  <2>6. CleanSeq(job.pend)
    BY <2>5, <1>CleanEmpty
  <2>7. \A v \in Workers : CleanSeq(O[v].pend) /\ O[v].phase # "locked"
    BY <2>3, <2>4 DEF Settled
  <2>8. ASSUME NEW k \in Keys, NEW ip \in IPs, NEW until \in Nat,
               \/ Told(told', k, ip, until) \/ Holds(job, k, ip, until)
               \/ \E v \in Workers : v # w /\ Holds(O[v], k, ip, until)
        PROVE  /\ Honoured(k, ip, until)
               /\ ~Gone(job.type, job.duid, job.rest, k, ip)
    <3>1. ~Holds(job, k, ip, until)
      BY <2>5, SMTT(60) DEF Holds
    <3>2. ASSUME Told(told', k, ip, until)
          PROVE  Promised(workers, told, k, ip, until) /\ ~Gone(type, d, ias, k, ip)
      <4>1. k \in DOMAIN told /\ ~Gone(type, d, ias, k, told[k].ip) /\ told'[k] = told[k]
        BY <2>2, <3>2 DEF Told, Without
      <4>2. told[k] = [ip |-> ip, until |-> until]
        BY <3>2, <4>1 DEF Told
      <4>3. told[k].ip = ip
        BY <4>2, SMTT(60)
      <4> QED
        BY <4>1, <4>2, <4>3 DEF Promised, Told
    <3>3. ASSUME NEW v \in Workers, Holds(O[v], k, ip, until)
          PROVE  Promised(workers, told, k, ip, until) /\ ~Gone(type, d, ias, k, ip)
      <4> DEFINE a == workers[v].answers
                 f == [key |-> k, ip |-> ip, until |-> until]
      <4>1. PICK i \in DOMAIN a : Deaf(type, d, ias, a)[i] = f
        BY <2>4, <3>3 DEF Holds, Deaf
      <4>2. a[i] \in AnswerSet
        BY <2>3, JobFields, SeqLen
      <4>3. ~Gone(type, d, ias, a[i].key, a[i].ip)
        <5> SUFFICES ASSUME Gone(type, d, ias, a[i].key, a[i].ip) PROVE FALSE
          OBVIOUS
        <5>1. f = [a[i] EXCEPT !.ip = NoOffset]
          BY <4>1 DEF Deaf
        <5>2. f.ip = NoOffset
          BY <4>2, <5>1 DEF AnswerSet
        <5> QED
          BY <5>2, <1>NoAddress
      <4>4. a[i] = f
        BY <4>1, <4>3 DEF Deaf
      <4>5. Holds(workers[v], k, ip, until)
        BY <4>4 DEF Holds
      <4>6. a[i].key = k /\ a[i].ip = ip
        BY <4>4, SMTT(60)
      <4> QED
        BY <4>3, <4>5, <4>6 DEF Promised
    <3>4. Promised(workers, told, k, ip, until) /\ ~Gone(type, d, ias, k, ip)
      BY <2>8, <3>1, <3>2, <3>3
    <3>5. Honoured(k, ip, until)
      BY <3>4 DEF Settled
    <3>6. ias \in Seq(IANA)
      BY Range6Assumption
    <3> QED
      BY <2>2, <2>5, <3>4, <3>5, <3>6, <1>LimitedGone, SMTT(60)
  <2> QED
    BY <2>1, <2>2, <2>4, <2>6, <2>7, <2>8, <1>AnswerPromises
<1>SweepPromises.
    ASSUME IndInv, Settled, sweepOnce
    PROVE  Settled'
  <2> USE <1>SweepPromises
  <2>1. PICK r \in reclaim(Locked(Idle), now, Sweeper) :
          /\ Install(r.st)
          /\ workers' = [workers EXCEPT ![Sweeper] = Settling(r.st.pend, <<>>)]
    BY DEF sweepOnce
  <2>2. lock = Nobody /\ now' = now /\ told' = told
    BY DEF sweepOnce, Unlocked
  <2>3. Sweeper \in Workers /\ Good(Locked(Idle)) /\ now \in Nat /\ now <= now
        /\ workers \in [Workers -> Jobs] /\ Locked(Idle).rec = records
    BY SMTT(60) DEF Workers, IndInv, Locked
  <2>4. Good(r.st) /\ Keeps(Locked(Idle), r.st, {})
    BY <2>1, <2>3, ReclaimGood DEF Shrinks
  <2>5. Clean(Locked(Idle)) /\ LockedOK(Locked(Idle))
    BY <2>3, <1>CleanEmpty, IdleJob, ZenonT(60) DEF Clean, Good, LockedOK, Locked
  <2>6. CleanSeq(r.st.pend)
    BY <2>1, <2>3, <2>5, <1>ReclaimClean DEF Clean
  <2>8. /\ workers'[Sweeper] = Settling(r.st.pend, <<>>)
        /\ \A v \in Workers : v # Sweeper => workers'[v] = workers[v]
    BY <2>1, <2>3
  <2>9. /\ workers'[Sweeper].pend = r.st.pend /\ workers'[Sweeper].phase = "settling"
        /\ workers'[Sweeper].answers = <<>>
    BY <2>8, SMTT(60) DEF Settling
  <2>10. \A v \in Workers : CleanSeq(workers'[v].pend)
    BY <2>6, <2>8, <2>9 DEF Settled
  <2>11. ASSUME NEW k \in Keys, NEW ip \in IPs, NEW until \in Nat,
                Promised(workers', told', k, ip, until)
         PROVE  Honoured(k, ip, until)' /\ \A v \in Workers : Safe(workers'[v], k, ip)
    <3>1. ~Holds(workers'[Sweeper], k, ip, until)
      BY <2>9, SMTT(60) DEF Holds
    <3>2. Promised(workers, told, k, ip, until)
      BY <2>2, <2>8, <2>11, <3>1 DEF Promised
    <3>3. Honoured(k, ip, until) /\ \A v \in Workers : Safe(workers[v], k, ip)
      BY <3>2 DEF Settled
    <3>4. Honoured(k, ip, until)'
      <4> DEFINE p == [key |-> k, ip |-> ip]
      <4>1. p \notin {}
        OBVIOUS
      <4> QED
        BY <2>1, <2>2, <2>3, <2>4, <3>3, <4>1, <1>HonouredKept
    <3>5. \A v \in Workers : Safe(workers'[v], k, ip)
      BY <2>8, <2>9, <3>3 DEF Safe
    <3> QED
      BY <3>4, <3>5
  <2> QED
    BY <2>10, <2>11 DEF Settled
(* With nothing to undo, settling changes no binding. *)
<1>SettleSame.
    ASSUME IndInv, Settled, NEW w \in Workers, Settle(w)
    PROVE  records' = records
  <2> USE <1>SettleSame
  <2>1. workers[w].pend \in Seq(PendingSet)
    BY JobFields DEF IndInv
  <2>2. PICK n \in Nat : Len(workers[w].pend) = n
    BY <2>1, SeqLen
  <2>3. \A i \in 1 .. n : workers[w].pend[i].result # "error"
    BY <2>2, <1>CleanItems DEF Settled
  <2>4. Undone(Locked(workers[w]), workers[w].pend) = Locked(workers[w])
    BY <2>2, <2>3, <1>UndoneClean
  <2> QED
    BY <2>4, SMTT(60) DEF Settle, Install, Locked
<1>SettlePromises.
    ASSUME IndInv, Settled, NEW w \in Workers, Settle(w)
    PROVE  Settled'
  <2> USE <1>SettlePromises
  <2> DEFINE H == Standing(w)
             C(k) == CHOOSE a \in H : a.key = k
  <2>1. /\ workers' = [workers EXCEPT ![w] = Idle] /\ now' = now
        /\ told' = [k \in DOMAIN told \cup {a.key : a \in H} |->
                      IF \E a \in H : a.key = k THEN [ip |-> C(k).ip, until |-> C(k).until]
                      ELSE told[k]]
    BY DEF Settle
  <2>2. records' = records /\ workers \in [Workers -> Jobs]
    BY <1>SettleSame DEF IndInv
  <2>3. workers'[w] = Idle /\ \A v \in Workers : v # w => workers'[v] = workers[v]
    BY <2>1, <2>2
  <2>4. Idle.pend = <<>> /\ Idle.answers = <<>> /\ Idle.phase = "idle"
    BY IdleJob
  <2>5. \A a \in H : /\ a \in AnswerSet
                     /\ \E i \in DOMAIN workers[w].answers : a = workers[w].answers[i]
    BY <2>2, StandingOK
  <2> HIDE DEF H
  <2>6. \A k : (\E a \in H : a.key = k) => C(k) \in H /\ C(k).key = k
    OBVIOUS
  <2> HIDE DEF C
  <2>7. \A v \in Workers : CleanSeq(workers'[v].pend)
    BY <2>3, <2>4, <1>CleanEmpty DEF Settled
  <2>8. ASSUME NEW k \in Keys, NEW ip \in IPs, NEW until \in Nat,
               Promised(workers', told', k, ip, until)
        PROVE  Promised(workers, told, k, ip, until)
    <3>1. CASE Told(told', k, ip, until)
      <4>1. CASE \E a \in H : a.key = k
        <5>1. C(k) \in H /\ C(k).key = k
          BY <2>6, <4>1
        <5>2. [ip |-> C(k).ip, until |-> C(k).until] = [ip |-> ip, until |-> until]
          BY <2>1, <3>1, <4>1 DEF Told
        <5>3. C(k).ip = ip /\ C(k).until = until
          BY <5>2
        <5>4. C(k) = [key |-> k, ip |-> ip, until |-> until]
          BY <2>5, <5>1, <5>3 DEF AnswerSet
        <5> QED
          BY <2>5, <5>1, <5>4 DEF Promised, Holds
      <4>2. CASE ~\E a \in H : a.key = k
        BY <2>1, <3>1, <4>2 DEF Promised, Told
      <4> QED
        BY <4>1, <4>2
    <3>2. ASSUME NEW v \in Workers, Holds(workers'[v], k, ip, until)
          PROVE  Holds(workers[v], k, ip, until)
      BY <2>3, <2>4, <3>2, SMTT(60) DEF Holds
    <3> QED
      BY <2>8, <3>1, <3>2 DEF Promised
  <2>9. ASSUME NEW k \in Keys, NEW ip \in IPs, NEW until \in Nat,
               Promised(workers', told', k, ip, until)
        PROVE  Honoured(k, ip, until)' /\ \A v \in Workers : Safe(workers'[v], k, ip)
    <3>1. Honoured(k, ip, until) /\ \A v \in Workers : Safe(workers[v], k, ip)
      BY <2>8, <2>9 DEF Settled
    <3>2. Honoured(k, ip, until)'
      BY <2>1, <2>2, <3>1, <1>HonouredSame
    <3> QED
      BY <2>3, <2>4, <3>1, <3>2 DEF Safe
  <2> QED
    BY <2>7, <2>9 DEF Settled
<1>WritePromises.
    ASSUME IndInv, Settled, write
    PROVE  Settled'
  <2> USE <1>WritePromises
  <2>1. /\ writes # <<>> /\ UNCHANGED <<now, records, told>>
        /\ workers' = [workers EXCEPT ![Head(writes).by].pend = Deliver(@, "ok")]
    BY DEF write, TakeWrite
  <2>2. workers \in [Workers -> Jobs] /\ writes \in Seq(WriteSet)
    BY DEF IndInv, Good, LockedOK, Locked
  <2> DEFINE b == Head(writes).by
             p == Deliver(workers[b].pend, "ok")
  <2>3. b \in Workers
    BY <2>1, <2>2, SeqHeadTail, SMTT(60) DEF WriteSet
  <2>4. p \in Seq(PendingSet)
    BY <2>2, <2>3, JobFields, DeliverOK
  <2>5. CleanSeq(p)
    <3>1. workers[b].pend \in Seq(PendingSet)
      BY <2>2, <2>3, JobFields
    <3>2. PICK n \in Nat : Len(workers[b].pend) = n /\ DOMAIN workers[b].pend = 1 .. n
      BY <3>1, SeqLen
    <3>3. DOMAIN p = 1 .. n
      BY <3>2 DEF Deliver
    <3>4. \A i \in 1 .. n : workers[b].pend[i] \in PendingSet
      BY <3>1, <3>2, SeqLen
    <3>5. \A i \in 1 .. n : workers[b].pend[i].result # "error"
      BY <2>3, <3>2, <1>CleanItems DEF Settled
    <3>6. \A i \in 1 .. n : p[i].result # "error"
      BY <3>2, <3>4, <3>5 DEF Deliver, PendingSet
    <3> HIDE DEF p
    <3>7. Len(p) = n
      BY <2>4, <3>3, SeqLen, SMTT(60)
    <3> QED
      BY <2>4, <3>6, <3>7, <1>CleanOf
  <2> HIDE DEF b, p
  <2>6. workers' = [workers EXCEPT ![b] = [workers[b] EXCEPT !.pend = p]]
    BY <2>1, <2>2, <2>3 DEF b, p
  <2>7. \A v \in Workers :
          /\ workers'[v].answers = workers[v].answers /\ workers'[v].phase = workers[v].phase
          /\ CleanSeq(workers'[v].pend)
          /\ workers[v].phase = "locked" =>
               /\ workers'[v].type = workers[v].type /\ workers'[v].duid = workers[v].duid
               /\ workers'[v].rest = workers[v].rest
    BY <2>2, <2>3, <2>4, <2>5, <2>6, DeliveredJob, SMTT(60) DEF Settled
  <2>8. ASSUME NEW k \in Keys, NEW ip \in IPs, NEW until \in Nat,
               Promised(workers', told', k, ip, until)
        PROVE  Honoured(k, ip, until)' /\ \A v \in Workers : Safe(workers'[v], k, ip)
    <3>1. Promised(workers, told, k, ip, until)
      BY <2>1, <2>7, <2>8, SMTT(60) DEF Promised, Holds
    <3>2. Honoured(k, ip, until) /\ \A v \in Workers : Safe(workers[v], k, ip)
      BY <3>1 DEF Settled
    <3>3. Honoured(k, ip, until)'
      BY <2>1, <3>2, <1>HonouredSame
    <3> QED
      BY <2>7, <3>2, <3>3 DEF Safe
  <2> QED
    BY <2>7, <2>8 DEF Settled
<1>TickPromises.
    ASSUME IndInv, Settled, Tick
    PROVE  Settled'
  <2> USE <1>TickPromises
  <2>1. /\ now' = now + 1 /\ UNCHANGED <<records, workers>>
        /\ told' = Without(told, {k \in DOMAIN told : Unix(told[k].until) <= Unix(now')})
    BY DEF Tick
  <2>2. now \in Nat /\ now' \in Nat /\ now <= now'
    BY <2>1, SMTT(60) DEF IndInv
  <2>3. Unix(now) \in Nat /\ Unix(now') \in Nat /\ Unix(now) <= Unix(now')
    <3>1. Unix(now) \in Nat /\ Unix(now') \in Nat
      BY <2>2, Ends
    <3> DEFINE rec == [expires |-> Unix(now)]
    <3>2. rec.expires \in Nat /\ Expired(rec, now)
      BY <3>1, SMTT(60) DEF Expired
    <3>3. Expired(rec, now')
      BY <2>2, <3>2, LapsedLater
    <3> QED
      BY <3>1, <3>3 DEF Expired
  <2>4. ASSUME NEW k \in Keys, NEW ip \in IPs, NEW until \in Nat,
               Promised(workers', told', k, ip, until)
        PROVE  Honoured(k, ip, until)' /\ \A v \in Workers : Safe(workers'[v], k, ip)
    <3>1. Promised(workers, told, k, ip, until)
      BY <2>1, <2>4 DEF Promised, Told, Without
    <3>2. Honoured(k, ip, until) /\ \A v \in Workers : Safe(workers[v], k, ip)
      BY <3>1 DEF Settled
    <3>3. Unix(until) \in Nat
      BY Ends
    <3>4. Honoured(k, ip, until)'
      BY <2>1, <2>3, <3>2, <3>3, SMTT(60) DEF Honoured
    <3> QED
      BY <2>1, <3>2, <3>4
  <2> QED
    BY <2>1, <2>4 DEF Settled
<1>InitPromises. Init => PromiseInv
  <2> SUFFICES ASSUME Init PROVE PromiseInv
    OBVIOUS
  <2>1. status = "up" /\ workers = [w \in Workers |-> Idle] /\ told = EmptyMap
    BY DEF Init
  <2>2. \A w \in Workers : workers[w].pend = <<>> /\ workers[w].answers = <<>>
    BY <2>1, IdleJob
  <2>3. \A k, ip, until : ~Promised(workers, told, k, ip, until)
    BY <2>1, <2>2, SMTT(60) DEF Promised, Told, Holds, EmptyMap
  <2> QED
    BY <2>1, <2>2, <2>3, <1>CleanEmpty DEF PromiseInv, Settled
<1>NextPromises. IndInv /\ PromiseInv /\ [Next]_vars => PromiseInv'
  <2> SUFFICES ASSUME IndInv, PromiseInv, [Next]_vars, failures' = 0, crashes' = 0
               PROVE  status' = "up" /\ Settled'
    BY DEF PromiseInv
  <2>0. failures \in Nat /\ crashes \in Nat
    BY DEF IndInv
  <2>1. ASSUME NEW w \in Handlers, NEW d \in Duids, NEW type \in Types,
               NEW ias \in Messages(type), Receive(w, type, d, ias)
        PROVE  status' = "up" /\ Settled'
    <3>1. UNCHANGED <<status, failures, crashes>>
      BY <2>1 DEF Receive, Answer
    <3> QED
      BY <2>1, <3>1, <1>ReceivePromises DEF PromiseInv
  <2>2. ASSUME NEW w \in Handlers, Continue(w) PROVE status' = "up" /\ Settled'
    <3>1. UNCHANGED <<status, failures, crashes>>
      BY <2>2 DEF Continue, Answer
    <3> QED
      BY <2>2, <3>1, <1>ContinuePromises DEF PromiseInv
  <2>3. CASE sweepOnce
    <3>1. UNCHANGED <<status, failures, crashes>>
      BY <2>3 DEF sweepOnce
    <3> QED
      BY <2>3, <3>1, <1>SweepPromises DEF PromiseInv
  <2>4. ASSUME NEW w \in Workers, Settle(w) PROVE status' = "up" /\ Settled'
    <3>1. UNCHANGED <<status, failures, crashes>>
      BY <2>4 DEF Settle
    <3> QED
      BY <2>4, <3>1, <1>SettlePromises DEF PromiseInv
  <2>5. CASE write
    <3>1. UNCHANGED <<status, failures, crashes>>
      BY <2>5 DEF write, TakeWrite
    <3> QED
      BY <2>5, <3>1, <1>WritePromises DEF PromiseInv
  <2>6. ~writeFails /\ ~Crash
    BY <2>0, SMTT(60) DEF writeFails, Crash
  <2>7. CASE Tick
    <3>1. UNCHANGED <<status, failures, crashes>>
      BY <2>7 DEF Tick
    <3> QED
      BY <2>7, <3>1, <1>TickPromises DEF PromiseInv
  <2>8. ~restore
    <3> SUFFICES ASSUME restore PROVE FALSE
      OBVIOUS
    <3>1. status = "down" /\ UNCHANGED <<failures, crashes>>
      BY DEF restore
    <3> QED
      BY <3>1 DEF PromiseInv
  <2>9. CASE UNCHANGED vars
    <3>1. UNCHANGED <<now, status, records, workers, told, failures, crashes>>
      BY <2>9 DEF vars
    <3>2. status = "up" /\ Settled
      BY <3>1 DEF PromiseInv
    <3> QED
      BY <3>1, <3>2 DEF Settled, Honoured
  <2> QED
    BY <2>1, <2>2, <2>3, <2>4, <2>5, <2>6, <2>7, <2>8, <2>9 DEF Next
<1>1. Init => IndInv /\ PromiseInv
  BY InitIndInv, <1>InitPromises
<1>2. IndInv /\ PromiseInv /\ [Next]_vars => (IndInv /\ PromiseInv)'
  BY NextIndInv, <1>NextPromises
<1>3. IndInv /\ PromiseInv => PromiseKept
  <2> SUFFICES ASSUME IndInv, PromiseInv, failures = 0, crashes = 0, NEW k \in DOMAIN told
               PROVE  Honoured(k, told[k].ip, told[k].until)
    BY DEF PromiseKept, Honoured
  <2>1. k \in Keys /\ told[k] \in Tellings
    BY DEF IndInv, IsMap
  <2>2. told[k].ip \in IPs /\ told[k].until \in Nat
        /\ told[k] = [ip |-> told[k].ip, until |-> told[k].until]
    BY <2>1 DEF Tellings
  <2>3. Promised(workers, told, k, told[k].ip, told[k].until)
    BY <2>2 DEF Promised, Told
  <2> QED
    BY <2>1, <2>2, <2>3 DEF PromiseInv, Settled
<1> QED
  BY <1>1, <1>2, <1>3, PTL DEF Spec

=============================================================================
