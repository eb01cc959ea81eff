----------------------------- MODULE MCRange6 -----------------------------
(* Instances of Range6 for TLC. *)
EXTENDS Range6, TLC

CONSTANTS i1, i2

Symmetry == Permutations(Handlers)

IA(i, addrs) == [iaid |-> i, addrs |-> addrs]

(* A client asks for one address or two, hinting at an address or at none,    *)
(* names one IAID twice, and gives up what it holds or what it does not.      *)
SmallMessages(type) ==
  CASE type = "bind"    -> {<<IA(i1, <<1>>), IA(i2, <<1>>)>>, <<IA(i1, <<>>), IA(i1, <<>>)>>}
    [] type = "extend"  -> {<<IA(i1, <<>>), IA(i2, <<>>)>>}
    [] type = "release" -> {<<IA(i1, <<0, 1>>), IA(i2, <<0>>)>>}
    [] type = "decline" -> {<<IA(i1, <<0, 1, 2>>), IA(i2, <<0, 1, 2>>)>>}

EnoughGens == 1 .. Cardinality(Handlers) + 2

(* Nothing the server does depends on what the clients make of its replies,   *)
(* and PromiseKept looks at it only until something fails.                    *)
ServerView ==
  <<now, status, lock, records, allocated, declined, writes, db, failures, crashes,
    IF failures + crashes = 0 THEN <<told, workers>>
    ELSE <<[w \in Workers |->
              [workers[w] EXCEPT !.answers = Len(workers[w].answers)]]>> >>
=============================================================================
