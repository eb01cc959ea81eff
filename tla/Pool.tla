-------------------------------- MODULE Pool --------------------------------
(***************************************************************************)
(* What an allocator promises (plugins/allocators, the Allocator interface *)
(* and the Hints section of the bitmap package): a pool of blocks, each    *)
(* named by its first address. A hint that names a free block is honoured, *)
(* any other gets the first free block, and only an exhausted pool gives   *)
(* nothing. A block is freed once.                                         *)
(***************************************************************************)
EXTENDS Integers, FiniteSets

VARIABLES
  blocks,  \* the pool
  taken,   \* the blocks handed out
  last     \* the result of the last call: what happened, and to which block

vars == <<blocks, taken, last>>

Nowhere == -1
Result(what, at) == [what |-> what, at |-> at]

Free == blocks \ taken
First == CHOOSE b \in Free : \A other \in Free : b <= other

Give(hint) ==
  /\ Free # {}
  /\ LET b == IF hint \in Free THEN hint ELSE First
     IN  taken' = taken \cup {b} /\ last' = Result("given", b)

GiveNothing ==
  /\ Free = {}
  /\ last' = Result("full", Nowhere)
  /\ UNCHANGED taken

TakeBack(b) ==
  /\ b \in taken
  /\ taken' = taken \ {b}
  /\ last' = Result("freed", b)

Refuse ==
  /\ last' \in {Result("double", Nowhere), Result("foreign", Nowhere)}
  /\ UNCHANGED taken

Init == taken = {} /\ last = Result("new", Nowhere)

Next ==
  /\ \/ \E hint \in blocks \cup {Nowhere} : Give(hint)
     \/ GiveNothing
     \/ \E b \in blocks : TakeBack(b)
     \/ Refuse
  /\ UNCHANGED blocks

Spec == Init /\ [][Next]_vars
=============================================================================
