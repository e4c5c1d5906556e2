--------------------------- MODULE FifoExecutor ---------------------------
(***************************************************************************)
(* What the RainMaker work queue promises its callers: the functions that  *)
(* it accepted are executed once each, in the order they were accepted.    *)
(* Giving the queue up forgets the ones that were not executed.            *)
(***************************************************************************)
EXTENDS Naturals, Sequences

CONSTANT Work

VARIABLES accepted, executed

Init == accepted = <<>> /\ executed = <<>>

Accept ==
    /\ \E w \in Work : accepted' = Append(accepted, w)
    /\ UNCHANGED executed

Execute ==
    /\ Len(executed) < Len(accepted)
    /\ executed' = Append(executed, accepted[Len(executed) + 1])
    /\ UNCHANGED accepted

GiveUp == accepted' = <<>> /\ executed' = <<>>

Next == Accept \/ Execute \/ GiveUp

Spec == Init /\ [][Next]_<<accepted, executed>>
=============================================================================
