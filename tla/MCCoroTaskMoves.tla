-------------------------- MODULE MCCoroTaskMoves --------------------------
(* Instances of CoroTaskMoves for TLC: who holds which task.               *)
EXTENDS CoroTaskMoves, TLC

CONSTANTS main, t1, t2

\* main holds t1, which holds t2.
Pair == t1 :> main @@ t2 :> t1
=============================================================================
