----------------------------- MODULE MCCoroTask -----------------------------
(* Instances of CoroTask for TLC: who holds which task.                    *)
EXTENDS CoroTask, TLC

CONSTANTS main, t1, t2, t3

\* main holds t1, which holds t2 and t3.
Fork == t1 :> main @@ t2 :> t1 @@ t3 :> t1

\* main holds t1, t1 holds t2, t2 holds t3.
Chain == t1 :> main @@ t2 :> t1 @@ t3 :> t2
=============================================================================
