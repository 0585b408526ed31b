------------------------------ MODULE MCSleep ------------------------------
(* Instances of Sleep for TLC: which coroutine makes which sleeps.         *)
EXTENDS Sleep, TLC

CONSTANTS a1, a2

\* One coroutine sleeps twice.
Twice == a1 :> NoSleep @@ a2 :> a1
=============================================================================
