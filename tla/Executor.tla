------------------------------ MODULE Executor ------------------------------
(***************************************************************************)
(* What the coroutine scheduler promises about one submitted handle: it is *)
(* resumed at most once, by a worker after it became pending, or directly  *)
(* by its submitter; a submission may also be refused.  CoroTask uses this *)
(* view of the scheduler (Schedule and Take); CoroScheduler implements it. *)
(***************************************************************************)
CONSTANT Handles \* submissions of coroutine handles

VARIABLE place   \* where each submission is

Places == {"new", "pending", "resumed", "refused"}

Init == place = [h \in Handles |-> "new"]

Move(h, from, to) ==
  /\ place[h] \in from
  /\ place' = [place EXCEPT ![h] = to]

Submit(h) == Move(h, {"new"}, "pending")
Resume(h) == Move(h, {"new", "pending"}, "resumed")
Refuse(h) == Move(h, {"new"}, "refused")

Next == \E h \in Handles : Submit(h) \/ Resume(h) \/ Refuse(h)

Spec == Init /\ [][Next]_place
=============================================================================
