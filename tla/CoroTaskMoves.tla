--------------------------- MODULE CoroTaskMoves ---------------------------
(***************************************************************************)
(* The two operations of coro_task that hand a frame from one object to    *)
(* another although the task may have been started: add_coro(task), which  *)
(* starts its argument and returns it by move, and move assignment over a  *)
(* task.  Every other operation is CoroTask's.                             *)
(***************************************************************************)
EXTENDS CoroTask

\* task_scheduler::add_coro(coro_task): task.start(), then the return value is
\* move-constructed from the parameter.
AddCoro(a, t) ==
  /\ InScope(a)
  /\ Holds(a, t)
  /\ ~started[t]
  /\ StartTask(t)
  /\ tgt' = [tgt EXCEPT ![a] = t]
  /\ Goto(a, "moving")
  /\ UNCHANGED <<seen, leaving, result, finalReached, hand, run, yields>>

\* coro_task(coro_task&&): the frame changes hands within the caller's scope.
MoveConstruct(a) ==
  /\ At(a, "moving")
  /\ Goto(a, "body")
  /\ UNCHANGED <<tgt, seen, leaving, result, started, finalReached, hand, run,
                 queued, yields>>

\* operator=(coro_task&&) on the object that holds t: handle_.destroy(), whether
\* or not t was started.
MoveAssign(a, t) ==
  /\ InScope(a)
  /\ Holds(a, t)
  /\ Goto(t, "destroyed")
  /\ UNCHANGED <<tgt, seen, leaving, result, started, finalReached, hand, run,
                 queued, yields>>

NextWithMoves ==
  \/ Next
  \/ \E a \in Actors, t \in Tasks : AddCoro(a, t) \/ MoveAssign(a, t)
  \/ \E a \in Actors : MoveConstruct(a)

SpecWithMoves == Init /\ [][NextWithMoves]_vars
=============================================================================
