------------------------------ MODULE ForkJoin ------------------------------
(***************************************************************************)
(* What coro_task promises to the code that uses it: structured fork/join. *)
(* A task is created, started, resolves to a result, finishes, and is      *)
(* destroyed by its owner, in this order; an owner that waits for a task   *)
(* goes on only after the task has resolved, and destroys a started task   *)
(* only after the task has finished.  How the waiting is done (a blocked   *)
(* thread, a suspended coroutine, who resumes it) is not visible here.     *)
(* CoroTask implements this specification.                                 *)
(***************************************************************************)
CONSTANTS Tasks,   \* coroutines
          Threads, \* threads that are not coroutine workers
          Owner,   \* the task or thread whose scope holds each task
          NoTask   \* "waits for nothing"

VARIABLES status,  \* where each task is in its life
          waits    \* the task each task or thread is waiting for

vars == <<status, waits>>

Actors == Tasks \union Threads

Statuses == {"unborn", "created", "started", "resolved", "finished",
             "destroyed"}

Init ==
  /\ status = [t \in Tasks |-> "unborn"]
  /\ waits = [a \in Actors |-> NoTask]

\* Code of a can run: it waits for nothing and, if it is a task, it has been
\* started and has not finished.
Active(a) ==
  /\ waits[a] = NoTask
  /\ a \in Tasks => status[a] \in {"started", "resolved"}

Become(t, s) == status' = [status EXCEPT ![t] = s]

Create(t) ==
  /\ status[t] = "unborn"
  /\ Active(Owner[t])
  /\ Become(t, "created")
  /\ UNCHANGED waits

Start(t) ==
  /\ status[t] = "created"
  /\ Active(Owner[t])
  /\ Become(t, "started")
  /\ UNCHANGED waits

Wait(t) ==
  /\ status[t] \in {"created", "started", "resolved", "finished"}
  /\ Active(Owner[t])
  /\ waits' = [waits EXCEPT ![Owner[t]] = t]
  /\ status' = IF status[t] = "created"
               THEN [status EXCEPT ![t] = "started"] ELSE status

Wake(a) ==
  /\ waits[a] # NoTask
  /\ status[waits[a]] \in {"resolved", "finished"}
  /\ waits' = [waits EXCEPT ![a] = NoTask]
  /\ UNCHANGED status

Resolve(t) ==
  /\ status[t] = "started"
  /\ Active(t)
  /\ Become(t, "resolved")
  /\ UNCHANGED waits

Finish(t) ==
  /\ status[t] = "resolved"
  /\ Active(t)
  /\ \A c \in Tasks : Owner[c] = t => status[c] \in {"unborn", "destroyed"}
  /\ Become(t, "finished")
  /\ UNCHANGED waits

Destroy(t) ==
  /\ status[t] \in {"created", "finished"}
  /\ Active(Owner[t])
  /\ Become(t, "destroyed")
  /\ UNCHANGED waits

Next ==
  \/ \E t \in Tasks : \/ Create(t) \/ Start(t) \/ Wait(t)
                      \/ Resolve(t) \/ Finish(t) \/ Destroy(t)
  \/ \E a \in Actors : Wake(a)

Spec == Init /\ [][Next]_vars
=============================================================================
