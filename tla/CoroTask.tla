------------------------------ MODULE CoroTask ------------------------------
(***************************************************************************)
(* coro_task<T> and continuation_handoff: the life of a coroutine frame,   *)
(* from creation to destruction, and the race that decides who resumes the *)
(* coroutine that awaits it.                                               *)
(*                                                                         *)
(* A task t is held by exactly one coro_task object, a local of the scope  *)
(* Owner[t]: another coroutine, or a thread that is not a coroutine worker *)
(* (main, for instance).  Coroutine code runs on workers.  The scheduler   *)
(* between schedule_coro_handle and resume() is seen as a bag of handles   *)
(* from which an idle worker takes any one; CoroScheduler models it.       *)
(*                                                                         *)
(* The bodies of the coroutines are the client's: at each point a body may *)
(* create, start, co_await, get() or drop a task it owns, yield, co_return *)
(* or throw.  Every atomic operation of the library on shared memory is a  *)
(* step of its own.                                                        *)
(***************************************************************************)
EXTENDS Integers

CONSTANTS
  Tasks,     \* coroutines, each one coro_task object
  Threads,   \* threads outside the coroutine worker pool
  Workers,   \* coroutine worker threads
  Owner,     \* the scope that holds each task's coro_task object
  NoTask,    \* the null handle / std::noop_coroutine()
  MaxYields  \* bound: co_await yield() calls of all tasks together

Actors == Tasks \union Threads

ASSUME NamesAssumption ==
  /\ Tasks \intersect Threads = {}
  /\ NoTask \notin Actors

\* A coroutine does not hold itself.
ASSUME OwnerAssumption ==
  /\ Owner \in [Tasks -> Actors]
  /\ \A t \in Tasks : Owner[t] # t

ASSUME MaxYieldsAssumption == MaxYields \in Nat

VARIABLES
  pc,       \* where each task's or thread's code is
  tgt,      \* operand of the operation at pc: the task awaited, got or dropped;
            \* in final_awaiter, the continuation it will transfer to
  seen,     \* old_val of the compare-exchange loops
  leaving,  \* how a body left its scope: its locals are being destroyed
  result,   \* coro_shared_state::result together with its ready flag
  started,  \* coro_task::started_
  finalReached, \* coro_shared_state::final_suspend_reached
  hand,     \* continuation_handoff::state_
  run,      \* the coroutine each worker is executing
  queued,   \* how often each handle is in the scheduler's queue
  yields    \* yields made so far (bounded by MaxYields)

vars == <<pc, tgt, seen, leaving, result, started, finalReached, hand, run,
          queued, yields>>

\* The atomic word of continuation_handoff: READY_FLAG and the address bits.
HandWords == [rdy : BOOLEAN, cont : Tasks \union {NoTask}]

\* The operations a body is inside of, as seen from its own thread.
OpPcs == {"awload", "awcas", "awresume", "getwait", "dtor"}
FinalPcs == {"finload", "fincas", "fingetcont", "finstore"}
\* A worker (or the thread itself) is executing the code.
OnCpuPcs == {"body"} \union OpPcs \union FinalPcs
\* A coroutine frame that exists but is suspended before its end.
SuspendedPcs == {"initial", "awaiting", "yielded"}
TaskPcs == OnCpuPcs \union SuspendedPcs \union {"none", "final", "destroyed"}
ThreadPcs == {"body", "getwait", "dtor", "done"}

\* The shape of the state.
TypeOK ==
  /\ pc \in [Actors -> TaskPcs \union ThreadPcs]
  /\ \A t \in Tasks : pc[t] \in TaskPcs
  /\ \A m \in Threads : pc[m] \in ThreadPcs
  /\ tgt \in [Actors -> Tasks \union {NoTask}]
  /\ seen \in [Tasks -> HandWords]
  /\ leaving \in [Tasks -> {"no", "return", "throw"}]
  /\ result \in [Tasks -> {"none", "value", "exception"}]
  /\ started \in [Tasks -> BOOLEAN]
  /\ finalReached \in [Tasks -> BOOLEAN]
  /\ hand \in [Tasks -> HandWords]
  /\ run \in [Workers -> Tasks \union {NoTask}]
  /\ queued \in [Tasks -> Nat]
  /\ yields \in 0 .. MaxYields

NoHand == [rdy |-> FALSE, cont |-> NoTask]

Init ==
  /\ pc = [a \in Actors |-> IF a \in Tasks THEN "none" ELSE "body"]
  /\ tgt = [a \in Actors |-> NoTask]
  /\ seen = [t \in Tasks |-> NoHand]
  /\ leaving = [t \in Tasks |-> "no"]
  /\ result = [t \in Tasks |-> "none"]
  /\ started = [t \in Tasks |-> FALSE]
  /\ finalReached = [t \in Tasks |-> FALSE]
  /\ hand = [t \in Tasks |-> NoHand]
  /\ run = [w \in Workers |-> NoTask]
  /\ queued = [t \in Tasks |-> 0]
  /\ yields = 0

-----------------------------------------------------------------------------
(* Who runs, and what it may touch.                                        *)

\* Some thread is executing a's code.
Executing(a) == a \in Threads \/ \E w \in Workers : run[w] = a

At(a, p) == Executing(a) /\ pc[a] = p

Goto(a, p) == pc' = [pc EXCEPT ![a] = p]

\* The frame of t is allocated.
Live(t) == pc[t] \notin {"none", "destroyed"}

Ready(t) == result[t] # "none"

\* a's body can issue the next operation; it has not left its scope.
InScope(a) == At(a, "body") /\ (a \in Tasks => leaving[a] = "no")

\* a holds a coro_task whose frame is allocated.
Holds(a, t) == Owner[t] = a /\ Live(t)

\* The worker executing a is given b instead (NoTask: it returns to its loop).
SwitchTo(a, b) == run' = [w \in Workers |-> IF run[w] = a THEN b ELSE run[w]]

\* schedule_coro_handle(t): see CoroScheduler.
Schedule(t) == queued' = [queued EXCEPT ![t] = @ + 1]

\* Mutant: started_ is tested but never set.
StartTaskForgets(t) ==
  /\ UNCHANGED started
  /\ queued' = IF started[t] THEN queued ELSE [queued EXCEPT ![t] = @ + 1]

\* started_.exchange(true), and the handle is scheduled by whoever changed it.
StartTask(t) ==
  /\ started' = [started EXCEPT ![t] = TRUE]
  /\ queued' = IF started[t] THEN queued ELSE [queued EXCEPT ![t] = @ + 1]

-----------------------------------------------------------------------------
(* Operations of a body on a task it holds.                                *)

\* Calling the coroutine function: initial_suspend suspends the new frame.
Create(a, t) ==
  /\ InScope(a)
  /\ Owner[t] = a
  /\ pc[t] = "none"
  /\ Goto(t, "initial")
  /\ UNCHANGED <<tgt, seen, leaving, result, started, finalReached, hand, run,
                 queued, yields>>

\* start() on a task that was not started (otherwise it changes nothing).
Start(a, t) ==
  /\ InScope(a)
  /\ Holds(a, t)
  /\ ~started[t]
  /\ StartTask(t)
  /\ UNCHANGED <<pc, tgt, seen, leaving, result, finalReached, hand, run,
                 yields>>

\* co_await t, up to the call of try_set_continuation: await_ready short-cuts
\* to await_resume, otherwise a is suspended and await_suspend starts t.
CoAwait(a, t) ==
  /\ a \in Tasks
  /\ InScope(a)
  /\ Holds(a, t)
  /\ tgt' = [tgt EXCEPT ![a] = t]
  /\ IF Ready(t)
     THEN Goto(a, "awresume") /\ UNCHANGED <<started, queued>>
     ELSE Goto(a, "awload") /\ StartTask(t)
  /\ UNCHANGED <<seen, leaving, result, finalReached, hand, run, yields>>

\* set_continuation: the load before the loop.
SetContinuationLoad(a) ==
  /\ At(a, "awload")
  /\ seen' = [seen EXCEPT ![a] = hand[tgt[a]]]
  /\ Goto(a, "awcas")
  /\ UNCHANGED <<tgt, leaving, result, started, finalReached, hand, run,
                 queued, yields>>

\* Mutant: an unconditional store instead of a compare-exchange on old_val.
SetContinuationStore(a) ==
  /\ At(a, "awcas")
  /\ hand' = [hand EXCEPT ![tgt[a]] = [rdy |-> seen[a].rdy, cont |-> a]]
  /\ IF seen[a].rdy
     THEN Goto(a, "awresume") /\ UNCHANGED run
     ELSE Goto(a, "awaiting") /\ SwitchTo(a, NoTask)
  /\ UNCHANGED <<tgt, seen, leaving, result, started, finalReached, queued,
                 yields>>

\* set_continuation: one round of the loop, and what await_suspend returns for
\* it: a itself when t was ready (symmetric transfer back to a), otherwise
\* std::noop_coroutine(), which sends the worker back to its loop.
SetContinuation(a) ==
  /\ At(a, "awcas")
  /\ \/ /\ seen[a].cont # NoTask
        /\ Goto(a, "awaiting") /\ SwitchTo(a, NoTask)
        /\ UNCHANGED <<seen, hand>>
     \/ /\ seen[a].cont = NoTask
        /\ hand[tgt[a]] # seen[a]
        /\ seen' = [seen EXCEPT ![a] = hand[tgt[a]]]
        /\ UNCHANGED <<pc, hand, run>>
     \/ /\ seen[a].cont = NoTask
        /\ hand[tgt[a]] = seen[a]
        /\ hand' = [hand EXCEPT ![tgt[a]] = [rdy |-> seen[a].rdy, cont |-> a]]
        /\ IF seen[a].rdy
           THEN Goto(a, "awresume") /\ UNCHANGED run
           ELSE Goto(a, "awaiting") /\ SwitchTo(a, NoTask)
        /\ UNCHANGED seen
  /\ UNCHANGED <<tgt, leaving, result, started, finalReached, queued, yields>>

\* await_resume: coro_shared_state::get() returns once the result is there.
AwaitResume(a) ==
  /\ At(a, "awresume")
  /\ Ready(tgt[a])
  /\ Goto(a, "body")
  /\ UNCHANGED <<tgt, seen, leaving, result, started, finalReached, hand, run,
                 queued, yields>>

\* get(): start(), then wait on the condition variable of the shared state.
Get(a, t) ==
  /\ InScope(a)
  /\ Holds(a, t)
  /\ tgt' = [tgt EXCEPT ![a] = t]
  /\ Goto(a, "getwait")
  /\ StartTask(t)
  /\ UNCHANGED <<seen, leaving, result, finalReached, hand, run, yields>>

\* The wait ends: the predicate holds (set_value and set_exception change it
\* and notify under the mutex, so no notification is lost).
GetReturn(a) ==
  /\ At(a, "getwait")
  /\ Ready(tgt[a])
  /\ Goto(a, "body")
  /\ UNCHANGED <<tgt, seen, leaving, result, started, finalReached, hand, run,
                 queued, yields>>

\* Mutant: ~coro_task() destroys a started task like one that never started.
DropAtOnce(a, t) ==
  /\ At(a, "body")
  /\ Holds(a, t)
  /\ Goto(t, "destroyed")
  /\ UNCHANGED <<tgt, seen, leaving, result, started, finalReached, hand, run,
                 queued, yields>>

\* ~coro_task(): destroy a task that never started, else begin to spin.  It
\* runs at any scope exit of the body, the last one (leaving) included.
Drop(a, t) ==
  /\ At(a, "body")
  /\ Holds(a, t)
  /\ IF started[t]
     THEN pc' = [pc EXCEPT ![a] = "dtor"] /\ tgt' = [tgt EXCEPT ![a] = t]
     ELSE pc' = [pc EXCEPT ![t] = "destroyed"] /\ UNCHANGED tgt
  /\ UNCHANGED <<seen, leaving, result, started, finalReached, hand, run,
                 queued, yields>>

\* Mutant: the destructor waits for the result instead of final_suspend.
DtorSpinOnReady(a) ==
  /\ At(a, "dtor")
  /\ Ready(tgt[a])
  /\ pc' = [pc EXCEPT ![tgt[a]] = "destroyed", ![a] = "body"]
  /\ UNCHANGED <<tgt, seen, leaving, result, started, finalReached, hand, run,
                 queued, yields>>

\* The spin of ~coro_task() sees final_suspend_reached and destroys the frame.
DtorSpin(a) ==
  /\ At(a, "dtor")
  /\ finalReached[tgt[a]]
  /\ pc' = [pc EXCEPT ![tgt[a]] = "destroyed", ![a] = "body"]
  /\ UNCHANGED <<tgt, seen, leaving, result, started, finalReached, hand, run,
                 queued, yields>>

-----------------------------------------------------------------------------
(* Suspension and completion of a coroutine.                               *)

\* co_await yield(): the suspended coroutine's handle is scheduled again.
Yield(a) ==
  /\ a \in Tasks
  /\ InScope(a)
  /\ yields < MaxYields
  /\ yields' = yields + 1
  /\ Goto(a, "yielded")
  /\ SwitchTo(a, NoTask)
  /\ Schedule(a)
  /\ UNCHANGED <<tgt, seen, leaving, result, started, finalReached, hand>>

\* co_return v: return_value stores the result and wakes get(); only then are
\* the locals of the body destroyed.
Return(a) ==
  /\ a \in Tasks
  /\ InScope(a)
  /\ result' = [result EXCEPT ![a] = "value"]
  /\ leaving' = [leaving EXCEPT ![a] = "return"]
  /\ UNCHANGED <<pc, tgt, seen, started, finalReached, hand, run, queued,
                 yields>>

\* An exception leaves the body: the locals are destroyed first.
Throw(a) ==
  /\ a \in Tasks
  /\ InScope(a)
  /\ leaving' = [leaving EXCEPT ![a] = "throw"]
  /\ UNCHANGED <<pc, tgt, seen, result, started, finalReached, hand, run,
                 queued, yields>>

\* No coro_task of a's scope holds a frame any more.
LocalsDestroyed(a) == \A t \in Tasks : Owner[t] = a => ~Live(t)

\* Mutant: unhandled_exception() does not store the exception.
FinalSuspendNoException(a) ==
  /\ a \in Tasks
  /\ At(a, "body")
  /\ leaving[a] # "no"
  /\ LocalsDestroyed(a)
  /\ Goto(a, "finload")
  /\ UNCHANGED <<tgt, seen, leaving, result, started, finalReached, hand, run,
                 queued, yields>>

\* The body is left: unhandled_exception() stores the exception of a body that
\* threw, and final_suspend is awaited.
FinalSuspend(a) ==
  /\ a \in Tasks
  /\ At(a, "body")
  /\ leaving[a] # "no"
  /\ LocalsDestroyed(a)
  /\ result' = IF leaving[a] = "throw"
               THEN [result EXCEPT ![a] = "exception"] ELSE result
  /\ Goto(a, "finload")
  /\ UNCHANGED <<tgt, seen, leaving, started, finalReached, hand, run, queued,
                 yields>>

\* Mutant: final_suspend_reached is published before the handoff.
SetReadyLoadPublishes(a) ==
  /\ At(a, "finload")
  /\ seen' = [seen EXCEPT ![a] = hand[a]]
  /\ finalReached' = [finalReached EXCEPT ![a] = TRUE]
  /\ Goto(a, "fincas")
  /\ UNCHANGED <<tgt, leaving, result, started, hand, run, queued, yields>>

\* set_ready: the load before the loop.
SetReadyLoad(a) ==
  /\ At(a, "finload")
  /\ seen' = [seen EXCEPT ![a] = hand[a]]
  /\ Goto(a, "fincas")
  /\ UNCHANGED <<tgt, leaving, result, started, finalReached, hand, run,
                 queued, yields>>

\* Mutant: set_ready() tells its caller to resume nobody.
SetReadyFalse(a) ==
  /\ At(a, "fincas")
  /\ IF hand[a] # seen[a]
     THEN seen' = [seen EXCEPT ![a] = hand[a]] /\ UNCHANGED <<pc, hand, tgt>>
     ELSE /\ hand' = [hand EXCEPT ![a] = [rdy |-> TRUE, cont |-> seen[a].cont]]
          /\ Goto(a, "finstore") /\ tgt' = [tgt EXCEPT ![a] = NoTask]
          /\ UNCHANGED seen
  /\ UNCHANGED <<leaving, result, started, finalReached, run, queued, yields>>

\* set_ready: one round of the loop.  Its result decides whether final_awaiter
\* asks for the continuation or keeps std::noop_coroutine().
SetReady(a) ==
  /\ At(a, "fincas")
  /\ \/ /\ seen[a].rdy
        /\ Goto(a, "finstore") /\ tgt' = [tgt EXCEPT ![a] = NoTask]
        /\ UNCHANGED <<seen, hand>>
     \/ /\ ~seen[a].rdy
        /\ hand[a] # seen[a]
        /\ seen' = [seen EXCEPT ![a] = hand[a]]
        /\ UNCHANGED <<pc, tgt, hand>>
     \/ /\ ~seen[a].rdy
        /\ hand[a] = seen[a]
        /\ hand' = [hand EXCEPT ![a] = [rdy |-> TRUE, cont |-> seen[a].cont]]
        /\ IF seen[a].cont # NoTask
           THEN Goto(a, "fingetcont") /\ UNCHANGED tgt
           ELSE Goto(a, "finstore") /\ tgt' = [tgt EXCEPT ![a] = NoTask]
        /\ UNCHANGED seen
  /\ UNCHANGED <<leaving, result, started, finalReached, run, queued, yields>>

\* Mutant: the word is returned with READY_FLAG in it.
GetContinuationUnmasked(a) ==
  /\ At(a, "fingetcont")
  /\ tgt' = [tgt EXCEPT ![a] = hand[a]]
  /\ Goto(a, "finstore")
  /\ UNCHANGED <<seen, leaving, result, started, finalReached, hand, run,
                 queued, yields>>

\* get_continuation().
GetContinuation(a) ==
  /\ At(a, "fingetcont")
  /\ tgt' = [tgt EXCEPT ![a] = hand[a].cont]
  /\ Goto(a, "finstore")
  /\ UNCHANGED <<seen, leaving, result, started, finalReached, hand, run,
                 queued, yields>>

\* Where a coroutine goes on when resume() is called on its handle.
ResumePoint(t) == IF pc[t] = "awaiting" THEN "awresume" ELSE "body"

\* final_suspend_reached is published, the last access to the frame, and the
\* worker transfers to the continuation, or back to its loop.
PublishFinal(a) ==
  /\ At(a, "finstore")
  /\ finalReached' = [finalReached EXCEPT ![a] = TRUE]
  /\ pc' = [b \in Actors |-> IF b = a THEN "final"
                             ELSE IF b = tgt[a] THEN ResumePoint(b) ELSE pc[b]]
  /\ SwitchTo(a, tgt[a])
  /\ UNCHANGED <<tgt, seen, leaving, result, started, hand, queued, yields>>

\* A thread's scope ends: the coro_task objects it held are gone.
ThreadExit(a) ==
  /\ a \in Threads
  /\ pc[a] = "body"
  /\ LocalsDestroyed(a)
  /\ Goto(a, "done")
  /\ UNCHANGED <<tgt, seen, leaving, result, started, finalReached, hand, run,
                 queued, yields>>

-----------------------------------------------------------------------------
(* Workers.                                                                *)

\* An idle worker takes a handle and resumes it, unless it is done().
Take(w, t) ==
  /\ run[w] = NoTask
  /\ queued[t] > 0
  /\ queued' = [queued EXCEPT ![t] = @ - 1]
  /\ IF pc[t] = "final"
     THEN UNCHANGED <<pc, run>>
     ELSE /\ run' = [run EXCEPT ![w] = t]
          /\ Goto(t, ResumePoint(t))
  /\ UNCHANGED <<tgt, seen, leaving, result, started, finalReached, hand,
                 yields>>

-----------------------------------------------------------------------------
Leave(a) == Return(a) \/ Throw(a)

\* A step of the code of a.
Step(a) ==
  \/ \E t \in Tasks : \/ Create(a, t) \/ Start(a, t) \/ CoAwait(a, t)
                      \/ Get(a, t) \/ Drop(a, t)
  \/ SetContinuationLoad(a) \/ SetContinuation(a) \/ AwaitResume(a)
  \/ GetReturn(a) \/ DtorSpin(a) \/ Yield(a) \/ Leave(a) \/ FinalSuspend(a)
  \/ SetReadyLoad(a) \/ SetReady(a) \/ GetContinuation(a) \/ PublishFinal(a)
  \/ ThreadExit(a)

\* Every thread has ended: nothing is left to do.
Terminated ==
  /\ \A m \in Threads : pc[m] = "done"
  /\ UNCHANGED vars

Next ==
  \/ \E a \in Actors : Step(a)
  \/ \E w \in Workers, t \in Tasks : Take(w, t)
  \/ Terminated

Spec == Init /\ [][Next]_vars

\* The operating system runs every thread (weak fairness for the code of each
\* task and thread and for each idle worker), and every coroutine body, which
\* is client code, ends if it is given the chance again and again.
Fairness ==
  /\ \A a \in Actors : WF_vars(Step(a)) /\ SF_vars(Leave(a))
  /\ \A w \in Workers : WF_vars(\E t \in Tasks : Take(w, t))

FairSpec == Spec /\ Fairness

-----------------------------------------------------------------------------
(* Properties.                                                             *)

\* c's final_awaiter holds t's handle and is about to transfer to it.
Transferring(c, t) == pc[c] = "finstore" /\ tgt[c] = t

\* At most one party can resume, or is running, a coroutine: the scheduler's
\* queue, one worker, or the final_awaiter of one task it awaited ("Exactly one
\* party wins and is responsible for resumption").
ResumedByOne ==
  \A t \in Tasks :
    /\ queued[t] <= 1
    /\ queued[t] = 1 => \A w \in Workers : run[w] # t
    /\ \A v, w \in Workers : run[v] = t /\ run[w] = t => v = w
    /\ \A c, d \in Tasks : Transferring(c, t) /\ Transferring(d, t) => c = d
    /\ \A c \in Tasks : Transferring(c, t) =>
                          queued[t] = 0 /\ \A w \in Workers : run[w] # t

\* Nothing reaches a frame after handle_.destroy(): no worker executes it, it is
\* in no queue, no final_awaiter is about to resume it, nobody is inside an
\* operation on it, and no task that it owned is still allocated.
NoUseAfterDestroy ==
  \A t \in Tasks : pc[t] = "destroyed" =>
    /\ queued[t] = 0
    /\ \A w \in Workers : run[w] # t
    /\ \A c \in Tasks : ~Transferring(c, t)
    /\ \A a \in Actors :
         pc[a] \in OpPcs \union {"awaiting"} => tgt[a] # t
    /\ LocalsDestroyed(t)

\* await_resume never blocks a worker: coro_shared_state::get() finds the result
\* whichever way the awaiting coroutine got there.
AwaitResumeHasResult ==
  \A a \in Actors : pc[a] = "awresume" => Ready(tgt[a])

\* A suspended awaiter is never stranded: its handle is in the handoff word of
\* the task it awaits, and either that task has yet to run set_ready(), or its
\* final_awaiter won and is between set_ready() and the transfer.
AwaiterHasResumer ==
  \A a \in Tasks : pc[a] = "awaiting" =>
    /\ hand[tgt[a]].cont = a
    /\ \/ /\ started[tgt[a]] /\ ~hand[tgt[a]].rdy
          /\ Live(tgt[a]) /\ pc[tgt[a]] \notin {"finstore", "final"}
       \/ pc[tgt[a]] = "fingetcont"
       \/ Transferring(tgt[a], a)

\* The store to final_suspend_reached is the last access of a coroutine to its
\* frame and shared state: afterwards it stays at final_suspend, its result fixed
\* and READY_FLAG set, until its owner destroys it.
NothingAfterPublish ==
  [][\A t \in Tasks : finalReached[t] =>
       /\ pc'[t] \in {"final", "destroyed"}
       /\ result'[t] = result[t]
       /\ hand'[t].rdy
       /\ finalReached'[t]]_vars

\* Every co_await, get(), yield and destructor returns, given enough workers for
\* the tasks that block in get() or in a destructor: again and again nobody is left in
\* one.  (Nobody waits for ever follows; that they all end together is no more than that
\* here, where a program makes finitely many waits.)
EveryWaitEnds ==
  []<>(\A a \in Actors : pc[a] \notin {"awaiting", "yielded", "getwait", "dtor"})

\* get() returns: "This avoids deadlock when a coroutine calls .get() on another
\* coroutine it just scheduled" (schedule_coro_handle).
GetReturns == \A a \in Actors : pc[a] = "getwait" ~> pc[a] = "body"

-----------------------------------------------------------------------------
(* Refinement: coro_task implements fork/join.                             *)

StatusOf(t) ==
  CASE pc[t] = "none" -> "unborn"
    [] pc[t] = "destroyed" -> "destroyed"
    [] pc[t] = "final" -> "finished"
    [] Live(t) /\ pc[t] # "final" /\ ~started[t] -> "created"
    [] Live(t) /\ pc[t] # "final" /\ started[t] /\ Ready(t) -> "resolved"
    [] OTHER -> "started"

WaitPcs == {"awload", "awcas", "awaiting", "awresume", "getwait"}

Join == INSTANCE ForkJoin WITH
  status <- [t \in Tasks |-> StatusOf(t)],
  waits <- [a \in Actors |-> IF pc[a] \in WaitPcs THEN tgt[a] ELSE NoTask]

\* Every step of the coroutine machinery is a step of fork/join or invisible: a
\* waiter goes on only after the task it waits for has a result, and a started
\* task is destroyed only after it has finished.
ImplementsForkJoin == Join!Spec
=============================================================================
