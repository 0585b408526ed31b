------------------------------ MODULE Blocking ------------------------------
(***************************************************************************)
(* Coroutines that wait for the thread pool: run_blocking (callable_awaiter, *)
(* and with a token cancellable_blocking_awaiter) and when_all_passive,    *)
(* composed with the pool, the cancellation state and ~task_scheduler.     *)
(*                                                                         *)
(* Between schedule_coro_handle and resume() a coroutine is "ready" or     *)
(* "runnable" on no thread, and some coroutine worker takes it; once the   *)
(* scheduler shuts down, the caller resumes it at once, and goes on when   *)
(* it suspends.                                                            *)
(***************************************************************************)
EXTENDS TaskPool, Cancellation

CONSTANTS
  Coros,     \* the coroutines
  Passive,   \* those in when_all_passive, which wait for their child
  Child,     \* the task of each of them
  Futures,   \* calls of add_task
  CoroWorker, \* the coroutine workers, as a thread
  None,      \* nothing, nowhere
  MaxAwaits  \* bound: how often a coroutine awaits

\* One evaluation of co_await, and the shared_data that it makes.
Awaits == Coros \X (1 .. MaxAwaits)

\* A task is moved into when_all_passive: no two have the same.
ASSUME BlockingAssumption ==
  /\ Passive \subseteq Coros
  /\ Child \in [Passive -> Coros \ Passive]
  /\ \A p, q \in Passive : Child[p] = Child[q] => p = q
  /\ Jobs = Futures \union Awaits
  /\ Futures \intersect Awaits = {}
  /\ Clients = Awaits
  /\ MaxAwaits \in Nat
ASSUME NoneAssumption ==
  None \notin {"register", "post", "completed", "cancelled", "thrown", "empty"}

VARIABLES
  role,    \* "plain", "cancellable", "passive"
  st,      \* "idle", "ready" (started), "body", "suspended", "runnable", "done"
  on,      \* the thread a coroutine runs on, once it does
  sus,     \* the part of await_suspend that is still to come, and the thread it is on
  round,   \* number of co_awaits
  data,    \* per await: resumed, status, and whether result is there
  outcome, \* what each await returned
  wakes,   \* how often each await had its coroutine scheduled
  called,  \* the calls of add_task that were made
  dpc      \* ~task_scheduler: "up", "coro", "close", "join", "down"

coroVars == <<role, st, on, sus, round, data, outcome, wakes>>
dtorVars == <<called, dpc>>
vars == <<poolVars, cancelVars, awaitVars, coroVars, dtorVars>>

NotIn == [at |-> None, by |-> None]
Current(c) == <<c, round[c]>>
Fresh == [resumed |-> FALSE, status |-> "completed", result |-> FALSE]

BlockingTypeOK ==
  /\ PoolTypeOK /\ CancellationTypeOK
  /\ st \in [Coros -> {"idle", "ready", "body", "suspended", "runnable", "done"}]
  /\ round \in [Coros -> 0 .. MaxAwaits]
  /\ outcome \in [Awaits -> {None, "completed", "cancelled", "thrown", "empty"}]
  /\ dpc \in {"up", "coro", "close", "join", "down"}

BlockingInit ==
  /\ PoolInit /\ CancellationInit
  /\ role \in [Coros -> {"plain", "cancellable", "passive"}]
  /\ \A c \in Coros : (role[c] = "passive") = (c \in Passive)
  /\ st = [c \in Coros |-> "idle"]
  /\ on = [c \in Coros |-> None]
  /\ sus = [c \in Coros |-> NotIn]
  /\ round = [c \in Coros |-> 0]
  /\ data = [a \in Awaits |-> Fresh]
  /\ outcome = [a \in Awaits |-> None]
  /\ wakes = [a \in Awaits |-> 0]
  /\ called = {}
  /\ dpc = "up"

-----------------------------------------------------------------------------
\* A thread that runs a coroutine, or is inside its await_suspend, does nothing else.
Busy(t) == \E c \in Coros : on[c] = t \/ sus[c].by = t

\* schedule_coro_handle by thread t.
ScheduledOn(t) == IF shuttingDown THEN t ELSE None

\* A handle that is done is ignored.
WakeUp(a, t) ==
  /\ wakes' = [wakes EXCEPT ![a] = @ + 1]
  /\ IF st[a[1]] = "done" THEN UNCHANGED <<st, on>>
     ELSE /\ st' = [st EXCEPT ![a[1]] = "runnable"]
          /\ on' = [on EXCEPT ![a[1]] = ScheduledOn(t)]

Wake(a, t) == WakeUp(a, t) /\ UNCHANGED <<role, sus, round, outcome>>

\* The thread on which c, scheduled, runs next.
RunsOn(c) == IF on[c] = None THEN CoroWorker ELSE on[c]
MayRun(c) == on[c] # None \/ dpc \in {"up", "coro"}

\* A thread is executing c's body, or is about to, without anybody's choice.
Running(c) == on[c] # None \/ st[c] = "body" \/ (st[c] = "ready" /\ round[c] > 0)

\* start()
Start(c) ==
  /\ st[c] = "idle"
  /\ \A p \in Passive : Child[p] # c
  /\ ~shuttingDown
  /\ st' = [st EXCEPT ![c] = "ready"]
  /\ UNCHANGED <<poolVars, cancelVars, awaitVars, role, on, sus, round, data, outcome, wakes, dtorVars>>

\* when_all_passive starts its task, and goes on to run_blocking.
BeginPassive(c) ==
  /\ role[c] = "passive" /\ st[c] = "ready" /\ MayRun(c)
  /\ LET child == Child[c] IN
       /\ st' = [st EXCEPT ![c] = "body", ![child] = "ready"]
       /\ on' = [on EXCEPT ![c] = RunsOn(c), ![child] = ScheduledOn(RunsOn(c))]
  /\ UNCHANGED <<poolVars, cancelVars, awaitVars, role, sus, round, data, outcome, wakes, dtorVars>>

\* c reaches its next co_await.
Reaches(c, r) ==
  /\ role[c] = r
  /\ IF r = "passive" THEN st[c] = "body" /\ on[Child[c]] = None
     ELSE st[c] = "ready" /\ MayRun(c)
  /\ round[c] < MaxAwaits
  /\ round' = [round EXCEPT ![c] = @ + 1]
  /\ UNCHANGED <<role, data, wakes>>

-----------------------------------------------------------------------------
(* callable_awaiter, for run_blocking without a token and when_all_passive  *)

\* await_suspend: nothing follows schedule_task_on_pool.
AwaitCallable(c) ==
  /\ Reaches(c, "plain") \/ Reaches(c, "passive")
  /\ st' = [st EXCEPT ![c] = "suspended"]
  /\ on' = [on EXCEPT ![c] = None]
  /\ ScheduleTask(<<c, round[c] + 1>>)
  /\ UNCHANGED <<cancelVars, awaitVars, sus, outcome, dtorVars>>

\* Mutant: it tries again.
AwaitRetries(c) ==
  /\ Reaches(c, "plain") \/ Reaches(c, "passive")
  /\ SendThrows
  /\ FALSE

\* ... or it throws into the coroutine, which ends.
AwaitThrows(c) ==
  /\ Reaches(c, "plain") \/ Reaches(c, "passive")
  /\ SendThrows
  /\ st' = [st EXCEPT ![c] = "done"]
  /\ on' = [on EXCEPT ![c] = None]
  /\ outcome' = [outcome EXCEPT ![<<c, round[c] + 1>>] = "thrown"]
  /\ UNCHANGED <<poolVars, cancelVars, awaitVars, sus, dtorVars>>

\* The job: the callable, which for when_all_passive is get() on the task, then
\* result_, done_ and schedule_coro_handle.
CallableJob(w) ==
  LET a == job[w] IN
    /\ wpc[w] = "run" /\ a \in Awaits
    /\ role[a[1]] # "cancellable"
    /\ role[a[1]] = "passive" => st[Child[a[1]]] = "done"
    /\ data' = [data EXCEPT ![a].result = TRUE]
    /\ Wake(a, w)
    /\ JobEnds(w, FALSE)
    /\ UNCHANGED <<cancelVars, awaitVars, dtorVars>>

-----------------------------------------------------------------------------
(* cancellable_blocking_awaiter                                            *)

AwaitCancellable(c) ==
  /\ Reaches(c, "cancellable")
  /\ st' = [st EXCEPT ![c] = "suspended"]
  /\ on' = [on EXCEPT ![c] = None]
  /\ sus' = [sus EXCEPT ![c] = [at |-> "register", by |-> RunsOn(c)]]
  /\ UNCHANGED <<poolVars, cancelVars, awaitVars, outcome, dtorVars>>

\* Mutant: resumed is tested, and set elsewhere.
WinUnset(a, t, status) ==
  IF data[a].resumed THEN UNCHANGED coroVars
  ELSE /\ data' = [data EXCEPT ![a].status = status]
       /\ Wake(a, t)

\* The compare-exchange on data->resumed by thread t, and what the winner does.
Win(a, t, status) ==
  IF data[a].resumed THEN UNCHANGED coroVars
  ELSE /\ data' = [data EXCEPT ![a].resumed = TRUE, ![a].status = status]
       /\ Wake(a, t)

\* register_callback: the callback runs at once if the token is cancelled.
RegisterCallback(c) ==
  LET a == Current(c)
      next == [sus EXCEPT ![c].at = "post"]
      AtOnce == /\ data' = [data EXCEPT ![a].resumed = TRUE, ![a].status = "cancelled"]
                /\ WakeUp(a, sus[c].by)
  IN /\ sus[c].at = "register"
     /\ Register(a, AtOnce, UNCHANGED <<data, st, on, wakes>>)
     /\ sus' = next
     /\ UNCHANGED <<poolVars, role, round, outcome, dtorVars>>

\* The coroutine has left the co_await whose await_suspend still runs.
Gone(c) == outcome[Current(c)] # None

\* Mutant: no job once the token is cancelled.
PostJobUnlessCancelled(c) ==
  /\ sus[c].at = "post"
  /\ on[c] # sus[c].by
  /\ sus' = [sus EXCEPT ![c] = NotIn]
  /\ IF cancelled \/ SendThrows THEN UNCHANGED poolVars ELSE ScheduleTask(Current(c))
  /\ UNCHANGED <<cancelVars, awaitVars, role, st, on, round, data, outcome, wakes, dtorVars>>

\* callback_id_ is stored, and the job made of callable_ and args_ is submitted.  The
\* exception of a closed queue leaves await_suspend: whoever else may have woken the
\* coroutine, it is resumed here, to throw, and ends.  One that has been resumed before
\* has destroyed callable_ and args_: what happens is undefined, and may be nothing.
PostJob(c) ==
  /\ sus[c].at = "post"
  /\ on[c] # sus[c].by
  /\ sus' = [sus EXCEPT ![c] = NotIn]
  /\ \/ ScheduleTask(Current(c)) /\ UNCHANGED <<st, on, outcome>>
     \/ /\ SendThrows
        /\ st' = [st EXCEPT ![c] = "done"]
        /\ on' = [on EXCEPT ![c] = None]
        /\ outcome' = [outcome EXCEPT ![Current(c)] = "thrown"]
        /\ UNCHANGED poolVars
     \/ Gone(c) /\ UNCHANGED <<poolVars, st, on, outcome>>
  /\ UNCHANGED <<cancelVars, awaitVars, role, round, data, wakes, dtorVars>>

\* The job: the callable returns (or throws) into the shared data, ...
StoreResult(w) ==
  LET a == job[w] IN
    /\ wpc[w] = "run" /\ a \in Awaits
    /\ role[a[1]] = "cancellable" /\ ~data[a].result
    /\ data' = [data EXCEPT ![a].result = TRUE]
    /\ UNCHANGED <<poolVars, cancelVars, awaitVars, role, st, on, sus, round, outcome, wakes, dtorVars>>

\* ... and the compare-exchange.
CancellableJobEnds(w) ==
  LET a == job[w] IN
    /\ wpc[w] = "run" /\ a \in Awaits
    /\ role[a[1]] = "cancellable" /\ data[a].result
    /\ Win(a, w, "completed")
    /\ JobEnds(w, FALSE)
    /\ UNCHANGED <<cancelVars, awaitVars, dtorVars>>

\* cancel() calls the callback of await a.
CallCallback(k, a) ==
  /\ ~Busy(k)
  /\ TakeCallback(k, a)
  /\ Win(a, k, "cancelled")
  /\ UNCHANGED <<poolVars, dtorVars>>

CancelStep(k) ==
  /\ ~Busy(k)
  /\ SwapCallbacks(k) \/ CallsEnd(k) \/ WakeAwaiters(k)
  /\ UNCHANGED <<poolVars, coroVars, dtorVars>>

Cancel(k) == Exchange(k) /\ UNCHANGED <<poolVars, coroVars, dtorVars>>

-----------------------------------------------------------------------------
\* await_resume, and the rest of the body: it awaits again, or ends.  (It does not await
\* again while the await_suspend it was woken from still runs: that has lost its awaiter,
\* and is the undefined case of PostJob already.)
Resume(c) ==
  LET a == Current(c) IN
    /\ st[c] = "runnable" /\ MayRun(c)
    /\ outcome' = [outcome EXCEPT ![a] =
                     IF data[a].status = "completed" /\ ~data[a].result THEN "empty"
                     ELSE data[a].status]
    /\ IF role[c] = "cancellable" THEN Unregister(a)
       ELSE UNCHANGED <<cancelVars, awaitVars>>
    /\ \/ /\ st' = [st EXCEPT ![c] = "done"]
          /\ on' = [on EXCEPT ![c] = None]
       \/ /\ round[c] < MaxAwaits /\ role[c] # "passive" /\ sus[c] = NotIn
          /\ st' = [st EXCEPT ![c] = "ready"]
          /\ UNCHANGED on
    /\ UNCHANGED <<poolVars, role, sus, round, data, wakes, dtorVars>>

-----------------------------------------------------------------------------
(* add_task, and ~task_scheduler                                           *)

Submitted(j) == \E w \in PoolWorkers : job[w] = j \/ \E i \in DOMAIN queue[w] : queue[w][i] = j

\* Clients call add_task with the same callable.
SubmitFuture(f) ==
  /\ ~shuttingDown /\ f \notin called
  /\ called' = called \union {f}
  /\ \E t \in 0 .. now : AddTask(f, t)
  /\ UNCHANGED <<cancelVars, awaitVars, coroVars, dpc>>

\* Its wrapper has called the callable and answered the promise.
FutureJob(w) ==
  /\ wpc[w] = "run" /\ job[w] \in Futures
  /\ JobEnds(w, TRUE)
  /\ UNCHANGED <<cancelVars, awaitVars, coroVars, dtorVars>>

DtorGoto(p) == dpc' = p /\ UNCHANGED <<called, cancelVars, awaitVars, coroVars>>

BeginShutdown == dpc = "up" /\ SetShuttingDown /\ DtorGoto("coro")

\* The coroutine workers finish what they execute; what is queued stays.
JoinCoroWorkers ==
  /\ dpc = "coro"
  /\ ~Busy(CoroWorker)
  /\ \A c \in Coros : Running(c) => on[c] # None
  /\ DtorGoto("close")
  /\ UNCHANGED poolVars

CloseQueues ==
  /\ dpc = "close"
  /\ \E w \in PoolWorkers :
       /\ \A v \in PoolWorkers : v < w => closed[v]
       /\ ~closed[w]
       /\ CloseQueue(w)
       /\ DtorGoto(IF w = PoolSize THEN "join" ELSE "close")

JoinPool == dpc = "join" /\ Joined /\ DtorGoto("down") /\ UNCHANGED poolVars

-----------------------------------------------------------------------------
CoroStep(c) ==
  \/ BeginPassive(c) \/ AwaitCallable(c) \/ AwaitThrows(c) \/ AwaitCancellable(c)
  \/ RegisterCallback(c) \/ PostJob(c) \/ Resume(c)

WorkerStep(w) ==
  \/ /\ ~Busy(w)
     /\ WorkerTest(w) \/ WorkerReceive(w) \/ WorkerGetsNone(w) \/ Record(w)
     /\ UNCHANGED <<cancelVars, awaitVars, coroVars, dtorVars>>
  \/ CallableJob(w) \/ StoreResult(w) \/ CancellableJobEnds(w) \/ FutureJob(w)

CancelSteps(k) == CancelStep(k) \/ \E a \in Awaits : CallCallback(k, a)
DtorStep == JoinCoroWorkers \/ CloseQueues \/ JoinPool

BlockingNext ==
  \/ \E c \in Coros : Start(c) \/ CoroStep(c)
  \/ \E w \in PoolWorkers : WorkerStep(w)
  \/ \E k \in Cancellers : Cancel(k) \/ CancelSteps(k)
  \/ \E f \in Futures : SubmitFuture(f)
  \/ BeginShutdown \/ DtorStep
  \/ Tick /\ UNCHANGED <<cancelVars, awaitVars, coroVars, dtorVars>>

\* Every thread goes on.  That a coroutine worker takes a coroutine that is queued is not
\* assumed (a wakeup may be lost, CoroScheduler).  Behaviours are finite, so that weak
\* fairness of the whole is that of each thread.
Queued(c) == st[c] \in {"ready", "runnable"} /\ ~Running(c)
BlockingGoesOn ==
  \/ \E c \in Coros : (CoroStep(c) /\ ~Queued(c)) \/ RegisterCallback(c) \/ PostJob(c)
  \/ \E w \in PoolWorkers : WorkerStep(w)
  \/ \E k \in Cancellers : CancelSteps(k)
  \/ DtorStep

BlockingSpec == BlockingInit /\ [][BlockingNext]_vars /\ WF_vars(BlockingGoesOn)

-----------------------------------------------------------------------------
(* Properties.                                                             *)

\* How often a co_await has its coroutine resumed: by schedule_coro_handle, and by the
\* exception that leaves await_suspend.
Resumptions(a) == wakes[a] + (IF outcome[a] = "thrown" THEN 1 ELSE 0)

\* Completion and cancellation race for data->resumed, and with the exception of a closed
\* queue, on three threads: a co_await has its coroutine resumed once, except where a
\* cancellation schedules it and its submission throws, before or after, which only
\* happens once the shutdown has closed a queue.
AwaitWokenOnce ==
  \A a \in Awaits :
    \/ Resumptions(a) <= 1
    \/ /\ Resumptions(a) = 2
       /\ outcome[a] = "thrown" /\ data[a].status = "cancelled"
       /\ \E w \in PoolWorkers : closed[w]

\* "completed" comes with what the callable left in the shared data, "cancelled" only
\* after cancel().
RightOutcome ==
  \A a \in Awaits : outcome[a] # "empty" /\ (outcome[a] = "cancelled" => cancelled)

\* A coroutine that stays suspended has its job in the pool: a queue or a worker.
WaiterHasJob ==
  \A c \in Coros : st[c] = "suspended" /\ sus[c] = NotIn => Submitted(Current(c))

\* Once cancel() has called the callbacks, no coroutine is suspended in run_blocking with
\* that token, although its job may still be queued or running.
CancelReleases ==
  \A c \in Coros :
    /\ role[c] = "cancellable" /\ sus[c] = NotIn
    /\ cancelled /\ \A k \in Cancellers : cpc[k] \notin {"swap", "call"}
    => st[c] # "suspended"

\* Worker w is in get() of when_all_passive, for a task whose own job is queued behind.
Nested(w) ==
  \E p \in Passive : job[w] = <<p, 1>> /\
    \E i \in DOMAIN queue[w] : queue[w][i] \in {<<Child[p], n>> : n \in 1 .. MaxAwaits}

\* Every job ends, until the shutdown, except where when_all_passive occupies the worker
\* that its task needs (schedule_task does not count the worker as busy), or where no
\* coroutine worker takes the task.
EveryJobEnds ==
  <>[](\/ \A j \in Jobs : ~Submitted(j)
       \/ shuttingDown
       \/ \E w \in PoolWorkers : Nested(w)
       \/ \E p \in Passive : Queued(Child[p]))

\* ~task_scheduler ends, except where a worker is in get() for a task that is left behind.
ShutdownEnds ==
  <>[](\/ dpc \in {"up", "down"}
       \/ \E p \in Passive, w \in PoolWorkers : job[w] = <<p, 1>> /\ st[Child[p]] # "done")
=============================================================================
