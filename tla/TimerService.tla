---------------------------- MODULE TimerService ----------------------------
(***************************************************************************)
(* The timer service: a heap of deadlines under mutex_, the thread that    *)
(* fires them (run), and shutdown(), called by ~task_scheduler().          *)
(*                                                                         *)
(* An entry stands for one co_await of a sleep and the state it shares     *)
(* with the service (fired, handle).  Firing is a compare-exchange on      *)
(* fired, and the winner calls schedule_coro_handle(), which hands the     *)
(* coroutine to the workers or, once the scheduler is shutting down,       *)
(* resumes it on the calling thread.                                       *)
(***************************************************************************)
EXTENDS Integers

CONSTANTS
  Sleeps,   \* executions of co_await on a sleep
  Timer,    \* the thread of run()
  Main,     \* the thread that destroys the scheduler
  Worker,   \* some coroutine worker
  NoThread, \* nobody
  MaxTime,  \* the clock stops there (bound)
  MayStop   \* whether the scheduler is destroyed

ASSUME ThreadsAssumption == Timer # NoThread
ASSUME MaxTimeAssumption == MaxTime \in Nat
ASSUME ServiceAssumption == MayStop \in BOOLEAN

VARIABLES
  now,          \* steady_clock
  heap,         \* the sleeps with an entry in heap_
  deadline,     \* of each sleep
  fired,        \* sleep_waiter_state::fired
  lock,         \* who holds mutex_
  running,      \* running_
  shuttingDown, \* task_scheduler::shutting_down
  tpc,          \* where run() is
  till,         \* the deadline of the wait of run(), or Never
  firing,       \* the sleeps that run() has won and not yet scheduled
  mpc,          \* where the shutdown is
  stopMissed,   \* history: run() had decided to wait, but did not wait yet, when
                \* shutdown() notified it
  runner,       \* who executes suspend_impl of a sleep
  resumer,      \* who executes the coroutine of a sleep since it was resumed
  wakeups       \* how often each sleep's coroutine was scheduled

timerVars == <<heap, lock, running, tpc, till, firing>>
hostVars == <<fired, resumer, wakeups>>

Never == MaxTime + 1

TimerPcs == {"test", "predicate", "block", "wait", "woken", "fire",
             "inline", "exit"}
StopPcs == {"up", "stopping", "notify", "join", "drain", "drained", "down"}

TimerTypeOK ==
  /\ now \in 0 .. MaxTime
  /\ heap \subseteq Sleeps /\ firing \subseteq Sleeps
  /\ deadline \in [Sleeps -> 0 .. MaxTime]
  /\ fired \in [Sleeps -> BOOLEAN]
  /\ lock \in {Timer, Main, NoThread}
  /\ running \in BOOLEAN /\ shuttingDown \in BOOLEAN
  /\ tpc \in TimerPcs /\ mpc \in StopPcs
  /\ stopMissed \in BOOLEAN
  /\ till \in 0 .. Never
  /\ wakeups \in [Sleeps -> Nat]

\* The service and its thread have just been created; no sleep has begun.
TimerInit ==
  /\ now = 0
  /\ heap = {} /\ firing = {}
  /\ deadline = [s \in Sleeps |-> 0]
  /\ fired = [s \in Sleeps |-> FALSE]
  /\ lock = Timer
  /\ running = TRUE /\ shuttingDown = FALSE
  /\ tpc = "test" /\ mpc = "up" /\ stopMissed = FALSE
  /\ till = Never
  /\ runner = [s \in Sleeps |-> NoThread]
  /\ resumer = [s \in Sleeps |-> NoThread]
  /\ wakeups = [s \in Sleeps |-> 0]

\* A thread that resumed a coroutine itself waits until it suspends or ends.
Busy(x) == \E s \in Sleeps : x \in {runner[s], resumer[s]}

\* schedule_coro_handle called by x.
Schedule(x, s) ==
  /\ resumer' = [resumer EXCEPT ![s] = IF shuttingDown THEN x ELSE Worker]
  /\ wakeups' = [wakeups EXCEPT ![s] = @ + 1]

\* Mutant: fired is stored, not exchanged.
FireAlways(x, s) == fired' = [fired EXCEPT ![s] = TRUE] /\ Schedule(x, s)

\* The compare-exchange on fired, and what its winner does.
Fire(x, s) ==
  IF fired[s]
  THEN UNCHANGED hostVars
  ELSE fired' = [fired EXCEPT ![s] = TRUE] /\ Schedule(x, s)

\* cv_.notify_one(): nobody but run() waits.
Notify == tpc' = IF tpc = "wait" THEN "woken" ELSE tpc

\* heap_.push_back under mutex_.
AddTimer(s) ==
  /\ lock = NoThread
  /\ heap' = heap \union {s}

Tick ==
  /\ now < MaxTime
  /\ now' = now + 1
  /\ UNCHANGED <<timerVars, hostVars, deadline, shuttingDown, mpc, stopMissed, runner>>

-----------------------------------------------------------------------------
(* run().  With the mutex held, the test of running_ and what it leads to   *)
(* are one step; the wait that may follow is another.                      *)

TimerGoto(p) ==
  tpc' = p /\ UNCHANGED <<now, deadline, running, shuttingDown, mpc, stopMissed, runner>>

\* while (running_) ends: the return unlocks.
LeaveLoop ==
  /\ tpc = "test"
  /\ ~running
  /\ lock' = NoThread
  /\ TimerGoto("exit")
  /\ UNCHANGED <<heap, till, firing, hostVars>>

Earliest(s) == s \in heap /\ \A r \in heap : deadline[s] <= deadline[r]

\* earliest.deadline <= now
Due(s) == deadline[s] <= now

\* The heap is empty, or the earliest deadline is still to come.
LookAndWait ==
  /\ tpc = "test"
  /\ running
  /\ \/ heap = {} /\ TimerGoto("predicate") /\ till' = Never
     \/ \E s \in heap : /\ Earliest(s)
                        /\ ~Due(s)
                        /\ TimerGoto("block") /\ till' = deadline[s]
  /\ UNCHANGED <<heap, lock, firing, hostVars>>

\* The earliest deadline has passed: its entry is popped, and if the
\* compare-exchange wins the mutex is released for the call of the scheduler.
LookAndFire ==
  /\ tpc = "test"
  /\ running
  /\ \E s \in heap :
       /\ Earliest(s)
       /\ Due(s)
       /\ heap' = heap \ {s}
       /\ IF fired[s]
          THEN TimerGoto("test") /\ UNCHANGED <<firing, lock, fired>>
          ELSE /\ fired' = [fired EXCEPT ![s] = TRUE]
               /\ firing' = {s}
               /\ lock' = NoThread
               /\ TimerGoto("fire")
  /\ UNCHANGED <<till, resumer, wakeups>>

\* schedule_coro_handle, without the mutex.
FireEntry ==
  /\ tpc = "fire"
  /\ \E s \in firing : Schedule(Timer, s)
  /\ firing' = {}
  /\ TimerGoto("inline")
  /\ UNCHANGED <<heap, lock, till, fired>>

\* lock.lock() after the call has returned.
FireReturn ==
  /\ tpc = "inline"
  /\ ~Busy(Timer)
  /\ lock = NoThread
  /\ lock' = Timer
  /\ TimerGoto("test")
  /\ UNCHANGED <<heap, till, firing, hostVars>>

\* Mutant: the predicate asks for the shutdown only.
EvalPredicateRunning ==
  /\ tpc = "predicate"
  /\ TimerGoto(IF ~running THEN "test" ELSE "block")
  /\ UNCHANGED <<heap, lock, till, firing, hostVars>>

\* Mutant: the predicate asks for entries only.
EvalPredicateHeap ==
  /\ tpc = "predicate"
  /\ TimerGoto(IF heap # {} THEN "test" ELSE "block")
  /\ UNCHANGED <<heap, lock, till, firing, hostVars>>

\* The predicate of cv_.wait, evaluated before and after each wait.
EvalPredicate ==
  /\ tpc = "predicate"
  /\ TimerGoto(IF heap # {} \/ ~running THEN "test" ELSE "block")
  /\ UNCHANGED <<heap, lock, till, firing, hostVars>>

\* cv_.wait or cv_.wait_until releases the mutex and starts to wait.
Block ==
  /\ tpc = "block"
  /\ lock' = NoThread
  /\ TimerGoto("wait")
  /\ UNCHANGED <<heap, till, firing, hostVars>>

\* cv_.wait_until reaches its deadline.
WaitTimeout ==
  /\ tpc = "wait" /\ till <= now
  /\ TimerGoto("woken")
  /\ UNCHANGED <<heap, lock, till, firing, hostVars>>

\* A condition variable may wake its waiter for no reason.
SpuriousWake ==
  /\ tpc = "wait"
  /\ TimerGoto("woken")
  /\ UNCHANGED <<heap, lock, till, firing, hostVars>>

\* The wait ends with the mutex.
Relock ==
  /\ tpc = "woken"
  /\ lock = NoThread
  /\ lock' = Timer
  /\ TimerGoto(IF till = Never THEN "predicate" ELSE "test")
  /\ UNCHANGED <<heap, till, firing, hostVars>>

RunStep ==
  \/ LeaveLoop \/ LookAndWait \/ LookAndFire \/ FireEntry
  \/ EvalPredicate \/ Block \/ WaitTimeout

\* The steps of run() that need the mutex.
RunLock == FireReturn \/ Relock

-----------------------------------------------------------------------------
(* shutdown()                                                              *)

MainGoto(p) ==
  mpc' = p /\ UNCHANGED <<now, deadline, till, firing, runner, stopMissed>>

\* ~task_scheduler() sets shutting_down first.
SetShuttingDown ==
  /\ MayStop
  /\ mpc = "up"
  /\ shuttingDown' = TRUE
  /\ MainGoto("stopping")
  /\ UNCHANGED <<heap, lock, running, tpc, hostVars>>

\* running_.exchange(false), without the mutex.
StopRunning ==
  /\ mpc = "stopping"
  /\ running' = FALSE
  /\ MainGoto("notify")
  /\ UNCHANGED <<heap, lock, shuttingDown, tpc, hostVars>>

NotifyStop ==
  /\ mpc = "notify"
  /\ Notify
  /\ mpc' = "join"
  /\ stopMissed' = (tpc = "block")
  /\ UNCHANGED <<now, heap, deadline, till, firing, runner, lock, running, shuttingDown,
                 hostVars>>

\* thread_.join() returns, and the mutex is taken.
JoinTimer ==
  /\ mpc = "join"
  /\ tpc = "exit"
  /\ lock = NoThread
  /\ lock' = Main
  /\ MainGoto("drain")
  /\ UNCHANGED <<heap, running, shuttingDown, tpc, hostVars>>

\* Mutant: the remaining timers are cleared, not fired.
FireRemainingDropped ==
  /\ mpc = "drain"
  /\ heap # {}
  /\ heap' = {}
  /\ MainGoto("drain")
  /\ UNCHANGED <<lock, running, shuttingDown, tpc, hostVars>>

\* The loop over the remaining entries, with the mutex held throughout.
FireRemaining ==
  /\ mpc = "drain"
  /\ ~Busy(Main)
  /\ \E s \in heap : heap' = heap \ {s} /\ Fire(Main, s)
  /\ MainGoto("drain")
  /\ UNCHANGED <<lock, running, shuttingDown, tpc>>

\* heap_.clear() and the end of shutdown().
Drained ==
  /\ mpc = "drain"
  /\ ~Busy(Main)
  /\ heap = {}
  /\ lock' = NoThread
  /\ MainGoto("drained")
  /\ UNCHANGED <<heap, running, shuttingDown, tpc, hostVars>>

\* shutdown_timer_service deletes the service.
DeleteService ==
  /\ mpc = "drained"
  /\ MainGoto("down")
  /\ UNCHANGED <<heap, lock, running, shuttingDown, tpc, hostVars>>

StopStep ==
  \/ StopRunning \/ NotifyStop \/ JoinTimer \/ FireRemaining \/ Drained
  \/ DeleteService
=============================================================================
