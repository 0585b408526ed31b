--------------------------- MODULE CoroScheduler ---------------------------
(***************************************************************************)
(* The coroutine scheduler: schedule_coro_handle() called by any thread,   *)
(* the loop of coro_worker(), and the shutdown by ~task_scheduler().       *)
(*                                                                         *)
(* Handles travel through external_coro_queue, an unbounded channel whose  *)
(* operations are critical sections of its own mutex.  No code pushes to a *)
(* worker's ws_deque, so pop() and steal() of the loop find nothing and    *)
(* are not steps here (WsDeque models the deque).  coro_work_mutex is held *)
(* only by a worker between locking it and waiting, so locking it and      *)
(* starting to wait is one step.  A handle stands for one submission; the  *)
(* coroutine resumed for it may submit others from its worker.             *)
(***************************************************************************)
EXTENDS Integers, Sequences, SequencesExt

CONSTANTS
  Workers,    \* coroutine workers
  Submitters, \* other threads that call schedule_coro_handle
  Main,       \* the thread that destroys the scheduler
  Handles,    \* submissions; each is made at most once (bound)
  NoHandle,   \* no operand
  MayStop     \* whether the scheduler is destroyed

Callers == Workers \union Submitters
Threads == Callers \union {Main}

ASSUME NamesAssumption ==
  /\ Workers \intersect Submitters = {}
  /\ Main \notin Callers
  /\ NoHandle \notin Handles

ASSUME MayStopAssumption == MayStop \in BOOLEAN

VARIABLES
  pc,           \* where each thread's code is
  op,           \* the handle a thread is submitting
  submitted,    \* handles whose submission has begun
  queue,        \* external_coro_queue's buffer
  closed,       \* external_coro_queue's closed_ flag
  shuttingDown, \* task_scheduler::shutting_down
  ran,          \* how often each handle was resumed
  missed        \* history: some notify_one() came in the gap of a worker between
                \* finding the queue empty and waiting, and no worker was awake

vars == <<pc, op, submitted, queue, closed, shuttingDown, ran, missed>>

WorkerPcs == {"check", "recv", "block", "wait", "resume", "exit"}
SubmitPcs == {"enter", "send", "notify", "thrown"}
MainPcs == {"running", "notifyall", "close", "join", "joined"}

\* The shape of the state.
TypeOK ==
  /\ pc \in [Threads -> WorkerPcs \union SubmitPcs \union MainPcs \union {"idle"}]
  /\ \A w \in Workers : pc[w] \in WorkerPcs \union SubmitPcs
  /\ \A s \in Submitters : pc[s] \in SubmitPcs \union {"idle"}
  /\ pc[Main] \in MainPcs
  /\ op \in [Callers -> Handles \union {NoHandle}]
  /\ submitted \subseteq Handles
  /\ queue \in Seq(Handles)
  /\ closed \in BOOLEAN /\ shuttingDown \in BOOLEAN /\ missed \in BOOLEAN
  /\ ran \in [Handles -> Nat]

Init ==
  /\ pc = [x \in Threads |-> IF x \in Workers THEN "check"
                             ELSE IF x \in Submitters THEN "idle"
                             ELSE "running"]
  /\ op = [x \in Callers |-> NoHandle]
  /\ submitted = {}
  /\ queue = <<>>
  /\ closed = FALSE /\ shuttingDown = FALSE /\ missed = FALSE
  /\ ran = [h \in Handles |-> 0]

Goto(x, p) == pc' = [pc EXCEPT ![x] = p]

\* Client code: a coroutine that a worker is resuming, or a submitter's own.
Home(x) == IF x \in Workers THEN "resume" ELSE "idle"

Waiting == {w \in Workers : pc[w] = "wait"}

\* The worker will look at the queue again without being notified.
Awake(w) == pc[w] \notin {"block", "wait", "exit"}

-----------------------------------------------------------------------------
(* task_scheduler::schedule_coro_handle                                    *)

\* The call, with a handle that is neither null nor done.
Submit(x, h) ==
  /\ pc[x] = Home(x)
  /\ h \notin submitted
  /\ submitted' = submitted \union {h}
  /\ op' = [op EXCEPT ![x] = h]
  /\ Goto(x, "enter")
  /\ UNCHANGED <<queue, closed, shuttingDown, ran, missed>>

\* The test of shutting_down: if it is set the handle is resumed right here.
TestShutdown(x) ==
  /\ pc[x] = "enter"
  /\ IF shuttingDown
     THEN ran' = [ran EXCEPT ![op[x]] = @ + 1] /\ Goto(x, Home(x))
     ELSE UNCHANGED ran /\ Goto(x, "send")
  /\ UNCHANGED <<op, submitted, queue, closed, shuttingDown, missed>>

\* Mutant: coro_work_cv is not notified.
SendOnly(x) ==
  /\ pc[x] = "send"
  /\ IF closed
     THEN Goto(x, "thrown") /\ UNCHANGED queue
     ELSE Goto(x, Home(x)) /\ queue' = Append(queue, op[x])
  /\ UNCHANGED <<op, submitted, closed, shuttingDown, ran, missed>>

\* external_coro_queue->send(handle), which throws on a closed channel ...
Send(x) ==
  /\ pc[x] = "send"
  /\ IF closed
     THEN Goto(x, "thrown") /\ UNCHANGED queue
     ELSE Goto(x, "notify") /\ queue' = Append(queue, op[x])
  /\ UNCHANGED <<op, submitted, closed, shuttingDown, ran, missed>>

\* ... unless coro_workers.empty(), which it is once the shutdown has cleared it, although
\* the flag was not set before: the handle is resumed right here.
ResumeInline(x) ==
  /\ pc[x] = "send"
  /\ pc[Main] = "joined"
  /\ ran' = [ran EXCEPT ![op[x]] = @ + 1]
  /\ Goto(x, Home(x))
  /\ UNCHANGED <<op, submitted, queue, closed, shuttingDown, missed>>

\* coro_work_cv.notify_one(), without coro_work_mutex.
NotifyOne(x) ==
  /\ pc[x] = "notify"
  /\ \/ /\ Waiting = {}
        /\ Goto(x, Home(x))
        /\ missed' = (missed \/ \A w \in Workers : ~Awake(w))
     \/ /\ \E w \in Waiting : pc' = [pc EXCEPT ![x] = Home(x), ![w] = "check"]
        /\ UNCHANGED missed
  /\ UNCHANGED <<op, submitted, queue, closed, shuttingDown, ran>>

-----------------------------------------------------------------------------
(* coro_worker                                                             *)

\* The loop condition.
TestLoop(w) ==
  /\ pc[w] = "check"
  /\ Goto(w, IF shuttingDown THEN "exit" ELSE "recv")
  /\ UNCHANGED <<op, submitted, queue, closed, shuttingDown, ran, missed>>

\* Mutant: the handle at the front is copied but not popped.
TryReceiveKeeps(w) ==
  /\ pc[w] = "recv"
  /\ IF queue = <<>>
     THEN Goto(w, "block") /\ UNCHANGED <<queue, ran>>
     ELSE /\ ran' = [ran EXCEPT ![Head(queue)] = @ + 1]
          /\ Goto(w, "resume")
          /\ UNCHANGED queue
  /\ UNCHANGED <<op, submitted, closed, shuttingDown, missed>>

\* external_queue.try_receive(), and resume() on the handle it returns.  When it
\* returns none there is nothing to steal either.
TryReceive(w) ==
  /\ pc[w] = "recv"
  /\ IF queue = <<>>
     THEN Goto(w, "block") /\ UNCHANGED <<queue, ran>>
     ELSE /\ ran' = [ran EXCEPT ![Head(queue)] = @ + 1]
          /\ queue' = Tail(queue)
          /\ Goto(w, "resume")
  /\ UNCHANGED <<op, submitted, closed, shuttingDown, missed>>

\* Mutant: the worker goes to sleep after each coroutine.
ResumedThenBlocks(w) ==
  /\ pc[w] = "resume"
  /\ Goto(w, "block")
  /\ UNCHANGED <<op, submitted, queue, closed, shuttingDown, ran, missed>>

\* resume() returns: the coroutine was suspended or ended.
Resumed(w) ==
  /\ pc[w] = "resume"
  /\ Goto(w, "check")
  /\ UNCHANGED <<op, submitted, queue, closed, shuttingDown, ran, missed>>

\* coro_work_cv.wait(lock), without a predicate.
Block(w) ==
  /\ pc[w] = "block"
  /\ Goto(w, "wait")
  /\ UNCHANGED <<op, submitted, queue, closed, shuttingDown, ran, missed>>

\* A condition variable may wake a waiter for no reason; it need not.
SpuriousWake(w) ==
  /\ pc[w] = "wait"
  /\ Goto(w, "check")
  /\ UNCHANGED <<op, submitted, queue, closed, shuttingDown, ran, missed>>

-----------------------------------------------------------------------------
(* ~task_scheduler and shutdown_coro_workers                               *)

SetShuttingDown ==
  /\ MayStop
  /\ pc[Main] = "running"
  /\ shuttingDown' = TRUE
  /\ Goto(Main, "notifyall")
  /\ UNCHANGED <<op, submitted, queue, closed, ran, missed>>

\* Mutant: one worker is woken instead of all.
NotifyAllOne ==
  /\ pc[Main] = "notifyall"
  /\ IF Waiting = {}
     THEN Goto(Main, "close")
     ELSE \E w \in Waiting : pc' = [pc EXCEPT ![Main] = "close", ![w] = "check"]
  /\ UNCHANGED <<op, submitted, queue, closed, shuttingDown, ran, missed>>

\* coro_work_cv.notify_all(), without coro_work_mutex.
NotifyAll ==
  /\ pc[Main] = "notifyall"
  /\ pc' = [x \in Threads |-> IF x = Main THEN "close"
                              ELSE IF x \in Waiting THEN "check" ELSE pc[x]]
  /\ UNCHANGED <<op, submitted, queue, closed, shuttingDown, ran, missed>>

\* external_coro_queue->close(): nobody waits on the channel itself.
CloseQueue ==
  /\ pc[Main] = "close"
  /\ closed' = TRUE
  /\ Goto(Main, "join")
  /\ UNCHANGED <<op, submitted, queue, shuttingDown, ran, missed>>

\* Every worker thread has ended, and coro_workers is cleared.
Join ==
  /\ pc[Main] = "join"
  /\ \A w \in Workers : pc[w] = "exit"
  /\ Goto(Main, "joined")
  /\ UNCHANGED <<op, submitted, queue, closed, shuttingDown, ran, missed>>

-----------------------------------------------------------------------------
SubmitStep(x) == TestShutdown(x) \/ Send(x) \/ ResumeInline(x) \/ NotifyOne(x)
WorkerStep(w) == TestLoop(w) \/ TryReceive(w) \/ Resumed(w) \/ Block(w)
StopStep == NotifyAll \/ CloseQueue \/ Join

Next ==
  \/ \E x \in Callers : SubmitStep(x) \/ \E h \in Handles : Submit(x, h)
  \/ \E w \in Workers : WorkerStep(w) \/ SpuriousWake(w)
  \/ SetShuttingDown
  \/ StopStep

Spec == Init /\ [][Next]_vars

\* Every thread keeps running, and a resumed coroutine comes back to its worker.
\* No wake-up without a notification is assumed, nor that anything is submitted
\* or that the scheduler is destroyed.
Fairness ==
  /\ \A x \in Callers : WF_vars(SubmitStep(x))
  /\ \A w \in Workers : WF_vars(WorkerStep(w))
  /\ WF_vars(StopStep)

FairSpec == Spec /\ Fairness

-----------------------------------------------------------------------------
(* Properties.                                                             *)

\* A handle waits in the queue with every worker asleep (and nobody about to
\* notify) only if a notification fell into the gap between a worker's
\* try_receive() and its wait(): apart from that gap, one notify_one() per send
\* is enough, because a worker that is awake empties the queue before it sleeps.
StrandedOnlyByGap ==
  (/\ queue # <<>>
   /\ ~shuttingDown
   /\ \A x \in Callers : pc[x] # "notify"
   /\ \A w \in Workers : ~Awake(w)) => missed

\* A handle is stranded only by the gap, in every state of the right shape.
SchedulerInv == TypeOK /\ StrandedOnlyByGap

\* A worker that is awake does not sleep while handles are queued, unless the
\* scheduler is being destroyed.
AwakeWorkerDrains ==
  (queue # <<>> /\ \E w \in Workers : pc[w] \in {"check", "recv", "resume"})
    ~> queue = <<>> \/ shuttingDown

\* send() threw, and the handle was dropped.
Refused(h) == \E x \in Callers : pc[x] = "thrown" /\ op[x] = h

\* Each submission is in one place, is resumed at most once, and is not both
\* resumed and still queued.
PlaceOf(h) ==
  CASE ran[h] = 1 /\ ~Contains(queue, h) /\ ~Refused(h) -> "resumed"
    [] ran[h] = 0 /\ Contains(queue, h) /\ ~Refused(h) -> "pending"
    [] ran[h] = 0 /\ ~Contains(queue, h) /\ Refused(h) -> "refused"
    [] ran[h] = 0 /\ ~Contains(queue, h) /\ ~Refused(h) -> "new"
    [] OTHER -> "duplicated"

Exec == INSTANCE Executor WITH place <- [h \in Handles |-> PlaceOf(h)]

\* The scheduler is an executor, also when the shutdown races with submissions.
ImplementsExecutor == Exec!Spec

\* The shutdown reaches every worker that is asleep, or runs a coroutine, or is
\* at its loop test when notify_all() is due: it leaves its loop.
ShutdownReaches ==
  \A w \in Workers :
    (pc[Main] = "notifyall" /\ pc[w] \in {"wait", "check", "resume"})
      ~> pc[w] = "exit"

\* "Wake one sleeping worker to process the new work" (schedule_coro_handle):
\* what is queued is resumed.
QueuedIsResumed ==
  \A h \in Handles : Contains(queue, h) ~> ran[h] > 0
=============================================================================
