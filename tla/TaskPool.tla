------------------------------ MODULE TaskPool ------------------------------
(***************************************************************************)
(* The thread pool of task_scheduler: add_task and schedule_task, which    *)
(* choose a worker and send it the job, the workers, each with a queue of  *)
(* its own, and what ~task_scheduler does to them.  What a job does is     *)
(* left to who submits it.                                                 *)
(*                                                                         *)
(* access_mutex protects the choice and the send, which are one step.  The *)
(* queues are unbounded channels (SyncChannel): send() never waits, and    *)
(* throws once the channel is closed.                                      *)
(***************************************************************************)
EXTENDS Integers, Sequences, FiniteSets

CONSTANTS
  PoolSize, \* number of pool workers
  Jobs,     \* what is submitted, once each
  NoJob,    \* no job
  MaxTime   \* bound: the clock

ASSUME PoolSizeAssumption == PoolSize \in Nat \ {0}
ASSUME NoJobAssumption == NoJob \notin Jobs
ASSUME MaxTimeAssumption == MaxTime \in Nat

PoolWorkers == 1 .. PoolSize

VARIABLES
  shuttingDown, \* shutting_down
  now,          \* the clock
  queue,        \* per worker: its channel
  closed,       \* per worker: the channel is closed
  availableAt,  \* per worker: available_at
  duration,     \* task_durations, of the one callable that add_task is used with
  wpc,          \* per worker: "test", "receive", "run", "record", "exit"
  job,          \* per worker: the job it runs
  startedAt     \* per worker: when that began

clockVars == <<shuttingDown, now>>
workerVars == <<wpc, job, startedAt>>
poolVars == <<clockVars, queue, closed, availableAt, duration, workerVars>>

PoolTypeOK ==
  /\ shuttingDown \in BOOLEAN
  /\ now \in 0 .. MaxTime
  /\ \A w \in PoolWorkers : \A i \in DOMAIN queue[w] : queue[w][i] \in Jobs
  /\ closed \in [PoolWorkers -> BOOLEAN]
  /\ availableAt \in [PoolWorkers -> 0 .. 2 * MaxTime]
  /\ duration \in 0 .. MaxTime
  /\ wpc \in [PoolWorkers -> {"test", "receive", "run", "record", "exit"}]
  /\ job \in [PoolWorkers -> Jobs \union {NoJob}]

PoolInit ==
  /\ shuttingDown = FALSE
  /\ now = 0
  /\ queue = [w \in PoolWorkers |-> <<>>]
  /\ closed = [w \in PoolWorkers |-> FALSE]
  /\ availableAt = [w \in PoolWorkers |-> 0]
  /\ duration = 0
  /\ wpc = [w \in PoolWorkers |-> "test"]
  /\ job = [w \in PoolWorkers |-> NoJob]
  /\ startedAt = [w \in PoolWorkers |-> 0]

Tick ==
  /\ now < MaxTime
  /\ now' = now + 1
  /\ UNCHANGED <<shuttingDown, queue, closed, availableAt, duration, workerVars>>

-----------------------------------------------------------------------------
(* Submission.                                                             *)

\* At time t: the first worker that is available, or else the first of those that will be
\* soonest.
Chosen(t) ==
  LET free == {w \in PoolWorkers : t >= availableAt[w]}
      soonest == {w \in PoolWorkers : \A v \in PoolWorkers : availableAt[w] <= availableAt[v]}
      among == IF free # {} THEN free ELSE soonest
  IN CHOOSE w \in among : \A v \in among : w <= v

\* send(): its exception goes to the caller.
SendThrows == closed[Chosen(now)]
Send(j, w) ==
  /\ ~closed[w]
  /\ queue' = [queue EXCEPT ![w] = Append(@, j)]

\* add_task, which read the clock, t, before it had the mutex: the worker counts as busy
\* for as long as the callable took last.
AddTask(j, t) ==
  /\ Send(j, Chosen(t))
  /\ availableAt' = [availableAt EXCEPT ![Chosen(t)] = t + duration]
  /\ UNCHANGED <<clockVars, closed, duration, workerVars>>

\* schedule_task: available_at stays as it is.
ScheduleTask(j) ==
  /\ Send(j, Chosen(now))
  /\ UNCHANGED <<clockVars, closed, availableAt, duration, workerVars>>

-----------------------------------------------------------------------------
(* A worker.                                                               *)

WorkerGoto(w, p) == wpc' = [wpc EXCEPT ![w] = p]

\* while (!shutdown_flag)
WorkerTest(w) ==
  /\ wpc[w] = "test"
  /\ WorkerGoto(w, IF shuttingDown THEN "exit" ELSE "receive")
  /\ UNCHANGED <<clockVars, queue, closed, availableAt, duration, job, startedAt>>

\* receive_for(100 ms) has a job.
WorkerReceive(w) ==
  /\ wpc[w] = "receive"
  /\ queue[w] # <<>>
  /\ queue' = [queue EXCEPT ![w] = Tail(@)]
  /\ job' = [job EXCEPT ![w] = Head(queue[w])]
  /\ startedAt' = [startedAt EXCEPT ![w] = now]
  /\ WorkerGoto(w, "run")
  /\ UNCHANGED <<clockVars, closed, availableAt, duration>>

\* Mutant: whatever the reason.
WorkerLeavesOnTimeout(w) ==
  /\ wpc[w] = "receive"
  /\ queue[w] = <<>>
  /\ WorkerGoto(w, "exit")
  /\ UNCHANGED <<clockVars, queue, closed, availableAt, duration, job, startedAt>>

\* It has none, because of the timeout or because the channel is closed.  (A timeout after
\* which the worker only waits again is no step.)
WorkerGetsNone(w) ==
  /\ wpc[w] = "receive"
  /\ queue[w] = <<>>
  /\ closed[w] \/ shuttingDown
  /\ WorkerGoto(w, IF closed[w] THEN "exit" ELSE "test")
  /\ UNCHANGED <<clockVars, queue, closed, availableAt, duration, job, startedAt>>

\* The job has ended: it came from schedule_task, or else from add_task, whose wrapper
\* has a duration to record.
JobEnds(w, timed) ==
  /\ WorkerGoto(w, IF timed THEN "record" ELSE "test")
  /\ job' = [job EXCEPT ![w] = NoJob]
  /\ UNCHANGED <<clockVars, queue, closed, availableAt, duration, startedAt>>

\* Under access_mutex, after the promise was answered.
Record(w) ==
  /\ wpc[w] = "record"
  /\ duration' = now - startedAt[w]
  /\ WorkerGoto(w, "test")
  /\ UNCHANGED <<clockVars, queue, closed, availableAt, job, startedAt>>

-----------------------------------------------------------------------------
(* ~task_scheduler                                                         *)

SetShuttingDown ==
  /\ shuttingDown' = TRUE
  /\ UNCHANGED <<now, queue, closed, availableAt, duration, workerVars>>

\* w.queue->close(), worker by worker.
CloseQueue(w) ==
  /\ closed' = [closed EXCEPT ![w] = TRUE]
  /\ UNCHANGED <<clockVars, queue, availableAt, duration, workerVars>>

Joined == \A w \in PoolWorkers : wpc[w] = "exit"
=============================================================================
