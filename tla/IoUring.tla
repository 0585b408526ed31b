------------------------------ MODULE IoUring ------------------------------
(***************************************************************************)
(* io_uring_service and the awaiters of io_uring_ops: coroutines that send *)
(* (async_send; async_accept and async_recv are the same), or send with a  *)
(* linked timeout, one coroutine worker with its ring and the fallback     *)
(* ring, the completion thread of each ring, and their shutdown by         *)
(* ~task_scheduler.  The kernel is external: it accepts a submission, or   *)
(* does not, and completes what it accepted in any order.                  *)
(*                                                                         *)
(* get_sqe() takes a slot of the submission queue; what is in it from the  *)
(* last time stays until the caller prepares it.                           *)
(***************************************************************************)
EXTENDS Integers, Sequences, FiniteSetsExt

CONSTANTS
  IoCoros,     \* coroutines
  WithTimeout, \* those that send with a timeout
  MaxIo,       \* bound: operations, those of one coroutine one after the other
  WorkerRing, FallbackRing, \* the rings, and their completion threads
  IoWorker,    \* the coroutine worker, as a thread
  Slots,       \* slots of a submission queue (RING_ENTRIES)
  MaxFailures, \* bound: submissions that the kernel does not accept
  Nop,         \* the user data of the shutdown's operation, and of an unused slot
  NoThread     \* no thread, nothing

ASSUME SlotsAssumption == Slots \in Nat \ {0} /\ MaxIo \in Nat
ASSUME WithTimeoutAssumption == WithTimeout \subseteq IoCoros

Rings == {WorkerRing, FallbackRing}
Ops == IoCoros \X (1 .. MaxIo)
\* Names are different from one another.
ASSUME IoNamesAssumption ==
  /\ WorkerRing # FallbackRing /\ IoWorker \notin Rings
  /\ NoThread \notin Rings \union {IoWorker, "prep", "submit"}
ASSUME NopAssumption == Nop \notin [await : Ops, part : {"send_comp", "timeout_comp"}]

SendOf(a) == [await |-> a, part |-> "send_comp"]
TimeoutOf(a) == [await |-> a, part |-> "timeout_comp"]
UserData == [await : Ops, part : {"send_comp", "timeout_comp"}] \union {Nop}

VARIABLES
  ist,      \* "idle", "ready", "suspended", "runnable", "done"
  ion,      \* the thread a coroutine runs on, once it is resumed
  asp,      \* await_suspend: where it is, on which thread, its ring and its slots
  nth,      \* number of operations
  iwakes,   \* how often each operation had its coroutine scheduled
  ringState, \* ring_: "open", "exited" (released, not yet null), "null"
  running,  \* running_
  slot,     \* per ring and slot: the user data it holds
  pending,  \* per ring: the slots taken since the last submission
  unprepared, \* per ring: those of them that were not prepared
  inflight, \* per ring: how often the kernel has each user data
  cq,       \* per ring: the completion queue
  rpc,      \* per ring: where run() is: "test", "wait", "exit"
  spc,      \* shutdown(): "up", then for each ring "flag", "nop", "prep", "submit", ...
  failures, \* submissions that were not accepted
  deadWrites, \* completions written to an awaiter that is gone
  stale     \* TRUE: a slot was submitted that nobody had prepared

opVars == <<ist, ion, asp, nth, iwakes>>
queueVars == <<slot, pending, unprepared, inflight, failures, stale>>
serviceVars == <<ringState, running, cq, rpc, spc, deadWrites>>
ioVars == <<opVars, queueVars, serviceVars>>

NotIo == [at |-> NoThread, by |-> NoThread, ring |-> NoThread, slots |-> <<>>]
Off == [at |-> "up", ring |-> NoThread, slots |-> <<>>]
Stopping == spc.at # "up"

IoTypeOK ==
  /\ ist \in [IoCoros -> {"idle", "ready", "suspended", "runnable", "done"}]
  /\ nth \in [IoCoros -> 0 .. MaxIo]
  /\ slot \in [Rings -> [1 .. Slots -> UserData]]
  /\ \A r \in Rings : Len(pending[r]) <= Slots /\ unprepared[r] \subseteq 1 .. Slots
  /\ ringState \in [Rings -> {"open", "exited", "null"}]
  /\ rpc \in [Rings -> {"test", "wait", "exit"}]
  /\ spc.at \in {"up", "flag", "nop", "prep", "submit", "join", "exit", "down"}

IoInit ==
  /\ ist = [c \in IoCoros |-> "idle"]
  /\ ion = [c \in IoCoros |-> NoThread]
  /\ asp = [c \in IoCoros |-> NotIo]
  /\ nth = [c \in IoCoros |-> 0]
  /\ iwakes = [a \in Ops |-> 0]
  /\ ringState = [r \in Rings |-> "open"]
  /\ running = [r \in Rings |-> TRUE]
  /\ slot = [r \in Rings |-> [i \in 1 .. Slots |-> Nop]]
  /\ pending = [r \in Rings |-> <<>>]
  /\ unprepared = [r \in Rings |-> {}]
  /\ inflight = [r \in Rings |-> [u \in UserData |-> 0]]
  /\ cq = [r \in Rings |-> <<>>]
  /\ rpc = [r \in Rings |-> "test"]
  /\ spc = Off
  /\ failures = 0
  /\ deadWrites = {}
  /\ stale = FALSE

-----------------------------------------------------------------------------
(* liburing and the kernel.                                                *)

\* The slots that the next n calls of io_uring_get_sqe return: less than n if there are
\* not as many.  The slots go round: the next is the one after the last.  With nothing
\* pending the count starts again at 1: where on the ring it is, nothing depends on.
Next1(i) == (i % Slots) + 1
Free(r, n) ==
  LET left == Slots - Len(pending[r])
      first == IF pending[r] = <<>> THEN 1 ELSE Next1(pending[r][Len(pending[r])])
  IN [i \in 1 .. (IF left < n THEN left ELSE n) |-> ((first + i - 2) % Slots) + 1]

TakeSlots(r, taken) ==
  /\ pending' = [pending EXCEPT ![r] = @ \o taken]
  /\ unprepared' = [unprepared EXCEPT ![r] = @ \union {taken[i] : i \in DOMAIN taken}]
  /\ UNCHANGED <<slot, inflight, failures, stale>>

\* io_uring_prep_*, io_uring_sqe_set_data: the user data us for the slots taken.
Prepare(r, taken, us) ==
  /\ slot' = [slot EXCEPT ![r] = [i \in 1 .. Slots |->
       IF \E k \in DOMAIN taken : taken[k] = i
       THEN us[CHOOSE k \in DOMAIN taken : taken[k] = i] ELSE slot[r][i]]]
  /\ unprepared' = [unprepared EXCEPT ![r] = @ \ {taken[k] : k \in DOMAIN taken}]
  /\ UNCHANGED <<pending, inflight, failures, stale>>

\* io_uring_submit: everything pending, whoever took it, or nothing.
Submit(r) ==
  \/ /\ inflight' = [inflight EXCEPT ![r] = [u \in UserData |->
          @[u] + Cardinality({i \in DOMAIN pending[r] : slot[r][pending[r][i]] = u})]]
     /\ stale' = (stale \/ unprepared[r] # {})
     /\ pending' = [pending EXCEPT ![r] = <<>>]
     /\ unprepared' = [unprepared EXCEPT ![r] = {}]
     /\ UNCHANGED <<slot, failures>>
  \/ /\ failures < MaxFailures
     /\ failures' = failures + 1
     /\ UNCHANGED <<slot, pending, unprepared, inflight, stale>>

\* The kernel completes an operation.
Complete(r, u) ==
  /\ ringState[r] = "open"
  /\ inflight[r][u] > 0
  /\ inflight' = [inflight EXCEPT ![r][u] = @ - 1]
  /\ cq' = [cq EXCEPT ![r] = Append(@, u)]
  /\ UNCHANGED <<opVars, slot, pending, unprepared, failures, stale,
                 ringState, running, rpc, spc, deadWrites>>

-----------------------------------------------------------------------------
(* The awaiters.                                                           *)

IoBusy(t) == \E c \in IoCoros : ion[c] = t \/ asp[c].by = t

\* schedule_coro_handle by thread t: once the scheduler shuts down t resumes it.
IoSchedule(a, t) ==
  /\ iwakes' = [iwakes EXCEPT ![a] = @ + 1]
  /\ IF ist[a[1]] = "suspended" /\ nth[a[1]] = a[2]
     THEN /\ ist' = [ist EXCEPT ![a[1]] = "runnable"]
          /\ ion' = [ion EXCEPT ![a[1]] = IF Stopping THEN t ELSE NoThread]
     ELSE UNCHANGED <<ist, ion>>

\* Operations begun, or about to.
Begun == MapThenSumSet(LAMBDA c : nth[c] + (IF ist[c] = "ready" THEN 1 ELSE 0), IoCoros)

StartIo(c) ==
  /\ ist[c] = "idle" /\ ~Stopping
  /\ ist' = [ist EXCEPT ![c] = "runnable"]
  /\ UNCHANGED <<ion, asp, nth, iwakes, queueVars, serviceVars>>

\* A coroutine that is scheduled goes on: await_resume, and then its next operation or its
\* end.  The worker runs one at a time.  (The next await_suspend of a coroutine does not
\* begin before the last one, on another thread, has returned from submit().)
ResumeIo(c) ==
  /\ ist[c] = "runnable"
  /\ ion[c] = NoThread => ~IoBusy(IoWorker)
  /\ \/ /\ Begun < MaxIo /\ nth[c] < MaxIo /\ asp[c] = NotIo
        /\ ist' = [ist EXCEPT ![c] = "ready"]
        /\ ion' = [ion EXCEPT ![c] = IF @ = NoThread THEN IoWorker ELSE @]
     \/ ist' = [ist EXCEPT ![c] = "done"] /\ ion' = [ion EXCEPT ![c] = NoThread]
  /\ UNCHANGED <<asp, nth, iwakes, queueVars, serviceVars>>

\* get_io_uring_service(): the worker's own ring, or the fallback on any other thread.
RingOf(t) == IF t = IoWorker THEN WorkerRing ELSE FallbackRing

Needed(c) == IF c \in WithTimeout THEN 2 ELSE 1

\* Mutant: both parts of the operation are given send_comp.
DataSame(c) ==
  LET a == <<c, nth[c]>> IN
  IF c \in WithTimeout THEN <<SendOf(a), SendOf(a)>> ELSE <<SendOf(a)>>

Data(c) ==
  LET a == <<c, nth[c]>> IN
  IF c \in WithTimeout THEN <<SendOf(a), TimeoutOf(a)>> ELSE <<SendOf(a)>>

\* await_suspend gets its slots; or too few, which stay taken (get_sqe_pair), and the
\* coroutine is scheduled with -ENOMEM.
TakeSqe(c) ==
  LET t == ion[c]
      r == RingOf(t)
      taken == IF ringState[r] = "null" THEN <<>> ELSE Free(r, Needed(c))
      enough == Len(taken) = Needed(c)
  IN /\ ist[c] = "ready"
     /\ ringState[r] # "exited"
     /\ TakeSlots(r, taken)
     /\ nth' = [nth EXCEPT ![c] = @ + 1]
     /\ ist' = [ist EXCEPT ![c] = IF enough THEN "suspended" ELSE "runnable"]
     /\ ion' = [ion EXCEPT ![c] = IF ~enough /\ Stopping THEN t ELSE NoThread]
     /\ asp' = [asp EXCEPT ![c] = IF ~enough THEN NotIo
          ELSE [at |-> "prep", by |-> t, ring |-> r, slots |-> taken]]
     /\ iwakes' = [iwakes EXCEPT ![<<c, nth[c] + 1>>] = IF enough THEN @ ELSE @ + 1]
     /\ UNCHANGED <<serviceVars>>

PrepareSqe(c) ==
  /\ asp[c].at = "prep"
  /\ Prepare(asp[c].ring, asp[c].slots, Data(c))
  /\ asp' = [asp EXCEPT ![c].at = "submit"]
  /\ UNCHANGED <<ist, ion, nth, iwakes, serviceVars>>

\* Mutant: the operation is left for somebody else to submit.
SubmitLater(c) ==
  /\ asp[c].at = "submit"
  /\ asp' = [asp EXCEPT ![c] = NotIo]
  /\ UNCHANGED <<ist, ion, nth, iwakes, queueVars, serviceVars>>

\* submit(): what it returns is ignored.
SubmitSqe(c) ==
  /\ asp[c].at = "submit"
  /\ asp' = [asp EXCEPT ![c] = NotIo]
  /\ IF ringState[asp[c].ring] = "open" THEN Submit(asp[c].ring) ELSE UNCHANGED queueVars
  /\ UNCHANGED <<ist, ion, nth, iwakes, serviceVars>>

-----------------------------------------------------------------------------
(* run(), the completion thread of ring r                                  *)

\* The coroutine has left await_resume: the awaiter is gone.
Left(a) == ist[a[1]] \in {"ready", "done"} \/ nth[a[1]] # a[2]

RunTest(r) ==
  /\ rpc[r] = "test"
  /\ ~IoBusy(r)
  /\ rpc' = [rpc EXCEPT ![r] = IF running[r] THEN "wait" ELSE "exit"]
  /\ UNCHANGED <<opVars, queueVars, ringState, running, cq, spc, deadWrites>>

\* Mutant: the timeout's completion resumes the coroutine too.
ReapAny(r) ==
  LET u == Head(cq[r]) IN
    /\ rpc[r] = "wait" /\ cq[r] # <<>>
    /\ cq' = [cq EXCEPT ![r] = Tail(@)]
    /\ rpc' = [rpc EXCEPT ![r] = "test"]
    /\ IF u # Nop THEN IoSchedule(u.await, r) ELSE UNCHANGED <<ist, ion, iwakes>>
    /\ deadWrites' = IF u # Nop /\ Left(u.await) THEN deadWrites \union {u} ELSE deadWrites
    /\ UNCHANGED <<asp, nth, queueVars, ringState, running, spc>>

\* A completion: its result and flags are written to the awaiter, and the handle, which a
\* timeout does not have, is scheduled.
Reap(r) ==
  LET u == Head(cq[r]) IN
    /\ rpc[r] = "wait" /\ cq[r] # <<>>
    /\ cq' = [cq EXCEPT ![r] = Tail(@)]
    /\ rpc' = [rpc EXCEPT ![r] = "test"]
    /\ IF u # Nop /\ u.part = "send_comp" THEN IoSchedule(u.await, r)
       ELSE UNCHANGED <<ist, ion, iwakes>>
    /\ deadWrites' = IF u # Nop /\ Left(u.await) THEN deadWrites \union {u} ELSE deadWrites
    /\ UNCHANGED <<asp, nth, queueVars, ringState, running, spc>>

-----------------------------------------------------------------------------
(* shutdown(), for one ring after the other                                *)

ShutGoto(p, r, taken) == spc' = [at |-> p, ring |-> r, slots |-> taken]

BeginIoShutdown ==
  /\ spc.at = "up"
  /\ ShutGoto("flag", WorkerRing, <<>>)
  /\ UNCHANGED <<opVars, queueVars, ringState, running, cq, rpc, deadWrites>>

StopRunning ==
  /\ spc.at = "flag"
  /\ running' = [running EXCEPT ![spc.ring] = FALSE]
  /\ ShutGoto("nop", spc.ring, <<>>)
  /\ UNCHANGED <<opVars, queueVars, ringState, cq, rpc, deadWrites>>

\* The operation that wakes the completion thread, if there is a slot for it.
TakeNop ==
  LET taken == Free(spc.ring, 1) IN
    /\ spc.at = "nop"
    /\ TakeSlots(spc.ring, taken)
    /\ ShutGoto(IF taken = <<>> THEN "join" ELSE "prep", spc.ring, taken)
    /\ UNCHANGED <<opVars, ringState, running, cq, rpc, deadWrites>>

PrepareNop ==
  /\ spc.at = "prep"
  /\ Prepare(spc.ring, spc.slots, <<Nop>>)
  /\ ShutGoto("submit", spc.ring, <<>>)
  /\ UNCHANGED <<opVars, ringState, running, cq, rpc, deadWrites>>

SubmitNop ==
  /\ spc.at = "submit"
  /\ Submit(spc.ring)
  /\ ShutGoto("join", spc.ring, <<>>)
  /\ UNCHANGED <<opVars, ringState, running, cq, rpc, deadWrites>>

JoinRun ==
  /\ spc.at = "join" /\ rpc[spc.ring] = "exit"
  /\ ringState' = [ringState EXCEPT ![spc.ring] = "exited"]
  /\ ShutGoto("exit", spc.ring, <<>>)
  /\ UNCHANGED <<opVars, queueVars, running, cq, rpc, deadWrites>>

ClearRing ==
  /\ spc.at = "exit"
  /\ ringState' = [ringState EXCEPT ![spc.ring] = "null"]
  /\ IF spc.ring = WorkerRing THEN ShutGoto("flag", FallbackRing, <<>>)
     ELSE ShutGoto("down", NoThread, <<>>)
  /\ UNCHANGED <<opVars, queueVars, running, cq, rpc, deadWrites>>

-----------------------------------------------------------------------------
IoStep(c) == TakeSqe(c) \/ PrepareSqe(c) \/ SubmitSqe(c) \/ ResumeIo(c)
RunStep(r) == RunTest(r) \/ Reap(r)
ShutStep == StopRunning \/ TakeNop \/ PrepareNop \/ SubmitNop \/ JoinRun \/ ClearRing

IoNext ==
  \/ \E c \in IoCoros : StartIo(c) \/ IoStep(c)
  \/ \E r \in Rings : RunStep(r) \/ \E u \in UserData : Complete(r, u)
  \/ BeginIoShutdown \/ ShutStep

\* The kernel completes what it accepted: a send to a peer that reads, or with a timeout.
\* Threads go on; that a worker takes a coroutine that is queued is not assumed.
\* Behaviours are finite, so that weak fairness of the whole is that of each thread.
IoGoesOn ==
  \/ \E c \in IoCoros : IoStep(c) /\ (asp[c] # NotIo \/ ion[c] # NoThread)
  \/ \E r \in Rings : RunStep(r) \/ \E u \in UserData : Complete(r, u)
  \/ ShutStep

IoSpec == IoInit /\ [][IoNext]_ioVars /\ WF_ioVars(IoGoesOn)

-----------------------------------------------------------------------------
(* Properties.                                                             *)

\* A coroutine is scheduled once for each operation, by its completion or for -ENOMEM,
\* unless a slot went to the kernel with what an earlier operation left in it.
IoWokenOnce == stale \/ \A a \in Ops : iwakes[a] <= 1

\* A slot goes to the kernel unprepared only during the shutdown, which uses the ring of a
\* thread that may be using it: a pair of which only half was there fills the queue, and
\* stays behind.
StaleOnlyInShutdown == stale => Stopping

\* The completion thread writes to an awaiter that is gone only for a linked timeout, whose
\* completion may come after that of its send.
OnlyTimeoutsWriteLate == stale \/ \A u \in deadWrites : u.part = "timeout_comp"

\* Every operation ends, until the shutdown, if the kernel accepts it: one that it refuses
\* waits for another to be submitted to the same ring.
EveryIoEnds ==
  <>[](\/ \A c \in IoCoros : ist[c] # "suspended"
       \/ Stopping
       \/ failures > 0 /\ pending[WorkerRing] # <<>>)

\* The shutdown ends if the kernel accepts the operation that wakes the completion thread.
IoShutdownEnds == <>[](spc.at \in {"up", "down"} \/ failures > 0)
=============================================================================
