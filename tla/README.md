# ethreads in TLA+

A verification project for *ethreads*, a C++20 library of coroutines, a
coroutine scheduler, a thread pool, and synchronisation primitives that work
from threads and from coroutines. Paths below are relative to the repository.

## 1. The system

| Component | Source | State | Operations |
|---|---|---|---|
| `continuation_handoff` | `include/shared_state/continuation_handoff.hpp` | one atomic word: READY flag and the address of a continuation | `set_ready`, `set_continuation`, `get_continuation` |
| `coro_task`, `coro_shared_state` | `include/coro_task.hpp` | coroutine frame, `started_`, `ready` and the result, `final_suspend_reached` | create, `start`, `co_await`, `get`, move, destroy; `final_awaiter` |
| `yield` | `include/yield.hpp` | none | reschedule the calling coroutine |
| coroutine scheduler | `src/coro_scheduler.cpp` | `external_coro_queue`, one `ws_deque` per worker, `coro_work_cv`, `shutting_down` | `schedule_coro_handle`, `coro_worker`, `init_`/`shutdown_coro_workers` |
| `ws_deque` | `include/ws_deque.hpp` | `top_`, `bottom_`, a circular array that grows | `push`, `pop` (owner), `steal` (thieves) |
| thread pool | `include/task_scheduler.hpp`, `src/task_scheduler.cpp` | workers, one channel each, estimated durations | `add_task`, `add_batch_task`, `worker`, `schedule_task`, constructor, destructor |
| `sync_channel` | `include/shared_state/channel.hpp`, `crtp_base.hpp` | deque, mutex, two condition variables, `closed_` | `send`, `try_send`, `send_for`, `receive`, `try_receive`, `receive_for`, `close` |
| async primitives | `crtp_base.hpp`, `channel.hpp`, `semaphore.hpp`, `event.hpp`, `barrier.hpp`, `shared_value.hpp` | the blocking primitive and a lock-free list of `waiter_node`s | `*_async()` awaiters, `add_waiter`, `wake_one`, `wake_all` |
| timed awaiters | `include/shared_state/timed_awaiter.hpp` | a gate shared by a timer and a waiter node | `*_async_for()` |
| timers, sleep | `timer_service.*`, `sleep.hpp` | heap of deadlines, one thread | `add_timer`, `run`, `shutdown`, `sleep`, `sleep_until` |
| cancellation | `include/cancellation.hpp` | flag, callbacks, waiters | `cancel`, `register_callback`, `unregister_callback` |
| io_uring | `io_uring_service.*`, `io_uring_ops.hpp` | a ring and a thread per worker | submit, completion loop, shutdown |
| runtime | `async_runtime.*`, `coro_awaiter.hpp` | shared data of each operation | `run`, `run_blocking` (with and without a token), `when_all`, `when_any`, `when_all_passive`, `spawn_detached` |
| `select` | `include/select.hpp` | a waiter node per channel | awaiting several channels |
| policies, concepts, allocator | `policies.hpp`, `concepts.hpp`, `allocator.*` | none | compile-time choices, memory |

**Interaction.** Everything that suspends a coroutine ends in
`schedule_coro_handle`: `start()`, `yield()`, a waker of an async primitive, a
timer, a cancellation, a completed I/O. The scheduler puts the handle in
`external_coro_queue` (a `sync_channel`) and notifies a worker. The one exception
is the end of a coroutine: `final_awaiter` transfers directly to the coroutine
that awaits it, and `continuation_handoff` decides between the two who does it.
`get()` and `~coro_task()` block or spin on the calling thread, which may be a
worker. `~task_scheduler` shuts the services down, then the coroutine workers,
then the pool.

**What is hard.** Two parties that may each resume a coroutine, or each think
the other will; the destruction of a frame while its last instructions run;
condition variables notified without their mutex; a queue closed while somebody
submits; operations of a lock-free deque interleaved access by access; a timeout
against a notification; workers blocked by what only workers can do.
`PROJECT.json` lists these hazards line by line, with the properties that would show
it going wrong, or what it does and why no property says more.

**What makes each component correct.**

* `coro_task`: exactly one party resumes; an awaiter is never stranded; nothing
  touches a destroyed frame; a waiter goes on only with a result; every wait ends
  if there are workers enough.
* scheduler: a submitted handle is resumed, and once; the shutdown ends.
* `ws_deque`: linearizable; nothing is lost, duplicated or read torn.
* channels: a bounded FIFO; no lost wake-up; `close()` ends every wait.
* async primitives and channels: one of the racing parties (a waker, the timer, the
  check at the end of `suspend_impl`, another channel of a `select`) resumes the
  coroutine; who has registered can be reached; a value goes to one receiver; no
  coroutine stays suspended while what it waits for is there, which the code keeps
  with exceptions that the properties name.
* timers and cancellation: one of the racing parties resumes the coroutine; no
  deadline is slept past; `cancel()` reaches whoever holds the token.
* I/O: a completion resumes its coroutine once; what is written to an awaiter that is
  gone is known; every operation, and the shutdown, ends.
* pool: each wait ends once and with the outcome that was stored; a cancelled wait does
  not wait for its job; the batches of `add_batch_task` partition the range.

## 2. Modules

| Module | What it is |
|---|---|
| `ForkJoin` | abstract: structured fork/join as the user of `coro_task` sees it |
| `CoroTask` | `coro_task`, `final_awaiter`, `continuation_handoff`, `yield` |
| `CoroTaskMoves` | `CoroTask` with `add_coro(task)` and move assignment |
| `CoroTask_proofs` | that a coroutine is resumed once and destroyed safely, ends with its last store, and implements `ForkJoin` |
| `Executor` | abstract: what the scheduler promises about one submission |
| `CoroScheduler` | `schedule_coro_handle`, `coro_worker`, shutdown |
| `CoroScheduler_proofs` | that it implements `Executor`, and when a handle is stranded |
| `WorkDeque` | abstract: a work-stealing deque with atomic operations |
| `WsDeque` | `ws_deque`, each atomic access a step |
| `WsDeque_proofs` | that it is linearizable, loses nothing and returns nothing twice |
| `FifoChannel` | abstract: a bounded FIFO that can be closed |
| `SyncChannel` | `sync_channel` with its mutex and condition variables |
| `SyncChannel_proofs` | that it loses no wake-up, hears `close()` and implements `FifoChannel` |
| `TimerService` | `timer_service`: heap, `run()`, `shutdown()` |
| `Cancellation` | `cancellation_state` and `co_await token.cancelled()` |
| `Sleep` | `sleep_awaiter`, composed with the last two |
| `Sleep_proofs` | that sleepers can be reached and are woken once, for a reason |
| `AsyncWaiters` | the lists of waiter nodes with `add_waiter`, `wake_one`, `wake_all`; gates and timers |
| `AsyncPrimitives` | `async_semaphore`, `async_event`, `async_barrier`, `async_shared_value` over it, for coroutines and threads |
| `AsyncChannel` | `async_channel` and `select` over it |
| `TaskPool` | `add_task`, `schedule_task`, the pool workers, their shutdown |
| `Blocking` | `run_blocking`, `when_all_passive`: coroutines that wait for the pool; composes `TaskPool` and `Cancellation` with `~task_scheduler` |
| `IoUring` | the rings, `run()`, the awaiters, the shutdown; the kernel is external |
| `IoUring_proofs` | that an operation is in one place at a time and wakes its coroutine once |
| `BatchSplit` | the arithmetic of `add_batch_task` |
| `MCQueues` | `SyncChannel` and `WsDeque` side by side |
| `MCAsync` | `AsyncPrimitives` and `AsyncChannel` over one `AsyncWaiters` |
| `Async_proofs` | that nobody is lost from the lists or scheduled twice, whom a `wake_all` misses, and that notifications, permits and values are accounted for |
| `MCRuntime` | `Blocking`, `IoUring` and `BatchSplit` side by side, and the instances |
| `Runtime_proofs` | that batches partition the range, and how waits for the pool end |
| other `MC*` | instances for TLC: owner trees, symmetry |

`CoroTask` sees the scheduler as a bag of handles (`queued`) from which a worker
takes any one; that is `Executor`'s view, which `CoroScheduler` implements
(`place[h]` goes from "new" to "pending" to "resumed", once). What the real
scheduler does worse than that, losing a wake-up, is a matter of `CoroScheduler`
alone and of no step of `CoroTask`; it is why the liveness of `CoroTask` speaks
of a scheduler whose workers do take handles (section 4).

### CoroTask and the code

`pc[a]` is where the code of a task or thread is: "none", "initial" (suspended at
`initial_suspend`), "body", "awload"/"awcas" (inside `set_continuation`),
"awaiting" (suspended), "awresume" (`await_resume`), "getwait" (`get()`), "dtor"
(the spin of the destructor), "yielded", "finload"/"fincas"/"fingetcont"/
"finstore" (inside `final_awaiter::await_suspend`), "final", "destroyed".
`hand[t]` is the handoff word, as a record of the flag and the address. `result[t]`
stands for `result` with `ready`, which change together under the mutex of the
shared state; so `get()` is two steps, the call and the return. `run[w]` is the
coroutine on worker w, `queued[t]` how often t is in the queue.

`Owner` says which scope holds each `coro_task` object. Coroutine bodies are the
client's: at each point a body may create, start, await, `get()` or drop a task it
holds, yield, return or throw. When it returns, the result is stored first and the
locals (the tasks it holds) are destroyed afterwards, with all that this takes;
when it throws, the locals go first and `unhandled_exception` stores the
exception afterwards. A thread outside the pool has `get()` but no `co_await`.
The two specialisations of `coro_task` are the same protocol and one model. Two
branches of the handoff loops, "already has a continuation" and "already ready",
are kept although with one owner per task they cannot be taken: the theorems
show this (`FirstAwaiterInv`, `HandInv`).

### CoroScheduler and the code

One submission is one handle. A worker's loop is `TestLoop`, `TryReceive` (with
the resumption), `Resumed`, `Block`; a submission `TestShutdown`, `Send`,
`NotifyOne`; the destructor `SetShuttingDown`, `NotifyAll`, `CloseQueue`, `Join`.
Each operation of the queue is one step, since it is one critical section of the
channel's mutex. Nothing pushes to the worker deques, so `pop` and `steal` in the
loop find nothing. An exception that `send()` throws leads to "thrown", where the
thread stays: what a caller does with it is not modelled. `ResumeInline` is the
fallback for `coro_workers.empty()`: a submitter that saw `shutting_down` unset can meet
it, once the destructor has cleared the vector.

### WsDeque and the code

Every load, store and compare-exchange of `top_`, `bottom_`, `array_` is a step, in
program order. The slots are plain memory: `put` writes in two steps and a thief that
reads in between gets `Torn`. `grow` is one step, since only its last store is visible
to a thief. The orders weaker than sequential consistency are not modelled. Old arrays
stay allocated, as in the code (which never frees them). Names that `SyncChannel` has
too begin with `Deque` (`DequeInit`, `DequeNext`): `MCQueues` extends both.

### SyncChannel and the code

A critical section is one step, except that a send is two, the test of `closed_`
and the push, because `close()` stores `closed_` without the mutex. A wait is a
place in a wait set; a notification, a spurious wake-up or a timeout ends it. The
`unbounded_policy` is the case that `Capacity` is not reached: `send` then never
waits, and the same test of `closed_` follows.

### TimerService, Cancellation, Sleep and the code

`TimerService` has the variables of the service (`heap`, `running`, `lock` for
`mutex_`, `tpc` for `run()`, `mpc` for `shutdown()`), a clock that advances by
itself, and for each sleep its `deadline`, its `fired` flag and the thread that
runs its coroutine. The steps of `run()` are what it does between releasing and
taking the mutex, except that the decision to wait and the wait are two steps:
`shutdown()` clears `running_` and notifies without the mutex. `Schedule` is
`schedule_coro_handle` as its caller sees it: some worker resumes the coroutine, or,
once `shutting_down` is set, the caller does and goes on when it suspends (`Busy`).

`Cancellation` is the state behind a `cancellation_source`: `cancel()` in the four
steps of the code (exchange, take the callbacks, call them, wake the list),
registration, and the coroutines in `co_await token.cancelled()`.

`Sleep` extends both. `sus[s]` is where `suspend_impl` is and `status[s]` where the
coroutine is, since the coroutine may be resumed on another thread while
`suspend_impl` has still to register its callback and to store `callback_id_`. What
it then does to an awaiter that no longer exists is undefined; the model lets it
work on the old contents, have no effect, or land in the awaiter of the next sleep
of the same coroutine, and `fired`, which is shared, keeps the outcome right in
each case.

### AsyncWaiters and the code

Awaiters, with their `waiter_node`, live in coroutine frames; a node is named by its
coroutine, and one that is constructed again in a loop has the same name, as it has the
same address. `wake_one` is its two accesses, the load of the head with `head->next`
(`WakeLoad`) and the compare-exchange (`Pop` or `Retry`); a stale `next` is used as the
code uses it. What follows the pop, the exchange of the gate and
`schedule_coro_handle`, is merged with it (`Deliver`), since nobody else can reach the
node. `wake_all` takes the whole list with one exchange, and its walk is one step.

`sus[c]` is where `suspend_impl` of the coroutine is. A waker or the timer may resume the
coroutine while `suspend_impl` still has to register a node, to check again or to
take the gate. What it then does to an awaiter that no longer exists is undefined:
`Abandon` lets it come to nothing, the ordinary steps let it do what is written.
The code does not keep a node from being reused while the list, a waker in `wake_one` or
a timer still knows it. `FreshNode` asks the client for it; without it an ABA of the
head, or a timer that fires into the next wait, is possible.

### AsyncPrimitives and the code

One object; a critical section of its mutex is one step, and the `wake_one` or
`wake_all` of the operation follows, outside the mutex, as in the code. `Ready` is the
predicate, `Taken` what passing it does, `Recheck` the second look at the end of
`suspend_impl`: the timed awaiters take what they find and ask for the gate, the
semaphore's takes a permit and schedules nobody, the others do nothing with it. Operations
that are inherited from the blocking class and wake no coroutine, `arrive_and_drop` and
`arrive_and_wait` of the barrier and `modify_and_get` of the shared value, are there
(`Unannounced`) and set `missed` for who is suspended. `missed[c]` also records that a
`wake_all` passed between a coroutine's test and its registration. `found[c]` says that
`ready_impl` or the second look has found what c waits for and c has not gone on yet.
`obj.given` and `obj.admitted` count permits released and parties let through, `lost` the
permits taken that let nobody go on: a timed acquire that has one, from `ready_impl` or
the second look, asks for another in `resume_impl`, and the second look may take one for
a coroutine that a waker has resumed meanwhile. Threads have the blocking calls with and
without timeout, on one condition variable with spurious wake-ups.

### AsyncChannel and the code

`buffer`, `closed` and two lists per channel. A waker makes the inherited and the
overridden calls: `try_send` and `try_receive` wake no coroutine, `send`, `receive` and
`close` do. `held[c]` is `value_` of a sender or `result_` of a receiver. `try_send`
takes its argument by value, so that `value_` is moved from whether or not there is
room; what that leaves depends on the type (`moves`): nothing, or, of an `int`, the
value itself. The second look of a timed send is two steps, `try_send` and the store of
`sent_` (`StoreSent`), since the timer or a waker may resume the coroutine in between;
where a move leaves the value, it is then sent twice (`overtaken`). A `select` registers
a node in the receivers' list of each channel, with one gate, and looks once more at
each; the variadic `select` repeats the same steps per channel.

### TaskPool, Blocking and the code

`add_task` reads the clock before it takes `access_mutex`, hence `\E t \in 0 .. now`; the
choice of the worker with the earliest `available_at` and the send are one step under that
mutex. `receive_for(100ms)` that times out is a step only where it matters, when the
worker then sees `shutting_down` and leaves, with jobs still in its queue.

`Blocking` has the awaiters of `run_blocking`: the job stores the result and schedules
the coroutine (`CallableJob`); with a token, the job, the callback of the token and
`await_suspend` itself race for `data->resumed` (`Win`). `when_all_passive` runs `get()`
on a pool worker (`Passive`, `Child`). Once the scheduler shuts down,
`schedule_coro_handle` resumes the coroutine on the calling thread (`on`), be it the
pool worker or `cancel()`. A send to a queue that the shutdown has closed throws: out of
the `co_await` for `callable_awaiter` and `when_all_passive` (`AwaitThrows`); out of
`await_suspend` with a token (`PostJob`), which resumes the coroutine on this thread,
also where a cancellation has scheduled it already. A coroutine whose `await_suspend`
still runs begins no further await (`sus`): the thread that runs `await_suspend` is
about to leave it, and nothing that it still does there concerns the next.
`MCBlockingNext` leaves out combinations that add states and no new interaction: a
behaviour has a cancellation or calls of `add_task`, not both.

### IoUring and the code

A coroutine worker has a ring, other threads the fallback ring. `TakeSqe`, `PrepareSqe`
and `SubmitSqe` are the parts of `await_suspend`; `Reap` is one turn of `run()`; the
steps of `shutdown()` are apart, because it uses the ring of a thread that may be
between any two of its own. Accesses to one ring by two threads are atomic steps; inside
liburing they are a data race. A ring that was released and is not yet null cannot be
used (`TakeSqe` waits): what the code does with it is undefined. A slot keeps its user
data until it is prepared again, so the half of a pair that was taken when only one slot
was free (`get_sqe_pair`) goes to the kernel with what it held last. The kernel takes or
refuses what is submitted, and completes it in any order; the linked timeout completes
before or after its send. The comment in `io_uring_service.cpp:99` says that this
shutdown comes after the workers have been joined; `~task_scheduler` shuts the rings
down first, and the model follows the code.

### BatchSplit and the code

Operators over a record of the inputs. `cacheline_size` is `thread_local` and
initialised on main and pool threads only; on others it is zero and the division traps,
so `BatchInput` asks for a line of at least one byte (`task_scheduler.cpp:90` means to
cover all threads; coroutine workers are not among them).

## 3. Runs

| Run | Shows | Bounds |
|---|---|---|
| `task` | one resumption, safe destruction, the refinement of `ForkJoin`, and that every wait ends | a parent and two children, two workers (one for the parent when it blocks), two yields in all |
| `task_nested_get` | violation: nested `get()` hangs | chain of three, two workers |
| `moves_assign` | violation: move assignment destroys a live frame | parent and child |
| `sched` | one resumption per handle, what alone can strand one, draining, what the shutdown reaches, refinement of `Executor` | two workers, two submitters, three handles, shutdown at any time |
| `sched_lost_wakeup` | violation: a handle stays queued | two workers, two handles |
| `queues` | `sync_channel`: no lost wake-up, FIFO, `close()` ends every blocked call; `ws_deque`: linearizability, no loss, no duplicate, no torn read | two senders, two receivers, capacity 1, three sends; an owner, two thieves, three pushes, capacity 1 growing to 4 |
| `sleep` | one resumption per sleep, no oversleeping, statuses, `cancel()` reaches all, every sleep ends, `join()` returns unless the notification was lost with an empty heap | one coroutine that sleeps twice (with and without a token), one awaiter of the token, one `cancel()`, clock 0 to 1, shutdown at any time |
| `sleep_stop` | violation: the shutdown locks its mutex twice | the same |
| `async` | one resumption per wait, who has registered can be reached, wake-ups of threads, whom a `wake_all` misses, where each value and each permit is | two coroutines that await up to twice, one with timeouts; two threads; two wakers with an operation each; barriers for 2 and 3; two channels of capacity 1; clock replaced by timers that may fire at any time |
| `async_missed` | violation: who finds what it waits for sleeps on | two coroutines without timeout that await again, on each primitive |
| `async_permit` | violation: two go on with one permit | the same, on a semaphore |
| `runtime` | each wait for the pool ends with its outcome, and once but for one case, `cancel()` releases, every job and the shutdown end; the same for I/O; the batches cover the range | pool of two; a coroutine in `when_all_passive` and its task, which awaits twice; two calls of `add_task`, a canceller, clock 0 to 1. I/O: two coroutines, two operations each, two slots, one refusal. Batches: up to 12 items, 4 threads, five item sizes |

An invariant of a run is often a conjunction of named parts (`NoLostWakeup` of
`ReceiverWakeups` and `SenderWakeups`, `WaitersReachable` of `WaiterIsLinked`,
`TimerBacksGate` and `SelectIsInBoth`, `PoolOutcomes` of `AwaitWokenOnce` and
`RightOutcome`); the type of the state is a conjunct of one of them in each run.

`async` checks three families of behaviours in one run (`which`): the channels, with
every pair of roles; a primitive with coroutines that await again; and a primitive with
one coroutine and two threads. `runtime` likewise has the pool, the rings and the inputs
of the split, and `queues` has the channel and the deque. The largest runs have 2,825,000
(`async`), 1,119,000 (`runtime`) and 543,000 (`sched`) distinct states.

**Why the bounds are enough.** Two children of one parent give all pairs: awaited and
dropped, running and queued, one completing while the parent awaits the other; two
workers let a parent block one while the other runs the child, and more nesting is what
the theorems cover (they hold for any owner tree). One yield puts a coroutine back in
the queue after it ran, and two let parent and child, or one child twice, do so. In the
deque, three pushes on a capacity of 1 wrap around, grow with an array that has wrapped
around, grow again, and reuse an index while both thieves are inside a steal. In the
channel three sends through one place by two senders make a sender wait that another has
overtaken, with more waiters on either side than notifications. In the scheduler a third
handle lets a worker be notified, busy and asleep at once. Two sleeps of one coroutine
give a stale entry in the heap next to a live one with an earlier or a later deadline,
an awaiter that takes the place of another, and a coroutine that the shutdown resumes
and that sleeps again; one tick gives a deadline that is over at once and one that is
still to come. In `async` two nodes give a stale `head->next`, two wakers give a pop
under another's `wake_one` and a pop under `wake_all`, a second wait of a coroutine
gives the node that comes back, and two threads with one coroutine give a notification
spent on a thread that gave up or lost its permit. In `runtime` two pool workers let
`when_all_passive` occupy one while the job of its task goes to the same or to the
other; two ring slots are just a pair, so that the second operation finds one or none
free; 12 items on 4 threads take every branch of the split, with more and fewer items to
a cache line than a share.

**Fairness, and why the code justifies it.** `CoroTask`: weak fairness of the
steps of each task and thread, and of each worker's taking a handle: the operating
system runs all threads. Strong fairness of `Leave`: the body of a coroutine is
client code that ends if it gets the chance again and again; the library cannot
promise anything about one that does not. `CoroScheduler`: weak fairness of each
thread; no spurious wake-up is assumed and nobody need submit or stop.
`SyncChannel`: a thread that asks for the mutex gets it (strong fairness of the
steps that take it), as mutexes are released in bounded time; no timeout, spurious
wake-up or call is assumed. `Sleep`: the clock advances, `run()`, `suspend_impl`,
`cancel()` and `shutdown()` go on once under way, scheduled coroutines are resumed
(what `CoroScheduler` is about), and the mutex of the service is taken by whoever
asks for it again and again; nobody need sleep, cancel or stop. `Blocking` and
`IoUring`: weak fairness of one action, everything that goes on by itself once begun
(`BlockingGoesOn`, `IoGoesOn`). Their behaviours are finite, as each loop is bounded
by what is submitted, so this is the fairness of each thread. Calls by clients are
not in it, nor that a coroutine worker takes a queued coroutine: that wake-up can be
lost (`CoroScheduler`). `async` checks no liveness: whom a wake-up misses is a state
property there.

**What the violations show.** `PROJECT.json` quotes the line of the repository
that each one contradicts. In short: (1) `get()` from coroutines nested as deep as
there are workers hangs; (2) move assignment does not wait for the coroutine it
destroys; (3) a notification that arrives between a worker's last look at the queue
and its wait is lost; (4) a coroutine that the shutdown of the timer service resumes
inline, with the mutex of the service held, and that sleeps again locks that mutex
twice; (5) a coroutine that the end of `suspend_impl` finds served, because the operation
came between its test and its registration, stays suspended, although the comments in
`event.hpp`, `barrier.hpp`, `shared_value.hpp` and `semaphore.hpp` say that it is woken;
on a semaphore it sleeps with the permit it took; (6) a permit lets two parties go on,
the coroutine that `release()` wakes and whoever takes the permit, which stays in
`count_`.

**What remains true.** Properties that would fail as a plain statement of
what one would wish say exactly what the code does instead:

* `SchedulerInv`, `AwakeWorkerDrains`: only the gap of (3) strands a handle. The
  shutdowns of the workers and of the timer service have that gap too: they notify
  without the mutex, and a worker, or `run()`, that is between its test and its wait then
  sleeps while `join()` waits for it. `ShutdownReaches` leaves out the workers in the gap
  and says nothing of it. `JoinReturns` says that `join()` on the timer thread hangs only
  where the notification fell into the gap and the heap was empty; the history variable
  `stopMissed` records the first.
* `WakeAllReleases`: the `wake_all` of a set(), the end of a phase, a store or a close
  reaches who registered before it. Left suspended is who tested before and registered
  after it without a timeout, or whom an operation passed by that wakes no coroutine; of a
  channel also a sender without timeout, which does not ask whether the channel is closed.
  Semaphores, automatic events, values in a buffer and `select`, which looks at no closed
  channel, are not in it.
* `PermitLedger`: each permit given is in `count_`, has let somebody go on, is held by a
  coroutine still to go on, or was lost by an acquire that took two or came too late for
  its coroutine; and none lets more than two parties go on.
* `EachValueOnce`: no value is duplicated, but that of a timed sender which is resumed
  while its `suspend_impl` sends it, if a move leaves the value as it was: the coroutine
  may send it again. A value can be lost: a sender that was woken drops it.
* `PoolOutcomes`: a wait for the pool is resumed once, except that, after a queue has
  been closed, a cancellation and the exception out of `await_suspend` may both resume it.
* `SuspendedIsServed`, `EveryJobEnds`, `ShutdownsEnd`: a job does not end where
  `when_all_passive` occupies the worker that its task needs, or after the shutdown has
  begun, since pool workers leave with jobs queued; `~task_scheduler` then hangs if a
  worker is in `get()` for a task that is left behind. This is why deadlock is not
  checked in this run.
* `EveryIoEnds`, `ShutdownsEnd`, `StaleAccesses`: an operation that the kernel refused
  waits for somebody else's submission; a refusal of the shutdown's own operation leaves
  its thread in `join()`; the completion of a linked timeout is written to an awaiter
  that may be gone: its null handle is skipped (`io_uring_ops.hpp:114`), its result and
  flags are not.
* A timed awaiter may be resumed by its timer while `suspend_impl` still runs
  (`timer_service.hpp:23` relies on awaiters that live for the full deadline: one that a
  waker has resumed does not); `ResumedOnce` holds for clients that keep `FreshNode`.

A submission that overlaps the shutdown may find the queue closed and throw
("thrown" in `CoroScheduler`). `add_coro(task)` starts its parameter and returns it
by move, which the assertion of the move constructor forbids.

## 4. Proofs

`CoroTask_proofs` proves for every set of tasks, threads and workers, every
ownership function and every bound on yields, from the assumptions named in
`CoroTask` (names are distinct, nobody owns itself):

* `TypeCorrect`, `OneResumer`, `DestroyIsSafe`, `AwaitResumeNeverBlocks`,
  `NoStrandedAwaiter`: the five state properties of `task`.

None of them is inductive alone. That a coroutine is not resumed twice depends on
who may hold its handle, that on the handoff word, that on how far `final_awaiter`
is, and that on the frame's being alive, which depends on the owner's being inside
the operation. `IInv` is the conjunction: `WorkersInv` (who is on a CPU),
`QueueInv` (what may be queued), `StartedInv`, `ResultInv`, `OpsInv` (an
operation is on a live, started task of its caller), `HandInv` (READY is set
exactly from the compare-exchange of `set_ready` on, and while a continuation is
in the word without it the owner is suspended in `co_await`), `FirstAwaiterInv`
(who publishes a continuation is the first to), `AwaitResumeHasResult`,
`AwaiterInv`, `FinalInv`, `TreeInv` (a scope outlives what it holds). There is one
lemma per part, with one step per action, and `InductiveStep` puts them together.

It also proves, from the same invariant and for the same constants:

* `ForkJoinRefined`: the property `ImplementsForkJoin`. Most steps are invisible to the
  user of `coro_task`: the handoff, the queue, the transfer (`QuietSteps`). The others
  change one task's status or one actor's wait, and there is one lemma for each. A
  co_await that is resumed by `final_awaiter` is still a wait; it ends in
  `await_resume`, which finds the result. A task finishes when it stores
  `final_suspend_reached`, and by `TreeInv` holds no frame then.
* `PublishIsLast`: the property `NothingAfterPublish`. It adds that READY is set wherever
  `final_suspend_reached` is (`PublishedInv`), and that neither is ever taken back.

`Runtime_proofs` proves for every number of items and threads and all sizes:

* `BatchesPartition`: every item is in exactly one batch. The batch of item x is number
  x div the size of a batch, or the last. `DivBounds` gives the quotient and remainder
  that the provers need, `BatchSizeType` that a batch has at least one item, and
  `Multiples` that the ends of two batches are in the order of their numbers.
* `BatchesStayInRange`: no batch begins or ends outside the range, or ends before it
  begins. The run checks both on small inputs (`BatchesCover`).

and for every number of pool workers, coroutines, awaits of each, futures, cancelling
threads and any length of the clock, where each task goes into one `when_all_passive`
(`BlockingAssumption`):

* `PoolAwaitsEnd`: the property `PoolOutcomes`. Of the job, the cancel callback and the
  check in `await_suspend`, at most one schedules the coroutine, and what it finds was
  stored; an exception out of `await_suspend` leaves no job behind (`Thrown`), so that
  only a cancellation can have scheduled it too, and means that a queue is closed
  (`ThrowInv`).
* `SuspendedAreServed`: the property `SuspendedIsServed`.

The inductive invariant is `BlockingInv`. Who may wake a coroutine depends on where its
job is, on who has its callback and on how far `await_suspend` is, which may still
register a callback for an await that is over. `Place` says this of a coroutine (a job is
submitted unless `await_suspend` has yet to register, the callback is somewhere while it
is suspended), `AwaitInv` of one of its awaits (untouched before its turn, woken exactly
when `resumed` is set, a plain one only by a job that is gone then), `OnePlace` that a
plain job is in one queue or with one worker, `CancelInv` that callbacks that are left
after `cancel()` are still to be taken. `LeastNumber` (a set of numbers has a least one,
by the library's `WFMin`) makes the choice of the worker in `schedule_task` a choice.

`IoUring_proofs` proves for every number of coroutines and of operations of each, with
timeouts for any of them, any number of slots of at least one and any refusals by the
kernel, from the assumptions that names are distinct and that the shutdown's user data is
no operation's (`IoNamesAssumption`, `NopAssumption`):

* `IoAwaitsEnd`: the property `IoOutcomes`. Each operation schedules its coroutine at most
  once, as long as no slot was submitted before it was prepared.
* `OnlyKnownStaleAccesses`: the property `StaleAccesses`. That happens during the
  shutdown only, and of the completions only a linked timeout's is written to an awaiter
  that is gone.

The inductive invariant is `IoInv`. The user data of a send is in at most one place, a
prepared slot, the kernel or the completion queue (`Once`), and while it is anywhere its
coroutine is suspended on that very operation and not yet woken (`OpInv`). That another
operation does not overwrite it needs arithmetic: the slots taken and not yet submitted
go round the ring (`RingInv`) and are at most as many as it has, so they differ
(`RemaindersDiffer`), and those of one `await_suspend` are its own until it has prepared
them (`IoPlace`, `SlotsApart`). Until the shutdown the worker's ring is used by one
coroutine at a time, so a submission finds an unprepared slot there only when a pair of
which one half was taken met a full queue (`OneAtATime`). There is one lemma for each
thing that happens to a queue (`Taking`, `Preparing`, `Submitting`, `Completing`,
`Reaping`) and one for each action.

`SyncChannel_proofs` proves for all finite sets of senders and receivers, every
capacity of at least one and every bound on the sends:

* `WakeupsSuffice`: the property `NoLostWakeup`. While receivers wait, no more values
  are in the buffer than receivers are on their way; likewise senders and free places.
* `CloseIsHeard`: the property `CloseWakesAll`, that nobody waits once `close()` is over.
* `FifoRefined`: the property `ImplementsFifoChannel`. A send takes effect where it finds
  room and keeps the mutex; the push, which may come after `close()` has stored `closed_`,
  is invisible, since nobody else gets the mutex in between.

`IInv` adds to them `HolderInv` (who holds the mutex between two steps is a sender that
found room, and the room is still there) and `ClosedInv` (`closed_` is set before the
notifications). The argument counts: a value put in or taken out changes the buffer by
one, a notification adds one thread to those on their way if anybody waits
(`OneMore`), and a thread that arrives takes at most one away (`OneLess`).

`CoroScheduler_proofs` proves for every set of workers, submitters and handles:

* `Refinement`: the property `ImplementsExecutor`, that each submission is resumed at
  most once, by a worker or by its submitter, or refused. `PlaceInv` is the argument: a
  handle that was submitted is with one caller (between the test of `shutting_down` and
  the push, or since `send()` threw), or once in the queue, or was resumed. Each step
  moves at most one handle (`OneMoves`, `NoneMoves`).
* `OnlyTheGapStrands`: the property `SchedulerInv`. `StrandedOnlyByGap` is inductive
  with the type invariant.

`Sleep_proofs` proves for every set of sleeps, tokens, cancelling threads and awaiters,
every order of sleeps in coroutines (`Prev`) and any length of the clock:

* `OneWaker` (`WokenOnce`), `SleepersAreReached` (`SleepInv`), `DeadlinesAreKept`
  (`NeverOversleeps`) and `CancellationIsHeard` (`CancelReachesAll`).

`IInv` adds to these who holds the timer's mutex and has ended when (`ServiceInv`), that
nothing of a sleep exists before its coroutine reaches it and that it goes on only once
resumed (`LifeInv`), who has the callbacks (`CallbackInv`, `RegisteredInv`), why a sleep
was resumed (`ReasonInv`), that a `callback_id_` that was written into the wrong awaiter
names a sleep that was resumed already, so that unregistering it harms nobody (`IdInv`),
that a `cancel()` is coming for whoever is in the list (`AwaiterInv`), and that the
deadline of `run()` is the earliest from its choice on (`DeadlineInv`). `StopIsHeard`, a
part of `SleepInv`, says that after the shutdown has notified it `run()` waits only if
`stopMissed`: that it may hang then is `JoinReturns`, which TLC checks. There is one
lemma per part; actions that leave its variables alone share a step.

`WsDeque_proofs` proves for any number of thieves and of pushes and any initial capacity:

* `Linearizable`: the property `ImplementsWorkDeque`. A push takes effect in its store of
  `bottom_`, a steal in its compare-exchange, a pop in the load of `top_` if there is
  more than one item and in its compare-exchange if there is one.
* `EachItemOnce` (`ReturnedOnce`), `NothingIsLost` (`ContentInv`) and
  `StaleArraysAreHarmless` (`WinnerHoldsTop`).

`IInv` adds to these how the owner's locals relate to the indices (`OwnerInv`: the
`top_` that a push compared may be old, but thieves only make room), that a thief whose
`top_` is still the top finds the item there in whichever array it has loaded
(`ThiefInv`), that the items of the content differ and have not come out (`HeldInv`), and
what has (`OutInv`). `PutFacts` and `GrowFacts` rest on `SlotsDiffer`: indices less than
a capacity apart have different slots.

`Async_proofs` proves for any finite sets of coroutines, threads and wakers, with timeouts
for any of the coroutines and any number of operations:

* `NoNotificationLost`: the property `ThreadWakeups`. A coroutine only takes away
  (`QuietStep`), an operation that gives notifies as many threads as it gives, or
  everybody (`NotifyWakes`), and a thread that goes on takes at most one. The type part
  of the invariant says that a barrier's count never passes `expected`, although
  `arrive_and_drop()` lowers both.
* `PermitsAreAccounted`: the property `PermitLedger`. Twice the permits given cover the
  parties admitted, the permits left, the coroutines on their way with one (`Granted`)
  and the calls of `wake_one` still to come (`Owed`): `PermitInv`. And the permits left,
  the parties admitted, the permits lost and the coroutines that hold one (`Holders`)
  are together at least those given: `LedgerInv`.
* `PrimitiveAwaitersAreServed` and `ChannelAwaitersAreServed`: on a primitive, and on
  the channels, each await is scheduled once, who has registered stays in the lists, and
  a `wake_all` leaves nobody suspended who registered before it. `ScheduledOnce`
  (`ResumedOnce`), `SuspendedAreReachable` (`WaitersReachable`) and
  `WakeAllLeavesNobody` (`WakeAllReleases`) state the run's properties of `MCAsync`,
  where either is at work; its `Next` bounds how often coroutines await, as the run
  does, and the two theorems before do not.
* `ValuesAreNotCopied`: the property `EachValueOnce`, of `MCAsync`, where on the
  channels each coroutine awaits once: a coroutine's name is the value that it sends.
  Both ways that a move may leave its source are covered (`moves`).

Three invariants of the lists and of the state of the coroutines carry the others
(`WaitersInv`). A list is a `Spine`, a sequence of distinct nodes linked by `next`; its
length is at most the number of coroutines (`SpineLength`), so the bounded walk that the
model calls `Chain` reaches all of it (`ChainIs`, by the least node that it would miss
instead of an induction). A waker in `wake_one` has in its hands the `next` that its
node still has, and no `suspend_impl` is about to put that node in (`CallInv`): with
`FreshNode`, which keeps a node from coming back while a waker holds it, the
compare-exchange that succeeds is on the head of the same list (no ABA). A suspended
coroutine is in the lists that it uses (`LinkedIn`, `NodeInv`), and whoever may schedule
it finds it suspended, or its gate taken (`GateInv`). Each way of getting at a
coroutine, a list or a gate has one lemma (`PrepareNodeStep`, `RegisterStep`,
`HoldStep`, `DeliverStep`, `TakenStep`), and a primitive's or a channel's action is one
of them with more said of its own state.

Whom a `wake_all` misses needs a look ahead: as long as a `wake_all` is announced, by a
call that has yet to take the list or by a party that ended a phase of the barrier and
has yet to make the call (`Announced`, `Coming`), the coroutines that it will find are
excused. `GapInv` and `CloseInv` say that otherwise they had `missed` it and have no
timeout. The places of a value, in a buffer or with a coroutine that has received it,
are one at most (`OneCopy`), and none before it is sent (`Unused`).

The assumptions are those of the modules: names are distinct, also from the values that
are sent, coroutines, wakers and threads are finitely many, the two channels of a
`select` differ, and the capacity and the number of awaits are at least one. A `select`
over one channel twice, which the code does not exclude, would put two nodes of one
coroutine in one list; the model names a node by its coroutine and its list and has no
such pair.

Model-checked only: all liveness (`EveryWaitEnds`, `AwakeWorkerDrains`,
`ShutdownReaches`, `BlockedCallsEnd`, `EverySleepEnds`, `JoinReturns`, `EveryJobEnds`,
`EveryIoEnds`, `ShutdownsEnd`). Liveness under fairness, and anything with ENABLED, is
out of the prover's reach.

## 5. Not modelled, and the plan

Left out for good: memory orders weaker than sequential consistency (the handoff and the
flags are acquire/release on single words; the deque puts sequentially-consistent fences
where its algorithm needs them), data races inside liburing, the allocator, the
compile-time policies and concepts, the contents of results and exceptions, tasks passed
as arguments into other coroutines (their owner is fixed here), `wait_until` of the
shared value with a predicate over the value (only versions are kept), and the list of
detached tasks (`spawn_detached`, `collect_detached`), which is a vector under a mutex.
`when_all` and `when_any` are `start`, `co_await`, `is_ready` and `yield` in an order of
their own; `CoroTask` lets a body do these in any order. `run` is `get()`.

What is left: the list of detached tasks, and the places of values on a channel whose
coroutines await more than once.
