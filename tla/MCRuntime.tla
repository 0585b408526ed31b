----------------------------- MODULE MCRuntime -----------------------------
(***************************************************************************)
(* Instances of Blocking (p in when_all_passive, q its task) and IoUring,  *)
(* and BatchSplit over bounded inputs.  They share no state: a behaviour   *)
(* is of one of them, `which'; one of BatchSplit is its initial state.     *)
(***************************************************************************)
EXTENDS Blocking, IoUring, BatchSplit

CONSTANTS p, q, f, g

VARIABLES which, input

MCAwaits == Coros \X (1 .. MaxAwaits)
MCJobs == {f, g} \union MCAwaits
MCChild == [c \in {p} |-> q]

\* Up to 12 items on up to 4 threads, smaller and larger than a cache line of 64 bytes.
MCInputs == [items : 0 .. 12, threads : 1 .. 4, itemSize : {1, 8, 40, 64, 200}, line : {64}]

\* Not both a cancellation and a call of add_task in one behaviour: a plain await has no
\* token, and a cancellable one meets the queues through q's own jobs.
MCBlockingNext == BlockingNext /\ IF role[q] = "plain" THEN ~cancelled' ELSE called' = {}

TypeOK == BlockingTypeOK /\ IoTypeOK

\* Whatever completion, cancellation and await_suspend race for it, a coroutine that awaits
\* the pool is resumed once and finds an outcome that somebody stored; twice only by a
\* cancellation and by the exception of a queue that the shutdown has closed.
PoolOutcomes == BlockingTypeOK /\ AwaitWokenOnce /\ RightOutcome

\* A coroutine that stays suspended has its job in the pool, and no cancellation behind it.
SuspendedIsServed == WaiterHasJob /\ CancelReleases

\* A coroutine that awaits an operation of the ring is scheduled once.
IoOutcomes == IoTypeOK /\ IoWokenOnce

\* What the ring does with entries and awaiters that are not what they were.
StaleAccesses == StaleOnlyInShutdown /\ OnlyTimeoutsWriteLate

\* add_batch_task hands every item to one call of add_task, whatever the size of an item
\* and of a cache line, and never an iterator outside the range.
BatchesCover == which = "batch" => EachItemOnce(input) /\ BatchesInRange(input)

Init ==
  /\ \/ which \in {"pool", "io"} /\ input = NoJob
     \/ which = "batch" /\ input \in MCInputs
  /\ BlockingInit /\ IoInit

Next ==
  /\ UNCHANGED <<which, input>>
  /\ \/ which = "pool" /\ MCBlockingNext /\ UNCHANGED ioVars
     \/ which = "io" /\ IoNext /\ UNCHANGED vars

GoesOn ==
  /\ UNCHANGED <<which, input>>
  /\ \/ which = "pool" /\ BlockingGoesOn /\ UNCHANGED ioVars
     \/ which = "io" /\ IoGoesOn /\ UNCHANGED vars

all == <<which, input, vars, ioVars>>

Spec == Init /\ [][Next]_all /\ WF_all(GoesOn)

\* ~task_scheduler ends, and so does its shutdown of the rings, with the exceptions that
\* the two parts name.
ShutdownsEnd == ShutdownEnds /\ IoShutdownEnds
=============================================================================
