-------------------------- MODULE AsyncPrimitives --------------------------
(***************************************************************************)
(* async_semaphore, async_event (with automatic and with manual reset),    *)
(* async_barrier and async_shared_value: one object, the coroutines that   *)
(* co_await it, the threads that block on it, and whoever releases, sets,  *)
(* arrives or stores.  Every critical section of the object's mutex is one *)
(* step; wake_one and wake_all come after it and are AsyncWaiters'.        *)
(***************************************************************************)
EXTENDS AsyncWaiters

CONSTANTS Kinds,     \* the kinds of object
          Timed,     \* the coroutines that await with a timeout where there is one
          Threads,   \* the threads that use the blocking calls
          Obj,       \* the object
          Parties,   \* the numbers of parties that a barrier is made for
          MaxOps     \* bound: operations of one waker, and blocking calls of one thread

ASSUME KindsAssumption ==
  Kinds \subseteq {"semaphore", "auto_event", "manual_event", "barrier", "value"}
ASSUME ObjAssumption == Obj \in Objects
ASSUME ThreadsAssumption == IsFiniteSet(Threads) /\ Threads \intersect Actors = {}
ASSUME PartiesAssumption == Parties # {} /\ Parties \subseteq Nat \ {0}

VARIABLES obj,     \* the object
          token,   \* phase of the arrival_token, or since_version_, of each party
          found,   \* TRUE: ready_impl, or the check at the end of suspend_impl, has found
                   \* what the coroutine awaits, and it has not gone on yet
          lost,    \* number of permits taken that let nobody go on
          thr,     \* per thread: "idle", "test", "wait", "woken", "late", "done"
          calls    \* number of blocking calls, or operations, of a thread or waker

primitiveVars == <<obj, token, found, lost, thr, calls>>

Waiters == <<Obj, "waiters_">>

PrimitivesTypeOK ==
  /\ obj.kind \in Kinds
  /\ obj.permits \in Nat /\ obj.signaled \in BOOLEAN
  /\ obj.phase \in Nat /\ obj.version \in Nat
  /\ obj.expected \in Nat /\ obj.count \in 0 .. obj.expected
  /\ found \in [Coros -> BOOLEAN] /\ lost \in Nat
  /\ thr \in [Threads -> {"idle", "test", "wait", "woken", "late", "done"}]

\* given and admitted count for the properties: permits given, and waits that ended with
\* success.
Object(kind, parties) ==
  [kind |-> kind, permits |-> 0, signaled |-> FALSE, count |-> parties,
   expected |-> parties, phase |-> 0, version |-> 0, given |-> 0, admitted |-> 0]

PrimitivesInit ==
  /\ \E k \in Kinds : \E n \in IF k = "barrier" THEN Parties ELSE {0} : obj = Object(k, n)
  /\ token = [x \in Actors \union Threads |-> Null]
  /\ found = [c \in Coros |-> FALSE] /\ lost = 0
  /\ thr = [t \in Threads |-> "idle"]
  /\ calls = [x \in Threads \union Wakers |-> 0]

Is(kind) == obj.kind = kind
Broadcasts == obj.kind \in {"manual_event", "barrier", "value"}
HasTimedAwaiter == obj.kind \in {"semaphore", "auto_event", "manual_event"}

-----------------------------------------------------------------------------
(* What x waits for, and what it leaves behind when it gets it.             *)

SemaphoreReady == obj.permits > 0
Acquired == [obj EXCEPT !.permits = @ - 1]
EventReady == obj.signaled
Waited == [obj EXCEPT !.signaled = obj.kind = "manual_event"]
BarrierReady(x) == obj.phase # token[x]
ValueReady(x) == obj.version # token[x]

Ready(x) ==
  \/ Is("semaphore") /\ SemaphoreReady
  \/ (Is("auto_event") \/ Is("manual_event")) /\ EventReady
  \/ Is("barrier") /\ BarrierReady(x)
  \/ Is("value") /\ ValueReady(x)

Taken == CASE Is("semaphore") -> Acquired
           [] Is("auto_event") \/ Is("manual_event") -> Waited
           [] OTHER -> obj

\* A wait of the client ends with success.
Admit(o) == obj' = [o EXCEPT !.admitted = @ + 1]

\* A permit that was taken is of no use to the coroutine any more.
Loses(yes) == lost' = IF yes /\ Is("semaphore") THEN lost + 1 ELSE lost

\* The coroutine has not gone on from its await yet.
StillAwaits(c) == st[c] \in {"awaiting", "runnable"}

Finds(c, yes) == found' = [found EXCEPT ![c] = yes]

-----------------------------------------------------------------------------
(* The condition variable: threads inside wait().                          *)

AtWait == {t \in Threads : thr[t] = "wait"}
WakeThreads(ts) == thr' = [t \in Threads |-> IF t \in ts THEN "woken" ELSE thr[t]]

\* n calls of notify_one() under the mutex.
Notify(n) ==
  \E ts \in SUBSET AtWait :
    /\ Cardinality(ts) = IF n < Cardinality(AtWait) THEN n ELSE Cardinality(AtWait)
    /\ WakeThreads(ts)

NotifyAll == WakeThreads(AtWait)

\* An operation that changes what the coroutines wait for and wakes none of them.
Unannounced ==
  missed' = [c \in Coros |-> missed[c] \/ st[c] = "awaiting"]

-----------------------------------------------------------------------------
(* Operations.                                                             *)

Operate(w) ==
  /\ wk[w] = Idle
  /\ calls[w] < MaxOps
  /\ calls' = [calls EXCEPT ![w] = @ + 1]
  /\ UNCHANGED <<listVars, frameVars, st, wakes, found, lost>>

\* Mutant: one notification for n permits.
ReleaseNotifiesOne(w, n) ==
  /\ Is("semaphore")
  /\ Operate(w)
  /\ obj' = [obj EXCEPT !.permits = @ + n, !.given = @ + n]
  /\ Notify(1)
  /\ SetWake(w, WakeOne([i \in 1 .. n |-> Waiters]))
  /\ UNCHANGED <<token, missed>>

\* release(n)
Release(w, n) ==
  /\ Is("semaphore")
  /\ Operate(w)
  /\ obj' = [obj EXCEPT !.permits = @ + n, !.given = @ + n]
  /\ Notify(n)
  /\ SetWake(w, WakeOne([i \in 1 .. n |-> Waiters]))
  /\ UNCHANGED <<token, missed>>

\* set()
Set(w) ==
  /\ Operate(w)
  /\ obj' = [obj EXCEPT !.signaled = TRUE, !.given = @ + 1]
  /\ \/ Is("auto_event") /\ Notify(1) /\ SetWake(w, WakeOne(<<Waiters>>))
     \/ Is("manual_event") /\ NotifyAll /\ SetWake(w, WakeAll(<<Waiters>>))
  /\ UNCHANGED <<token, missed>>

\* reset()
Reset(w) ==
  /\ Is("auto_event") \/ Is("manual_event")
  /\ Operate(w)
  /\ obj' = [obj EXCEPT !.signaled = FALSE]
  /\ UNCHANGED <<token, thr, missed, wk>>

CompletePhase(o) == [o EXCEPT !.count = o.expected, !.phase = @ + 1]

Completed(o) == IF o.count = 0 THEN CompletePhase(o) ELSE o
NotifyPhase(o) == IF o.count = 0 THEN NotifyAll ELSE UNCHANGED thr

\* arrive() of the base class: a party gets its token; the last one ends the phase.
Arrive(x) ==
  LET o == [obj EXCEPT !.count = @ - 1] IN
    /\ Is("barrier")
    /\ obj.count > 0
    /\ obj' = Completed(o)
    /\ NotifyPhase(o)
    /\ token' = [token EXCEPT ![x] = obj.phase]

\* async_barrier::arrive by a party that does not wait: at most once per phase.
ArriveOnly(w) ==
  /\ token[w] # obj.phase
  /\ Operate(w)
  /\ Arrive(w)
  /\ SetWake(w, [WakeAll(<<Waiters>>) EXCEPT !.at = "arrived"])
  /\ UNCHANGED missed

\* ... and its test of the phase, after which it wakes the coroutines.
AfterArrive(a) ==
  /\ wk[a].at = "arrived"
  /\ SetWake(a, IF BarrierReady(a) THEN WakeAll(<<Waiters>>) ELSE Idle)
  /\ UNCHANGED <<listVars, frameVars, st, wakes, missed, primitiveVars>>

\* arrive_and_drop(), which async_barrier inherits: no coroutine is woken.
ArriveAndDrop(w) ==
  LET o == [obj EXCEPT !.expected = @ - 1, !.count = @ - 1] IN
    /\ Is("barrier")
    /\ token[w] # obj.phase
    /\ obj.count > 0
    /\ Operate(w)
    /\ obj' = Completed(o)
    /\ NotifyPhase(o)
    /\ token' = [token EXCEPT ![w] = obj.phase]
    /\ IF o.count = 0 THEN Unannounced ELSE UNCHANGED missed
    /\ UNCHANGED wk

\* increment_version() and notify_all() under the mutex.
NewVersion == obj' = [obj EXCEPT !.version = @ + 1] /\ NotifyAll

\* store(), exchange(), modify(), and compare_exchange() when it succeeds.
Store(w) ==
  /\ Is("value")
  /\ Operate(w)
  /\ NewVersion
  /\ SetWake(w, WakeAll(<<Waiters>>))
  /\ UNCHANGED <<token, missed>>

\* modify_and_get(), which async_shared_value inherits: no coroutine is woken.
ModifyAndGet(w) ==
  /\ Is("value")
  /\ Operate(w)
  /\ NewVersion
  /\ Unannounced
  /\ UNCHANGED <<token, wk>>

-----------------------------------------------------------------------------
(* Threads: acquire(), wait(), arrive_and_wait(), wait_for_change() and     *)
(* their variants with a timeout.                                          *)

\* The call.  On a barrier it is arrive_and_wait(), which is the base class's: the
\* thread arrives, and no coroutine is woken.
Call(t) ==
  /\ thr[t] \in {"idle", "done"} /\ calls[t] < MaxOps
  /\ calls' = [calls EXCEPT ![t] = @ + 1]
  /\ IF Is("barrier")
     THEN LET o == [obj EXCEPT !.count = @ - 1] IN
            /\ obj.count > 0
            /\ obj' = Completed(o)
            /\ token' = [token EXCEPT ![t] = obj.phase]
            /\ thr' = [s \in Threads |-> IF s = t THEN "test"
                         ELSE IF o.count = 0 /\ thr[s] = "wait" THEN "woken" ELSE thr[s]]
            /\ IF o.count = 0 THEN Unannounced ELSE UNCHANGED missed
     ELSE /\ thr' = [thr EXCEPT ![t] = "test"]
          /\ token' = [token EXCEPT ![t] = obj.version]
          /\ UNCHANGED <<obj, missed>>
  /\ UNCHANGED <<listVars, frameVars, st, wakes, wk, found, lost>>

ThrGoto(t, p) ==
  /\ thr' = [thr EXCEPT ![t] = p]
  /\ UNCHANGED <<token, found, lost, calls, waiterVars>>

\* The predicate of cv_.wait: what was waited for is there, ...
ThreadGets(t) ==
  /\ thr[t] \in {"test", "woken", "late"}
  /\ Ready(t)
  /\ Admit(Taken)
  /\ ThrGoto(t, "done")

\* ... or not: the thread waits, or gives up if its deadline has passed.
ThreadWaits(t) ==
  /\ thr[t] \in {"test", "woken", "late"}
  /\ ~Ready(t)
  /\ ThrGoto(t, IF thr[t] = "late" THEN "done" ELSE "wait")
  /\ UNCHANGED obj

\* A timeout, or a wake-up for no reason.
ThreadWakes(t) ==
  /\ thr[t] = "wait"
  /\ ThrGoto(t, "late") \/ ThrGoto(t, "woken")
  /\ UNCHANGED obj

-----------------------------------------------------------------------------
(* Coroutines.                                                             *)

\* What comes before co_await: arrive() on a barrier, version() of a value.
Prepare(c) ==
  /\ MayAwait(c)
  /\ \/ Arrive(c) /\ SetWake(c, [WakeAll(<<Waiters>>) EXCEPT !.at = "arrived"])
     \/ /\ Is("value")
        /\ token' = [token EXCEPT ![c] = obj.version]
        /\ UNCHANGED <<obj, thr, wk>>
  /\ st' = [st EXCEPT ![c] = "prepared"]
  /\ UNCHANGED <<listVars, frameVars, wakes, missed, found, lost, calls>>

BeginsAwait(c) ==
  IF obj.kind \in {"barrier", "value"} THEN st[c] = "prepared" /\ wk[c] = Idle
  ELSE MayAwait(c)

IsTimed(c) == c \in Timed /\ HasTimedAwaiter

\* ready_impl succeeds.
AwaitReady(c) ==
  /\ BeginsAwait(c)
  /\ Ready(c)
  /\ obj' = Taken
  /\ Finds(c, TRUE)
  /\ GoOn(c)
  /\ UNCHANGED <<token, lost, thr, calls>>

\* ready_impl of a timed awaiter finds that the deadline has passed.
AwaitTooLate(c) ==
  /\ BeginsAwait(c)
  /\ IsTimed(c) /\ ~Ready(c)
  /\ GoOn(c)
  /\ UNCHANGED primitiveVars

\* ready_impl fails.
AwaitSuspend(c) ==
  /\ BeginsAwait(c)
  /\ ~Ready(c)
  /\ IF IsTimed(c) THEN Suspend(c, "open", "arm") ELSE Suspend(c, "none", "add")
  /\ UNCHANGED primitiveVars

RegisterNode(c) ==
  /\ sus[c] = "add"
  /\ Register(c, Waiters, "check")
  /\ UNCHANGED primitiveVars

\* The check at the end of suspend_impl.  The timed awaiters take what they find and
\* ask for the gate; the semaphore's takes a permit and leaves it at that; the others
\* look and do nothing.  Nobody can use what it takes for a coroutine that has gone.
Recheck(c) ==
  /\ sus[c] = "check"
  /\ IF Ready(c) /\ (IsTimed(c) \/ Is("semaphore"))
     THEN obj' = Taken /\ SusGoto(c, IF IsTimed(c) THEN "gate" ELSE "none")
     ELSE SusGoto(c, "none") /\ UNCHANGED obj
  /\ Finds(c, Ready(c) /\ StillAwaits(c))
  /\ Loses(Ready(c) /\ ~StillAwaits(c))
  /\ UNCHANGED <<listVars, gate, timer, st, awaits, wakes, missed, wk, token, thr, calls>>

\* resume_impl of the awaiters without a timeout does nothing, whether or not the
\* coroutine has taken a permit.
ResumePlain(c) ==
  /\ ~IsTimed(c)
  /\ Resume(c)
  /\ Admit(obj)
  /\ Finds(c, FALSE)
  /\ UNCHANGED <<token, lost, thr, calls>>

\* resume_impl of the timed ones tries the operation, once more if ready_impl or the
\* check had done it: try_acquire(), or try_wait() || is_set().
ResumeTimed(c) ==
  /\ IsTimed(c)
  /\ IF Ready(c) THEN Admit(Taken) /\ Resume(c)
     ELSE ResumeAt(c, IF Is("semaphore") THEN "done" ELSE "relook") /\ UNCHANGED obj
  /\ Finds(c, FALSE)
  /\ Loses(found[c])
  /\ UNCHANGED <<token, thr, calls>>

\* is_set()
Relook(c) ==
  /\ st[c] = "relook"
  /\ st' = [st EXCEPT ![c] = "done"]
  /\ obj' = [obj EXCEPT !.admitted = IF obj.signaled THEN @ + 1 ELSE @]
  /\ UNCHANGED <<token, found, lost, thr, calls, listVars, frameVars, wakes, missed, wk>>

-----------------------------------------------------------------------------
PrimitivesCoro(c) == RegisterNode(c) \/ Recheck(c) \/ ResumePlain(c) \/ ResumeTimed(c) \/ Relook(c)

PrimitivesOp(w) ==
  \/ \E n \in 1 .. 2 : Release(w, n)
  \/ Set(w) \/ Reset(w)
  \/ ArriveOnly(w) \/ ArriveAndDrop(w)
  \/ Store(w) \/ ModifyAndGet(w)

PrimitivesNext ==
  \/ \E c \in Coros :
       \/ Prepare(c) \/ AwaitReady(c) \/ AwaitTooLate(c) \/ AwaitSuspend(c)
       \/ PrimitivesCoro(c)
       \/ Arm(c) /\ UNCHANGED primitiveVars
       \/ TakeGate(c) /\ UNCHANGED primitiveVars
       \/ TimerFires(c) /\ UNCHANGED primitiveVars
       \/ Abandon(c) /\ UNCHANGED primitiveVars
  \/ \E t \in Threads : Call(t) \/ ThreadGets(t) \/ ThreadWaits(t) \/ ThreadWakes(t)
  \/ \E w \in Wakers : PrimitivesOp(w)
  \/ \E a \in Actors : AfterArrive(a)
  \/ \E a \in Actors : WakeStep(a) /\ UNCHANGED primitiveVars

PrimitivesSpec ==
  WaitersInit /\ PrimitivesInit /\ [][PrimitivesNext]_<<waiterVars, primitiveVars>>

-----------------------------------------------------------------------------
(* Properties.                                                             *)

\* Blocking calls lose no notification: what everybody waits for, no thread waits for
\* once it is there; a permit, or the signal of an automatic event, has a thread on its
\* way to it, as long as threads wait, whatever coroutines take in between.
ThreadWakeups ==
  LET awake == Cardinality({t \in Threads : thr[t] = "woken"}) IN
    /\ Broadcasts => \A t \in AtWait : ~Ready(t)
    /\ Is("semaphore") /\ AtWait # {} => obj.permits <= awake
    /\ Is("auto_event") /\ AtWait # {} /\ obj.signaled => awake > 0

\* The wake_all of a set(), of the end of a phase and of a store reaches who registered
\* before it, and the timer who awaits with a timeout: only one that tested before it and
\* registered after it is left suspended, or one that an operation passed by that wakes no
\* coroutine.  What of the one left, FoundIsWoken says.
BroadcastReleases ==
  \A c \in Coros :
    Broadcasts /\ Ready(c) /\ st[c] = "awaiting" /\ sus[c] = "none" /\ Quiet
      => missed[c] /\ gate[c] = "none"

\* "Event was signaled, we'll be woken", "Phase already advanced, we'll be woken", "We got
\* it, but we're already suspended / The resume will happen": who finds at the end of
\* suspend_impl what it waits for is not left suspended.
FoundIsWoken ==
  \A c \in Coros : found[c] /\ st[c] = "awaiting" /\ sus[c] = "none" => ~Quiet

\* Every permit that release() gave is in count_, has let somebody go on, is held by a
\* coroutine still to go on, or was lost by an acquire that took two; and none lets more
\* than two parties go on, the one that release() woke and the one that takes it.
PermitLedger ==
  Is("semaphore") =>
    /\ obj.given <= obj.permits + obj.admitted + lost + Cardinality({c \in Coros : found[c]})
    /\ obj.admitted <= 2 * obj.given

\* "Acquire was successful either in ready_impl or by being woken": nobody goes on from
\* acquire() without a permit of its own.
EveryPermitAdmitsOne == Is("semaphore") => obj.admitted <= obj.given
=============================================================================
