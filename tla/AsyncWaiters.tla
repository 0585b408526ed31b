--------------------------- MODULE AsyncWaiters ---------------------------
(***************************************************************************)
(* What every awaiting coroutine of the async primitives goes through: the *)
(* lock-free lists of waiter nodes (async_primitive_base and the senders'  *)
(* list of async_channel), the gate that a timed awaiter shares with its   *)
(* timer and select shares between its nodes, and the calls of wake_one    *)
(* and wake_all.  The primitives' own state, and what ready_impl,          *)
(* suspend_impl and resume_impl do to it, belong to the modules that       *)
(* extend this one.                                                        *)
(*                                                                         *)
(* The node of a coroutine in a list is named by the coroutine: awaiters   *)
(* live in coroutine frames, and one that a coroutine constructs in a loop *)
(* has the same address each time.                                         *)
(***************************************************************************)
EXTENDS Naturals, Sequences, FiniteSets

CONSTANTS Coros,      \* the coroutines that await
          Wakers,     \* threads (or other coroutines) that operate on the objects
          Objects,    \* the primitives
          Null,       \* no node
          MaxAwaits   \* bound: how often one coroutine awaits

ASSUME NamesAssumption == Null \notin Coros /\ Coros \intersect Wakers = {}
ASSUME AwaitsAssumption == MaxAwaits \in Nat \ {0}
ASSUME CorosAssumption == IsFiniteSet(Coros) /\ IsFiniteSet(Wakers)

Actors == Coros \union Wakers
Lists == Objects \X {"waiters_", "send_waiters_"}

VARIABLES head,    \* per list: its first node
          next,    \* per list and node: node->next
          gate,    \* "none" (node->gate is null), "open" (false), "taken" (true)
          timer,   \* TRUE: the timer service holds an entry with this gate
          st,      \* "body", "awaiting", "runnable" (scheduled), "done" (resumed); some
                   \* primitives add "prepared" and "relook"
          sus,     \* where suspend_impl is, "none" when it does not run
          awaits,  \* number of suspensions
          wakes,   \* number of calls of schedule_coro_handle
          missed,  \* TRUE: a wake_all passed between the test and add_waiter
          wk       \* per actor: the wake_one or wake_all it is in

listVars == <<head, next>>
frameVars == <<gate, timer, sus, awaits>>
waiterVars == <<head, next, gate, timer, st, sus, awaits, wakes, missed, wk>>

Idle == [at |-> "idle", todo |-> <<>>, node |-> Null, nx |-> Null]
Quiet == \A a \in Actors : wk[a] = Idle

WaitersTypeOK ==
  /\ head \in [Lists -> Coros \union {Null}]
  /\ next \in [Lists -> [Coros -> Coros \union {Null}]]
  /\ gate \in [Coros -> {"none", "open", "taken"}]
  /\ timer \in [Coros -> BOOLEAN]
  /\ st \in [Coros -> {"body", "prepared", "awaiting", "runnable", "relook", "done"}]
  /\ awaits \in [Coros -> 0 .. MaxAwaits]
  /\ wakes \in [Coros -> Nat]
  /\ missed \in [Coros -> BOOLEAN]
  /\ \A a \in Actors : wk[a].at \in {"idle", "load", "cas", "all", "arrived"}

WaitersInit ==
  /\ head = [l \in Lists |-> Null]
  /\ next = [l \in Lists |-> [c \in Coros |-> Null]]
  /\ gate = [c \in Coros |-> "none"]
  /\ timer = [c \in Coros |-> FALSE]
  /\ st = [c \in Coros |-> "body"]
  /\ sus = [c \in Coros |-> "none"]
  /\ awaits = [c \in Coros |-> 0]
  /\ wakes = [c \in Coros |-> 0]
  /\ missed = [c \in Coros |-> FALSE]
  /\ wk = [a \in Actors |-> Idle]

\* The nodes that can be reached from node h of list l.
ChainFrom(h, l) ==
  LET reach[i \in 0 .. Cardinality(Coros)] ==
        IF i = 0 THEN {h}
        ELSE reach[i - 1] \union {next[l][c] : c \in reach[i - 1] \ {Null}}
  IN reach[Cardinality(Coros)] \ {Null}

Chain(l) == ChainFrom(head[l], l)
Linked(c) == \E l \in Lists : c \in Chain(l)

-----------------------------------------------------------------------------
(* Suspension.                                                             *)

\* A coroutine reaches a co_await.  The client keeps what the library does not ensure
\* (FreshNode): a node is not used again while it is linked, a timer or a waker
\* knows it, or the last suspend_impl still runs.
FreshNode(c) ==
  /\ ~Linked(c)
  /\ ~timer[c]
  /\ sus[c] = "none"
  /\ \A a \in Actors : wk[a].node # c

MayAwait(c) ==
  /\ st[c] \in {"body", "done"}
  /\ wk[c] = Idle
  /\ awaits[c] < MaxAwaits
  /\ FreshNode(c)

\* await_ready returned true: the coroutine goes on, with resume_impl.
GoOn(c) ==
  /\ st' = [st EXCEPT ![c] = "runnable"]
  /\ sus' = [sus EXCEPT ![c] = "none"]
  /\ awaits' = [awaits EXCEPT ![c] = @ + 1]
  /\ wakes' = [wakes EXCEPT ![c] = @ + 1]
  /\ UNCHANGED <<listVars, gate, timer, missed, wk>>

\* await_ready returned false: the coroutine is suspended, and suspend_impl starts.
Suspend(c, kindOfGate, first) ==
  /\ st' = [st EXCEPT ![c] = "awaiting"]
  /\ awaits' = [awaits EXCEPT ![c] = @ + 1]
  /\ gate' = [gate EXCEPT ![c] = kindOfGate]
  /\ sus' = [sus EXCEPT ![c] = first]
  /\ missed' = [missed EXCEPT ![c] = FALSE]
  /\ UNCHANGED <<listVars, timer, wakes, wk>>

SusGoto(c, p) == sus' = [sus EXCEPT ![c] = p]

\* add_timer(deadline_, h, nullptr, &gate_)
Arm(c) ==
  /\ sus[c] = "arm"
  /\ timer' = [timer EXCEPT ![c] = TRUE]
  /\ SusGoto(c, "add")
  /\ UNCHANGED <<listVars, gate, st, awaits, wakes, missed, wk>>

\* add_waiter: a push that takes effect at its compare-exchange.
AddWaiter(c, l) ==
  /\ next' = [next EXCEPT ![l][c] = head[l]]
  /\ head' = [head EXCEPT ![l] = c]

\* The step of suspend_impl that registers a node; p is what follows it.
Register(c, l, p) ==
  /\ AddWaiter(c, l)
  /\ SusGoto(c, p)
  /\ UNCHANGED <<gate, timer, st, awaits, wakes, missed, wk>>

\* schedule_coro_handle for each of the coroutines in cs.
Schedule(cs) ==
  /\ st' = [c \in Coros |-> IF c \in cs THEN "runnable" ELSE st[c]]
  /\ wakes' = [c \in Coros |-> IF c \in cs THEN wakes[c] + 1 ELSE wakes[c]]

\* Mutant: the gate is looked at and set in two accesses, so that both parties win.
DeliverUngated(cs) == Schedule(cs) /\ UNCHANGED gate

\* What happens to nodes taken from a list, or to a handle taken from the timer: a
\* gated one is scheduled by whoever wins the compare-exchange on its gate.
Deliver(cs) ==
  /\ Schedule({c \in cs : gate[c] # "taken"})
  /\ gate' = [c \in Coros |-> IF c \in cs /\ gate[c] = "open" THEN "taken" ELSE gate[c]]

\* The check at the end of suspend_impl succeeded: it asks for the gate.
TakeGate(c) ==
  /\ sus[c] = "gate"
  /\ Deliver({c})
  /\ SusGoto(c, "none")
  /\ UNCHANGED <<listVars, timer, awaits, missed, wk>>

\* The timer service calls back.
TimerFires(c) ==
  /\ timer[c]
  /\ timer' = [timer EXCEPT ![c] = FALSE]
  /\ Deliver({c})
  /\ UNCHANGED <<listVars, sus, awaits, missed, wk>>

\* The coroutine was resumed while another thread still runs its suspend_impl.
Gone(c) == st[c] = "done" /\ sus[c] # "none"

\* What that thread does to the awaiter is undefined; it may come to nothing.
Abandon(c) ==
  /\ Gone(c)
  /\ SusGoto(c, "none")
  /\ UNCHANGED <<listVars, gate, timer, st, awaits, wakes, missed, wk>>

\* A worker resumes the coroutine, or it never was suspended; resume_impl, which is the
\* primitive's, ends here or looks at something else first.
ResumeAt(c, s) ==
  /\ st[c] = "runnable"
  /\ st' = [st EXCEPT ![c] = s]
  /\ UNCHANGED <<listVars, frameVars, wakes, missed, wk>>

Resume(c) == ResumeAt(c, "done")

-----------------------------------------------------------------------------
(* Waking.  a is the thread inside wake_one or wake_all; todo holds the     *)
(* calls that remain, by their list.                                       *)

WakeOne(lists) == [at |-> "load", todo |-> lists, node |-> Null, nx |-> Null]
\* Mutant: as wake_one.
WakeAllOnce(lists) == WakeOne(lists)
WakeAll(lists) == [at |-> "all", todo |-> lists, node |-> Null, nx |-> Null]

\* Mutant: the loop over the permits ends with the waiters only.
FollowingWhileLinked(a) == [wk[a] EXCEPT !.at = "load", !.node = Null, !.nx = Null]

\* The call on the first list has ended.
Following(a) ==
  IF Len(wk[a].todo) = 1 THEN Idle
  ELSE [wk[a] EXCEPT !.todo = Tail(@), !.node = Null, !.nx = Null,
                     !.at = IF @ = "cas" THEN "load" ELSE @]

SetWake(a, call) == wk' = [wk EXCEPT ![a] = call]

\* The load of the head, and of the next pointer of the node there; an empty list
\* ends the loop over the permits (has_waiters).
WakeLoad(a) ==
  /\ wk[a].at = "load"
  /\ LET l == Head(wk[a].todo) IN
       SetWake(a, IF head[l] = Null THEN Idle
                  ELSE [wk[a] EXCEPT !.at = "cas", !.node = head[l],
                                     !.nx = next[l][head[l]]])
  /\ UNCHANGED <<listVars, frameVars, st, wakes, missed>>

\* Mutant: the head is stored, whatever it is by now.
PopStore(a, l) ==
  /\ head' = [head EXCEPT ![l] = wk[a].nx]
  /\ Deliver({wk[a].node})
  /\ SetWake(a, Following(a))

\* The compare-exchange finds the head it expects: the node is popped.
Pop(a, l) ==
  /\ head[l] = wk[a].node
  /\ head' = [head EXCEPT ![l] = wk[a].nx]
  /\ Deliver({wk[a].node})
  /\ SetWake(a, Following(a))

\* It does not: the loop starts again with the head it found.
Retry(a, l) ==
  /\ head[l] # wk[a].node
  /\ SetWake(a, IF head[l] = Null THEN Following(a)
                ELSE [wk[a] EXCEPT !.node = head[l], !.nx = next[l][head[l]]])
  /\ UNCHANGED <<head, gate, st, wakes>>

WakeCas(a) ==
  /\ wk[a].at = "cas"
  /\ Pop(a, Head(wk[a].todo)) \/ Retry(a, Head(wk[a].todo))
  /\ UNCHANGED <<next, timer, sus, awaits, missed>>

\* wake_all: the exchange, and the walk over what it took.  The nodes are nobody
\* else's by then, but for their gates.
WakeEach(a) ==
  /\ wk[a].at = "all"
  /\ LET l == Head(wk[a].todo) IN
       /\ Deliver(Chain(l))
       /\ head' = [head EXCEPT ![l] = Null]
       /\ missed' = [c \in Coros |-> missed[c] \/ sus[c] \in {"arm", "add"}]
  /\ SetWake(a, Following(a))
  /\ UNCHANGED <<next, timer, sus, awaits>>

WakeStep(a) == WakeLoad(a) \/ WakeCas(a) \/ WakeEach(a)

-----------------------------------------------------------------------------
(* Properties.                                                             *)

\* "Exactly one path wins the CAS and resumes the coroutine": the wakers, the timer and
\* the check at the end of suspend_impl schedule a coroutine at most once for each
\* time it awaits.
ResumedOnce == \A c \in Coros : wakes[c] <= awaits[c]

\* A coroutine that has registered and that nobody has scheduled is in its list,
\* whatever pushes and pops went on at the same time; only the waker that has it in
\* its hands may still have to notice that it is gone.
WaiterIsLinked ==
  \A c \in Coros : st[c] = "awaiting" /\ sus[c] \notin {"arm", "add", "gate"} => Linked(c)
=============================================================================
