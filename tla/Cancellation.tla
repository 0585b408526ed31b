---------------------------- MODULE Cancellation ----------------------------
(***************************************************************************)
(* cancellation_state, shared by a cancellation_source and its tokens:     *)
(* cancel(), register_callback() and unregister_callback(), and the        *)
(* coroutines suspended in co_await token.cancelled().                     *)
(*                                                                         *)
(* mutex_ protects the callbacks; its critical sections are one step each, *)
(* and callbacks run outside it, except when the registration finds the    *)
(* state cancelled.  What a callback does is left to who registers it.  An *)
(* id stands for what registered it.                                      *)
(***************************************************************************)
EXTENDS Integers

CONSTANTS
  Cancellers, \* threads that call cancel()
  Clients,    \* what registers a callback, once each
  Awaiters    \* coroutines that await token.cancelled(), once each

VARIABLES
  cancelled, \* cancelled_
  callbacks, \* the clients with an entry in callbacks_
  cbs,       \* the callbacks that each cancel() has still to call
  cpc,       \* where each cancel() is
  waiters,   \* the awaiters whose nodes are in the list waiters_
  apc,       \* where each awaiter is
  resumed    \* how often each awaiter was scheduled

awaitVars == <<waiters, apc, resumed>>
cancelVars == <<cancelled, callbacks, cbs, cpc>>

CancellationTypeOK ==
  /\ cancelled \in BOOLEAN
  /\ callbacks \subseteq Clients
  /\ cbs \in [Cancellers -> SUBSET Clients]
  /\ cpc \in [Cancellers -> {"idle", "swap", "call", "wake", "done"}]
  /\ waiters \subseteq Awaiters
  /\ apc \in [Awaiters -> {"ready", "add", "recheck", "suspended"}]

CancellationInit ==
  /\ cancelled = FALSE
  /\ callbacks = {}
  /\ cbs = [k \in Cancellers |-> {}]
  /\ cpc = [k \in Cancellers |-> "idle"]
  /\ waiters = {}
  /\ apc = [a \in Awaiters |-> "ready"]
  /\ resumed = [a \in Awaiters |-> 0]

\* wake_all(): the list is exchanged for an empty one, and its nodes, which no
\* other thread can reach any more, are scheduled.
WakeAll ==
  /\ waiters' = {}
  /\ resumed' = [a \in Awaiters |-> resumed[a] + (IF a \in waiters THEN 1 ELSE 0)]

-----------------------------------------------------------------------------
(* cancel()                                                                *)

CancelGoto(k, p) == cpc' = [cpc EXCEPT ![k] = p]

\* cancelled_.exchange(true): only the first goes on.
Exchange(k) ==
  /\ cpc[k] = "idle"
  /\ cancelled' = TRUE
  /\ CancelGoto(k, IF cancelled THEN "done" ELSE "swap")
  /\ UNCHANGED <<callbacks, cbs, awaitVars>>

\* Under the mutex, callbacks_ and callback_ids_ are emptied.
SwapCallbacks(k) ==
  /\ cpc[k] = "swap"
  /\ cbs' = [cbs EXCEPT ![k] = callbacks]
  /\ callbacks' = {}
  /\ CancelGoto(k, "call")
  /\ UNCHANGED <<cancelled, awaitVars>>

\* The callbacks are called one by one; this one is next.
TakeCallback(k, c) ==
  /\ cpc[k] = "call"
  /\ c \in cbs[k]
  /\ cbs' = [cbs EXCEPT ![k] = @ \ {c}]
  /\ UNCHANGED <<cancelled, callbacks, cpc, awaitVars>>

CallsEnd(k) ==
  /\ cpc[k] = "call"
  /\ cbs[k] = {}
  /\ CancelGoto(k, "wake")
  /\ UNCHANGED <<cancelled, callbacks, cbs, awaitVars>>

WakeAwaiters(k) ==
  /\ cpc[k] = "wake"
  /\ WakeAll
  /\ CancelGoto(k, "done")
  /\ UNCHANGED <<cancelled, callbacks, cbs, apc>>

-----------------------------------------------------------------------------
(* register_callback(), unregister_callback()                              *)

\* Mutant: cancelled_ is not tested under the mutex.
RegisterUntested(c, AtOnce, Later) ==
  /\ Later /\ callbacks' = callbacks \union {c}
  /\ UNCHANGED <<cancelled, cbs, cpc, awaitVars>>

\* A registration that finds the state cancelled calls the callback at once.
Register(c, AtOnce, Later) ==
  /\ \/ cancelled /\ AtOnce /\ UNCHANGED callbacks
     \/ ~cancelled /\ Later /\ callbacks' = callbacks \union {c}
  /\ UNCHANGED <<cancelled, cbs, cpc, awaitVars>>

\* Nothing is removed once cancelled_ is set: cancel() has the callbacks.
Unregister(c) ==
  /\ callbacks' = IF cancelled THEN callbacks ELSE callbacks \ {c}
  /\ UNCHANGED <<cancelled, cbs, cpc, awaitVars>>

-----------------------------------------------------------------------------
(* co_await token.cancelled()                                              *)

AwaitGoto(a, p) == apc' = [apc EXCEPT ![a] = p]

\* await_ready, then add_waiter.
AwaitReady(a) ==
  /\ apc[a] = "ready"
  /\ ~cancelled
  /\ AwaitGoto(a, "add")
  /\ UNCHANGED <<waiters, resumed, cancelVars>>

AddWaiter(a) ==
  /\ apc[a] = "add"
  /\ waiters' = waiters \union {a}
  /\ AwaitGoto(a, "recheck")
  /\ UNCHANGED <<resumed, cancelVars>>

\* The check after the node is in the list.  If the awaiter has been resumed in
\* the meantime its state_ may be gone, and the check may have no effect.
Recheck(a) ==
  /\ apc[a] = "recheck"
  /\ AwaitGoto(a, "suspended")
  /\ \/ cancelled /\ WakeAll
     \/ (~cancelled \/ resumed[a] > 0) /\ UNCHANGED <<waiters, resumed>>
  /\ UNCHANGED cancelVars
=============================================================================
