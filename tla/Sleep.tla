------------------------------- MODULE Sleep -------------------------------
(***************************************************************************)
(* co_await ethreads::sleep(duration, token): the awaiter, over the timer  *)
(* service and the cancellation state of its token.                        *)
(*                                                                         *)
(* suspend_impl goes on, on the thread that suspended the coroutine, after *)
(* it has armed the timer: the coroutine may be resumed, and its awaiter   *)
(* destroyed, before it has ended.  So a sleep has two places: that of     *)
(* suspend_impl (sus) and that of the coroutine (status).  The coroutine   *)
(* may sleep again, and runs on whichever thread resumed it.               *)
(***************************************************************************)
EXTENDS TimerService, Cancellation

CONSTANTS
  WithToken, \* the sleeps that were given a token
  NoSleep,   \* no sleep
  Prev       \* the sleep that the same coroutine makes before, or NoSleep

ASSUME SleepAssumption ==
  /\ WithToken \subseteq Sleeps
  /\ Clients = Sleeps
  /\ NoSleep \notin Sleeps
  /\ Prev \in [Sleeps -> Sleeps \union {NoSleep}]

VARIABLES
  sus,    \* where suspend_impl is
  status, \* where the coroutine is, in the end the sleep_status
  cbid    \* callback_id_: whose registration, or NoSleep for 0

sleepVars == <<sus, status, cbid>>
cancellationVars == <<cancelVars, awaitVars>>
serviceVars == <<now, timerVars, hostVars, deadline, shuttingDown, mpc, stopMissed, runner>>

vars == <<serviceVars, cancellationVars, sleepVars>>

Results == {"completed", "cancelled"}
SusPcs == {"none", "arm", "notify", "register", "storeid", "storezero", "over",
           "fault"}

\* The shape of the state.
TypeOK ==
  /\ TimerTypeOK
  /\ CancellationTypeOK
  /\ runner \in [Sleeps -> Cancellers \union {Timer, Main, Worker, NoThread}]
  /\ resumer \in [Sleeps -> Cancellers \union {Timer, Main, Worker, NoThread}]
  /\ sus \in [Sleeps -> SusPcs]
  /\ status \in [Sleeps -> {"before", "asleep", "running"} \union Results]
  /\ cbid \in [Sleeps -> Sleeps \union {NoSleep}]

Init ==
  /\ TimerInit
  /\ CancellationInit
  /\ sus = [s \in Sleeps |-> "none"]
  /\ status = [s \in Sleeps |-> "before"]
  /\ cbid = [s \in Sleeps |-> NoSleep]

\* The token of s reports a cancellation.
TokenCancelled(s) == s \in WithToken /\ cancelled

\* What resume_impl returns.
Report(s) ==
  status' = [status EXCEPT ![s] = IF TokenCancelled(s) THEN "cancelled"
                                  ELSE "completed"]

\* The awaiter of s has been destroyed.
Gone(s) == status[s] \in Results

-----------------------------------------------------------------------------
(* The coroutine.                                                          *)

\* The thread on which the coroutine of s gets to s, if it is on its way there.
Host(s) ==
  IF Prev[s] = NoSleep THEN Worker
  ELSE IF Gone(Prev[s]) THEN resumer[Prev[s]] ELSE NoThread

\* The coroutine reaches s; its host executes s from here on.
Reach(s, d) ==
  /\ status[s] = "before"
  /\ Host(s) # NoThread
  /\ deadline' = [deadline EXCEPT ![s] = d]
  /\ UNCHANGED <<now, timerVars, shuttingDown, mpc, stopMissed, fired, wakeups,
                 cancellationVars, cbid>>

\* await_ready is true: await_resume follows at once.
SleepReady(s, d) ==
  /\ Reach(s, d)
  /\ TokenCancelled(s) \/ d <= now
  /\ Report(s)
  /\ resumer' = [r \in Sleeps |-> IF r = s THEN Host(s)
                                 ELSE IF r = Prev[s] THEN NoThread ELSE resumer[r]]
  /\ UNCHANGED <<runner, sus>>

\* await_ready is false: the coroutine is suspended, and suspend_impl begins.
SleepSuspend(s, d) ==
  /\ Reach(s, d)
  /\ ~TokenCancelled(s) /\ d > now
  /\ status' = [status EXCEPT ![s] = "asleep"]
  /\ sus' = [sus EXCEPT ![s] = "arm"]
  /\ runner' = [runner EXCEPT ![s] = Host(s)]
  /\ resumer' = [r \in Sleeps |-> IF r = Prev[s] THEN NoThread ELSE resumer[r]]

\* resume_impl on the thread that resumed the coroutine: the callback is
\* unregistered if callback_id_ names one.
Resume(s) ==
  /\ status[s] = "asleep"
  /\ resumer[s] # NoThread
  /\ status' = [status EXCEPT ![s] = "running"]
  /\ IF s \in WithToken /\ cbid[s] # NoSleep
     THEN Unregister(cbid[s])
     ELSE UNCHANGED cancellationVars
  /\ UNCHANGED <<serviceVars, sus, cbid>>

\* The end of resume_impl.
Return(s) ==
  /\ status[s] = "running"
  /\ Report(s)
  /\ UNCHANGED <<serviceVars, cancellationVars, sus, cbid>>

\* The coroutine ends, or suspends elsewhere: its host goes on.
Leave(s) ==
  /\ Gone(s)
  /\ resumer[s] # NoThread
  /\ resumer' = [resumer EXCEPT ![s] = NoThread]
  /\ UNCHANGED <<now, timerVars, fired, wakeups, deadline, shuttingDown, mpc, stopMissed,
                 runner, cancellationVars, sleepVars>>

-----------------------------------------------------------------------------
(* suspend_impl                                                            *)

SusGoto(s, p) == sus' = [sus EXCEPT ![s] = p] /\ UNCHANGED status

\* add_timer: the entry is pushed; later on, get_timer_service() dereferences a
\* null pointer.
Arm(s) ==
  /\ sus[s] = "arm"
  /\ \/ mpc # "down" /\ AddTimer(s) /\ SusGoto(s, "notify")
     \/ mpc = "down" /\ UNCHANGED heap /\ SusGoto(s, "fault")
  /\ UNCHANGED <<now, lock, running, tpc, till, firing, hostVars, deadline,
                 shuttingDown, mpc, stopMissed, runner, cancellationVars, cbid>>

\* Mutant: cv_ is not notified.
NotifyArmedSilently(s) ==
  /\ sus[s] = "notify"
  /\ IF s \in WithToken
     THEN SusGoto(s, "register") /\ UNCHANGED runner
     ELSE SusGoto(s, "over") /\ runner' = [runner EXCEPT ![s] = NoThread]
  /\ UNCHANGED <<now, timerVars, hostVars, deadline, shuttingDown, mpc, stopMissed,
                 cancellationVars, cbid>>

\* add_timer: cv_.notify_one().  Without a token suspend_impl then ends.
NotifyArmed(s) ==
  /\ sus[s] = "notify"
  /\ Notify
  /\ IF s \in WithToken
     THEN SusGoto(s, "register") /\ UNCHANGED runner
     ELSE SusGoto(s, "over") /\ runner' = [runner EXCEPT ![s] = NoThread]
  /\ UNCHANGED <<now, heap, lock, running, till, firing, hostVars, deadline,
                 shuttingDown, mpc, stopMissed, cancellationVars, cbid>>

\* register_callback, called with a copy of state_; the awaiter it is copied from
\* may be gone, and then the copy may fail.
RegisterCallback(s) ==
  /\ sus[s] = "register"
  /\ \/ Register(s, Fire(runner[s], s) /\ SusGoto(s, "storezero"),
                 SusGoto(s, "storeid") /\ UNCHANGED hostVars)
     \/ Gone(s) /\ SusGoto(s, "fault") /\ UNCHANGED <<cancellationVars, hostVars>>
  /\ UNCHANGED <<now, timerVars, deadline, shuttingDown, mpc, stopMissed, runner, cbid>>

\* callback_id_ is written; if the awaiter is gone, the write may land in the
\* awaiter of the coroutine's next sleep.
StoreId(s) ==
  /\ sus[s] \in {"storeid", "storezero"}
  /\ LET id == IF sus[s] = "storeid" THEN s ELSE NoSleep IN
       \/ ~Gone(s) /\ cbid' = [cbid EXCEPT ![s] = id]
       \/ Gone(s) /\ UNCHANGED cbid
       \/ Gone(s) /\ \E n \in Sleeps : /\ Prev[n] = s
                                       /\ cbid' = [cbid EXCEPT ![n] = id]
  /\ SusGoto(s, "over")
  /\ runner' = [runner EXCEPT ![s] = NoThread]
  /\ UNCHANGED <<now, timerVars, hostVars, deadline, shuttingDown, mpc, stopMissed,
                 cancellationVars>>

\* cancel() on k calls the callback of the sleep s.
OnCancel(k, s) ==
  /\ ~Busy(k)
  /\ TakeCallback(k, s)
  /\ Fire(k, s)
  /\ UNCHANGED <<now, timerVars, deadline, shuttingDown, mpc, stopMissed, runner, sleepVars>>

-----------------------------------------------------------------------------
SuspendStep(s) == NotifyArmed(s) \/ RegisterCallback(s) \/ StoreId(s)
CoroutineStep(s) == Resume(s) \/ Return(s) \/ Leave(s)

CancelStep(k) ==
  \/ \E s \in cbs[k] : OnCancel(k, s)
  \/ /\ SwapCallbacks(k) \/ (CallsEnd(k) /\ ~Busy(k)) \/ WakeAwaiters(k)
     /\ UNCHANGED <<serviceVars, sleepVars>>

AwaiterStep(a) ==
  (AddWaiter(a) \/ Recheck(a)) /\ UNCHANGED <<serviceVars, sleepVars>>

Next ==
  \/ \E s \in Sleeps : \/ \E d \in 0 .. MaxTime : SleepReady(s, d) \/ SleepSuspend(s, d)
                       \/ Arm(s) \/ SuspendStep(s) \/ CoroutineStep(s)
  \/ \E k \in Cancellers : \/ Exchange(k) /\ UNCHANGED <<serviceVars, sleepVars>>
                           \/ CancelStep(k)
  \/ \E a \in Awaiters : \/ AwaitReady(a) /\ UNCHANGED <<serviceVars, sleepVars>>
                         \/ AwaiterStep(a)
  \/ /\ Tick \/ RunStep \/ RunLock \/ SpuriousWake \/ SetShuttingDown \/ StopStep
     /\ UNCHANGED <<cancellationVars, sleepVars>>

Spec == Init /\ [][Next]_vars

\* The clock advances; run(), coroutines, suspend_impl, cancel() and shutdown() go
\* on once they are under way, and whoever asks for the timer's mutex gets it when it is
\* free again and again.  No spurious wake-up is assumed, nor that anybody sleeps,
\* cancels or destroys the scheduler.
Fairness ==
  /\ WF_vars(Tick /\ UNCHANGED <<cancellationVars, sleepVars>>)
  /\ WF_vars(RunStep /\ UNCHANGED <<cancellationVars, sleepVars>>)
  /\ WF_vars(StopStep /\ UNCHANGED <<cancellationVars, sleepVars>>)
  /\ SF_vars(RunLock /\ UNCHANGED <<cancellationVars, sleepVars>>)
  /\ \A s \in Sleeps : /\ SF_vars(Arm(s))
                       /\ WF_vars(SuspendStep(s))
                       /\ WF_vars(CoroutineStep(s))
  /\ \A k \in Cancellers : WF_vars(CancelStep(k))
  /\ \A a \in Awaiters : WF_vars(AwaiterStep(a))

FairSpec == Spec /\ Fairness

-----------------------------------------------------------------------------
(* Properties.                                                             *)

\* The timer, cancel(), a registration that comes too late and the shutdown may
\* all want to resume a sleeping coroutine: one of them does.
WokenOnce == \A s \in Sleeps : wakeups[s] = (IF fired[s] /\ s \notin firing THEN 1 ELSE 0)

\* A sleeping coroutine that nobody has resumed has its entry in the heap, until
\* the service is destroyed.
SleeperHasEntry ==
  \A s \in Sleeps :
    status[s] = "asleep" /\ sus[s] \notin {"arm", "fault"} /\ ~fired[s] => s \in heap

\* run() never sleeps past a deadline in the heap, unless the notification for its
\* entry is still to come.
NeverOversleeps ==
  tpc = "wait" => \A s \in heap : till <= deadline[s] \/ sus[s] = "notify"

\* A sleep ends as "completed" only after its deadline or in the shutdown, and as
\* "cancelled" only by its own token.
RightStatus ==
  \A s \in Sleeps :
    /\ status[s] = "completed" => deadline[s] <= now \/ ~running
    /\ status[s] = "cancelled" => TokenCancelled(s)

\* When cancel() has returned, every sleep with the token that has registered, or
\* ever will, has been resumed, and so has every awaiter of the token that has
\* checked it after suspending.
CancelReachesAll ==
  (cancelled /\ \A k \in Cancellers : cpc[k] \in {"idle", "done"}) =>
    /\ \A s \in WithToken : sus[s] \in {"storeid", "storezero", "over"} => fired[s]
    /\ \A a \in Awaiters : apc[a] = "suspended" => resumed[a] = 1

\* An awaiter of the token is resumed at most once, and only by a cancellation.
AwaitersWokenOnce ==
  \A a \in Awaiters : resumed[a] <= IF cancelled THEN 1 ELSE 0

\* After the notification of shutdown() only a run() that it missed waits.
StopIsHeard ==
  mpc = "join" /\ tpc \in {"block", "wait"} => stopMissed

\* Whoever sleeps can be reached, whoever has been woken was woken by the right party,
\* an awaiter of the token once, and run() by the shutdown.
SleepInv == TypeOK /\ SleeperHasEntry /\ RightStatus /\ AwaitersWokenOnce /\ StopIsHeard

\* While the service runs, every sleep ends: again and again nobody sleeps.  (Coroutines
\* make finitely many sleeps, so that this is no more than each of them ending.)
EverySleepEnds ==
  []<>(~running \/ \A s \in Sleeps : status[s] \notin {"asleep", "running"})

\* thread_.join() returns, although running_ is cleared and run() notified without the
\* mutex: the shutdown stays in it only if the notification came between the decision to
\* wait and the wait, and the heap was empty, so that no deadline ends the wait either.
JoinReturns == []<>(mpc = "join" => stopMissed /\ till = Never)

\* "Fire all remaining timers so no coroutine hangs": no thread that holds mutex_
\* runs a coroutine that asks for it.
NobodyLocksTwice ==
  \A s \in Sleeps : sus[s] = "arm" => lock = NoThread \/ runner[s] # lock
=============================================================================
