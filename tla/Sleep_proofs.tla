---------------------------- MODULE Sleep_proofs ----------------------------
(***************************************************************************)
(* A sleep is woken once, by somebody who may wake it, and can be reached  *)
(* until it is, for any sleeps, cancelling threads and awaiters.           *)
(***************************************************************************)
EXTENDS Sleep, TLAPS

\* Who is executing what: run() holds the mutex from its test to its wait, has one sleep
\* to schedule when it has won one, and has ended when shutdown() fires the rest.
ServiceInv ==
  /\ tpc \in {"test", "predicate", "block"} => lock = Timer
  /\ tpc = "fire" => \E s \in Sleeps : firing = {s} /\ fired[s]
  /\ tpc # "fire" => firing = {}
  /\ mpc \notin {"up", "stopping"} => ~running
  /\ mpc \in {"drain", "drained", "down"} => tpc = "exit"

\* A coroutine that has not reached s has left no trace of it; one that goes on after s
\* was resumed from it, or was never suspended.
LifeInv ==
  \A s \in Sleeps :
    /\ status[s] = "before" => /\ sus[s] = "none" /\ s \notin heap /\ ~fired[s]
                               /\ resumer[s] = NoThread
    /\ status[s] = "asleep" /\ resumer[s] # NoThread => fired[s]
    /\ status[s] = "running" => fired[s]
    /\ Gone(s) /\ sus[s] # "none" => fired[s]
    /\ sus[s] \in {"register", "storeid", "storezero"} => s \in WithToken

\* The callbacks belong to sleeps with a token; cancel() has begun if it has some, and
\* while entries remain in a cancelled state a cancel() is about to take them.
CallbackInv ==
  /\ callbacks \subseteq WithToken
  /\ cancelled /\ callbacks # {} => \E k \in Cancellers : cpc[k] = "swap"
  /\ \A k \in Cancellers :
       /\ cbs[k] \subseteq WithToken
       /\ cbs[k] # {} => cpc[k] = "call"
       /\ cpc[k] # "idle" => cancelled
  /\ \A s \in Sleeps : s \in callbacks \/ (\E k \in Cancellers : s \in cbs[k]) =>
       sus[s] # "none"

\* Whoever resumed a sleep had a reason.
ReasonInv == \A s \in Sleeps : fired[s] => Due(s) \/ ~running \/ TokenCancelled(s)

\* What a callback_id_ names is its own sleep's registration or one of no more use.
IdInv == \A n \in Sleeps : cbid[n] \in {n, NoSleep} \/ fired[cbid[n]]

\* A sleep that has registered has been resumed or will be called.
RegisteredInv ==
  \A s \in WithToken :
    sus[s] \in {"storeid", "storezero", "over"} =>
      fired[s] \/ s \in callbacks \/ \E k \in Cancellers : s \in cbs[k]

\* Some cancel() is on its way to the awaiters.
WakeComing == \E k \in Cancellers : cpc[k] \in {"swap", "call", "wake"}

\* Awaiters of the token: one whose node is in the list has not been resumed; one that
\* has added it is in the list or has been, and stays there only if somebody comes.
AwaiterInv ==
  \A a \in Awaiters :
    /\ resumed[a] \in {0, 1}
    /\ resumed[a] = 1 => cancelled
    /\ a \in waiters => resumed[a] = 0
    /\ apc[a] \in {"ready", "add"} => resumed[a] = 0 /\ a \notin waiters
    /\ apc[a] \in {"recheck", "suspended"} => resumed[a] = 1 \/ a \in waiters
    /\ apc[a] = "suspended" /\ cancelled => resumed[a] = 1 \/ WakeComing

\* From the moment that run() has chosen its deadline.
DeadlineInv ==
  /\ tpc = "block" => \A s \in heap : till <= deadline[s]
  /\ NeverOversleeps

IInv ==
  /\ TypeOK /\ ServiceInv /\ LifeInv /\ CallbackInv /\ ReasonInv /\ IdInv
  /\ RegisteredInv /\ AwaiterInv /\ DeadlineInv
  /\ WokenOnce /\ SleeperHasEntry /\ RightStatus /\ StopIsHeard

-----------------------------------------------------------------------------
\* What a thread that may fire a sleep leaves of its state.
LEMMA FireType ==
  ASSUME TypeOK, NEW s \in Sleeps,
         NEW x \in Cancellers \union {Timer, Main, Worker, NoThread}, Fire(x, s)
  PROVE  /\ fired' \in [Sleeps -> BOOLEAN]
         /\ resumer' \in [Sleeps -> Cancellers \union {Timer, Main, Worker, NoThread}]
         /\ wakeups' \in [Sleeps -> Nat]
<1>1. /\ fired \in [Sleeps -> BOOLEAN] /\ wakeups \in [Sleeps -> Nat]
      /\ resumer \in [Sleeps -> Cancellers \union {Timer, Main, Worker, NoThread}]
  BY DEF TypeOK, TimerTypeOK
<1>2. CASE fired[s]
  BY <1>1, <1>2 DEF Fire, hostVars
<1>3. CASE ~fired[s]
  <2>1. PICK y \in Cancellers \union {Timer, Main, Worker, NoThread} :
          resumer' = [resumer EXCEPT ![s] = y]
    BY <1>3 DEF Fire, Schedule
  <2>2. fired' = [fired EXCEPT ![s] = TRUE] /\ wakeups' = [wakeups EXCEPT ![s] = @ + 1]
    BY <1>3 DEF Fire, Schedule
  <2> QED
    BY <1>1, <2>1, <2>2
<1> QED
  BY <1>2, <1>3

\* What cancel() still has to call are sleeps.
LEMMA CallbacksAreSleeps ==
  ASSUME TypeOK, NEW k \in Cancellers
  PROVE  cbs[k] \subseteq Sleeps
  BY SleepAssumption DEF TypeOK, CancellationTypeOK

-----------------------------------------------------------------------------
\* The two outcomes of run() with an entry that is due: somebody was faster, or it wins
\* and lets the mutex go.
LEMMA FireMoves ==
  ASSUME TypeOK, LookAndFire
  PROVE  /\ UNCHANGED <<now, deadline, running, shuttingDown, mpc, stopMissed, runner>>
         /\ UNCHANGED <<till, resumer, wakeups>>
         /\ tpc = "test" /\ running
         /\ \E s \in Sleeps :
              /\ s \in heap /\ deadline[s] <= now /\ heap' = heap \ {s}
              /\ \/ fired[s] /\ tpc' = "test" /\ UNCHANGED <<firing, lock, fired>>
                 \/ /\ ~fired[s] /\ fired' = [fired EXCEPT ![s] = TRUE]
                    /\ firing' = {s} /\ lock' = NoThread /\ tpc' = "fire"
<1>1. PICK s \in heap :
        /\ deadline[s] <= now /\ heap' = heap \ {s}
        /\ IF fired[s]
           THEN TimerGoto("test") /\ UNCHANGED <<firing, lock, fired>>
           ELSE /\ fired' = [fired EXCEPT ![s] = TRUE] /\ firing' = {s}
                /\ lock' = NoThread /\ TimerGoto("fire")
  BY DEF LookAndFire, Due
<1>2. s \in Sleeps
  BY DEF TypeOK, TimerTypeOK
<1> QED
  BY <1>1, <1>2 DEF LookAndFire, TimerGoto

\* With nothing due, run() waits for the earliest deadline or looks at its predicate.
LEMMA WaitMoves ==
  ASSUME TypeOK, LookAndWait
  PROVE  /\ UNCHANGED <<now, deadline, running, shuttingDown, mpc, stopMissed, runner>>
         /\ UNCHANGED <<heap, lock, firing, hostVars>>
         /\ tpc = "test" /\ running
         /\ \/ heap = {} /\ tpc' = "predicate" /\ till' = Never
            \/ /\ \A r \in heap : till' <= deadline[r]
               /\ tpc' = "block" /\ till' \in 0 .. MaxTime
<1>1. CASE heap = {}
  BY <1>1 DEF LookAndWait, TimerGoto
<1>2. CASE heap # {}
  <2>1. PICK s \in heap : Earliest(s) /\ TimerGoto("block") /\ till' = deadline[s]
    BY <1>2 DEF LookAndWait
  <2>2. deadline[s] \in 0 .. MaxTime
    BY <2>1 DEF TypeOK, TimerTypeOK
  <2> QED
    BY <2>1, <2>2 DEF LookAndWait, TimerGoto, Earliest
<1> QED
  BY <1>1, <1>2

\* A cancel() that goes on to another of its places.
LEMMA CancelGotoType ==
  ASSUME TypeOK, NEW k \in Cancellers,
         NEW p \in {"idle", "swap", "call", "wake", "done"}, CancelGoto(k, p)
  PROVE  cpc' \in [Cancellers -> {"idle", "swap", "call", "wake", "done"}]
  BY DEF TypeOK, CancellationTypeOK, CancelGoto

\* Every step keeps the shape of the state.
LEMMA TypeOKStep ==
  ASSUME TypeOK, ServiceInv, Next
  PROVE  TypeOK'
<1> USE DEF serviceVars, cancellationVars, sleepVars, timerVars, hostVars, awaitVars,
      cancelVars
<1> USE ThreadsAssumption, MaxTimeAssumption, SleepAssumption DEF TypeOK, TimerTypeOK,
    CancellationTypeOK, Never, TimerPcs, StopPcs, SusPcs, Results
<1>1. ASSUME NEW s \in Sleeps, NEW d \in 0 .. MaxTime,
             SleepReady(s, d) \/ SleepSuspend(s, d)
      PROVE  TypeOK'
  BY <1>1 DEF SleepReady, Reach, Report, Host, SleepSuspend
<1>2. ASSUME NEW s \in Sleeps, Arm(s) \/ NotifyArmed(s) \/ StoreId(s) PROVE TypeOK'
  BY <1>2 DEF Arm, AddTimer, SusGoto, NotifyArmed, Notify, StoreId
<1>3. ASSUME NEW s \in Sleeps, RegisterCallback(s) PROVE TypeOK'
  BY <1>3, FireType DEF RegisterCallback, Register, SusGoto
<1>4. ASSUME NEW s \in Sleeps, Resume(s) \/ Return(s) \/ Leave(s) PROVE TypeOK'
  BY <1>4 DEF Resume, Unregister, Return, Report, Leave
<1>5. ASSUME NEW k \in Cancellers, NEW s \in Sleeps, OnCancel(k, s) PROVE TypeOK'
  BY <1>5, FireType DEF OnCancel, TakeCallback
<1>6. ASSUME NEW k \in Cancellers,
             Exchange(k) \/ SwapCallbacks(k) \/ CallsEnd(k) \/ WakeAwaiters(k),
             UNCHANGED <<serviceVars, sleepVars>>
      PROVE  TypeOK'
  <2>1. CASE Exchange(k)
    BY <1>6, <2>1, CancelGotoType DEF Exchange
  <2>2. CASE SwapCallbacks(k)
    <3>1. cbs' = [cbs EXCEPT ![k] = callbacks] /\ callbacks' = {} /\ CancelGoto(k, "call")
      BY <2>2 DEF SwapCallbacks
    <3>2. cbs' \in [Cancellers -> SUBSET Clients]
      BY <3>1
    <3> QED
      BY <1>6, <2>2, <3>1, <3>2, CancelGotoType DEF SwapCallbacks
  <2>3. CASE CallsEnd(k)
    BY <1>6, <2>3, CancelGotoType DEF CallsEnd
  <2>4. CASE WakeAwaiters(k)
    BY <1>6, <2>4, CancelGotoType DEF WakeAwaiters, WakeAll
  <2> QED
    BY <1>6, <2>1, <2>2, <2>3, <2>4
<1>7. ASSUME NEW a \in Awaiters,
             AwaitReady(a) \/ AddWaiter(a) \/ Recheck(a),
             UNCHANGED <<serviceVars, sleepVars>>
      PROVE  TypeOK'
  BY <1>7 DEF AwaitReady, AwaitGoto, AddWaiter, Recheck, WakeAll
<1>8. ASSUME Tick, UNCHANGED <<cancellationVars, sleepVars>> PROVE TypeOK'
  BY <1>8 DEF Tick
<1>14. ASSUME \/ LeaveLoop \/ FireReturn \/ EvalPredicate \/ Block \/ WaitTimeout
              \/ Relock \/ SpuriousWake,
              UNCHANGED <<cancellationVars, sleepVars>>
       PROVE  TypeOK'
  <2>1. /\ tpc' \in TimerPcs /\ lock' \in {Timer, NoThread, lock}
        /\ UNCHANGED <<now, deadline, running, shuttingDown, mpc, stopMissed, runner>>
        /\ UNCHANGED <<heap, till, firing, hostVars>>
    BY <1>14 DEF LeaveLoop, TimerGoto, FireReturn, EvalPredicate, Block, WaitTimeout, Relock,
       SpuriousWake
  <2> QED
    BY <1>14, <2>1
<1>9. ASSUME LookAndWait, UNCHANGED <<cancellationVars, sleepVars>> PROVE TypeOK'
  BY <1>9, WaitMoves
<1>10. ASSUME LookAndFire, UNCHANGED <<cancellationVars, sleepVars>> PROVE TypeOK'
  <2>1. /\ UNCHANGED <<now, deadline, running, shuttingDown, mpc, stopMissed, runner>>
        /\ UNCHANGED <<till, resumer, wakeups>>
    BY <1>10, FireMoves
  <2>2. PICK s \in Sleeps :
          /\ heap' = heap \ {s}
          /\ \/ tpc' = "test" /\ UNCHANGED <<firing, lock, fired>>
             \/ /\ fired' = [fired EXCEPT ![s] = TRUE]
                /\ firing' = {s} /\ lock' = NoThread /\ tpc' = "fire"
    BY <1>10, FireMoves
  <2>3. fired' \in [Sleeps -> BOOLEAN]
    BY <2>2
  <2> QED
    BY <1>10, <2>1, <2>2, <2>3
<1>11. ASSUME FireEntry, UNCHANGED <<cancellationVars, sleepVars>> PROVE TypeOK'
  BY <1>11 DEF FireEntry, TimerGoto, Schedule
<1>12. ASSUME \/ SetShuttingDown \/ StopRunning \/ NotifyStop \/ JoinTimer \/ Drained
              \/ DeleteService,
              UNCHANGED <<cancellationVars, sleepVars>>
       PROVE  TypeOK'
  <2>1. CASE SetShuttingDown \/ StopRunning
    <3>1. /\ mpc' \in StopPcs /\ running' \in BOOLEAN /\ shuttingDown' \in BOOLEAN
          /\ UNCHANGED <<heap, lock, tpc, hostVars, now, deadline, till, firing, runner>>
          /\ stopMissed' = stopMissed
      BY <2>1 DEF SetShuttingDown, StopRunning, MainGoto
    <3> QED
      BY <1>12, <3>1
  <2>2. CASE NotifyStop \/ JoinTimer \/ Drained \/ DeleteService
    <3>1. /\ mpc' \in StopPcs /\ tpc' \in TimerPcs /\ lock' \in {Main, NoThread, lock}
          /\ UNCHANGED <<heap, running, shuttingDown, hostVars>>
          /\ UNCHANGED <<now, deadline, till, firing, runner>>
      BY <2>2 DEF NotifyStop, JoinTimer, Drained, DeleteService, MainGoto, Notify
    <3>2. stopMissed' \in BOOLEAN
      <4>1. CASE NotifyStop
        <5>1. stopMissed' = (tpc = "block")
          BY <4>1 DEF NotifyStop
        <5> QED
          BY <5>1, Zenon
      <4>2. CASE stopMissed' = stopMissed
        BY <4>2
      <4> QED
        BY <2>2, <4>1, <4>2 DEF JoinTimer, Drained, DeleteService, MainGoto
    <3> QED
      BY <1>12, <3>1, <3>2
  <2> QED
    BY <1>12, <2>1, <2>2
<1>13. ASSUME FireRemaining, UNCHANGED <<cancellationVars, sleepVars>> PROVE TypeOK'
  BY <1>13, FireType DEF FireRemaining, MainGoto
<1> HIDE DEF serviceVars, cancellationVars, sleepVars, timerVars, hostVars, awaitVars,
    cancelVars, TypeOK, TimerTypeOK, CancellationTypeOK, Never, TimerPcs, StopPcs, SusPcs,
    Results
<1> QED
  BY <1>1, <1>2, <1>3, <1>4, <1>5, <1>6, <1>7, <1>8, <1>9, <1>10, <1>11, <1>12, <1>13, <1>14,
     CallbacksAreSleeps
  DEF Next, SuspendStep, CoroutineStep, CancelStep, AwaiterStep, RunStep, RunLock, StopStep

\* run() keeps its mutex, and ends before shutdown() fires what it left.
LEMMA ServiceInvStep ==
  ASSUME TypeOK, ServiceInv, Next
  PROVE  ServiceInv'
<1> USE DEF serviceVars, cancellationVars, sleepVars, timerVars, hostVars, awaitVars,
      cancelVars
<1> USE ThreadsAssumption, MaxTimeAssumption, SleepAssumption DEF ServiceInv
<1>1. ASSUME NEW s \in Sleeps, NEW d \in 0 .. MaxTime,
             SleepReady(s, d) \/ SleepSuspend(s, d)
      PROVE  ServiceInv'
  BY <1>1 DEF SleepReady, Reach, Report, Host, SleepSuspend
<1>2. ASSUME NEW s \in Sleeps, NotifyArmed(s) PROVE ServiceInv'
  BY <1>2 DEF NotifyArmed, Notify, SusGoto
<1>3. ASSUME NEW s \in Sleeps, RegisterCallback(s) PROVE ServiceInv'
  BY <1>3 DEF RegisterCallback, Register, Fire, Schedule, SusGoto, TypeOK, TimerTypeOK
<1>4. ASSUME NEW s \in Sleeps,
             Arm(s) \/ StoreId(s) \/ Resume(s) \/ Return(s) \/ Leave(s)
      PROVE  ServiceInv'
  BY <1>4 DEF Arm, AddTimer, SusGoto, StoreId, Resume, Unregister, Return, Report, Leave
<1>5. ASSUME NEW k \in Cancellers, NEW s \in Sleeps, OnCancel(k, s) PROVE ServiceInv'
  BY <1>5 DEF OnCancel, TakeCallback, Fire, Schedule, TypeOK, TimerTypeOK
<1>6. ASSUME NEW k \in Cancellers,
             Exchange(k) \/ SwapCallbacks(k) \/ CallsEnd(k) \/ WakeAwaiters(k),
             UNCHANGED <<serviceVars, sleepVars>>
      PROVE  ServiceInv'
  BY <1>6 DEF Exchange, CancelGoto, SwapCallbacks, CallsEnd, WakeAwaiters, WakeAll
<1>7. ASSUME NEW a \in Awaiters,
             AwaitReady(a) \/ AddWaiter(a) \/ Recheck(a),
             UNCHANGED <<serviceVars, sleepVars>>
      PROVE  ServiceInv'
  BY <1>7 DEF AwaitReady, AwaitGoto, AddWaiter, Recheck, WakeAll
<1>8. ASSUME \/ LeaveLoop \/ LookAndWait \/ FireEntry \/ FireReturn \/ EvalPredicate
             \/ Block \/ WaitTimeout \/ Relock \/ SpuriousWake,
             UNCHANGED <<cancellationVars, sleepVars>>
      PROVE  ServiceInv'
  BY <1>8, WaitMoves DEF LeaveLoop, TimerGoto, FireEntry, Schedule, FireReturn, EvalPredicate,
     Block, WaitTimeout, Relock, SpuriousWake
<1>9. ASSUME LookAndFire, UNCHANGED <<cancellationVars, sleepVars>> PROVE ServiceInv'
  BY <1>9, FireMoves DEF TypeOK, TimerTypeOK
<1>10. ASSUME \/ SetShuttingDown \/ StopRunning \/ NotifyStop \/ JoinTimer \/ Drained
              \/ DeleteService,
              UNCHANGED <<cancellationVars, sleepVars>>
       PROVE  ServiceInv'
  BY <1>10 DEF SetShuttingDown, MainGoto, StopRunning, NotifyStop, Notify, JoinTimer, Drained,
     DeleteService
<1>11. ASSUME FireRemaining, UNCHANGED <<cancellationVars, sleepVars>> PROVE ServiceInv'
  BY <1>11 DEF FireRemaining, MainGoto, Fire, Schedule
<1>12. ASSUME Tick, UNCHANGED <<cancellationVars, sleepVars>> PROVE ServiceInv'
  BY <1>12 DEF Tick
<1> HIDE DEF serviceVars, cancellationVars, sleepVars, timerVars, hostVars, awaitVars,
    cancelVars, ServiceInv
<1> QED
  BY <1>1, <1>2, <1>3, <1>4, <1>5, <1>6, <1>7, <1>8, <1>9, <1>10, <1>11, <1>12,
     CallbacksAreSleeps
  DEF Next, SuspendStep, CoroutineStep, CancelStep, AwaiterStep, RunStep, RunLock, StopStep

\* A coroutine leaves no trace of a sleep before it, and goes on only once resumed.
LEMMA LifeInvStep ==
  ASSUME TypeOK, ServiceInv, LifeInv, CallbackInv, Next
  PROVE  LifeInv'
<1> USE DEF serviceVars, cancellationVars, sleepVars, timerVars, hostVars, awaitVars,
      cancelVars
<1> USE ThreadsAssumption, MaxTimeAssumption, SleepAssumption DEF LifeInv, Gone
<1>1. ASSUME NEW s \in Sleeps, NEW d \in 0 .. MaxTime, SleepReady(s, d) PROVE LifeInv'
  BY <1>1 DEF SleepReady, Reach, Report, Host, TypeOK
<1>2. ASSUME NEW s \in Sleeps, NEW d \in 0 .. MaxTime, SleepSuspend(s, d) PROVE LifeInv'
  BY <1>2 DEF SleepSuspend, Reach, Host, TypeOK, Results
<1>3. ASSUME NEW s \in Sleeps, Arm(s) \/ NotifyArmed(s) \/ StoreId(s) PROVE LifeInv'
  BY <1>3 DEF Arm, AddTimer, SusGoto, NotifyArmed, Notify, StoreId, TypeOK
<1>4. ASSUME NEW s \in Sleeps, RegisterCallback(s) PROVE LifeInv'
  BY <1>4 DEF RegisterCallback, Register, Fire, Schedule, SusGoto, TypeOK, TimerTypeOK
<1>5. ASSUME NEW s \in Sleeps, Resume(s) \/ Return(s) \/ Leave(s) PROVE LifeInv'
  BY <1>5 DEF Resume, Unregister, Return, Report, Leave, TypeOK
<1>6. ASSUME NEW k \in Cancellers, NEW s \in Sleeps, OnCancel(k, s) PROVE LifeInv'
  BY <1>6 DEF OnCancel, TakeCallback, Fire, Schedule, TypeOK, TimerTypeOK, CallbackInv
<1>7. ASSUME NEW k \in Cancellers,
             Exchange(k) \/ SwapCallbacks(k) \/ CallsEnd(k) \/ WakeAwaiters(k),
             UNCHANGED <<serviceVars, sleepVars>>
      PROVE  LifeInv'
  BY <1>7 DEF Exchange, CancelGoto, SwapCallbacks, CallsEnd, WakeAwaiters, WakeAll
<1>8. ASSUME NEW a \in Awaiters,
             AwaitReady(a) \/ AddWaiter(a) \/ Recheck(a),
             UNCHANGED <<serviceVars, sleepVars>>
      PROVE  LifeInv'
  BY <1>8 DEF AwaitReady, AwaitGoto, AddWaiter, Recheck, WakeAll
<1>9. ASSUME LookAndFire, UNCHANGED <<cancellationVars, sleepVars>> PROVE LifeInv'
  BY <1>9, FireMoves DEF TypeOK, TimerTypeOK
<1>10. ASSUME FireEntry, UNCHANGED <<cancellationVars, sleepVars>> PROVE LifeInv'
  BY <1>10 DEF FireEntry, TimerGoto, Schedule, ServiceInv
<1>11. ASSUME FireRemaining, UNCHANGED <<cancellationVars, sleepVars>> PROVE LifeInv'
  BY <1>11 DEF FireRemaining, MainGoto, Fire, Schedule, TypeOK, TimerTypeOK
<1>12. ASSUME \/ Tick \/ LeaveLoop \/ LookAndWait \/ FireReturn \/ EvalPredicate
              \/ Block \/ WaitTimeout \/ Relock \/ SpuriousWake \/ SetShuttingDown
              \/ StopRunning \/ NotifyStop \/ JoinTimer \/ Drained \/ DeleteService,
              UNCHANGED <<cancellationVars, sleepVars>>
       PROVE  LifeInv'
  BY <1>12, WaitMoves DEF Tick, LeaveLoop, TimerGoto, FireReturn, EvalPredicate, Block,
     WaitTimeout, Relock, SpuriousWake, SetShuttingDown, MainGoto, StopRunning, NotifyStop,
     Notify, JoinTimer, Drained, DeleteService
<1> HIDE DEF serviceVars, cancellationVars, sleepVars, timerVars, hostVars, awaitVars,
    cancelVars, LifeInv, Gone
<1> QED
  BY <1>1, <1>2, <1>3, <1>4, <1>5, <1>6, <1>7, <1>8, <1>9, <1>10, <1>11, <1>12,
     CallbacksAreSleeps
  DEF Next, SuspendStep, CoroutineStep, CancelStep, AwaiterStep, RunStep, RunLock, StopStep

\* The callbacks are those of sleeps that registered, and cancel() takes them.
LEMMA CallbackInvStep ==
  ASSUME TypeOK, LifeInv, CallbackInv, Next
  PROVE  CallbackInv'
<1> USE DEF serviceVars, cancellationVars, sleepVars, timerVars, hostVars, awaitVars,
      cancelVars
<1> USE ThreadsAssumption, MaxTimeAssumption, SleepAssumption DEF CallbackInv
<1>1. ASSUME NEW s \in Sleeps, NEW d \in 0 .. MaxTime,
             SleepSuspend(s, d)
      PROVE  CallbackInv'
  BY <1>1 DEF SleepSuspend, Reach, Host
<1>2. ASSUME NEW s \in Sleeps, NEW d \in 0 .. MaxTime,
             SleepReady(s, d)
      PROVE  CallbackInv'
  BY <1>2 DEF SleepReady, Reach, Report, Host
<1>3. ASSUME NEW s \in Sleeps, Arm(s) \/ NotifyArmed(s) \/ StoreId(s) PROVE CallbackInv'
  BY <1>3 DEF Arm, AddTimer, SusGoto, NotifyArmed, Notify, StoreId, TypeOK
<1>4. ASSUME NEW s \in Sleeps, RegisterCallback(s) PROVE CallbackInv'
  BY <1>4 DEF RegisterCallback, Register, Fire, Schedule, SusGoto, TypeOK, LifeInv
<1>5. ASSUME NEW s \in Sleeps, Resume(s) PROVE CallbackInv'
  BY <1>5 DEF Resume, Unregister
<1>6. ASSUME NEW s \in Sleeps, Return(s) \/ Leave(s) PROVE CallbackInv'
  BY <1>6 DEF Return, Report, Leave
<1>7. ASSUME NEW k \in Cancellers, NEW s \in Sleeps, OnCancel(k, s) PROVE CallbackInv'
  BY <1>7 DEF OnCancel, TakeCallback, Fire, Schedule
<1>8. ASSUME NEW k \in Cancellers,
             Exchange(k) \/ CallsEnd(k) \/ WakeAwaiters(k),
             UNCHANGED <<serviceVars, sleepVars>>
      PROVE  CallbackInv'
  BY <1>8 DEF Exchange, CancelGoto, CallsEnd, WakeAwaiters, WakeAll, TypeOK, CancellationTypeOK
<1>9. ASSUME NEW k \in Cancellers,
             SwapCallbacks(k),
             UNCHANGED <<serviceVars, sleepVars>>
      PROVE  CallbackInv'
  BY <1>9 DEF SwapCallbacks, CancelGoto, TypeOK, CancellationTypeOK
<1>10. ASSUME NEW a \in Awaiters,
              AwaitReady(a) \/ AddWaiter(a) \/ Recheck(a),
              UNCHANGED <<serviceVars, sleepVars>>
       PROVE  CallbackInv'
  BY <1>10 DEF AwaitReady, AwaitGoto, AddWaiter, Recheck, WakeAll
<1>11. ASSUME \/ Tick \/ LeaveLoop \/ LookAndWait \/ LookAndFire \/ FireEntry
              \/ FireReturn \/ EvalPredicate \/ Block \/ WaitTimeout \/ Relock
              \/ SpuriousWake \/ SetShuttingDown \/ StopRunning \/ NotifyStop
              \/ JoinTimer \/ FireRemaining \/ Drained \/ DeleteService,
              UNCHANGED <<cancellationVars, sleepVars>>
       PROVE  CallbackInv'
  BY <1>11, WaitMoves, FireMoves DEF Tick, LeaveLoop, TimerGoto, FireEntry, Schedule,
     FireReturn, EvalPredicate, Block, WaitTimeout, Relock, SpuriousWake, SetShuttingDown,
     MainGoto, StopRunning, NotifyStop, Notify, JoinTimer, FireRemaining, Fire, Drained,
     DeleteService
<1> HIDE DEF serviceVars, cancellationVars, sleepVars, timerVars, hostVars, awaitVars,
    cancelVars, CallbackInv
<1> QED
  BY <1>1, <1>2, <1>3, <1>4, <1>5, <1>6, <1>7, <1>8, <1>9, <1>10, <1>11, CallbacksAreSleeps
  DEF Next, SuspendStep, CoroutineStep, CancelStep, AwaiterStep, RunStep, RunLock, StopStep

\* Whoever wins the compare-exchange on fired has a reason to wake the sleeper.
LEMMA ReasonInvStep ==
  ASSUME TypeOK, ServiceInv, LifeInv, CallbackInv, ReasonInv, Next
  PROVE  ReasonInv'
<1> USE DEF serviceVars, cancellationVars, sleepVars, timerVars, hostVars, awaitVars,
      cancelVars
<1> USE ThreadsAssumption, MaxTimeAssumption, SleepAssumption DEF ReasonInv, Due,
    TokenCancelled
<1>1. ASSUME NEW s \in Sleeps, NEW d \in 0 .. MaxTime,
             SleepReady(s, d) \/ SleepSuspend(s, d)
      PROVE  ReasonInv'
  BY <1>1 DEF SleepReady, Reach, Report, Host, SleepSuspend, TypeOK, TimerTypeOK, LifeInv
<1>2. ASSUME NEW s \in Sleeps, RegisterCallback(s) PROVE ReasonInv'
  BY <1>2 DEF RegisterCallback, Register, Fire, Schedule, SusGoto, TypeOK, TimerTypeOK, LifeInv
<1>3. ASSUME NEW s \in Sleeps,
             Arm(s) \/ NotifyArmed(s) \/ StoreId(s) \/ Resume(s) \/ Return(s) \/ Leave(s)
      PROVE  ReasonInv'
  BY <1>3 DEF Arm, AddTimer, SusGoto, NotifyArmed, Notify, StoreId, Resume, Unregister, Return,
     Report, Leave
<1>4. ASSUME NEW k \in Cancellers, NEW s \in Sleeps, OnCancel(k, s) PROVE ReasonInv'
  BY <1>4 DEF OnCancel, TakeCallback, Fire, Schedule, TypeOK, TimerTypeOK, CallbackInv
<1>5. ASSUME NEW k \in Cancellers,
             Exchange(k),
             UNCHANGED <<serviceVars, sleepVars>>
      PROVE  ReasonInv'
  BY <1>5 DEF Exchange, CancelGoto
<1>6. ASSUME NEW k \in Cancellers,
             SwapCallbacks(k) \/ CallsEnd(k) \/ WakeAwaiters(k),
             UNCHANGED <<serviceVars, sleepVars>>
      PROVE  ReasonInv'
  BY <1>6 DEF SwapCallbacks, CancelGoto, CallsEnd, WakeAwaiters, WakeAll
<1>7. ASSUME NEW a \in Awaiters,
             AwaitReady(a) \/ AddWaiter(a) \/ Recheck(a),
             UNCHANGED <<serviceVars, sleepVars>>
      PROVE  ReasonInv'
  BY <1>7 DEF AwaitReady, AwaitGoto, AddWaiter, Recheck, WakeAll
<1>8. ASSUME Tick \/ StopRunning,
             UNCHANGED <<cancellationVars, sleepVars>>
      PROVE  ReasonInv'
  BY <1>8 DEF Tick, StopRunning, MainGoto, TypeOK, TimerTypeOK
<1>9. ASSUME LookAndFire, UNCHANGED <<cancellationVars, sleepVars>> PROVE ReasonInv'
  BY <1>9, FireMoves DEF TypeOK, TimerTypeOK
<1>10. ASSUME FireRemaining, UNCHANGED <<cancellationVars, sleepVars>> PROVE ReasonInv'
  BY <1>10 DEF FireRemaining, MainGoto, Fire, Schedule, ServiceInv
<1>11. ASSUME \/ LeaveLoop \/ LookAndWait \/ FireEntry \/ FireReturn \/ EvalPredicate
              \/ Block \/ WaitTimeout \/ Relock \/ SpuriousWake \/ SetShuttingDown
              \/ NotifyStop \/ JoinTimer \/ Drained \/ DeleteService,
              UNCHANGED <<cancellationVars, sleepVars>>
       PROVE  ReasonInv'
  BY <1>11, WaitMoves DEF LeaveLoop, TimerGoto, FireEntry, Schedule, FireReturn, EvalPredicate,
     Block, WaitTimeout, Relock, SpuriousWake, SetShuttingDown, MainGoto, NotifyStop, Notify,
     JoinTimer, Drained, DeleteService
<1> HIDE DEF serviceVars, cancellationVars, sleepVars, timerVars, hostVars, awaitVars,
    cancelVars, ReasonInv, Due, TokenCancelled
<1> QED
  BY <1>1, <1>2, <1>3, <1>4, <1>5, <1>6, <1>7, <1>8, <1>9, <1>10, <1>11, CallbacksAreSleeps
  DEF Next, SuspendStep, CoroutineStep, CancelStep, AwaiterStep, RunStep, RunLock, StopStep

\* A write of callback_id_ that lands in a later sleep names one that was resumed.
LEMMA IdInvStep ==
  ASSUME TypeOK, LifeInv, IdInv, Next
  PROVE  IdInv'
<1> USE DEF serviceVars, cancellationVars, sleepVars, timerVars, hostVars, awaitVars,
      cancelVars
<1> USE ThreadsAssumption, MaxTimeAssumption, SleepAssumption DEF IdInv
<1>1. ASSUME NEW s \in Sleeps, NEW d \in 0 .. MaxTime,
             SleepReady(s, d) \/ SleepSuspend(s, d)
      PROVE  IdInv'
  BY <1>1 DEF SleepReady, Reach, Report, Host, SleepSuspend
<1>2. ASSUME NEW s \in Sleeps, RegisterCallback(s) PROVE IdInv'
  BY <1>2 DEF RegisterCallback, Register, Fire, Schedule, SusGoto, TypeOK, TimerTypeOK
<1>3. ASSUME NEW s \in Sleeps, StoreId(s) PROVE IdInv'
  BY <1>3 DEF StoreId, SusGoto, TypeOK, LifeInv
<1>4. ASSUME NEW s \in Sleeps,
             Arm(s) \/ NotifyArmed(s) \/ Resume(s) \/ Return(s) \/ Leave(s)
      PROVE  IdInv'
  BY <1>4 DEF Arm, AddTimer, SusGoto, NotifyArmed, Notify, Resume, Unregister, Return, Report,
     Leave
<1>5. ASSUME NEW k \in Cancellers, NEW s \in Sleeps, OnCancel(k, s) PROVE IdInv'
  BY <1>5 DEF OnCancel, TakeCallback, Fire, Schedule, TypeOK, TimerTypeOK
<1>6. ASSUME NEW k \in Cancellers,
             Exchange(k) \/ SwapCallbacks(k) \/ CallsEnd(k) \/ WakeAwaiters(k),
             UNCHANGED <<serviceVars, sleepVars>>
      PROVE  IdInv'
  BY <1>6 DEF Exchange, CancelGoto, SwapCallbacks, CallsEnd, WakeAwaiters, WakeAll
<1>7. ASSUME NEW a \in Awaiters,
             AwaitReady(a) \/ AddWaiter(a) \/ Recheck(a),
             UNCHANGED <<serviceVars, sleepVars>>
      PROVE  IdInv'
  BY <1>7 DEF AwaitReady, AwaitGoto, AddWaiter, Recheck, WakeAll
<1>8. ASSUME LookAndFire, UNCHANGED <<cancellationVars, sleepVars>> PROVE IdInv'
  BY <1>8, FireMoves DEF TypeOK, TimerTypeOK
<1>9. ASSUME FireRemaining, UNCHANGED <<cancellationVars, sleepVars>> PROVE IdInv'
  BY <1>9 DEF FireRemaining, MainGoto, Fire, Schedule, TypeOK, TimerTypeOK
<1>10. ASSUME \/ Tick \/ LeaveLoop \/ LookAndWait \/ FireEntry \/ FireReturn
              \/ EvalPredicate \/ Block \/ WaitTimeout \/ Relock \/ SpuriousWake
              \/ SetShuttingDown \/ StopRunning \/ NotifyStop \/ JoinTimer \/ Drained
              \/ DeleteService,
              UNCHANGED <<cancellationVars, sleepVars>>
       PROVE  IdInv'
  BY <1>10, WaitMoves DEF Tick, LeaveLoop, TimerGoto, FireEntry, Schedule, FireReturn,
     EvalPredicate, Block, WaitTimeout, Relock, SpuriousWake, SetShuttingDown, MainGoto,
     StopRunning, NotifyStop, Notify, JoinTimer, Drained, DeleteService
<1> HIDE DEF serviceVars, cancellationVars, sleepVars, timerVars, hostVars, awaitVars,
    cancelVars, IdInv
<1> QED
  BY <1>1, <1>2, <1>3, <1>4, <1>5, <1>6, <1>7, <1>8, <1>9, <1>10, CallbacksAreSleeps
  DEF Next, SuspendStep, CoroutineStep, CancelStep, AwaiterStep, RunStep, RunLock, StopStep

\* A registered sleep stays registered until somebody resumes it.
LEMMA RegisteredInvStep ==
  ASSUME TypeOK, LifeInv, CallbackInv, IdInv, RegisteredInv, Next
  PROVE  RegisteredInv'
<1> USE DEF serviceVars, cancellationVars, sleepVars, timerVars, hostVars, awaitVars,
      cancelVars
<1> USE ThreadsAssumption, MaxTimeAssumption, SleepAssumption DEF RegisteredInv
<1>1. ASSUME NEW s \in Sleeps, NEW d \in 0 .. MaxTime,
             SleepSuspend(s, d)
      PROVE  RegisteredInv'
  BY <1>1 DEF SleepSuspend, Reach, Host
<1>2. ASSUME NEW s \in Sleeps, NEW d \in 0 .. MaxTime,
             SleepReady(s, d)
      PROVE  RegisteredInv'
  BY <1>2 DEF SleepReady, Reach, Report, Host
<1>3. ASSUME NEW s \in Sleeps,
             Arm(s) \/ NotifyArmed(s) \/ StoreId(s)
      PROVE  RegisteredInv'
  BY <1>3 DEF Arm, AddTimer, SusGoto, NotifyArmed, Notify, StoreId, TypeOK
<1>4. ASSUME NEW s \in Sleeps, RegisterCallback(s) PROVE RegisteredInv'
  BY <1>4 DEF RegisterCallback, Register, Fire, Schedule, SusGoto, TypeOK, TimerTypeOK
<1>5. ASSUME NEW s \in Sleeps, Resume(s) PROVE RegisteredInv'
  BY <1>5 DEF Resume, Unregister, LifeInv, IdInv
<1>6. ASSUME NEW s \in Sleeps, Return(s) \/ Leave(s) PROVE RegisteredInv'
  BY <1>6 DEF Return, Report, Leave
<1>7. ASSUME NEW k \in Cancellers, NEW s \in Sleeps, OnCancel(k, s) PROVE RegisteredInv'
  BY <1>7 DEF OnCancel, TakeCallback, Fire, Schedule, TypeOK, TimerTypeOK
<1>8. ASSUME NEW k \in Cancellers,
             SwapCallbacks(k),
             UNCHANGED <<serviceVars, sleepVars>>
      PROVE  RegisteredInv'
  BY <1>8 DEF SwapCallbacks, CancelGoto, TypeOK, CancellationTypeOK, CallbackInv
<1>9. ASSUME NEW k \in Cancellers,
             Exchange(k) \/ CallsEnd(k) \/ WakeAwaiters(k),
             UNCHANGED <<serviceVars, sleepVars>>
      PROVE  RegisteredInv'
  BY <1>9 DEF Exchange, CancelGoto, CallsEnd, WakeAwaiters, WakeAll
<1>10. ASSUME NEW a \in Awaiters,
              AwaitReady(a) \/ AddWaiter(a) \/ Recheck(a),
              UNCHANGED <<serviceVars, sleepVars>>
       PROVE  RegisteredInv'
  BY <1>10 DEF AwaitReady, AwaitGoto, AddWaiter, Recheck, WakeAll
<1>11. ASSUME LookAndFire, UNCHANGED <<cancellationVars, sleepVars>> PROVE RegisteredInv'
  BY <1>11, FireMoves DEF TypeOK, TimerTypeOK
<1>12. ASSUME FireRemaining,
              UNCHANGED <<cancellationVars, sleepVars>>
       PROVE  RegisteredInv'
  BY <1>12 DEF FireRemaining, MainGoto, Fire, Schedule, TypeOK, TimerTypeOK
<1>13. ASSUME \/ Tick \/ LeaveLoop \/ LookAndWait \/ FireEntry \/ FireReturn
              \/ EvalPredicate \/ Block \/ WaitTimeout \/ Relock \/ SpuriousWake
              \/ SetShuttingDown \/ StopRunning \/ NotifyStop \/ JoinTimer \/ Drained
              \/ DeleteService,
              UNCHANGED <<cancellationVars, sleepVars>>
       PROVE  RegisteredInv'
  BY <1>13, WaitMoves DEF Tick, LeaveLoop, TimerGoto, FireEntry, Schedule, FireReturn,
     EvalPredicate, Block, WaitTimeout, Relock, SpuriousWake, SetShuttingDown, MainGoto,
     StopRunning, NotifyStop, Notify, JoinTimer, Drained, DeleteService
<1> HIDE DEF serviceVars, cancellationVars, sleepVars, timerVars, hostVars, awaitVars,
    cancelVars, RegisteredInv
<1> QED
  BY <1>1, <1>2, <1>3, <1>4, <1>5, <1>6, <1>7, <1>8, <1>9, <1>10, <1>11, <1>12, <1>13,
     CallbacksAreSleeps
  DEF Next, SuspendStep, CoroutineStep, CancelStep, AwaiterStep, RunStep, RunLock, StopStep

\* The node of an awaiter is taken from the list by one wake_all(), which comes.
LEMMA AwaiterInvStep ==
  ASSUME TypeOK, CallbackInv, AwaiterInv, Next
  PROVE  AwaiterInv'
<1> USE DEF serviceVars, cancellationVars, sleepVars, timerVars, hostVars, awaitVars,
      cancelVars
<1> USE ThreadsAssumption, MaxTimeAssumption, SleepAssumption DEF AwaiterInv, WakeComing
<1>1. ASSUME NEW s \in Sleeps, NEW d \in 0 .. MaxTime,
             SleepReady(s, d) \/ SleepSuspend(s, d)
      PROVE  AwaiterInv'
  BY <1>1 DEF SleepReady, Reach, Report, Host, SleepSuspend
<1>2. ASSUME NEW s \in Sleeps,
             \/ Arm(s) \/ NotifyArmed(s) \/ RegisterCallback(s) \/ StoreId(s)
             \/ Resume(s) \/ Return(s) \/ Leave(s)
      PROVE  AwaiterInv'
  BY <1>2 DEF Arm, AddTimer, SusGoto, NotifyArmed, Notify, RegisterCallback, Register, Fire,
     Schedule, StoreId, Resume, Unregister, Return, Report, Leave
<1>3. ASSUME NEW k \in Cancellers, NEW s \in Sleeps, OnCancel(k, s) PROVE AwaiterInv'
  BY <1>3 DEF OnCancel, TakeCallback, Fire, Schedule
<1>4. ASSUME NEW k \in Cancellers,
             Exchange(k) \/ SwapCallbacks(k) \/ CallsEnd(k),
             UNCHANGED <<serviceVars, sleepVars>>
      PROVE  AwaiterInv'
  BY <1>4 DEF Exchange, CancelGoto, SwapCallbacks, CallsEnd, TypeOK, CancellationTypeOK
<1>5. ASSUME NEW k \in Cancellers,
             WakeAwaiters(k),
             UNCHANGED <<serviceVars, sleepVars>>
      PROVE  AwaiterInv'
  BY <1>5 DEF WakeAwaiters, WakeAll, CancelGoto, CallbackInv
<1>6. ASSUME NEW a \in Awaiters,
             AwaitReady(a) \/ AddWaiter(a),
             UNCHANGED <<serviceVars, sleepVars>>
      PROVE  AwaiterInv'
  BY <1>6 DEF AwaitReady, AwaitGoto, AddWaiter, TypeOK, CancellationTypeOK
<1>7. ASSUME NEW a \in Awaiters,
             Recheck(a),
             UNCHANGED <<serviceVars, sleepVars>>
      PROVE  AwaiterInv'
  BY <1>7 DEF Recheck, AwaitGoto, WakeAll
<1>8. ASSUME \/ Tick \/ LeaveLoop \/ LookAndWait \/ LookAndFire \/ FireEntry
             \/ FireReturn \/ EvalPredicate \/ Block \/ WaitTimeout \/ Relock
             \/ SpuriousWake \/ SetShuttingDown \/ StopRunning \/ NotifyStop
             \/ JoinTimer \/ FireRemaining \/ Drained \/ DeleteService,
             UNCHANGED <<cancellationVars, sleepVars>>
      PROVE  AwaiterInv'
  BY <1>8, WaitMoves, FireMoves DEF Tick, LeaveLoop, TimerGoto, FireEntry, Schedule,
     FireReturn, EvalPredicate, Block, WaitTimeout, Relock, SpuriousWake, SetShuttingDown,
     MainGoto, StopRunning, NotifyStop, Notify, JoinTimer, FireRemaining, Fire, Drained,
     DeleteService
<1> HIDE DEF serviceVars, cancellationVars, sleepVars, timerVars, hostVars, awaitVars,
    cancelVars, AwaiterInv, WakeComing
<1> QED
  BY <1>1, <1>2, <1>3, <1>4, <1>5, <1>6, <1>7, <1>8, CallbacksAreSleeps
  DEF Next, SuspendStep, CoroutineStep, CancelStep, AwaiterStep, RunStep, RunLock, StopStep

\* An entry earlier than the deadline of run() comes with a notification.
LEMMA DeadlineInvStep ==
  ASSUME TypeOK, ServiceInv, LifeInv, DeadlineInv, Next
  PROVE  DeadlineInv'
<1> USE DEF serviceVars, cancellationVars, sleepVars, timerVars, hostVars, awaitVars,
      cancelVars
<1> USE ThreadsAssumption, MaxTimeAssumption, SleepAssumption DEF DeadlineInv, NeverOversleeps
<1>1. ASSUME NEW s \in Sleeps, NEW d \in 0 .. MaxTime,
             SleepReady(s, d) \/ SleepSuspend(s, d)
      PROVE  DeadlineInv'
  BY <1>1 DEF SleepReady, Reach, Report, Host, SleepSuspend, TypeOK, TimerTypeOK, LifeInv
<1>2. ASSUME NEW s \in Sleeps,
             Arm(s) \/ NotifyArmed(s) \/ RegisterCallback(s) \/ StoreId(s)
      PROVE  DeadlineInv'
  BY <1>2 DEF Arm, AddTimer, SusGoto, NotifyArmed, Notify, RegisterCallback, Register, Fire,
     Schedule, StoreId, TypeOK, TimerTypeOK, ServiceInv
<1>3. ASSUME NEW s \in Sleeps, Resume(s) \/ Return(s) \/ Leave(s) PROVE DeadlineInv'
  BY <1>3 DEF Resume, Unregister, Return, Report, Leave
<1>4. ASSUME NEW k \in Cancellers, NEW s \in Sleeps, OnCancel(k, s) PROVE DeadlineInv'
  BY <1>4 DEF OnCancel, TakeCallback, Fire, Schedule
<1>5. ASSUME NEW k \in Cancellers,
             Exchange(k) \/ SwapCallbacks(k) \/ CallsEnd(k) \/ WakeAwaiters(k),
             UNCHANGED <<serviceVars, sleepVars>>
      PROVE  DeadlineInv'
  BY <1>5 DEF Exchange, CancelGoto, SwapCallbacks, CallsEnd, WakeAwaiters, WakeAll
<1>6. ASSUME NEW a \in Awaiters,
             AwaitReady(a) \/ AddWaiter(a) \/ Recheck(a),
             UNCHANGED <<serviceVars, sleepVars>>
      PROVE  DeadlineInv'
  BY <1>6 DEF AwaitReady, AwaitGoto, AddWaiter, Recheck, WakeAll
<1>7. ASSUME \/ LeaveLoop \/ FireReturn \/ EvalPredicate \/ Block \/ WaitTimeout
             \/ Relock \/ SpuriousWake,
             UNCHANGED <<cancellationVars, sleepVars>>
      PROVE  DeadlineInv'
  BY <1>7 DEF LeaveLoop, TimerGoto, FireReturn, EvalPredicate, Block, WaitTimeout, Relock,
     SpuriousWake
<1>8. ASSUME LookAndWait, UNCHANGED <<cancellationVars, sleepVars>> PROVE DeadlineInv'
  BY <1>8, WaitMoves
<1>9. ASSUME LookAndFire, UNCHANGED <<cancellationVars, sleepVars>> PROVE DeadlineInv'
  BY <1>9, FireMoves
<1>10. ASSUME FireEntry, UNCHANGED <<cancellationVars, sleepVars>> PROVE DeadlineInv'
  BY <1>10 DEF FireEntry, TimerGoto, Schedule
<1>11. ASSUME NotifyStop, UNCHANGED <<cancellationVars, sleepVars>> PROVE DeadlineInv'
  BY <1>11 DEF NotifyStop, Notify, MainGoto
<1>12. ASSUME FireRemaining, UNCHANGED <<cancellationVars, sleepVars>> PROVE DeadlineInv'
  BY <1>12 DEF FireRemaining, MainGoto, Fire, Schedule
<1>13. ASSUME \/ Tick \/ SetShuttingDown \/ StopRunning \/ JoinTimer \/ Drained
              \/ DeleteService,
              UNCHANGED <<cancellationVars, sleepVars>>
       PROVE  DeadlineInv'
  BY <1>13 DEF Tick, SetShuttingDown, MainGoto, StopRunning, JoinTimer, Drained, DeleteService
<1> HIDE DEF serviceVars, cancellationVars, sleepVars, timerVars, hostVars, awaitVars,
    cancelVars, DeadlineInv, NeverOversleeps
<1> QED
  BY <1>1, <1>2, <1>3, <1>4, <1>5, <1>6, <1>7, <1>8, <1>9, <1>10, <1>11, <1>12, <1>13,
     CallbacksAreSleeps
  DEF Next, SuspendStep, CoroutineStep, CancelStep, AwaiterStep, RunStep, RunLock, StopStep

\* Of those who want to resume a sleep one does.
LEMMA WokenOnceStep ==
  ASSUME TypeOK, ServiceInv, LifeInv, WokenOnce, Next
  PROVE  WokenOnce'
<1> USE DEF serviceVars, cancellationVars, sleepVars, timerVars, hostVars, awaitVars,
      cancelVars
<1> USE ThreadsAssumption, MaxTimeAssumption, SleepAssumption DEF WokenOnce
<1>1. ASSUME NEW s \in Sleeps, NEW d \in 0 .. MaxTime,
             SleepReady(s, d) \/ SleepSuspend(s, d)
      PROVE  WokenOnce'
  BY <1>1 DEF SleepReady, Reach, Report, Host, SleepSuspend
<1>2. ASSUME NEW s \in Sleeps, RegisterCallback(s) PROVE WokenOnce'
  BY <1>2 DEF RegisterCallback, Register, Fire, Schedule, SusGoto, TypeOK, TimerTypeOK,
     ServiceInv
<1>3. ASSUME NEW s \in Sleeps,
             Arm(s) \/ NotifyArmed(s) \/ StoreId(s) \/ Resume(s) \/ Return(s) \/ Leave(s)
      PROVE  WokenOnce'
  BY <1>3 DEF Arm, AddTimer, SusGoto, NotifyArmed, Notify, StoreId, Resume, Unregister, Return,
     Report, Leave
<1>4. ASSUME NEW k \in Cancellers, NEW s \in Sleeps, OnCancel(k, s) PROVE WokenOnce'
  BY <1>4 DEF OnCancel, TakeCallback, Fire, Schedule, TypeOK, TimerTypeOK, ServiceInv
<1>5. ASSUME NEW k \in Cancellers,
             Exchange(k) \/ SwapCallbacks(k) \/ CallsEnd(k) \/ WakeAwaiters(k),
             UNCHANGED <<serviceVars, sleepVars>>
      PROVE  WokenOnce'
  BY <1>5 DEF Exchange, CancelGoto, SwapCallbacks, CallsEnd, WakeAwaiters, WakeAll
<1>6. ASSUME NEW a \in Awaiters,
             AwaitReady(a) \/ AddWaiter(a) \/ Recheck(a),
             UNCHANGED <<serviceVars, sleepVars>>
      PROVE  WokenOnce'
  BY <1>6 DEF AwaitReady, AwaitGoto, AddWaiter, Recheck, WakeAll
<1>7. ASSUME LookAndFire, UNCHANGED <<cancellationVars, sleepVars>> PROVE WokenOnce'
  BY <1>7, FireMoves DEF TypeOK, TimerTypeOK, ServiceInv
<1>8. ASSUME FireEntry, UNCHANGED <<cancellationVars, sleepVars>> PROVE WokenOnce'
  BY <1>8 DEF FireEntry, TimerGoto, Schedule, TypeOK, TimerTypeOK, ServiceInv
<1>9. ASSUME FireRemaining, UNCHANGED <<cancellationVars, sleepVars>> PROVE WokenOnce'
  BY <1>9 DEF FireRemaining, MainGoto, Fire, Schedule, TypeOK, TimerTypeOK, ServiceInv
<1>10. ASSUME \/ Tick \/ LeaveLoop \/ LookAndWait \/ FireReturn \/ EvalPredicate
              \/ Block \/ WaitTimeout \/ Relock \/ SpuriousWake \/ SetShuttingDown
              \/ StopRunning \/ NotifyStop \/ JoinTimer \/ Drained \/ DeleteService,
              UNCHANGED <<cancellationVars, sleepVars>>
       PROVE  WokenOnce'
  BY <1>10, WaitMoves DEF Tick, LeaveLoop, TimerGoto, FireReturn, EvalPredicate, Block,
     WaitTimeout, Relock, SpuriousWake, SetShuttingDown, MainGoto, StopRunning, NotifyStop,
     Notify, JoinTimer, Drained, DeleteService
<1> HIDE DEF serviceVars, cancellationVars, sleepVars, timerVars, hostVars, awaitVars,
    cancelVars, WokenOnce
<1> QED
  BY <1>1, <1>2, <1>3, <1>4, <1>5, <1>6, <1>7, <1>8, <1>9, <1>10, CallbacksAreSleeps
  DEF Next, SuspendStep, CoroutineStep, CancelStep, AwaiterStep, RunStep, RunLock, StopStep

\* An entry leaves the heap when its sleep is resumed.
LEMMA SleeperHasEntryStep ==
  ASSUME TypeOK, SleeperHasEntry, Next
  PROVE  SleeperHasEntry'
<1> USE DEF serviceVars, cancellationVars, sleepVars, timerVars, hostVars, awaitVars,
      cancelVars
<1> USE ThreadsAssumption, MaxTimeAssumption, SleepAssumption DEF SleeperHasEntry
<1>1. ASSUME NEW s \in Sleeps, NEW d \in 0 .. MaxTime,
             SleepReady(s, d) \/ SleepSuspend(s, d)
      PROVE  SleeperHasEntry'
  BY <1>1 DEF SleepReady, Reach, Report, Host, SleepSuspend, TypeOK
<1>2. ASSUME NEW s \in Sleeps,
             Arm(s) \/ NotifyArmed(s) \/ RegisterCallback(s) \/ StoreId(s)
      PROVE  SleeperHasEntry'
  BY <1>2 DEF Arm, AddTimer, SusGoto, NotifyArmed, Notify, RegisterCallback, Register, Fire,
     Schedule, StoreId, TypeOK, TimerTypeOK
<1>3. ASSUME NEW s \in Sleeps, Resume(s) \/ Return(s) PROVE SleeperHasEntry'
  BY <1>3 DEF Resume, Unregister, Return, Report, TypeOK
<1>4. ASSUME NEW s \in Sleeps, Leave(s) PROVE SleeperHasEntry'
  BY <1>4 DEF Leave
<1>5. ASSUME NEW k \in Cancellers, NEW s \in Sleeps,
             OnCancel(k, s)
      PROVE  SleeperHasEntry'
  BY <1>5 DEF OnCancel, TakeCallback, Fire, Schedule, TypeOK, TimerTypeOK
<1>6. ASSUME NEW k \in Cancellers,
             Exchange(k) \/ SwapCallbacks(k) \/ CallsEnd(k) \/ WakeAwaiters(k),
             UNCHANGED <<serviceVars, sleepVars>>
      PROVE  SleeperHasEntry'
  BY <1>6 DEF Exchange, CancelGoto, SwapCallbacks, CallsEnd, WakeAwaiters, WakeAll
<1>7. ASSUME NEW a \in Awaiters,
             AwaitReady(a) \/ AddWaiter(a) \/ Recheck(a),
             UNCHANGED <<serviceVars, sleepVars>>
      PROVE  SleeperHasEntry'
  BY <1>7 DEF AwaitReady, AwaitGoto, AddWaiter, Recheck, WakeAll
<1>8. ASSUME LookAndFire,
             UNCHANGED <<cancellationVars, sleepVars>>
      PROVE  SleeperHasEntry'
  BY <1>8, FireMoves DEF TypeOK, TimerTypeOK
<1>9. ASSUME FireRemaining,
             UNCHANGED <<cancellationVars, sleepVars>>
      PROVE  SleeperHasEntry'
  BY <1>9 DEF FireRemaining, MainGoto, Fire, Schedule, TypeOK, TimerTypeOK
<1>10. ASSUME \/ Tick \/ LeaveLoop \/ LookAndWait \/ FireEntry \/ FireReturn
              \/ EvalPredicate \/ Block \/ WaitTimeout \/ Relock \/ SpuriousWake
              \/ SetShuttingDown \/ StopRunning \/ NotifyStop \/ JoinTimer \/ Drained
              \/ DeleteService,
              UNCHANGED <<cancellationVars, sleepVars>>
       PROVE  SleeperHasEntry'
  BY <1>10, WaitMoves DEF Tick, LeaveLoop, TimerGoto, FireEntry, Schedule, FireReturn,
     EvalPredicate, Block, WaitTimeout, Relock, SpuriousWake, SetShuttingDown, MainGoto,
     StopRunning, NotifyStop, Notify, JoinTimer, Drained, DeleteService
<1> HIDE DEF serviceVars, cancellationVars, sleepVars, timerVars, hostVars, awaitVars,
    cancelVars, SleeperHasEntry
<1> QED
  BY <1>1, <1>2, <1>3, <1>4, <1>5, <1>6, <1>7, <1>8, <1>9, <1>10, CallbacksAreSleeps
  DEF Next, SuspendStep, CoroutineStep, CancelStep, AwaiterStep, RunStep, RunLock, StopStep

\* What a sleep reports is why it was resumed.
LEMMA RightStatusStep ==
  ASSUME TypeOK, LifeInv, ReasonInv, RightStatus, Next
  PROVE  RightStatus'
<1> USE DEF serviceVars, cancellationVars, sleepVars, timerVars, hostVars, awaitVars,
      cancelVars
<1> USE ThreadsAssumption, MaxTimeAssumption, SleepAssumption DEF RightStatus, TokenCancelled
<1>1. ASSUME NEW s \in Sleeps, NEW d \in 0 .. MaxTime,
             SleepReady(s, d) \/ SleepSuspend(s, d)
      PROVE  RightStatus'
  BY <1>1 DEF SleepReady, Reach, Report, Host, SleepSuspend, TypeOK, TimerTypeOK
<1>2. ASSUME NEW s \in Sleeps, Resume(s) \/ Return(s) PROVE RightStatus'
  BY <1>2 DEF Resume, Unregister, Return, Report, TypeOK, LifeInv, ReasonInv, Due
<1>3. ASSUME NEW s \in Sleeps,
             Arm(s) \/ NotifyArmed(s) \/ RegisterCallback(s) \/ StoreId(s) \/ Leave(s)
      PROVE  RightStatus'
  BY <1>3 DEF Arm, AddTimer, SusGoto, NotifyArmed, Notify, RegisterCallback, Register, Fire,
     Schedule, StoreId, Leave
<1>4. ASSUME NEW k \in Cancellers, NEW s \in Sleeps, OnCancel(k, s) PROVE RightStatus'
  BY <1>4 DEF OnCancel, TakeCallback, Fire, Schedule
<1>5. ASSUME NEW k \in Cancellers,
             Exchange(k),
             UNCHANGED <<serviceVars, sleepVars>>
      PROVE  RightStatus'
  BY <1>5 DEF Exchange, CancelGoto
<1>6. ASSUME NEW k \in Cancellers,
             SwapCallbacks(k) \/ CallsEnd(k) \/ WakeAwaiters(k),
             UNCHANGED <<serviceVars, sleepVars>>
      PROVE  RightStatus'
  BY <1>6 DEF SwapCallbacks, CancelGoto, CallsEnd, WakeAwaiters, WakeAll
<1>7. ASSUME NEW a \in Awaiters,
             AwaitReady(a) \/ AddWaiter(a) \/ Recheck(a),
             UNCHANGED <<serviceVars, sleepVars>>
      PROVE  RightStatus'
  BY <1>7 DEF AwaitReady, AwaitGoto, AddWaiter, Recheck, WakeAll
<1>8. ASSUME Tick \/ StopRunning,
             UNCHANGED <<cancellationVars, sleepVars>>
      PROVE  RightStatus'
  BY <1>8 DEF Tick, StopRunning, MainGoto, TypeOK, TimerTypeOK
<1>9. ASSUME \/ LeaveLoop \/ LookAndWait \/ LookAndFire \/ FireEntry \/ FireReturn
             \/ EvalPredicate \/ Block \/ WaitTimeout \/ Relock \/ SpuriousWake
             \/ SetShuttingDown \/ NotifyStop \/ JoinTimer \/ FireRemaining \/ Drained
             \/ DeleteService,
             UNCHANGED <<cancellationVars, sleepVars>>
      PROVE  RightStatus'
  BY <1>9, WaitMoves, FireMoves DEF LeaveLoop, TimerGoto, FireEntry, Schedule, FireReturn,
     EvalPredicate, Block, WaitTimeout, Relock, SpuriousWake, SetShuttingDown, MainGoto,
     NotifyStop, Notify, JoinTimer, FireRemaining, Fire, Drained, DeleteService
<1> HIDE DEF serviceVars, cancellationVars, sleepVars, timerVars, hostVars, awaitVars,
    cancelVars, RightStatus, TokenCancelled
<1> QED
  BY <1>1, <1>2, <1>3, <1>4, <1>5, <1>6, <1>7, <1>8, <1>9, CallbacksAreSleeps
  DEF Next, SuspendStep, CoroutineStep, CancelStep, AwaiterStep, RunStep, RunLock, StopStep

-----------------------------------------------------------------------------
(* The invariant of the specification, and what follows from it.           *)

\* Only the decisions of run() lead to a wait, and they ask for running_, which is clear
\* before the notification is sent.
LEMMA StopIsHeardStep ==
  ASSUME TypeOK, ServiceInv, StopIsHeard, Next
  PROVE  StopIsHeard'
<1> USE DEF serviceVars, cancellationVars, sleepVars, timerVars, hostVars, ServiceInv,
      StopIsHeard
<1>1. ASSUME NEW s \in Sleeps, NEW d \in 0 .. MaxTime,
             SleepReady(s, d) \/ SleepSuspend(s, d)
      PROVE  StopIsHeard'
  BY <1>1 DEF SleepReady, SleepSuspend, Reach
<1>2. ASSUME NEW s \in Sleeps,
             Arm(s) \/ NotifyArmed(s) \/ RegisterCallback(s) \/ StoreId(s)
      PROVE  StopIsHeard'
  BY <1>2 DEF Arm, NotifyArmed, Notify, RegisterCallback, StoreId
<1>3. ASSUME NEW s \in Sleeps, Resume(s) \/ Return(s) \/ Leave(s) PROVE StopIsHeard'
  BY <1>3 DEF Resume, Return, Leave
<1>4. ASSUME NEW k \in Cancellers, NEW s \in Sleeps, OnCancel(k, s) PROVE StopIsHeard'
  BY <1>4 DEF OnCancel
<1>5. ASSUME UNCHANGED <<serviceVars, sleepVars>> PROVE StopIsHeard'
  BY <1>5
<1>6. ASSUME LeaveLoop \/ FireReturn \/ EvalPredicate \/ Block \/ WaitTimeout \/ Relock
             \/ SpuriousWake
      PROVE  StopIsHeard'
  BY <1>6 DEF LeaveLoop, TimerGoto, FireReturn, EvalPredicate, Block, WaitTimeout, Relock,
     SpuriousWake
<1>7. ASSUME LookAndWait PROVE StopIsHeard'
  BY <1>7, WaitMoves
<1>8. ASSUME LookAndFire PROVE StopIsHeard'
  BY <1>8, FireMoves
<1>9. ASSUME FireEntry PROVE StopIsHeard'
  BY <1>9 DEF FireEntry, TimerGoto
<1>10. ASSUME NotifyStop PROVE StopIsHeard'
  BY <1>10 DEF NotifyStop, Notify
<1>11. ASSUME FireRemaining PROVE StopIsHeard'
  BY <1>11 DEF FireRemaining
<1>12. ASSUME Tick \/ SetShuttingDown \/ StopRunning \/ JoinTimer \/ Drained \/ DeleteService
       PROVE  StopIsHeard'
  BY <1>12 DEF Tick, SetShuttingDown, StopRunning, JoinTimer, Drained, DeleteService, MainGoto
<1> HIDE DEF ServiceInv, StopIsHeard
<1> QED
  BY <1>1, <1>2, <1>3, <1>4, <1>5, <1>6, <1>7, <1>8, <1>9, <1>10, <1>11, <1>12,
     CallbacksAreSleeps
  DEF Next, SuspendStep, CoroutineStep, CancelStep, AwaiterStep, RunStep, RunLock, StopStep

\* The service has just been created.
LEMMA InitInv == Init => IInv
<1> USE MaxTimeAssumption, ServiceAssumption
    DEF Init, TimerInit, CancellationInit
<1>1. Init => TypeOK
  <2>1. Init => TimerTypeOK
    <3>1. 0 \in 0 .. MaxTime /\ Never \in 0 .. Never
      BY DEF Never
    <3>2. Init => /\ deadline \in [Sleeps -> 0 .. MaxTime] /\ wakeups \in [Sleeps -> Nat]
                  /\ heap \subseteq Sleeps /\ firing \subseteq Sleeps
      BY <3>1
    <3>3. Init => fired \in [Sleeps -> BOOLEAN]
      <4>1. [s \in Sleeps |-> FALSE] \in [Sleeps -> BOOLEAN]
        OBVIOUS
      <4> QED
        BY <4>1, Zenon
    <3>4. Init => running \in BOOLEAN /\ shuttingDown \in BOOLEAN /\ stopMissed \in BOOLEAN
      BY Zenon
    <3> QED
      BY <3>1, <3>2, <3>3, <3>4 DEF TimerTypeOK, TimerPcs, StopPcs
  <2>2. Init => CancellationTypeOK
    <3>1. Init => /\ cancelled \in BOOLEAN
                  /\ callbacks \subseteq Clients /\ waiters \subseteq Awaiters
      OBVIOUS
    <3>2. Init => cbs \in [Cancellers -> SUBSET Clients]
      OBVIOUS
    <3>3. Init => /\ cpc \in [Cancellers -> {"idle", "swap", "call", "wake", "done"}]
                  /\ apc \in [Awaiters -> {"ready", "add", "recheck", "suspended"}]
      OBVIOUS
    <3> QED
      BY <3>1, <3>2, <3>3 DEF CancellationTypeOK
  <2> QED
    BY <2>1, <2>2 DEF TypeOK, SusPcs
<1>2. Init => ServiceInv /\ LifeInv /\ CallbackInv
  BY DEF ServiceInv, LifeInv, CallbackInv, Gone, Results
<1>3. Init => ReasonInv /\ IdInv /\ RegisteredInv /\ AwaiterInv /\ DeadlineInv
  BY SleepAssumption DEF ReasonInv, IdInv, RegisteredInv, AwaiterInv, DeadlineInv,
     NeverOversleeps
<1>4. Init => WokenOnce /\ SleeperHasEntry /\ RightStatus /\ StopIsHeard
  BY DEF WokenOnce, SleeperHasEntry, RightStatus, StopIsHeard
<1> QED
  BY <1>1, <1>2, <1>3, <1>4 DEF IInv

\* The thirteen parts together.
LEMMA InductiveStep == IInv /\ [Next]_vars => IInv'
<1>1. ASSUME IInv, Next PROVE IInv'
  BY <1>1, TypeOKStep, ServiceInvStep, LifeInvStep, CallbackInvStep, ReasonInvStep, IdInvStep,
     RegisteredInvStep, AwaiterInvStep, DeadlineInvStep, WokenOnceStep, SleeperHasEntryStep,
     RightStatusStep, StopIsHeardStep DEF IInv
<1>2. ASSUME IInv, UNCHANGED vars PROVE IInv'
  <2> USE <1>2 DEF IInv, vars, serviceVars, cancellationVars, sleepVars, timerVars, hostVars,
      awaitVars, cancelVars
  <2>1. TypeOK'
    BY DEF TypeOK, TimerTypeOK, CancellationTypeOK
  <2>2. ServiceInv' /\ LifeInv' /\ CallbackInv'
    BY DEF ServiceInv, LifeInv, CallbackInv, Gone
  <2>3. ReasonInv' /\ IdInv' /\ RegisteredInv'
    BY DEF ReasonInv, Due, TokenCancelled, IdInv, RegisteredInv
  <2>4. AwaiterInv' /\ DeadlineInv'
    BY DEF AwaiterInv, WakeComing, DeadlineInv, NeverOversleeps
  <2>5. WokenOnce' /\ SleeperHasEntry' /\ RightStatus' /\ StopIsHeard'
    BY DEF WokenOnce, SleeperHasEntry, RightStatus, TokenCancelled, StopIsHeard
  <2> QED
    BY <2>1, <2>2, <2>3, <2>4, <2>5
<1> QED
  BY <1>1, <1>2

\* The inductive invariant.
THEOREM Invariance == Spec => []IInv
  BY InitInv, InductiveStep, PTL DEF Spec

\* The timer, cancel(), a registration that comes too late and the shutdown may all want to
\* resume a sleep (the compare-exchange on fired): it is scheduled once.
THEOREM OneWaker == Spec => []WokenOnce
<1>1. IInv => WokenOnce
  BY DEF IInv
<1> QED
  BY <1>1, Invariance, PTL

\* A sleeping coroutine has its entry in the heap until it is resumed, reports
\* "completed" and "cancelled" for the reasons that they name, an awaiter of the token is
\* resumed at most once, and the shutdown waits for a run() that waits itself only if its
\* notification came in the gap between decision and wait.
THEOREM SleepersAreReached == Spec => []SleepInv
<1>1. IInv => AwaitersWokenOnce
  BY SMT DEF IInv, AwaiterInv, AwaitersWokenOnce
<1>2. IInv => SleepInv
  BY <1>1 DEF IInv, SleepInv
<1> QED
  BY <1>2, Invariance, PTL

\* run() does not sleep past a deadline (cv_.wait_until) unless a notification is due.
THEOREM DeadlinesAreKept == Spec => []NeverOversleeps
<1>1. IInv => NeverOversleeps
  BY DEF IInv, DeadlineInv
<1> QED
  BY <1>1, Invariance, PTL

\* Once cancel() has returned nobody who registered is left behind.
THEOREM CancellationIsHeard == Spec => []CancelReachesAll
<1>1. ASSUME IInv, cancelled, \A k \in Cancellers : cpc[k] \in {"idle", "done"}
      PROVE  /\ \A s \in WithToken : sus[s] \in {"storeid", "storezero", "over"} => fired[s]
             /\ \A a \in Awaiters : apc[a] = "suspended" => resumed[a] = 1
  \* What is still registered would be with a cancel() that is not over.
  <2>1. callbacks = {} /\ \A k \in Cancellers : cbs[k] = {}
    BY <1>1 DEF IInv, CallbackInv
  <2>2. ~WakeComing
    BY <1>1 DEF WakeComing
  <2> QED
    BY <1>1, <2>1, <2>2 DEF IInv, RegisteredInv, AwaiterInv
<1>2. IInv => CancelReachesAll
  BY <1>1 DEF CancelReachesAll
<1> QED
  BY <1>2, Invariance, PTL
=============================================================================
